------------------------------- MODULE Command -------------------------------
(***************************************************************************)
(* LocklyCoordinator._send_command and _try_mqtt_command (__init__.py), as *)
(* LocklyLock.async_lock and async_unlock call them (lock.py): one lock,   *)
(* and calls that may overlap.                                             *)
(*                                                                         *)
(* A command reads the lock's nonce and its host password, sends a frame   *)
(* made of both over senddata, retries it once after a timeout, and then   *)
(* does it all again over MQTT. Every request is an await: the lock may be *)
(* used, its code changed or another command be sent meanwhile, a reply    *)
(* may be lost after the lock has acted, and a request given up on may     *)
(* still reach the lock.                                                   *)
(***************************************************************************)
EXTENDS Naturals, FiniteSets

CONSTANTS
    Commands,       \* calls of async_lock and async_unlock on the entity
    Unlocks,        \* those of async_unlock
    Codes,          \* host passwords
    CloudCode,      \* the lock list's copy, hc
    NoCode          \* None, where a host password could be

ASSUME CommandAssumption ==
    /\ Unlocks \subseteq Commands
    /\ CloudCode \in Codes /\ NoCode \notin Codes

\* The lock draws a new nonce whenever it is used, acting on a command included
\* (docs/api.md: it "rotates the value as it is used"). A frame needs the latest:
\* one made of an earlier nonce, or of none, is as good as any other such frame.
Nonces == {"current", "stale"}

Transports == {"hub", "mqtt"}
Bolt == {"locked", "unlocked"}

VARIABLES
    hubbed,         \* the lock has a hubid; senddata reaches no other (fixed)
    shown,          \* is_locked in the coordinator's data
    known,          \* _nonces[lock]
    learned,        \* _capabilities has the type the lock itself reported
    hostRead,       \* the lock is a key of _host_passwords
    hostPwd,        \* _host_passwords[lock]; NoCode if it had no slot 0
    isLocking,      \* _attr_is_locking
    isUnlocking,    \* _attr_is_unlocking
    pc,             \* pc[c]: the request that call c awaits
    local,          \* local[c]: its nonce and host_pwd, and whether its caps are
                    \* those of the type the lock reported
    reply,          \* reply[c]: the answer to its request
    outcome,        \* outcome[c]: what _send_command returned
    bolt,           \* the lock: its bolt,
    lockCode,       \* its host password,
    slot0,          \* whether its credential list has a slot 0 (fixed),
    late,           \* and calls with a good frame given up on that may yet reach it
    acted,          \* history: calls the lock has acted on
    wasTrue,        \* history: positions the bolt has been in
    spoilt          \* history: spoilt[c]: the transports call c was disturbed on

lockVars == <<bolt, lockCode, late, acted, wasTrue>>
sharedVars == <<shown, known, learned, hostRead, hostPwd>>
callVars == <<pc, local, reply, outcome, isLocking, isUnlocking>>
fixed == <<hubbed, slot0>>
\* What no answer and no late frame changes.
outside == <<fixed, shown, learned, hostRead, hostPwd, pc, outcome, isLocking, isUnlocking,
             lockCode>>
vars == <<fixed, sharedVars, callVars, lockVars, spoilt>>

\* What each await asks for, and over which transport.
StatusAt == {"status", "status_again", "mqtt_status"}
PasswordAt == {"password", "mqtt_password"}
CommandAt == {"directive", "directive_again", "mqtt_command"}
MqttAt == {"mqtt_status", "mqtt_password", "mqtt_command"}
Requests == StatusAt \cup PasswordAt \cup CommandAt

\* Timeouts have cod 408 or 942; every other failure is a refusal.
Failures == {"timeout", "refusal"}

Reply == [what : {"none", "status", "entries", "accepted", "rejected"} \cup Failures,
          nonce : Nonces, bolt : Bolt, code : Codes \cup {NoCode}]

Local == [nonce : Nonces, pwd : Codes \cup {NoCode}, caps : BOOLEAN]

Fresh == [nonce |-> "stale", pwd |-> NoCode, caps |-> FALSE]

Nothing == [what |-> "none", nonce |-> "stale", bolt |-> "locked", code |-> NoCode]

Running == {c \in Commands : pc[c] \notin {"new", "returned"}}
InFlight(c) == pc[c] \in Requests

\* Mutant of Wanted: the directive in place of the state it leads to.
WantedDirective(c) == IF c \in Unlocks THEN "unlock" ELSE "lock"

\* The position call c asks for.
Wanted(c) == IF c \in Unlocks THEN "unlocked" ELSE "locked"

TypeOK ==
    /\ hubbed \in BOOLEAN
    /\ shown \in Bolt \cup {"unknown"}
    /\ known \in Nonces
    /\ learned \in BOOLEAN /\ hostRead \in BOOLEAN
    /\ hostPwd \in Codes \cup {NoCode}
    /\ isLocking \in BOOLEAN /\ isUnlocking \in BOOLEAN
    /\ pc \in [Commands -> Requests \cup {"new", "pause", "returned"}]
    /\ local \in [Commands -> Local]
    /\ reply \in [Commands -> Reply]
    /\ outcome \in [Commands -> BOOLEAN]
    /\ bolt \in Bolt /\ lockCode \in Codes /\ slot0 \in BOOLEAN
    /\ late \subseteq Commands
    /\ acted \subseteq Commands /\ wasTrue \subseteq Bolt
    /\ spoilt \in [Commands -> SUBSET Transports]

\* The lock list's copy of the host password may be out of date, unless it is
\* the only one there is.
Init ==
    /\ hubbed \in BOOLEAN /\ slot0 \in BOOLEAN
    /\ lockCode \in IF slot0 THEN Codes ELSE {CloudCode}
    /\ bolt \in Bolt
    /\ shown = "unknown" /\ known = "stale" /\ learned = FALSE
    /\ hostRead = FALSE /\ hostPwd = NoCode
    /\ isLocking = FALSE /\ isUnlocking = FALSE
    /\ pc = [c \in Commands |-> "new"]
    /\ local = [c \in Commands |-> Fresh]
    /\ reply = [c \in Commands |-> Nothing]
    /\ outcome = [c \in Commands |-> FALSE]
    /\ late = {} /\ acted = {} /\ wasTrue = {bolt}
    /\ spoilt = [c \in Commands |-> {}]

-----------------------------------------------------------------------------
(* The coroutine of a call.                                                *)

Goto(c, label, l) ==
    /\ pc' = [pc EXCEPT ![c] = label]
    /\ local' = [local EXCEPT ![c] = l]
    /\ reply' = [reply EXCEPT ![c] = Nothing]
    /\ UNCHANGED <<outcome, isLocking, isUnlocking>>

\* Mutant of Return: the entity has no finally clause.
ReturnWithoutFinally(c, ok) ==
    /\ pc' = [pc EXCEPT ![c] = "returned"]
    /\ local' = [local EXCEPT ![c] = Fresh]
    /\ reply' = [reply EXCEPT ![c] = Nothing]
    /\ outcome' = [outcome EXCEPT ![c] = ok]
    /\ UNCHANGED <<isLocking, isUnlocking>>

\* _send_command returns, and the entity's finally clause runs.
Return(c, ok) ==
    /\ pc' = [pc EXCEPT ![c] = "returned"]
    /\ local' = [local EXCEPT ![c] = Fresh]
    /\ reply' = [reply EXCEPT ![c] = Nothing]
    /\ outcome' = [outcome EXCEPT ![c] = ok]
    /\ isLocking' = (isLocking /\ c \in Unlocks)
    /\ isUnlocking' = (isUnlocking /\ c \notin Unlocks)

\* The entity raises its flag; _send_command refreshes the nonce.
Begin(c) ==
    /\ pc[c] = "new"
    /\ pc' = [pc EXCEPT ![c] = "status"]
    /\ isLocking' = (c \notin Unlocks)
    /\ isUnlocking' = (c \in Unlocks)
    /\ UNCHANGED <<fixed, sharedVars, local, reply, outcome, lockVars, spoilt>>

\* _try_mqtt_command up to its first await. MQTT may be connected or not.
TryMqtt(c, l) ==
    \/ Goto(c, "mqtt_status", l) /\ UNCHANGED spoilt
    \/ Return(c, FALSE) /\ spoilt' = [spoilt EXCEPT ![c] = @ \cup {"mqtt"}]

\* _api_send_directive: without a hub it refuses before anything is sent. The
\* frame is made for the type the lock is known to have by now.
SendDirective(c, label, l) ==
    \/ hubbed /\ Goto(c, label, [l EXCEPT !.caps = learned']) /\ UNCHANGED spoilt
    \/ ~hubbed /\ TryMqtt(c, l)

\* _learn_from_status and _publish_status of the answer r.
Learn(r) ==
    IF r.what = "status"
    THEN learned' = TRUE /\ known' = r.nonce /\ shown' = r.bolt
    ELSE UNCHANGED <<learned, known, shown>>

\* _refresh_nonce has its answer. Without one the command is left with the
\* last nonce any status has brought.
StatusReturns(c) ==
    LET r == reply[c]
        l == [local[c] EXCEPT !.nonce = known']
    IN /\ pc[c] \in {"status", "status_again"} /\ r.what # "none"
       /\ Learn(r)
       /\ \/ /\ pc[c] = "status" /\ hostRead
             /\ SendDirective(c, "directive", [l EXCEPT !.pwd = hostPwd])
          \/ /\ pc[c] = "status" /\ ~hostRead
             /\ Goto(c, "password", l) /\ UNCHANGED spoilt
          \/ /\ pc[c] = "status_again"
             /\ SendDirective(c, "directive_again", l)
       /\ UNCHANGED <<fixed, hostRead, hostPwd, lockVars>>

\* Mutant of MqttStatusReturns: the capabilities are read before the query.
MqttStatusReturnsCapsFirst(c) ==
    LET r == reply[c]
        cached == IF hostRead THEN hostPwd ELSE NoCode
        l == [nonce |-> IF r.what = "status" THEN r.nonce ELSE local[c].nonce,
              pwd |-> IF local[c].pwd # NoCode THEN local[c].pwd ELSE cached,
              caps |-> learned]
    IN /\ pc[c] = "mqtt_status" /\ r.what # "none"
       /\ Learn(r)
       /\ Goto(c, IF l.pwd # NoCode THEN "mqtt_command" ELSE "mqtt_password", l)
       /\ UNCHANGED <<fixed, hostRead, hostPwd, lockVars, spoilt>>

\* _mqtt_nonce has its answer. Without one the command keeps its nonce.
MqttStatusReturns(c) ==
    LET r == reply[c]
        cached == IF hostRead THEN hostPwd ELSE NoCode
        l == [nonce |-> IF r.what = "status" THEN r.nonce ELSE local[c].nonce,
              pwd |-> IF local[c].pwd # NoCode THEN local[c].pwd ELSE cached,
              caps |-> learned']
    IN /\ pc[c] = "mqtt_status" /\ r.what # "none"
       /\ Learn(r)
       /\ Goto(c, IF l.pwd # NoCode THEN "mqtt_command" ELSE "mqtt_password", l)
       /\ UNCHANGED <<fixed, hostRead, hostPwd, lockVars, spoilt>>

\* _resolve_host_password and _mqtt_credentials: an answer is kept for the
\* session, a failure is not.
PasswordReturns(c) ==
    LET r == reply[c]
        l == [local[c] EXCEPT !.pwd = IF r.what = "entries" THEN r.code ELSE NoCode]
    IN /\ pc[c] \in PasswordAt /\ r.what # "none"
       /\ IF r.what = "entries"
          THEN hostRead' = TRUE /\ hostPwd' = r.code
          ELSE UNCHANGED <<hostRead, hostPwd>>
       /\ UNCHANGED learned
       /\ \/ pc[c] = "password" /\ SendDirective(c, "directive", l)
          \/ pc[c] = "mqtt_password" /\ Goto(c, "mqtt_command", l) /\ UNCHANGED spoilt
       /\ UNCHANGED <<fixed, shown, known, lockVars>>

\* Mutant of CommandAccepted: cod=200 is taken for the lock's word.
CommandRelayed(c) ==
    /\ pc[c] \in CommandAt /\ reply[c].what \in {"accepted", "rejected"}
    /\ shown' = Wanted(c)
    /\ Return(c, TRUE)
    /\ UNCHANGED <<fixed, known, learned, hostRead, hostPwd, lockVars, spoilt>>

\* The lock acknowledged: _set_optimistic_lock_state.
CommandAccepted(c) ==
    /\ pc[c] \in CommandAt /\ reply[c].what = "accepted"
    /\ shown' = Wanted(c)
    /\ Return(c, TRUE)
    /\ UNCHANGED <<fixed, known, learned, hostRead, hostPwd, lockVars, spoilt>>

\* Mutant of CommandFails: the MQTT command is shown as carried out all the same.
CommandFailsOptimistically(c) ==
    /\ pc[c] = "mqtt_command" /\ reply[c].what \in Failures \cup {"rejected"}
    /\ shown' = Wanted(c)
    /\ Return(c, FALSE)
    /\ UNCHANGED <<fixed, known, learned, hostRead, hostPwd, lockVars, spoilt>>

\* It did not: once more after a first timeout, then the other transport.
CommandFails(c) ==
    LET why == reply[c].what
    IN /\ pc[c] \in CommandAt /\ why \in Failures \cup {"rejected"}
       /\ \/ /\ pc[c] = "directive" /\ why = "timeout"
             /\ Goto(c, "pause", local[c]) /\ UNCHANGED spoilt
          \/ /\ pc[c] = "directive_again" \/ (pc[c] = "directive" /\ why # "timeout")
             /\ TryMqtt(c, local[c])
          \/ /\ pc[c] = "mqtt_command"
             /\ Return(c, FALSE) /\ UNCHANGED spoilt
       /\ UNCHANGED <<fixed, sharedVars, lockVars>>

PauseEnds(c) ==
    /\ pc[c] = "pause"
    /\ Goto(c, "status_again", local[c])
    /\ UNCHANGED <<fixed, sharedVars, lockVars, spoilt>>

-----------------------------------------------------------------------------
(* The transports and the lock.                                            *)

\* The lock rejects a stale nonce, a wrong password and another type's frame.
\* build_lock_cmd and build_unlock_cmd take hc where there is no host_pwd.
Good(c) ==
    LET l == local[c] IN
    /\ l.nonce = "current"
    /\ (IF l.pwd # NoCode THEN l.pwd ELSE CloudCode) = lockCode
    /\ l.caps

\* The transport that call c is trying.
Transport(c) == IF pc[c] \in MqttAt THEN "mqtt" ELSE "hub"

\* The calls told the latest nonce, whose frames it is, or is to be, part of.
Holders ==
    {c \in Commands :
        \/ reply[c].nonce = "current"
        \/ pc[c] \in PasswordAt \cup CommandAt /\ local[c].nonce = "current"}

\* Something goes wrong for the calls in S.
Spoil(S) ==
    spoilt' = [c \in Commands |-> IF c \in S THEN spoilt[c] \cup {Transport(c)} ELSE spoilt[c]]

\* The lock draws a nonce: every other becomes stale, with the frames made of it.
DrawsNonce(replies) ==
    /\ known' = "stale"
    /\ local' = [c \in Commands |-> [local[c] EXCEPT !.nonce = "stale"]]
    /\ reply' = [c \in Commands |-> [replies[c] EXCEPT !.nonce = "stale"]]
    /\ late' = {}

ActOn(c, replies) ==
    /\ bolt' = Wanted(c)
    /\ wasTrue' = wasTrue \cup {Wanted(c)}
    /\ acted' = acted \cup {c}
    /\ DrawsNonce(replies)

Reachable(c) == hubbed \/ pc[c] \in MqttAt

Answered(c, r) == [reply EXCEPT ![c] = r]

Answer(c, r) ==
    /\ reply' = Answered(c, r)
    /\ UNCHANGED <<known, local, bolt, wasTrue, acted>>

\* The request of call c reaches the lock, and the lock answers it.
LockAnswers(c) ==
    /\ InFlight(c) /\ reply[c] = Nothing /\ Reachable(c)
    /\ \/ /\ pc[c] \in StatusAt
          /\ Answer(c, [Nothing EXCEPT !.what = "status", !.nonce = "current", !.bolt = bolt])
          /\ UNCHANGED <<late, spoilt>>
       \/ /\ pc[c] \in PasswordAt
          /\ Answer(c, [Nothing EXCEPT !.what = "entries",
                                       !.code = IF slot0 THEN lockCode ELSE NoCode])
          /\ UNCHANGED <<late, spoilt>>
       \/ /\ pc[c] \in CommandAt /\ Good(c)
          /\ ActOn(c, Answered(c, [Nothing EXCEPT !.what = "accepted"]))
          /\ Spoil(Holders \ {c})
       \/ /\ pc[c] \in CommandAt /\ ~Good(c)
          /\ Answer(c, [Nothing EXCEPT !.what = "rejected"])
          /\ UNCHANGED <<late, spoilt>>
    /\ UNCHANGED outside

\* cod 930: the cloud relays nothing to a lock without a hub.
CloudRefuses(c) ==
    /\ InFlight(c) /\ reply[c] = Nothing
    /\ pc[c] \notin MqttAt /\ ~hubbed
    /\ Answer(c, [Nothing EXCEPT !.what = "refusal"])
    /\ UNCHANGED <<outside, late, spoilt>>

\* A request that gets lost, before the lock has seen it or after it has acted, or
\* that is only late. (To lose an answer that changed nothing is to lose the request.)
\* The cod tells a timeout from a refusal; only the first directive's is looked at.
RequestFails(c, why) ==
    /\ InFlight(c) /\ reply[c].what \in {"none", "accepted"}
    /\ pc[c] # "directive" => why = "refusal"
    /\ Answer(c, [Nothing EXCEPT !.what = why])
    /\ late' \in {late, IF pc[c] \in CommandAt /\ Good(c) THEN late \cup {c} ELSE late}
    /\ Spoil({c})
    /\ UNCHANGED outside

LateFrameArrives(c) ==
    /\ c \in late
    /\ ActOn(c, reply)
    /\ Spoil(Holders)
    /\ UNCHANGED outside

\* The host password has been told, and the cache has it or is about to.
Told == hostRead \/ \E c \in Commands : reply[c].what = "entries"

\* The lock is used by hand or by another client, and its code may be changed. If
\* the password had been told, the cached one that every later call of the session
\* goes by is wrong from then on.
LockUsed ==
    /\ bolt' \in Bolt
    /\ wasTrue' = wasTrue \cup {bolt'}
    /\ lockCode' \in IF slot0 THEN Codes ELSE {lockCode}
    /\ DrawsNonce(reply)
    /\ IF Told /\ lockCode' # lockCode
       THEN spoilt' = [c \in Commands |-> Transports]
       ELSE Spoil(Holders)
    /\ UNCHANGED <<fixed, shown, learned, hostRead, hostPwd, pc, outcome, isLocking,
                   isUnlocking, acted>>

-----------------------------------------------------------------------------
CallStep(c) ==
    \/ StatusReturns(c) \/ MqttStatusReturns(c) \/ PasswordReturns(c)
    \/ CommandAccepted(c) \/ CommandFails(c) \/ PauseEnds(c)
    \/ LockAnswers(c) \/ CloudRefuses(c) \/ \E why \in Failures : RequestFails(c, why)

Next ==
    \/ \E c \in Commands : Begin(c) \/ CallStep(c)
    \/ \E c \in Commands : LateFrameArrives(c)
    \/ LockUsed

Spec == Init /\ [][Next]_vars

-----------------------------------------------------------------------------
(* Properties.                                                             *)

\* A command is reported as carried out only if the lock acted on it, whatever
\* was retried, lost or sent over the other transport (the docstring of
\* _ack_reports_success, and the comments on code 0 and on queued publishes).
ReportedMeansActed == \A c \in Commands : outcome[c] => c \in acted

\* The state shown is never one the bolt has not been in: no state is shown on
\* the strength of a command the lock did not acknowledge (_send_command: "a
\* queued publish is not an acted-on command").
ShownWasTrue == shown # "unknown" => shown \in wasTrue

\* A command fails only if each transport it could go by was disturbed for it: a
\* request was lost or refused, MQTT was down, the lock drew a new nonce between
\* telling the old one and getting the frame (it was used, or acted on a call that
\* overlaps or on a late frame), or a host password told before was changed. The
\* nonce, password or frame format an earlier try or command left does not make the
\* lock reject it (the docstring of _try_mqtt_command, and issue #3), and an
\* overlapping call that makes the frame over the hub stale is made up for by MQTT.
OneTransportSuffices ==
    \A c \in Commands : pc[c] = "returned" /\ ~outcome[c] =>
        "mqtt" \in spoilt[c] /\ (hubbed => "hub" \in spoilt[c])

\* The entity shows "locking" or "unlocking" only while such a call runs, and
\* never both, however calls overlap.
FlagsAreTrue ==
    /\ ~(isLocking /\ isUnlocking)
    /\ isLocking => \E c \in Running : c \notin Unlocks
    /\ isUnlocking => \E c \in Running : c \in Unlocks

-----------------------------------------------------------------------------
(* Refinement: a call as its caller sees it.                               *)

OutcomeOf(c) ==
    IF pc[c] = "new" THEN "new"
    ELSE IF pc[c] # "returned" THEN "open"
    ELSE IF outcome[c] THEN "success" ELSE "failure"

Promise == INSTANCE ExchangeSpec WITH
    Calls <- Commands, outcome <- [c \in Commands |-> OutcomeOf(c)], answered <- acted

\* The retry, the second transport and the frames given up on do not show: a call
\* returns once, and as carried out only once the lock has acted on that call
\* (what _send_command returns to async_lock and async_unlock).
KeepsPromise == Promise!Spec
=============================================================================
