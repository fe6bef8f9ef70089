---------------------------- MODULE NativeAutoLock ----------------------------
(***************************************************************************)
(* LocklyCoordinator._async_set_native_auto_lock (__init__.py), behind the *)
(* services enable_native_auto_lock and disable_native_auto_lock, with the *)
(* frames and acknowledgements of api.py: one lock, and calls that may     *)
(* overlap.                                                                *)
(*                                                                         *)
(* A call reads the lock's status for a nonce, reads the settings byte,    *)
(* writes the Auto-Lock mode, and writes the byte back with its Auto-Lock  *)
(* bit changed. One nonce serves the last three. Each is an await: the     *)
(* lock may be used or set from the app meanwhile, another call may write, *)
(* and a frame may arrive late, twice or never.                            *)
(***************************************************************************)
EXTENDS Naturals, FiniteSets

CONSTANTS
    Calls,          \* calls of the two services
    Enables,        \* those of enable_native_auto_lock
    FirstBytes,     \* settings bytes the lock may start with
    AppBytes,       \* settings bytes the app may write
    MaxUses         \* bound: uses of the lock that change its nonce

ASSUME NativeAutoLockAssumption ==
    /\ Enables \subseteq Calls
    /\ FirstBytes \subseteq 0..255
    /\ AppBytes \subseteq 0..15
    /\ MaxUses \in Nat

\* The lock draws a nonce whenever it is used; 0 stands for none.
NoNonce == 0
Nonces == 1..(MaxUses + 1)

\* The time field of SetAutoLockCmd: off, Auto-Detection, or a delay in seconds.
Modes == {"off", "detection", "timed"}

\* What a call awaits the answer to. A mode is written as its time field.
Queries == {"status", "query"}
Writes == {"mode", "settings"}
TimeField == [off |-> 0, detection |-> 1, timed |-> 30]

Frames == [call : Calls, what : Queries \cup Writes, nonce : {NoNonce} \cup Nonces,
           arg : 0..255]

\* The answer to a request: none so far, the lock's, or the exchange's None.
Reply == [what : {"none", "answered", "rejected", "failed"},
          nonce : {NoNonce} \cup Nonces, byte : 0..255]
Answer(what, byte) == [what |-> what, nonce |-> NoNonce, byte |-> byte]
Nothing == Answer("none", 0)

VARIABLES
    verified,   \* the lock is of the type the feature is verified on (fixed)
    caps,       \* _capabilities says so
    known,      \* _nonces[lock]
    pc,         \* pc[c]: what call c awaits
    nonce,      \* nonce[c]: its local of that name
    new,        \* new[c]: its new_settings
    reply,      \* reply[c]: the answer to its request
    outcome,    \* outcome[c]: what it returned
    frames,     \* frames published, any of which may reach the lock again
    mode,       \* the lock: its Auto-Lock mode,
    settings,   \* its settings byte,
    lockNonce,  \* and its nonce
    shared,     \* history: the app wrote settings under this very nonce
    accepted,   \* history: frames the lock has accepted
    troubled    \* history: calls that something went wrong for

callVars == <<pc, nonce, new, reply, outcome>>
lockVars == <<mode, settings, lockNonce>>
history == <<shared, accepted, troubled>>
vars == <<verified, caps, known, callVars, frames, lockVars, history>>

Running == {c \in Calls : pc[c] \notin {"new", "returned"}}

TypeOK ==
    /\ verified \in BOOLEAN /\ caps \in BOOLEAN
    /\ known \in {NoNonce} \cup Nonces
    /\ pc \in [Calls -> Queries \cup Writes \cup {"new", "returned"}]
    /\ nonce \in [Calls -> {NoNonce} \cup Nonces]
    /\ new \in [Calls -> 0..255]
    /\ reply \in [Calls -> Reply]
    /\ outcome \in [Calls -> BOOLEAN]
    /\ frames \subseteq Frames /\ accepted \subseteq Frames
    /\ mode \in Modes /\ settings \in 0..255 /\ lockNonce \in Nonces
    /\ shared \in BOOLEAN /\ troubled \subseteq Calls

Init ==
    /\ verified \in BOOLEAN
    /\ caps = FALSE /\ known = NoNonce
    /\ pc = [c \in Calls |-> "new"]
    /\ nonce = [c \in Calls |-> NoNonce]
    /\ new = [c \in Calls |-> 0]
    /\ reply = [c \in Calls |-> Nothing]
    /\ outcome = [c \in Calls |-> FALSE]
    /\ frames = {}
    /\ mode \in Modes /\ settings \in FirstBytes /\ lockNonce = 1
    /\ shared = FALSE /\ accepted = {} /\ troubled = {}

-----------------------------------------------------------------------------
(* The settings byte: three switches in bits 0 to 2, Auto-Lock in bit 3.   *)

LowBits(byte) == byte % 8
AutoLockOn(byte) == (byte \div 8) % 2 = 1

\* Mutants of SetAutoLock: the upper half is kept, and the bit is flipped.
SetAutoLockAdded(byte, on) == byte + IF on THEN 8 ELSE 0
SetAutoLockFlipped(byte, on) == LowBits(byte) + IF AutoLockOn(byte) THEN 0 ELSE 8

\* set_auto_lock_in_settings: the upper half of the byte is written as zero.
SetAutoLock(byte, on) == LowBits(byte) + IF on THEN 8 ELSE 0

\* The mode a call asks for.
Target(c) == IF c \in Enables THEN "detection" ELSE "off"

-----------------------------------------------------------------------------
(* The coroutine of a call.                                                *)

\* _mqtt_exchange_raw up to its await.
Send(c, what, n, arg) ==
    /\ pc' = [pc EXCEPT ![c] = what]
    /\ frames' = frames \cup {[call |-> c, what |-> what, nonce |-> n, arg |-> arg]}
    /\ reply' = [reply EXCEPT ![c] = Nothing]
    /\ UNCHANGED outcome

Return(c, ok) ==
    /\ pc' = [pc EXCEPT ![c] = "returned"]
    /\ outcome' = [outcome EXCEPT ![c] = ok]
    /\ reply' = [reply EXCEPT ![c] = Nothing]
    /\ UNCHANGED frames

Answered(c, what) == pc[c] = what /\ reply[c].what = "answered"

\* The manager is connected, and the status query is sent; or it is not.
Begin(c) ==
    /\ pc[c] = "new"
    /\ \/ Send(c, "status", NoNonce, 0) /\ UNCHANGED troubled
       \/ Return(c, FALSE) /\ troubled' = troubled \cup {c}
    /\ UNCHANGED <<verified, caps, known, nonce, new, lockVars, shared, accepted>>

\* Mutant of StatusReturns: the capabilities are looked up before the query.
StatusReturnsCapsFirst(c) ==
    /\ Answered(c, "status")
    /\ caps' = verified
    /\ known' = reply[c].nonce
    /\ nonce' = [nonce EXCEPT ![c] = reply[c].nonce]
    /\ IF caps THEN Send(c, "query", reply[c].nonce, 128) ELSE Return(c, FALSE)
    /\ UNCHANGED <<verified, new, lockVars, history>>

\* _mqtt_nonce has its answer, and _learn_from_status the lock's type; then the
\* settings are asked for, if the type is the verified one.
StatusReturns(c) ==
    /\ Answered(c, "status")
    /\ caps' = verified
    /\ known' = reply[c].nonce
    /\ nonce' = [nonce EXCEPT ![c] = reply[c].nonce]
    /\ IF caps' THEN Send(c, "query", reply[c].nonce, 128) ELSE Return(c, FALSE)
    /\ UNCHANGED <<verified, new, lockVars, history>>

\* The settings byte is read, and the mode written.
QueryReturns(c) ==
    /\ Answered(c, "query")
    /\ new' = [new EXCEPT ![c] = SetAutoLock(reply[c].byte, c \in Enables)]
    /\ Send(c, "mode", nonce[c], TimeField[Target(c)])
    /\ UNCHANGED <<verified, caps, known, nonce, lockVars, history>>

\* Mutant of ModeReturns: the byte is sent with the newest nonce any status read
\* has brought.
ModeReturnsNewestNonce(c) ==
    /\ Answered(c, "mode")
    /\ Send(c, "settings", known, new[c])
    /\ UNCHANGED <<verified, caps, known, nonce, new, lockVars, history>>

\* The mode is accepted, and the settings byte written.
ModeReturns(c) ==
    /\ Answered(c, "mode")
    /\ Send(c, "settings", nonce[c], new[c])
    /\ UNCHANGED <<verified, caps, known, nonce, new, lockVars, history>>

\* parse_set_lock_settings_ack: the lock echoes the byte it was given.
SettingsReturns(c) ==
    /\ Answered(c, "settings")
    /\ Return(c, reply[c].byte = new[c])
    /\ UNCHANGED <<verified, caps, known, nonce, new, lockVars, history>>

\* No answer, or a rejection: whatever was written before stays written.
Refused(c) ==
    /\ pc[c] \in Queries \cup Writes /\ reply[c].what \in {"rejected", "failed"}
    /\ Return(c, FALSE)
    /\ UNCHANGED <<verified, caps, known, nonce, new, lockVars, history>>

-----------------------------------------------------------------------------
(* The transport and the lock.                                             *)

\* The answer r to frame f, if its call still awaits one and it is not lost.
Deliver(f, r) ==
    \/ UNCHANGED reply
    \/ /\ pc[f.call] = f.what /\ reply[f.call] = Nothing
       /\ reply' = [reply EXCEPT ![f.call] = r]

Unchanged == UNCHANGED <<verified, caps, known, pc, nonce, new, outcome, frames,
                         lockNonce, shared, troubled>>

\* A status query needs no nonce.
LockTellsStatus(f) ==
    /\ f.what = "status"
    /\ Deliver(f, [what |-> "answered", nonce |-> lockNonce, byte |-> 0])
    /\ UNCHANGED <<mode, settings, accepted>>
    /\ Unchanged

Good(f) == f.what # "status" /\ f.nonce = lockNonce

\* The byte 0x80 makes a settings frame a query.
LockTellsSettings(f) ==
    /\ f.what = "query" /\ Good(f)
    /\ Deliver(f, Answer("answered", settings))
    /\ UNCHANGED <<mode, settings, accepted>>
    /\ Unchanged

LockTakesMode(f) ==
    /\ f.what = "mode" /\ Good(f)
    /\ mode' = IF f.arg = 0 THEN "off" ELSE "detection"
    /\ accepted' = accepted \cup {f}
    /\ Deliver(f, Answer("answered", 0))
    /\ UNCHANGED settings
    /\ Unchanged

LockTakesSettings(f) ==
    /\ f.what = "settings" /\ Good(f)
    /\ settings' = f.arg
    /\ accepted' = accepted \cup {f}
    /\ Deliver(f, Answer("answered", f.arg))
    /\ UNCHANGED mode
    /\ Unchanged

LockRejects(f) ==
    /\ f.what # "status" /\ ~Good(f)
    /\ Deliver(f, Answer("rejected", 0))
    /\ UNCHANGED <<mode, settings, accepted>>
    /\ Unchanged

\* The exchange ends without an answer; the frame may still be on its way.
ExchangeFails(c) ==
    /\ pc[c] \in Queries \cup Writes /\ reply[c] = Nothing
    /\ reply' = [reply EXCEPT ![c].what = "failed"]
    /\ troubled' = troubled \cup {c}
    /\ UNCHANGED <<verified, caps, known, pc, nonce, new, outcome, frames, lockVars,
                   shared, accepted>>

\* The lock is used by hand or by the app over Bluetooth, which draws a nonce.
LockUsed ==
    /\ lockNonce <= MaxUses
    /\ lockNonce' = lockNonce + 1
    /\ mode' \in Modes /\ settings' \in {settings} \cup AppBytes
    /\ shared' = FALSE
    /\ troubled' = troubled \cup Running
    /\ UNCHANGED <<verified, caps, known, callVars, frames, accepted>>

\* The app writes settings through the broker, under the nonce there is.
AppWrites ==
    /\ ~shared
    /\ shared' = TRUE
    /\ mode' \in Modes /\ settings' \in AppBytes
    /\ UNCHANGED <<verified, caps, known, callVars, frames, lockNonce, accepted, troubled>>

\* A status read by anyone else: refresh_door_state, a command, the poll.
OtherStatusRead ==
    /\ caps' = verified
    /\ known' = lockNonce
    /\ UNCHANGED <<verified, callVars, frames, lockVars, history>>

-----------------------------------------------------------------------------
CallStep(c) ==
    \/ Begin(c) \/ StatusReturns(c) \/ QueryReturns(c) \/ ModeReturns(c)
    \/ SettingsReturns(c) \/ Refused(c) \/ ExchangeFails(c)

LockStep(f) ==
    \/ LockTellsStatus(f) \/ LockTellsSettings(f) \/ LockTakesMode(f)
    \/ LockTakesSettings(f) \/ LockRejects(f)

Next ==
    \/ \E c \in Calls : CallStep(c)
    \/ \E f \in frames : LockStep(f)
    \/ LockUsed \/ AppWrites \/ OtherStatusRead

Spec == Init /\ [][Next]_vars

-----------------------------------------------------------------------------
(* Properties.                                                             *)

\* A call reports success only if the lock has accepted both of its writes, with
\* the mode and the switch it was asked for, whatever was lost, repeated or
\* overlapped (the event's `success`; parse_set_auto_lock_ack and
\* parse_set_lock_settings_ack).
SuccessMeansWritten ==
    \A c \in Calls : outcome[c] =>
        \E f, g \in accepted :
            /\ f.call = c /\ f.what = "mode" /\ f.arg = TimeField[Target(c)]
            /\ g.call = c /\ g.what = "settings" /\ AutoLockOn(g.arg) = (c \in Enables)

\* What a failure between the writes leaves is the mode without the switch: the
\* switch is never thrown for a call whose mode the lock has not accepted.
SwitchFollowsMode ==
    \A g \in accepted : g.what = "settings" =>
        \E f \in accepted : f.call = g.call /\ f.what = "mode"

\* The byte written back leaves the other switches as they are on the lock at
\* that moment, although it was read two awaits before: a use of the lock makes
\* the nonce stale, so only a change the app made under the same nonce can be
\* overwritten (the docs: a read-modify-write and not a blind set).
OtherSettingsKept ==
    [][lockNonce' = lockNonce /\ ~shared /\ ~shared'
       => LowBits(settings') = LowBits(settings)]_vars

\* A lock of another type is never written to, even when its type was unknown
\* before the call (README: other models are declined rather than guessed at).
OnlyVerifiedWritten == \A f \in frames : f.what \in Writes => verified

\* A call on a verified lock that nothing disturbed succeeds: one nonce serves
\* its three frames, however many calls and status reads overlap, and the type
\* learned on the way counts (docs/api.md: the fresh nonce is reused).
UndisturbedCallSucceeds ==
    verified => \A c \in Calls \ troubled : pc[c] = "returned" => outcome[c]

-----------------------------------------------------------------------------
(* Refinement: a call as its caller sees it.                               *)

OutcomeOf(c) ==
    IF pc[c] = "new" THEN "new"
    ELSE IF pc[c] # "returned" THEN "open"
    ELSE IF outcome[c] THEN "success" ELSE "failure"

\* The lock has done what call c asked for when it has taken both writes.
Written(c) == \A what \in Writes : \E f \in accepted : f.call = c /\ f.what = what

Promise == INSTANCE ExchangeSpec WITH
    Calls <- Calls, outcome <- [c \in Calls |-> OutcomeOf(c)],
    answered <- {c \in Calls : Written(c)}

\* The four requests of a call show as one: it returns once, and as a success
\* only once the lock has taken both of its writes.
KeepsPromise == Promise!Spec
=============================================================================
