----------------------------- MODULE MqttSession -----------------------------
(***************************************************************************)
(* The life of the push connection: LocklyMQTTManager (mqtt.py) with the   *)
(* logins of LocklyCoordinator (__init__.py) that start, renew and end it. *)
(*                                                                         *)
(* Coroutines on the event loop stop and start sessions; each await is a   *)
(* point where another may run. Paho's network thread of every client      *)
(* reports the broker's answers, and reaches the loop only through         *)
(* call_soon_threadsafe. Nothing in the code keeps two restarts apart.     *)
(***************************************************************************)
EXTENDS Naturals, Sequences, FiniteSets

CONSTANTS
    Clients,            \* paho.Client objects; an id is reused once unreachable
    NoClient,           \* None
    MaxRefusals,        \* _MAX_REFUSALS
    FirstPollFailed,    \* the first poll dropped the token (see PollCycle)
    ConnectMayRaise,    \* whether the TLS setup or the TCP connect of a start may fail
    MaxCallbacks        \* bound: callbacks waiting on the event loop

ASSUME SessionAssumption ==
    /\ NoClient \notin Clients
    /\ MaxRefusals \in Nat \ {0}
    /\ FirstPollFailed \in BOOLEAN /\ ConnectMayRaise \in BOOLEAN
    /\ MaxCallbacks \in Nat \ {0}

VARIABLES
    client,         \* _client
    connected,      \* _connected
    refusals,       \* _refusals; beyond MaxRefusals the count tells nothing more
    brokerIndex,    \* _broker_index
    switching,      \* _switching
    timer,          \* _recovery_cancel is set: a recovery is waiting to run
    closed,         \* _closed
    jwt,            \* the coordinator has a token
    brokers,        \* Len(_brokers()): 2 if the last heartbeat named another host
    renewal,        \* _token_renewal_cancel is set
    net,            \* net[c]: how far client c has got with the broker
    cred,           \* cred[c]: c's password is the coordinator's current token
    addr,           \* addr[c]: the entry of _brokers() that c connects to
    pc,             \* pc[p]: where coroutine p is suspended
    arg,            \* arg[p]: the client that p's executor job works on
    callbacks,      \* what call_soon_threadsafe has queued, in order
    healthy         \* from here on network, cloud and broker do not fail

vars == <<client, connected, refusals, brokerIndex, switching, timer, closed,
          jwt, brokers, renewal, net, cred, addr, pc, arg, callbacks, healthy>>

\* The coroutines: async_setup_entry, the poll's _authenticate, _async_recover,
\* _switch_broker, _async_renew_token and async_shutdown. No two of one kind
\* overlap: the delay before each exceeds what a run of it takes.
Procs == {"setup", "poll", "recover", "switch", "renew", "unload"}

PCs == {"idle", "login", "heartbeat", "start_login", "start_heartbeat",
        "loop_stop", "disconnect", "tls", "dial", "loop_start", "done"}

\* made: constructed; dialled: connect() returned, no thread yet; trying: its
\* thread awaits CONNACK, again and again; up: accepted; parked and held: the
\* thread was stopped while trying or up; refused: stopped by its own refusal;
\* none: not in use, or disconnected.
NetStates == {"none", "made", "dialled", "trying", "up", "parked", "held", "refused"}

\* A client with a network thread: it connects, reconnects and is answered.
Live(c) == net[c] \in {"trying", "up"}

TypeOK ==
    /\ client \in Clients \cup {NoClient}
    /\ connected \in BOOLEAN
    /\ refusals \in 0..MaxRefusals
    /\ brokerIndex \in 0..1
    /\ switching \in BOOLEAN
    /\ timer \in BOOLEAN
    /\ closed \in BOOLEAN
    /\ jwt \in BOOLEAN
    /\ brokers \in 1..2
    /\ renewal \in BOOLEAN
    /\ net \in [Clients -> NetStates]
    /\ cred \in [Clients -> BOOLEAN]
    /\ addr \in [Clients -> 0..1]
    /\ pc \in [Procs -> PCs]
    /\ arg \in [Procs -> Clients \cup {NoClient}]
    /\ callbacks \in Seq({"switch", "schedule"})
    /\ healthy \in BOOLEAN

\* The entry is set up: the first poll has logged in and armed the renewal.
Init ==
    /\ client = NoClient
    /\ connected = FALSE
    /\ refusals = 0
    /\ brokerIndex = 0
    /\ switching = FALSE
    /\ timer = FALSE
    /\ closed = FALSE
    /\ jwt = ~FirstPollFailed
    /\ brokers \in 1..2
    /\ renewal = TRUE
    /\ net = [c \in Clients |-> "none"]
    /\ cred = [c \in Clients |-> FALSE]
    /\ addr = [c \in Clients |-> 0]
    /\ pc = [p \in Procs |-> "idle"]
    /\ arg = [p \in Procs |-> NoClient]
    /\ callbacks = <<>>
    /\ healthy = FALSE

-----------------------------------------------------------------------------
(* async_start.                                                            *)

\* Coroutine p returns; _switch_broker lowers the flag in its finally clause.
Finish(p) ==
    /\ pc' = [pc EXCEPT ![p] = IF p \in {"setup", "unload"} THEN "done" ELSE "idle"]
    /\ arg' = [arg EXCEPT ![p] = NoClient]
    /\ switching' = (switching /\ p # "switch")

Goto(p, label, c) ==
    /\ pc' = [pc EXCEPT ![p] = label]
    /\ arg' = [arg EXCEPT ![p] = c]
    /\ UNCHANGED switching

\* An object nothing refers to any more.
Free(c) == net[c] = "none" /\ client # c /\ \A p \in Procs : arg[p] # c

\* From the read of the token to the await of tls_set; n is net so far.
Construct(p, n) ==
    \E c \in Clients :
        /\ Free(c)
        /\ client' = c
        /\ net' = [n EXCEPT ![c] = "made"]
        /\ cred' = [cred EXCEPT ![c] = jwt]
        /\ Goto(p, "tls", c)

\* Mutant of Start: _closed is not looked at.
StartUnchecked(p, n) ==
    IF jwt THEN Construct(p, n)
    ELSE /\ Goto(p, "start_login", NoClient)
         /\ client' = NoClient /\ net' = n /\ UNCHANGED cred

\* async_start up to its first await, with no client in place.
Start(p, n) ==
    \/ /\ closed
       /\ Finish(p)
       /\ client' = NoClient /\ net' = n /\ UNCHANGED cred
    \/ /\ ~closed /\ ~jwt
       /\ Goto(p, "start_login", NoClient)
       /\ client' = NoClient /\ net' = n /\ UNCHANGED cred
    \/ /\ ~closed /\ jwt
       /\ Construct(p, n)

\* The address is read when tls_set and tls_insecure_set are done.
Tls(p) ==
    /\ pc[p] = "tls"
    /\ addr' = [addr EXCEPT ![arg[p]] =
                    IF brokerIndex < brokers THEN brokerIndex ELSE brokers - 1]
    /\ pc' = [pc EXCEPT ![p] = "dial"]
    /\ UNCHANGED <<client, connected, refusals, brokerIndex, switching, timer, closed,
                   jwt, brokers, renewal, net, cred, arg, callbacks, healthy>>

Dial(p) ==
    /\ pc[p] = "dial"
    /\ net' = [net EXCEPT ![arg[p]] = "dialled"]
    /\ pc' = [pc EXCEPT ![p] = "loop_start"]
    /\ UNCHANGED <<client, connected, refusals, brokerIndex, switching, timer, closed,
                   jwt, brokers, renewal, cred, addr, arg, callbacks, healthy>>

\* tls_set or connect() raises: logged as polling-only mode, and async_start
\* returns; the client stays the manager's.
DialRaises(p) ==
    /\ pc[p] \in {"tls", "dial"}
    /\ ConnectMayRaise /\ ~healthy
    /\ net' = [net EXCEPT ![arg[p]] = "none"]
    /\ Finish(p)
    /\ UNCHANGED <<client, connected, refusals, brokerIndex, timer, closed, jwt,
                   brokers, renewal, cred, addr, callbacks, healthy>>

\* The thread of a client that was disconnected after connect() exits at once.
LoopStart(p) ==
    /\ pc[p] = "loop_start"
    /\ net' = IF net[arg[p]] = "dialled"
              THEN [net EXCEPT ![arg[p]] = "trying"] ELSE net
    /\ Finish(p)
    /\ UNCHANGED <<client, connected, refusals, brokerIndex, timer, closed, jwt,
                   brokers, renewal, cred, addr, callbacks, healthy>>

-----------------------------------------------------------------------------
(* async_stop, and the restarts built on it.                               *)

\* What follows async_stop in coroutine p, without an await between.
AfterStop(p, n) ==
    /\ IF p = "unload"
       THEN Finish(p) /\ client' = NoClient /\ net' = n /\ UNCHANGED cred
       ELSE Start(p, n)

\* async_stop up to its first await: cancel the retry, stop the client's loop.
Stop(p) ==
    /\ timer' = FALSE
    /\ IF client = NoClient
       THEN AfterStop(p, net)
       ELSE Goto(p, "loop_stop", client) /\ UNCHANGED <<client, net, cred>>

\* _switch_broker gives the new address its own allowance of refusals.
AllowanceAfterStop(p) == refusals' = IF p = "switch" THEN 0 ELSE refusals

\* Mutant of Disconnected: the thread is stopped, the connection is not closed.
StoppedOnly(n, c) == n

\* disconnect() on client c. On one that has not connected it does nothing
\* that a later connect() does not undo.
Disconnected(n, c) == IF n[c] = "made" THEN n ELSE [n EXCEPT ![c] = "none"]

\* on_disconnect clears _connected if c's socket was open, whoever set it.
OnDisconnect(c) ==
    connected' \in CASE net[c] \in {"up", "held", "dialled"} -> {FALSE}
                     [] net[c] \in {"trying", "parked"} -> {FALSE, connected}
                     [] OTHER -> {connected}

\* loop_stop done: disconnect whatever _client is by now. If another restart
\* has cleared it, the attribute error is swallowed and the stop is over.
StopLoop(p) ==
    /\ pc[p] = "loop_stop"
    /\ LET c == arg[p]
           n == [net EXCEPT ![c] = CASE @ = "trying" -> "parked"
                                     [] @ = "up" -> "held"
                                     [] OTHER -> @]
       IN IF client = NoClient
          THEN AfterStop(p, n) /\ AllowanceAfterStop(p)
          ELSE /\ Goto(p, "disconnect", client)
               /\ net' = n
               /\ UNCHANGED <<client, cred, refusals>>
    /\ UNCHANGED <<connected, brokerIndex, timer, closed, jwt, brokers, renewal,
                   addr, callbacks, healthy>>

StopDisconnect(p) ==
    /\ pc[p] = "disconnect"
    /\ OnDisconnect(arg[p])
    /\ AfterStop(p, Disconnected(net, arg[p]))
    /\ AllowanceAfterStop(p)
    /\ UNCHANGED <<brokerIndex, timer, closed, jwt, brokers, renewal, addr,
                   callbacks, healthy>>

-----------------------------------------------------------------------------
(* Logins: _login by way of async_renew_login or _authenticate.            *)

\* Mutant of ScheduleRecovery: _closed is not looked at.
ScheduleAlways == timer' = TRUE

\* Mutant of ScheduleRecovery: a recovery under way is taken to be enough.
ScheduleUnlessRecovering == timer' = (timer \/ (~closed /\ pc["recover"] = "idle"))

\* _schedule_recovery; replaces a retry that is already waiting.
ScheduleRecovery == timer' = (timer \/ ~closed)

LoginSucceeds(p) ==
    /\ pc[p] \in {"login", "start_login"}
    /\ jwt' = TRUE
    /\ cred' = [c \in Clients |-> FALSE]
    /\ pc' = [pc EXCEPT ![p] = IF @ = "login" THEN "heartbeat" ELSE "start_heartbeat"]
    /\ UNCHANGED <<client, connected, refusals, brokerIndex, switching, timer, closed,
                   brokers, renewal, net, addr, arg, callbacks, healthy>>

\* async_start and _async_recover wait for the next step of the schedule, the
\* renewal for half an hour, the poll for the next poll.
LoginFails(p) ==
    /\ pc[p] \in {"login", "start_login"}
    /\ ~healthy
    /\ IF pc[p] = "start_login" \/ p = "recover" THEN ScheduleRecovery ELSE UNCHANGED timer
    /\ renewal' = (renewal \/ p = "renew")
    /\ Finish(p)
    /\ UNCHANGED <<client, connected, refusals, brokerIndex, closed, jwt, brokers,
                   net, cred, addr, callbacks, healthy>>

\* Mutant of UpdateCredentials: the client keeps the password it was built with.
CredentialsKept == UNCHANGED cred

\* async_update_credentials.
UpdateCredentials ==
    cred' = IF client = NoClient THEN cred ELSE [cred EXCEPT ![client] = jwt]

\* The heartbeat has (re)named the second address; _login arms the renewal and
\* returns to its caller, which goes on without another await.
Heartbeat(p) ==
    /\ pc[p] \in {"heartbeat", "start_heartbeat"}
    /\ brokers' \in 1..2
    /\ renewal' = TRUE
    /\ \/ /\ pc[p] = "start_heartbeat"
          /\ Construct(p, net)
          /\ UNCHANGED <<refusals, brokerIndex, timer>>
       \/ /\ pc[p] = "heartbeat" /\ p = "renew"
          /\ UpdateCredentials
          /\ Finish(p)
          /\ UNCHANGED <<client, refusals, brokerIndex, timer, net>>
       \/ /\ pc[p] = "heartbeat" /\ p = "recover"
          /\ brokerIndex' = 0
          /\ refusals' = 0
          /\ Stop(p)
       \/ /\ pc[p] = "heartbeat" /\ p = "poll"
          /\ Stop(p)
          /\ UNCHANGED <<refusals, brokerIndex>>
    /\ UNCHANGED <<connected, closed, jwt, addr, callbacks, healthy>>

-----------------------------------------------------------------------------
(* What sets the coroutines going.                                         *)

SetupStarts ==
    /\ pc["setup"] = "idle"
    /\ Start("setup", net)
    /\ UNCHANGED <<connected, refusals, brokerIndex, timer, closed, jwt, brokers,
                   renewal, addr, callbacks, healthy>>

Awaits(p) == Goto(p, "login", NoClient)

\* A poll that finds no token calls _authenticate. Unloaded entities have no
\* listeners, so no poll begins after the unload.
PollAuthenticates ==
    /\ pc["poll"] = "idle" /\ pc["setup"] # "idle"
    /\ ~jwt /\ ~closed
    /\ Awaits("poll")
    /\ UNCHANGED <<client, connected, refusals, brokerIndex, timer, closed, jwt,
                   brokers, renewal, net, cred, addr, callbacks, healthy>>

RecoveryFires ==
    /\ timer
    /\ pc["recover"] = "idle"
    /\ timer' = FALSE
    /\ IF closed THEN UNCHANGED <<pc, arg, switching>> ELSE Awaits("recover")
    /\ UNCHANGED <<client, connected, refusals, brokerIndex, closed, jwt, brokers,
                   renewal, net, cred, addr, callbacks, healthy>>

RenewalFires ==
    /\ renewal
    /\ pc["renew"] = "idle"
    /\ renewal' = FALSE
    /\ Awaits("renew")
    /\ UNCHANGED <<client, connected, refusals, brokerIndex, timer, closed, jwt,
                   brokers, net, cred, addr, callbacks, healthy>>

\* async_shutdown of the coordinator, then of the manager. Home Assistant
\* unloads only an entry whose setup has returned.
Unload ==
    /\ pc["setup"] = "done" /\ pc["unload"] = "idle"
    /\ renewal' = FALSE
    /\ closed' = TRUE
    /\ Stop("unload")
    /\ UNCHANGED <<connected, refusals, brokerIndex, jwt, brokers, addr, callbacks,
                   healthy>>

RunCallback ==
    /\ callbacks # <<>>
    /\ callbacks' = Tail(callbacks)
    /\ \/ /\ Head(callbacks) = "schedule"
          /\ ScheduleRecovery
          /\ UNCHANGED <<client, net, cred, pc, arg, switching, refusals>>
       \/ /\ Head(callbacks) = "switch"
          /\ pc["switch"] = "idle"
          /\ Stop("switch")
          /\ IF client = NoClient THEN AllowanceAfterStop("switch") ELSE UNCHANGED refusals
    /\ UNCHANGED <<connected, brokerIndex, closed, jwt, brokers, renewal, addr, healthy>>

-----------------------------------------------------------------------------
(* Paho's network thread of client c: _handle_connect and on_disconnect.   *)

\* The token that c offers is good: the current one, or the one a renewal is
\* replacing, an hour before it expires. A token replaced for good is not.
TokenGood(c) == cred[c] \/ pc["renew"] = "heartbeat"

Accepted(c) ==
    /\ net[c] = "trying"
    /\ healthy => TokenGood(c)
    /\ net' = [net EXCEPT ![c] = "up"]
    /\ connected' = TRUE
    /\ refusals' = 0
    /\ UNCHANGED <<client, brokerIndex, switching, timer, closed, jwt, brokers, renewal,
                   cred, addr, pc, arg, callbacks, healthy>>

\* Mutant of GiveUp: the refused client goes on reconnecting.
KeepTrying(n) == n

\* _give_up stops the client the manager holds, which need not be the one whose
\* refusal is being handled; n is net so far.
GiveUp(n) == IF client = NoClient THEN n ELSE Disconnected(n, client)

\* rc = 5 is permanent at once; other refusals are after MaxRefusals of them.
Exhausted(permanent) == permanent \/ refusals + 1 >= MaxRefusals

\* Mutant of AnotherBroker: off by one.
AnotherBrokerOffByOne == brokerIndex < brokers

\* _brokers() has an entry after the current one.
AnotherBroker == brokerIndex + 1 < brokers

\* A refused CONNACK: count it, and once they are too many try the next address
\* or give up until the recovery.
Refused(c, permanent) ==
    /\ net[c] = "trying"
    /\ healthy => permanent /\ ~TokenGood(c)
    /\ Len(callbacks) < MaxCallbacks
    /\ connected' = FALSE
    /\ refusals' = IF refusals < MaxRefusals THEN refusals + 1 ELSE refusals
    /\ \/ /\ ~Exhausted(permanent)
          /\ UNCHANGED <<brokerIndex, switching, net, callbacks>>
       \/ /\ Exhausted(permanent) /\ AnotherBroker
          /\ brokerIndex' = brokerIndex + 1
          /\ switching' = TRUE
          /\ net' = [net EXCEPT ![c] = "refused"]
          /\ callbacks' = Append(callbacks, "switch")
       \/ /\ Exhausted(permanent) /\ ~AnotherBroker
          /\ net' = GiveUp(net)
          /\ callbacks' = Append(callbacks, "schedule")
          /\ UNCHANGED <<brokerIndex, switching>>
    /\ UNCHANGED <<client, timer, closed, jwt, brokers, renewal, cred, addr, pc,
                   arg, healthy>>

\* Mutant of Dropped: on_disconnect leaves the flag to the next connect.
DroppedUnnoticed(c) ==
    /\ net[c] = "up"
    /\ ~healthy
    /\ net' = [net EXCEPT ![c] = "trying"]
    /\ UNCHANGED <<client, connected, refusals, brokerIndex, switching, timer, closed,
                   jwt, brokers, renewal, cred, addr, pc, arg, callbacks, healthy>>

\* The broker or the network drops a connection; paho dials again by itself.
Dropped(c) ==
    /\ net[c] = "up"
    /\ ~healthy
    /\ net' = [net EXCEPT ![c] = "trying"]
    /\ connected' = FALSE
    /\ UNCHANGED <<client, refusals, brokerIndex, switching, timer, closed, jwt,
                   brokers, renewal, cred, addr, pc, arg, callbacks, healthy>>

OutageEnds ==
    /\ ~healthy
    /\ healthy' = TRUE
    /\ UNCHANGED <<client, connected, refusals, brokerIndex, switching, timer, closed,
                   jwt, brokers, renewal, net, cred, addr, pc, arg, callbacks>>

-----------------------------------------------------------------------------
ProcStep(p) ==
    \/ Tls(p) \/ Dial(p) \/ DialRaises(p) \/ LoopStart(p)
    \/ StopLoop(p) \/ StopDisconnect(p)
    \/ LoginSucceeds(p) \/ LoginFails(p) \/ Heartbeat(p)

BrokerAnswers(c) == Accepted(c) \/ \E permanent \in BOOLEAN : Refused(c, permanent)

Next ==
    \/ \E p \in Procs : ProcStep(p)
    \/ SetupStarts \/ PollAuthenticates \/ RecoveryFires \/ RenewalFires \/ Unload
    \/ RunCallback
    \/ \E c \in Clients : BrokerAnswers(c) \/ Dropped(c)
    \/ OutageEnds

Spec == Init /\ [][Next]_vars

\* Coroutines resume, queued callbacks run, the recovery timer fires and the
\* broker answers. No poll, renewal, unload or drop is ever owed.
Fairness ==
    /\ \A p \in Procs : WF_vars(ProcStep(p))
    /\ WF_vars(SetupStarts) /\ WF_vars(RecoveryFires) /\ WF_vars(RunCallback)
    /\ \A c \in Clients : WF_vars(BrokerAnswers(c))

FairSpec == Spec /\ Fairness

-----------------------------------------------------------------------------
(* Properties.                                                             *)

\* After async_shutdown no retry is waiting: not one that was, not one a
\* refusal had already queued, not one a failing login asks for (the comment
\* on _closed, and its test in _schedule_recovery).
NoRetryAfterShutdown == closed => ~timer

\* No client is built after async_shutdown, whatever login, stop or switch was
\* under way when it ran (the comment on _closed: "including a recovery that
\* was part way through logging in").
NoClientBuiltAfterShutdown == [][closed => client' \in {client, NoClient}]_vars

\* The manager keeps one connection at a time: a restart is done with the old
\* client before it builds the new one, whichever coroutines and callbacks met.
OneSession == Cardinality({c \in Clients : net[c] # "none"}) <= 1

\* While a retry or a switch is to come, no client is left asking the broker:
\* the refused one was stopped, or it would ask again several times a second
\* (the comment in _handle_connect on the connect-refuse-retry storm).
PausedUntilRetry ==
    ~closed /\ (timer \/ callbacks # <<>>) => \A c \in Clients : ~Live(c)

\* A client that dials again by itself offers the current token, except while
\* the renewal that replaced the token is still at its heartbeat (the
\* docstring of async_update_credentials).
RedialsWithCurrentToken ==
    \A c \in Clients : Live(c) /\ ~closed => cred[c] \/ pc["renew"] = "heartbeat"

\* The flag that commands and polls go by is set exactly while the manager's own
\* client is accepted, though the handlers of every client there has been write
\* it (the docstring of connected). The shutdown stops the client first.
FlagMatchesClient ==
    ~closed => (connected <=> client # NoClient /\ net[client] = "up")

\* However restarts overlap, the flag is not left set once no client has a
\* connection: on_disconnect of the last one clears it, whoever set it.
FlagNeedsConnection == connected => \E c \in Clients : net[c] \in {"up", "held"}

\* Once network, cloud and broker stop failing, push comes back, however the
\* earlier refusals, failed logins and restarts met (the class docstring:
\* "keeps trying with a fresh login on the slow schedule").
PushComesBack == healthy ~> (connected \/ closed)

\* When the entry has been unloaded and every coroutine has returned, no client
\* is left talking to the broker (the comment on _closed: "Nothing may start a
\* session after that").
SessionEndsWithEntry ==
    (closed /\ \A p \in Procs : pc[p] \in {"idle", "done"}) => \A c \in Clients : ~Live(c)
=============================================================================
