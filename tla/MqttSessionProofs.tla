-------------------------- MODULE MqttSessionProofs --------------------------
(***************************************************************************)
(* What holds of MqttSession for any set of clients, with a token dropped  *)
(* by the first poll or not, and with connects that raise or not: whatever *)
(* overlaps, the shutdown leaves no retry waiting and nothing after it     *)
(* builds a client, and the flag that says connected is not left behind by *)
(* the last connection.                                                    *)
(***************************************************************************)
EXTENDS MqttSession, TLAPS

\* The awaits a coroutine is in before its first login.
BeforeLogin == {"idle", "login", "start_login", "done"}

\* Until the first login of all there is no token, so nothing to connect, and
\* only the setup logs in from within async_start.
FirstLoginOfAll ==
    /\ ~jwt => /\ client = NoClient /\ callbacks = <<>>
               /\ \A c \in Clients : net[c] = "none"
               /\ \A p \in Procs : pc[p] \in BeforeLogin
    /\ \A p \in Procs \ {"setup"} : pc[p] \notin {"start_login", "start_heartbeat"}

\* The shutdown comes after the setup.
SetupPrecedesShutdown == closed => pc["setup"] = "done"

SessionInv == FirstLoginOfAll /\ SetupPrecedesShutdown /\ NoRetryAfterShutdown

-----------------------------------------------------------------------------
(* What the steps of a coroutine do.                                       *)

\* What async_start and async_stop leave to their caller: the manager's client,
\* its connection and password, and where the coroutine goes.
Moves(p) ==
    /\ client' \in Clients \cup {NoClient}
    /\ net' \in [Clients -> NetStates]
    /\ cred' \in [Clients -> BOOLEAN]
    /\ pc' \in [Procs -> PCs] /\ \A q \in Procs \ {p} : pc'[q] = pc[q]
    /\ arg' \in [Procs -> Clients \cup {NoClient}]
    /\ switching' \in BOOLEAN

Finished(p) == pc'[p] = IF p \in {"setup", "unload"} THEN "done" ELSE "idle"

\* An await of a coroutine that stops or starts a client.
Busy(p) == pc'[p] \in {"loop_stop", "disconnect", "tls"}

\* A coroutine that finishes leaves the others where they are,
LEMMA FinishMoves ==
    ASSUME TypeOK, NEW p \in Procs, Finish(p)
    PROVE  /\ pc' \in [Procs -> PCs] /\ \A q \in Procs \ {p} : pc'[q] = pc[q]
           /\ arg' \in [Procs -> Clients \cup {NoClient}]
           /\ switching' \in BOOLEAN
           /\ Finished(p)
BY DEF Finish, TypeOK, Finished, PCs

\* and so does one that goes to its next await.
LEMMA GotoMoves ==
    ASSUME TypeOK, NEW p \in Procs, NEW label \in PCs, NEW c \in Clients \cup {NoClient},
           Goto(p, label, c)
    PROVE  /\ pc' \in [Procs -> PCs] /\ \A q \in Procs \ {p} : pc'[q] = pc[q]
           /\ arg' \in [Procs -> Clients \cup {NoClient}]
           /\ switching' \in BOOLEAN
           /\ pc'[p] = label
BY DEF Goto, TypeOK

\* A start that builds its client moves its coroutine into the connecting.
LEMMA ConstructMoves ==
    ASSUME TypeOK, NEW p \in Procs, NEW n \in [Clients -> NetStates], Construct(p, n)
    PROVE  Moves(p) /\ Busy(p)
<1>1. PICK c \in Clients : /\ client' = c
                           /\ net' = [n EXCEPT ![c] = "made"]
                           /\ cred' = [cred EXCEPT ![c] = jwt]
                           /\ Goto(p, "tls", c)
  BY DEF Construct
<1>2. "tls" \in PCs /\ "made" \in NetStates
  BY DEF PCs, NetStates
<1>3. cred' \in [Clients -> BOOLEAN] /\ net' \in [Clients -> NetStates]
  BY <1>1, <1>2 DEF TypeOK
<1> QED
  BY <1>1, <1>2, <1>3, GotoMoves DEF Moves, Busy

\* async_start builds a client only with a token and before the shutdown, and logs
\* in itself only without a token.
LEMMA StartMoves ==
    ASSUME TypeOK, NEW p \in Procs, NEW n \in [Clients -> NetStates], Start(p, n)
    PROVE  /\ Moves(p)
           /\ \/ /\ client' = NoClient /\ net' = n
                 /\ Finished(p) \/ (~jwt /\ ~closed /\ pc'[p] = "start_login")
              \/ jwt /\ ~closed /\ Busy(p)
<1>1. CASE Finish(p) /\ client' = NoClient /\ net' = n /\ UNCHANGED cred
  BY <1>1, FinishMoves DEF Moves, TypeOK
<1>2. CASE /\ ~closed /\ ~jwt
           /\ Goto(p, "start_login", NoClient)
           /\ client' = NoClient /\ net' = n /\ UNCHANGED cred
  <2>1. "start_login" \in PCs
    BY DEF PCs
  <2> QED
    BY <1>2, <2>1, GotoMoves DEF Moves, TypeOK
<1>3. CASE ~closed /\ jwt /\ Construct(p, n)
  BY <1>3, ConstructMoves
<1> QED
  BY <1>1, <1>2, <1>3 DEF Start

\* After a stop there is no client, or a start that found the entry open builds one.
LEMMA AfterStopMoves ==
    ASSUME TypeOK, NEW p \in Procs, NEW n \in [Clients -> NetStates], AfterStop(p, n)
    PROVE  /\ Moves(p)
           /\ \/ /\ client' = NoClient /\ net' = n
                 /\ Finished(p) \/ (p # "unload" /\ ~jwt /\ ~closed /\ pc'[p] = "start_login")
              \/ p # "unload" /\ jwt /\ ~closed /\ Busy(p)
<1>1. CASE p = "unload"
  BY <1>1, FinishMoves DEF AfterStop, Moves, TypeOK
<1>2. CASE p # "unload"
  BY <1>2, StartMoves DEF AfterStop
<1> QED
  BY <1>1, <1>2

\* A stop cancels the retry and waits for the old client's thread, or goes on.
LEMMA StopMoves ==
    ASSUME TypeOK, NEW p \in Procs, Stop(p)
    PROVE  /\ Moves(p) /\ timer' = FALSE
           /\ \/ /\ client' = client /\ client # NoClient /\ net' = net /\ Busy(p)
              \/ /\ client' = NoClient /\ net' = net
                 /\ Finished(p) \/ (p # "unload" /\ ~jwt /\ ~closed /\ pc'[p] = "start_login")
              \/ p # "unload" /\ jwt /\ ~closed /\ Busy(p)
<1>0. net \in [Clients -> NetStates]
  BY DEF TypeOK
<1>1. CASE client = NoClient
  BY <1>0, <1>1, AfterStopMoves DEF Stop
<1>2. CASE client # NoClient
  <2>1. "loop_stop" \in PCs /\ client \in Clients \cup {NoClient}
    BY DEF PCs, TypeOK
  <2>2. Goto(p, "loop_stop", client) /\ UNCHANGED <<client, net, cred>> /\ timer' = FALSE
    BY <1>2 DEF Stop
  <2> QED
    BY <1>2, <2>1, <2>2, GotoMoves DEF Moves, TypeOK, Busy
<1> QED
  BY <1>1, <1>2

-----------------------------------------------------------------------------
(* The invariant.                                                          *)

\* What a step of coroutine p has to provide.
LEMMA MoveKeeps ==
    ASSUME TypeOK, SessionInv, NEW p \in Procs, Moves(p),
           UNCHANGED closed, timer' \in {FALSE, timer, timer \/ ~closed},
           p = "setup" => pc["setup"] # "done",
           p # "setup" => pc'[p] \notin {"start_login", "start_heartbeat"},
           ~jwt' => /\ ~jwt /\ callbacks' = <<>>
                    /\ client' = NoClient /\ net' = net
                    /\ pc'[p] \in BeforeLogin
    PROVE  SessionInv'
<1>1. SetupPrecedesShutdown'
  BY DEF SessionInv, SetupPrecedesShutdown, Moves, Procs
<1>2. NoRetryAfterShutdown'
  BY DEF SessionInv, NoRetryAfterShutdown
<1>3. FirstLoginOfAll'
  <2>1. \A q \in Procs \ {p} : pc'[q] = pc[q]
    BY DEF Moves
  <2> QED
    BY <2>1 DEF SessionInv, FirstLoginOfAll
<1> QED
  BY <1>1, <1>2, <1>3 DEF SessionInv

\* Beyond its first awaits, a coroutine has a token.
LEMMA TokenThere ==
    ASSUME SessionInv, NEW p \in Procs, pc[p] \notin BeforeLogin
    PROVE  jwt
BY DEF SessionInv, FirstLoginOfAll

\* The steps that connect preserve types and invariant: the TLS setup,
LEMMA TlsKeeps ==
    ASSUME TypeOK, SessionInv, NEW p \in Procs, Tls(p)
    PROVE  TypeOK' /\ SessionInv'
<1>1. arg[p] \in Clients \cup {NoClient} /\ addr \in [Clients -> 0..1]
      /\ brokerIndex \in 0..1 /\ brokers \in 1..2
  BY DEF TypeOK
<1>2. addr' \in [Clients -> 0..1]
  <2>1. (IF brokerIndex < brokers THEN brokerIndex ELSE brokers - 1) \in 0..1
    BY <1>1
  <2> QED
    BY <1>1, <2>1 DEF Tls
<1>3. Moves(p)
  BY DEF Tls, Moves, TypeOK, PCs
<1>4. TypeOK'
  BY <1>2, <1>3 DEF Tls, TypeOK, Moves
<1>5. pc[p] = "tls" /\ pc'[p] = "dial"
  BY DEF Tls, TypeOK
<1>6. jwt
  BY <1>5, TokenThere DEF BeforeLogin
<1>7. SessionInv'
  BY <1>3, <1>5, <1>6, MoveKeeps DEF Tls
<1> QED
  BY <1>4, <1>7

\* the connect that returns, raises, or is followed by the thread,
LEMMA DialKeeps ==
    ASSUME TypeOK, SessionInv, NEW p \in Procs, Dial(p) \/ DialRaises(p) \/ LoopStart(p)
    PROVE  TypeOK' /\ SessionInv'
<1>1. net' \in [Clients -> NetStates]
  BY DEF Dial, DialRaises, LoopStart, TypeOK, NetStates
<1>2. pc[p] \in {"tls", "dial", "loop_start"}
      /\ UNCHANGED <<client, connected, refusals, brokerIndex, timer, closed, jwt,
                     brokers, renewal, cred, addr, callbacks, healthy>>
  BY DEF Dial, DialRaises, LoopStart
<1>3. Moves(p) /\ pc'[p] \notin {"start_login", "start_heartbeat"}
  <2>1. CASE Dial(p)
    BY <1>1, <2>1 DEF Dial, Moves, TypeOK, PCs
  <2>2. CASE DialRaises(p) \/ LoopStart(p)
    <3>1. Finish(p)
      BY <2>2 DEF DialRaises, LoopStart
    <3> QED
      BY <1>1, <1>2, <3>1, FinishMoves DEF Moves, TypeOK, Finished
  <2> QED
    BY <2>1, <2>2
<1>4. TypeOK'
  BY <1>2, <1>3 DEF TypeOK, Moves
<1>5. jwt
  BY <1>2, TokenThere DEF BeforeLogin
<1>6. SessionInv'
  BY <1>2, <1>3, <1>5, MoveKeeps
<1> QED
  BY <1>4, <1>6

\* the first executor job of a stop,
LEMMA StopLoopKeeps ==
    ASSUME TypeOK, SessionInv, NEW p \in Procs, StopLoop(p)
    PROVE  TypeOK' /\ SessionInv'
<1> DEFINE c == arg[p]
           n == [net EXCEPT ![c] = CASE @ = "trying" -> "parked"
                                     [] @ = "up" -> "held"
                                     [] OTHER -> @]
<1>1. n \in [Clients -> NetStates]
  BY DEF TypeOK, NetStates
<1>2. /\ pc[p] = "loop_stop"
      /\ UNCHANGED <<connected, brokerIndex, timer, closed, jwt, brokers, renewal,
                     addr, callbacks, healthy>>
      /\ \/ client = NoClient /\ AfterStop(p, n) /\ AllowanceAfterStop(p)
         \/ /\ Goto(p, "disconnect", client) /\ net' = n
            /\ UNCHANGED <<client, cred, refusals>>
  BY DEF StopLoop
<1>3. jwt
  BY <1>2, TokenThere DEF BeforeLogin
<1> HIDE DEF n
<1>4. Moves(p) /\ pc'[p] \notin {"start_login", "start_heartbeat"}
  <2>1. CASE AfterStop(p, n)
    BY <1>1, <1>3, <2>1, AfterStopMoves DEF Finished, Busy
  <2>2. CASE /\ Goto(p, "disconnect", client) /\ net' = n
             /\ UNCHANGED <<client, cred, refusals>>
    <3>1. "disconnect" \in PCs /\ client \in Clients \cup {NoClient}
      BY DEF PCs, TypeOK
    <3> QED
      BY <1>1, <2>2, <3>1, GotoMoves DEF Moves, TypeOK
  <2> QED
    BY <1>2, <2>1, <2>2
<1>5. refusals' \in 0..MaxRefusals
  BY <1>2, SessionAssumption DEF AllowanceAfterStop, TypeOK
<1>6. TypeOK'
  BY <1>2, <1>4, <1>5 DEF TypeOK, Moves
<1>7. SessionInv'
  BY <1>2, <1>3, <1>4, MoveKeeps
<1> QED
  BY <1>6, <1>7

\* and its second.
LEMMA StopDisconnectKeeps ==
    ASSUME TypeOK, SessionInv, NEW p \in Procs, StopDisconnect(p)
    PROVE  TypeOK' /\ SessionInv'
<1> DEFINE n == Disconnected(net, arg[p])
<1>1. n \in [Clients -> NetStates]
  BY DEF Disconnected, TypeOK, NetStates
<1>2. /\ pc[p] = "disconnect"
      /\ UNCHANGED <<brokerIndex, timer, closed, jwt, brokers, renewal, addr,
                     callbacks, healthy>>
      /\ AfterStop(p, n) /\ AllowanceAfterStop(p) /\ OnDisconnect(arg[p])
  BY DEF StopDisconnect
<1>3. jwt
  BY <1>2, TokenThere DEF BeforeLogin
<1> HIDE DEF n
<1>4. Moves(p) /\ pc'[p] \notin {"start_login", "start_heartbeat"}
  BY <1>1, <1>2, <1>3, AfterStopMoves DEF Finished, Busy
<1>5. refusals' \in 0..MaxRefusals /\ connected' \in BOOLEAN
  <2>1. refusals' \in {0, refusals} /\ refusals \in 0..MaxRefusals
    BY <1>2 DEF AllowanceAfterStop, TypeOK
  <2>2. connected' \in BOOLEAN
    <3>1. CASE net[arg[p]] \in {"up", "held", "dialled"}
      BY <1>2, <3>1 DEF OnDisconnect, TypeOK
    <3>2. CASE net[arg[p]] \in {"trying", "parked"}
      BY <1>2, <3>2 DEF OnDisconnect, TypeOK
    <3>3. CASE net[arg[p]] \notin {"up", "held", "dialled", "trying", "parked"}
      BY <1>2, <3>3 DEF OnDisconnect, TypeOK
    <3> QED
      BY <3>1, <3>2, <3>3
  <2>3. refusals' \in 0..MaxRefusals
    BY <2>1, SessionAssumption
  <2> QED
    BY <2>2, <2>3
<1>6. TypeOK'
  BY <1>2, <1>4, <1>5 DEF TypeOK, Moves
<1>7. SessionInv'
  BY <1>2, <1>3, <1>4, MoveKeeps
<1> QED
  BY <1>6, <1>7

\* So do the logins: one that succeeds,
LEMMA LoginSucceedsKeeps ==
    ASSUME TypeOK, SessionInv, NEW p \in Procs, LoginSucceeds(p)
    PROVE  TypeOK' /\ SessionInv'
<1>1. /\ pc[p] \in {"login", "start_login"} /\ jwt' = TRUE
      /\ pc'[p] = IF pc[p] = "login" THEN "heartbeat" ELSE "start_heartbeat"
      /\ UNCHANGED <<client, connected, refusals, brokerIndex, switching, timer, closed,
                     brokers, renewal, net, addr, arg, callbacks, healthy>>
  BY DEF LoginSucceeds, TypeOK
<1>2. Moves(p)
  BY DEF LoginSucceeds, Moves, TypeOK, PCs
<1>3. TypeOK'
  BY <1>1, <1>2 DEF TypeOK, Moves
<1>4. p # "setup" => pc[p] # "start_login"
  BY DEF SessionInv, FirstLoginOfAll
<1>5. SessionInv'
  BY <1>1, <1>2, <1>4, MoveKeeps
<1> QED
  BY <1>3, <1>5

\* one that fails and may ask for a retry,
LEMMA LoginFailsKeeps ==
    ASSUME TypeOK, SessionInv, NEW p \in Procs, LoginFails(p)
    PROVE  TypeOK' /\ SessionInv'
<1>1. /\ pc[p] \in {"login", "start_login"} /\ Finish(p)
      /\ timer' \in {timer, timer \/ ~closed} /\ renewal' = (renewal \/ p = "renew")
      /\ UNCHANGED <<client, connected, refusals, brokerIndex, closed, jwt, brokers,
                     net, cred, addr, callbacks, healthy>>
  BY DEF LoginFails, ScheduleRecovery
<1>2. Moves(p) /\ pc'[p] \in {"idle", "done"}
  BY <1>1, FinishMoves DEF Moves, TypeOK, Finished
<1>3. TypeOK'
  BY <1>1, <1>2 DEF TypeOK, Moves
<1>4. ~jwt => callbacks = <<>> /\ client = NoClient
  BY DEF SessionInv, FirstLoginOfAll
<1>5. SessionInv'
  BY <1>1, <1>2, <1>4, MoveKeeps DEF BeforeLogin
<1> QED
  BY <1>3, <1>5

\* and the heartbeat that follows the first kind.
LEMMA HeartbeatKeeps ==
    ASSUME TypeOK, SessionInv, NEW p \in Procs, Heartbeat(p)
    PROVE  TypeOK' /\ SessionInv'
<1>1. /\ pc[p] \in {"heartbeat", "start_heartbeat"}
      /\ brokers' \in 1..2 /\ renewal' = TRUE
      /\ UNCHANGED <<connected, closed, jwt, addr, callbacks, healthy>>
  BY DEF Heartbeat
<1>2. jwt
  BY <1>1, TokenThere DEF BeforeLogin
<1>3. /\ Moves(p) /\ pc'[p] \notin {"start_login", "start_heartbeat"}
      /\ timer' \in {timer, FALSE}
      /\ refusals' \in 0..MaxRefusals /\ brokerIndex' \in 0..1
  <2>1. CASE Construct(p, net) /\ UNCHANGED <<refusals, brokerIndex, timer>>
    BY <2>1, ConstructMoves DEF TypeOK, Busy
  <2>2. CASE /\ UpdateCredentials /\ Finish(p)
             /\ UNCHANGED <<client, refusals, brokerIndex, timer, net>>
    <3>1. cred' \in [Clients -> BOOLEAN]
      BY <2>2 DEF UpdateCredentials, TypeOK
    <3> QED
      BY <2>2, <3>1, FinishMoves DEF TypeOK, Moves, Finished
  <2>3. CASE brokerIndex' = 0 /\ refusals' = 0 /\ Stop(p)
    <3>1. 0 \in 0..MaxRefusals /\ 0 \in 0..1
      BY SessionAssumption
    <3> QED
      BY <1>2, <2>3, <3>1, StopMoves DEF Finished, Busy
  <2>4. CASE Stop(p) /\ UNCHANGED <<refusals, brokerIndex>>
    BY <1>2, <2>4, StopMoves DEF Finished, Busy, TypeOK
  <2> QED
    BY <2>1, <2>2, <2>3, <2>4 DEF Heartbeat
<1>4. TypeOK'
  BY <1>1, <1>3 DEF TypeOK, Moves
<1>5. SessionInv'
  BY <1>1, <1>2, <1>3, MoveKeeps
<1> QED
  BY <1>4, <1>5

\* So does what begins a coroutine other than the unload,
LEMMA StartersKeep ==
    ASSUME TypeOK, SessionInv, SetupStarts \/ PollAuthenticates \/ RecoveryFires \/ RenewalFires
    PROVE  TypeOK' /\ SessionInv'
<1>0. {"setup", "poll", "recover", "renew"} \subseteq Procs
  BY DEF Procs
<1>1. CASE SetupStarts
  <2>1. /\ pc["setup"] = "idle" /\ Start("setup", net)
        /\ UNCHANGED <<connected, refusals, brokerIndex, timer, closed, jwt, brokers,
                       renewal, addr, callbacks, healthy>>
    BY <1>1 DEF SetupStarts
  <2>2. net \in [Clients -> NetStates]
    BY DEF TypeOK
  <2>3. /\ Moves("setup")
        /\ ~jwt => client' = NoClient /\ net' = net /\ pc'["setup"] \in BeforeLogin
    BY <1>0, <2>1, <2>2, StartMoves DEF Finished, BeforeLogin
  <2>4. TypeOK'
    BY <2>1, <2>3 DEF TypeOK, Moves
  <2>5. ~jwt => callbacks = <<>>
    BY DEF SessionInv, FirstLoginOfAll
  <2>6. SessionInv'
    BY <1>0, <2>1, <2>3, <2>5, MoveKeeps
  <2> QED
    BY <2>4, <2>6
<1>2. ASSUME NEW p \in {"poll", "recover", "renew"}, Awaits(p),
             timer' \in {timer, FALSE}, renewal' \in {renewal, FALSE},
             UNCHANGED <<client, connected, refusals, brokerIndex, closed, jwt, brokers,
                         net, cred, addr, callbacks, healthy>>
      PROVE  TypeOK' /\ SessionInv'
  <2>1. Goto(p, "login", NoClient) /\ "login" \in PCs
    BY <1>2 DEF Awaits, PCs
  <2>2. Moves(p) /\ pc'[p] = "login"
    BY <1>0, <1>2, <2>1, GotoMoves DEF Moves, TypeOK
  <2>3. TypeOK'
    BY <1>2, <2>2 DEF TypeOK, Moves
  <2>4. ~jwt => callbacks = <<>> /\ client = NoClient
    BY DEF SessionInv, FirstLoginOfAll
  <2>5. SessionInv'
    BY <1>0, <1>2, <2>2, <2>4, MoveKeeps DEF BeforeLogin
  <2> QED
    BY <2>3, <2>5
<1>3. CASE PollAuthenticates
  BY <1>2, <1>3 DEF PollAuthenticates
<1>4. CASE RecoveryFires
  <2>1. CASE closed
    <3>1. timer' = FALSE
          /\ UNCHANGED <<client, connected, refusals, brokerIndex, switching, closed, jwt,
                         brokers, renewal, net, cred, addr, pc, arg, callbacks, healthy>>
      BY <1>4, <2>1 DEF RecoveryFires
    <3> QED
      BY <3>1 DEF TypeOK, SessionInv, FirstLoginOfAll, SetupPrecedesShutdown,
                  NoRetryAfterShutdown
  <2>2. CASE ~closed
    BY <1>2, <1>4, <2>2 DEF RecoveryFires
  <2> QED
    BY <2>1, <2>2
<1>5. CASE RenewalFires
  BY <1>2, <1>5 DEF RenewalFires
<1> QED
  BY <1>1, <1>3, <1>4, <1>5

\* the unload, which ends what waits,
LEMMA UnloadKeeps ==
    ASSUME TypeOK, SessionInv, Unload
    PROVE  TypeOK' /\ SessionInv'
<1>1. /\ pc["setup"] = "done" /\ pc["unload"] = "idle"
      /\ renewal' = FALSE /\ closed' = TRUE /\ Stop("unload")
      /\ UNCHANGED <<connected, refusals, brokerIndex, jwt, brokers, addr, callbacks,
                     healthy>>
  BY DEF Unload
<1>2. "unload" \in Procs /\ "setup" \in Procs \ {"unload"}
  BY DEF Procs
<1>3. /\ Moves("unload") /\ timer' = FALSE
      /\ pc'["unload"] \notin {"start_login", "start_heartbeat"}
      /\ client = NoClient =>
            client' = NoClient /\ net' = net /\ pc'["unload"] \in BeforeLogin
  <2>1. Moves("unload") /\ timer' = FALSE
        /\ \/ client # NoClient /\ Busy("unload")
           \/ client' = NoClient /\ net' = net /\ Finished("unload")
    BY <1>1, <1>2, StopMoves
  <2>2. CASE client = NoClient
    <3>1. client' = NoClient /\ net' = net /\ Finished("unload")
      BY <2>1, <2>2
    <3> QED
      BY <2>1, <3>1 DEF Finished, BeforeLogin
  <2>3. CASE client # NoClient
    BY <2>1, <2>3 DEF Busy, Finished
  <2> QED
    BY <2>2, <2>3
<1>4. TypeOK'
  BY <1>1, <1>3 DEF TypeOK, Moves
<1>5. SetupPrecedesShutdown' /\ NoRetryAfterShutdown'
  BY <1>1, <1>2, <1>3 DEF SetupPrecedesShutdown, NoRetryAfterShutdown, Moves
<1>6. FirstLoginOfAll'
  BY <1>1, <1>2, <1>3 DEF SessionInv, FirstLoginOfAll, Moves
<1> QED
  BY <1>4, <1>5, <1>6 DEF SessionInv

\* a callback that paho's thread has queued,
LEMMA CallbackKeeps ==
    ASSUME TypeOK, SessionInv, RunCallback
    PROVE  TypeOK' /\ SessionInv'
<1>1. /\ callbacks # <<>> /\ callbacks' = Tail(callbacks)
      /\ UNCHANGED <<connected, brokerIndex, closed, jwt, brokers, renewal, addr, healthy>>
  BY DEF RunCallback
<1>2. jwt
  BY <1>1 DEF SessionInv, FirstLoginOfAll
<1>3. callbacks' \in Seq({"switch", "schedule"})
  BY <1>1 DEF TypeOK
<1>4. CASE ScheduleRecovery /\ UNCHANGED <<client, net, cred, pc, arg, switching, refusals>>
  <2>1. TypeOK'
    BY <1>1, <1>3, <1>4 DEF TypeOK, ScheduleRecovery
  <2>2. SessionInv'
    BY <1>1, <1>2, <1>4 DEF SessionInv, FirstLoginOfAll, SetupPrecedesShutdown,
                            NoRetryAfterShutdown, ScheduleRecovery
  <2> QED
    BY <2>1, <2>2
<1>5. CASE /\ Stop("switch")
           /\ IF client = NoClient THEN AllowanceAfterStop("switch") ELSE UNCHANGED refusals
  <2>1. "switch" \in Procs
    BY DEF Procs
  <2>2. Moves("switch") /\ timer' = FALSE
        /\ pc'["switch"] \notin {"start_login", "start_heartbeat"}
    BY <1>2, <1>5, <2>1, StopMoves DEF Finished, Busy
  <2>3. refusals' \in 0..MaxRefusals
    BY <1>5, SessionAssumption DEF AllowanceAfterStop, TypeOK
  <2>4. TypeOK'
    BY <1>1, <1>3, <2>2, <2>3 DEF TypeOK, Moves
  <2>5. SessionInv'
    BY <1>1, <1>2, <2>1, <2>2, MoveKeeps
  <2> QED
    BY <2>4, <2>5
<1> QED
  BY <1>4, <1>5 DEF RunCallback

\* What happens on the network thread, which runs no coroutine.
LEMMA ThreadKeeps ==
    ASSUME TypeOK, SessionInv, NEW c \in Clients, BrokerAnswers(c) \/ Dropped(c)
    PROVE  TypeOK' /\ SessionInv'
<1>1. /\ net[c] # "none"
      /\ UNCHANGED <<client, timer, closed, jwt, brokers, renewal, cred, addr, pc, arg,
                     healthy>>
  BY DEF BrokerAnswers, Accepted, Refused, Dropped
<1>2. jwt
  BY <1>1 DEF SessionInv, FirstLoginOfAll
<1>3. SessionInv'
  BY <1>1, <1>2 DEF SessionInv, FirstLoginOfAll, SetupPrecedesShutdown, NoRetryAfterShutdown
<1>4. TypeOK'
  <2>1. CASE Accepted(c) \/ Dropped(c)
    <3>1. refusals' \in {0, refusals} /\ connected' \in BOOLEAN
          /\ UNCHANGED <<brokerIndex, switching, callbacks>>
      BY <2>1 DEF Accepted, Dropped
    <3>2. net' \in [Clients -> NetStates]
      BY <2>1 DEF Accepted, Dropped, TypeOK, NetStates
    <3>3. refusals' \in 0..MaxRefusals
      BY <3>1, SessionAssumption DEF TypeOK
    <3> QED
      BY <1>1, <3>1, <3>2, <3>3 DEF TypeOK
  <2>2. ASSUME NEW permanent \in BOOLEAN, Refused(c, permanent)
        PROVE  TypeOK'
    <3>1. refusals' \in 0..MaxRefusals
      BY <2>2, SessionAssumption DEF Refused, TypeOK
    <3>2. connected' = FALSE
      BY <2>2 DEF Refused
    <3>3. callbacks \in Seq({"switch", "schedule"}) /\ net \in [Clients -> NetStates]
      BY DEF TypeOK
    <3>4. /\ callbacks' \in Seq({"switch", "schedule"})
          /\ net' \in [Clients -> NetStates]
          /\ brokerIndex' \in 0..1 /\ switching' \in BOOLEAN
      <4>1. CASE UNCHANGED <<brokerIndex, switching, net, callbacks>>
        BY <4>1 DEF TypeOK
      <4>2. CASE /\ AnotherBroker
                 /\ brokerIndex' = brokerIndex + 1
                 /\ switching' = TRUE
                 /\ net' = [net EXCEPT ![c] = "refused"]
                 /\ callbacks' = Append(callbacks, "switch")
        <5>1. brokerIndex' \in 0..1
          BY <4>2 DEF AnotherBroker, TypeOK
        <5>2. net' \in [Clients -> NetStates]
          BY <3>3, <4>2 DEF NetStates
        <5> QED
          BY <3>3, <4>2, <5>1, <5>2
      <4>3. CASE /\ net' = GiveUp(net)
                 /\ callbacks' = Append(callbacks, "schedule")
                 /\ UNCHANGED <<brokerIndex, switching>>
        <5>1. net' \in [Clients -> NetStates]
          BY <3>3, <4>3 DEF GiveUp, Disconnected, NetStates
        <5> QED
          BY <3>3, <4>3, <5>1 DEF TypeOK
      <4> QED
        BY <2>2, <4>1, <4>2, <4>3 DEF Refused
    <3> QED
      BY <1>1, <3>1, <3>2, <3>4 DEF TypeOK
  <2> QED
    BY <2>1, <2>2 DEF BrokerAnswers
<1> QED
  BY <1>3, <1>4

\* and what changes nothing of the session.
LEMMA RestKeeps ==
    ASSUME TypeOK, SessionInv, OutageEnds \/ UNCHANGED vars
    PROVE  TypeOK' /\ SessionInv'
<1>1. /\ healthy' \in BOOLEAN
      /\ UNCHANGED <<client, connected, refusals, brokerIndex, switching, timer, closed, jwt,
                     brokers, renewal, net, cred, addr, pc, arg, callbacks>>
  BY DEF OutageEnds, vars, TypeOK
<1>2. TypeOK'
  BY <1>1 DEF TypeOK
<1>3. SessionInv'
  BY <1>1 DEF SessionInv, FirstLoginOfAll, SetupPrecedesShutdown, NoRetryAfterShutdown
<1> QED
  BY <1>2, <1>3

\* Types and invariant hold initially,
LEMMA InitEstablishes ==
    ASSUME Init
    PROVE  TypeOK /\ SessionInv
<1>1. TypeOK
  <2>1. refusals \in 0..MaxRefusals
    BY SessionAssumption DEF Init
  <2>2. jwt \in BOOLEAN
    BY SessionAssumption DEF Init
  <2>3. net \in [Clients -> NetStates] /\ pc \in [Procs -> PCs]
    BY DEF Init, NetStates, PCs
  <2>4. /\ client \in Clients \cup {NoClient} /\ brokerIndex \in 0..1 /\ brokers \in 1..2
        /\ cred \in [Clients -> BOOLEAN] /\ addr \in [Clients -> 0..1]
        /\ arg \in [Procs -> Clients \cup {NoClient}]
        /\ callbacks \in Seq({"switch", "schedule"})
    BY DEF Init
  <2>5. /\ connected \in BOOLEAN /\ switching \in BOOLEAN /\ timer \in BOOLEAN
        /\ closed \in BOOLEAN /\ renewal \in BOOLEAN /\ healthy \in BOOLEAN
    BY DEF Init
  <2> QED
    BY <2>1, <2>2, <2>3, <2>4, <2>5 DEF TypeOK
<1>2. SessionInv
  BY DEF Init, SessionInv, FirstLoginOfAll, SetupPrecedesShutdown, NoRetryAfterShutdown,
         BeforeLogin
<1> QED
  BY <1>1, <1>2

\* every step preserves them,
LEMMA NextKeeps ==
    ASSUME TypeOK, SessionInv, [Next]_vars
    PROVE  TypeOK' /\ SessionInv'
<1>1. ASSUME NEW p \in Procs, ProcStep(p)
      PROVE  TypeOK' /\ SessionInv'
  BY <1>1, TlsKeeps, DialKeeps, StopLoopKeeps, StopDisconnectKeeps, LoginSucceedsKeeps,
     LoginFailsKeeps, HeartbeatKeeps DEF ProcStep
<1> QED
  BY <1>1, StartersKeep, UnloadKeeps, CallbackKeeps, ThreadKeeps, RestKeeps DEF Next

\* so they hold throughout.
LEMMA Invariance == Spec => [](TypeOK /\ SessionInv)
<1>1. Init => TypeOK /\ SessionInv
  BY InitEstablishes
<1>2. TypeOK /\ SessionInv /\ [Next]_vars => (TypeOK /\ SessionInv)'
  BY NextKeeps
<1> QED
  BY <1>1, <1>2, PTL DEF Spec

-----------------------------------------------------------------------------
(* The theorems.                                                           *)

\* The types: above all that the address of _brokers() the manager is at stays
\* one of the two there are, and the refusals counted stay within _MAX_REFUSALS.
THEOREM TypesHold == Spec => []TypeOK
BY Invariance, PTL

\* Once async_shutdown has run no retry is waiting, for any number of clients:
\* neither one that was armed, nor one a refusal had queued on the event loop,
\* nor one that a login failing after the unload asks for.
THEOREM ShutdownLeavesNoRetry == Spec => []NoRetryAfterShutdown
<1>1. SessionInv => NoRetryAfterShutdown
  BY DEF SessionInv
<1> QED
  BY <1>1, Invariance, PTL

\* With a token at hand and no shutdown yet, a coroutine that starts after a
\* stop may build a client; after the shutdown none does.
LEMMA OnlyTheLastClient ==
    ASSUME TypeOK, SessionInv, [Next]_vars, closed
    PROVE  client' \in {client, NoClient}
<1>0. net \in [Clients -> NetStates]
  BY DEF TypeOK
<1>1. ASSUME NEW p \in Procs, StopLoop(p)
      PROVE  client' \in {client, NoClient}
  <2> DEFINE n == [net EXCEPT ![arg[p]] = CASE @ = "trying" -> "parked"
                                            [] @ = "up" -> "held"
                                            [] OTHER -> @]
  <2>1. n \in [Clients -> NetStates]
    BY DEF TypeOK, NetStates
  <2>2. AfterStop(p, n) \/ client' = client
    BY <1>1 DEF StopLoop
  <2> HIDE DEF n
  <2> QED
    BY <2>1, <2>2, AfterStopMoves
<1>2. ASSUME NEW p \in Procs, StopDisconnect(p)
      PROVE  client' \in {client, NoClient}
  <2>1. Disconnected(net, arg[p]) \in [Clients -> NetStates]
    BY DEF Disconnected, TypeOK, NetStates
  <2>2. AfterStop(p, Disconnected(net, arg[p]))
    BY <1>2 DEF StopDisconnect
  <2> QED
    BY <2>1, <2>2, AfterStopMoves
<1>3. ASSUME NEW p \in Procs, Stop(p)
      PROVE  client' \in {client, NoClient}
  BY <1>3, StopMoves
<1>4. ASSUME NEW p \in Procs, Heartbeat(p)
      PROVE  client' \in {client, NoClient}
  <2>1. pc[p] # "start_heartbeat"
    BY DEF SessionInv, FirstLoginOfAll, SetupPrecedesShutdown
  <2> QED
    BY <1>3, <1>4, <2>1 DEF Heartbeat
<1>5. ASSUME NEW p \in Procs, ProcStep(p)
      PROVE  client' \in {client, NoClient}
  BY <1>1, <1>2, <1>4, <1>5
     DEF ProcStep, Tls, Dial, DialRaises, LoopStart, LoginSucceeds, LoginFails
<1>6. CASE SetupStarts
  BY <1>0, <1>6, StartMoves DEF SetupStarts, Procs
<1>7. CASE Unload \/ RunCallback
  BY <1>3, <1>7 DEF Unload, RunCallback, Procs
<1>8. CASE PollAuthenticates \/ RecoveryFires \/ RenewalFires \/ OutageEnds \/ UNCHANGED vars
  BY <1>8 DEF PollAuthenticates, RecoveryFires, RenewalFires, OutageEnds, vars
<1>9. ASSUME NEW c \in Clients, BrokerAnswers(c) \/ Dropped(c)
      PROVE  client' \in {client, NoClient}
  BY <1>9 DEF BrokerAnswers, Accepted, Refused, Dropped
<1> QED
  BY <1>5, <1>6, <1>7, <1>8, <1>9 DEF Next

\* After async_shutdown no step of any coroutine, callback or thread builds a
\* client, whatever login, stop or switch of broker the shutdown ran into.
THEOREM NoClientAfterShutdown == Spec => NoClientBuiltAfterShutdown
<1>1. TypeOK /\ SessionInv /\ [Next]_vars => [closed => client' \in {client, NoClient}]_vars
  BY OnlyTheLastClient
<1> QED
  BY <1>1, Invariance, PTL DEF Spec, NoClientBuiltAfterShutdown

-----------------------------------------------------------------------------
(* The flag, however the restarts overlap.                                 *)

Connected(c) == net[c] \in {"up", "held"}

\* Coroutines that connect work on clients of their own, not connected yet.
Builders ==
    /\ \A p \in Procs : pc[p] \in {"tls", "dial"} => arg[p] \in Clients /\ net[arg[p]] = "made"
    /\ \A p, q \in Procs :
        pc[p] \in {"tls", "dial"} /\ pc[q] \in {"tls", "dial"} /\ arg[p] = arg[q] => p = q

FlagInv == Builders /\ FlagNeedsConnection

\* What a coroutine that stops or starts does to the clients the others connect:
\* nothing, and the client it builds is not theirs.
Spares(p) ==
    /\ \A q \in Procs : q # p => pc'[q] = pc[q] /\ arg'[q] = arg[q]
    /\ \A d \in Clients : net[d] = "made" => net'[d] = "made"
    /\ pc'[p] \in {"tls", "dial"} => \E c \in Clients : Free(c) /\ arg'[p] = c /\ net'[c] = "made"

\* So the builders keep apart.
LEMMA SparesBuilders ==
    ASSUME TypeOK, Builders, NEW p \in Procs, Spares(p)
    PROVE  Builders'
<1>1. ASSUME NEW q \in Procs, pc'[q] \in {"tls", "dial"}
      PROVE  arg'[q] \in Clients /\ net'[arg'[q]] = "made"
  BY <1>1 DEF Spares, Builders
<1>2. ASSUME NEW q \in Procs, q # p, pc'[q] \in {"tls", "dial"}, pc'[p] \in {"tls", "dial"}
      PROVE  arg'[q] # arg'[p]
  BY <1>2 DEF Spares, Builders, Free
<1>3. ASSUME NEW q \in Procs, NEW r \in Procs, pc'[q] \in {"tls", "dial"},
             pc'[r] \in {"tls", "dial"}, arg'[q] = arg'[r]
      PROVE  q = r
  <2>1. CASE q = p \/ r = p
    BY <1>2, <1>3, <2>1
  <2>2. CASE q # p /\ r # p
    BY <1>3, <2>2 DEF Spares, Builders
  <2> QED
    BY <2>1, <2>2
<1> QED
  BY <1>1, <1>3 DEF Builders

\* A step without a change to any client or coroutine spares all,
LEMMA FinishSpares ==
    ASSUME TypeOK, NEW p \in Procs, Finish(p),
           \A d \in Clients : net[d] = "made" => net'[d] = "made"
    PROVE  Spares(p)
BY DEF Finish, TypeOK, Spares

\* as does one that goes on to an await other than that of the TLS setup,
LEMMA GotoSpares ==
    ASSUME TypeOK, NEW p \in Procs, NEW label \in PCs \ {"tls", "dial"}, NEW c, Goto(p, label, c),
           \A d \in Clients : net[d] = "made" => net'[d] = "made"
    PROVE  Spares(p)
BY DEF Goto, TypeOK, Spares

\* and one that builds a client of its own.
LEMMA ConstructSpares ==
    ASSUME TypeOK, NEW p \in Procs, NEW n \in [Clients -> NetStates], Construct(p, n),
           \A d \in Clients : net[d] = "made" => n[d] = "made"
    PROVE  Spares(p) /\ \A d \in Clients : net[d] # "none" => net'[d] = n[d]
<1>1. PICK c \in Clients : /\ Free(c)
                           /\ net' = [n EXCEPT ![c] = "made"]
                           /\ Goto(p, "tls", c)
  BY DEF Construct
<1>2. net'[c] = "made" /\ \A d \in Clients : d # c => net'[d] = n[d]
  BY <1>1
<1>3. /\ \A q \in Procs : q # p => pc'[q] = pc[q] /\ arg'[q] = arg[q]
      /\ arg'[p] = c
  BY <1>1 DEF Goto, TypeOK
<1>4. net[c] = "none"
  BY <1>1 DEF Free
<1> QED
  BY <1>1, <1>2, <1>3, <1>4 DEF Spares

\* So what follows a stop leaves the other clients as the stop did,
LEMMA StartSpares ==
    ASSUME TypeOK, NEW p \in Procs, NEW n \in [Clients -> NetStates], Start(p, n),
           \A d \in Clients : net[d] = "made" => n[d] = "made"
    PROVE  Spares(p) /\ \A d \in Clients : net[d] # "none" => net'[d] = n[d]
<1>1. CASE Finish(p) /\ net' = n
  BY <1>1, FinishSpares
<1>2. CASE Goto(p, "start_login", NoClient) /\ net' = n
  <2>1. "start_login" \in PCs \ {"tls", "dial"}
    BY DEF PCs
  <2> QED
    BY <1>2, <2>1, GotoSpares
<1>3. CASE Construct(p, n)
  BY <1>3, ConstructSpares
<1> QED
  BY <1>1, <1>2, <1>3 DEF Start

\* whichever coroutine stopped,
LEMMA AfterStopSpares ==
    ASSUME TypeOK, NEW p \in Procs, NEW n \in [Clients -> NetStates], AfterStop(p, n),
           \A d \in Clients : net[d] = "made" => n[d] = "made"
    PROVE  Spares(p) /\ \A d \in Clients : net[d] # "none" => net'[d] = n[d]
<1>1. CASE p = "unload"
  BY <1>1, FinishSpares DEF AfterStop
<1>2. CASE p # "unload"
  BY <1>2, StartSpares DEF AfterStop
<1> QED
  BY <1>1, <1>2

\* and a stop by itself changes no connection.
LEMMA StopSpares ==
    ASSUME TypeOK, NEW p \in Procs, Stop(p)
    PROVE  Spares(p) /\ \A d \in Clients : net[d] # "none" => net'[d] = net[d]
<1>0. net \in [Clients -> NetStates] /\ "loop_stop" \in PCs \ {"tls", "dial"}
  BY DEF TypeOK, PCs
<1>1. CASE client = NoClient
  BY <1>0, <1>1, AfterStopSpares DEF Stop
<1>2. CASE Goto(p, "loop_stop", client) /\ net' = net
  BY <1>0, <1>2, GotoSpares
<1> QED
  BY <1>1, <1>2 DEF Stop

\* A step that sets no flag and ends no connection.
LEMMA FlagStays ==
    ASSUME FlagNeedsConnection, connected' => connected,
           \A d \in Clients : Connected(d) => Connected(d)'
    PROVE  FlagNeedsConnection'
BY DEF FlagNeedsConnection, Connected

\* The steps preserve the flag's invariant: those that connect a client, which is
\* not connected before,
LEMMA ConnectingFlag ==
    ASSUME TypeOK, FlagInv, NEW p \in Procs,
           Tls(p) \/ Dial(p) \/ DialRaises(p) \/ LoopStart(p)
    PROVE  FlagInv'
<1>0. net \in [Clients -> NetStates] /\ pc \in [Procs -> PCs]
      /\ arg \in [Procs -> Clients \cup {NoClient}] /\ Builders /\ FlagNeedsConnection
  BY DEF TypeOK, FlagInv
<1>1. CASE Tls(p)
  <2>1. /\ pc[p] = "tls" /\ pc' = [pc EXCEPT ![p] = "dial"]
        /\ UNCHANGED <<connected, net, arg>>
    BY <1>1 DEF Tls
  <2>2. Builders'
    BY <1>0, <2>1 DEF Builders
  <2> QED
    BY <1>0, <2>1, <2>2 DEF FlagInv, FlagNeedsConnection
<1>2. CASE Dial(p) \/ DialRaises(p)
  <2>1. /\ pc[p] \in {"tls", "dial"} /\ connected' = connected
        /\ \/ net' = [net EXCEPT ![arg[p]] = "dialled"]
           \/ net' = [net EXCEPT ![arg[p]] = "none"]
    BY <1>2 DEF Dial, DialRaises
  <2>2. /\ pc'[p] \notin {"tls", "dial"}
        /\ \A q \in Procs : q # p => pc'[q] = pc[q] /\ arg'[q] = arg[q]
    BY <1>0, <1>2 DEF Dial, DialRaises, Finish
  <2>3. arg[p] \in Clients /\ net[arg[p]] = "made"
    BY <1>0, <2>1 DEF Builders
  <2>4. \A d \in Clients : d # arg[p] => net'[d] = net[d]
    BY <1>0, <2>1
  <2>5. Builders'
    <3>1. \A q \in Procs : q # p /\ pc[q] \in {"tls", "dial"} => arg[q] # arg[p]
      BY <1>0, <2>1 DEF Builders
    <3> QED
      BY <1>0, <2>2, <2>4, <3>1 DEF Builders
  <2>6. FlagNeedsConnection'
    BY <1>0, <2>1, <2>3, <2>4, FlagStays DEF Connected
  <2> QED
    BY <2>5, <2>6 DEF FlagInv
<1>3. CASE LoopStart(p)
  <2>1. /\ connected' = connected /\ Finish(p)
        /\ \A d \in Clients : net'[d] = net[d] \/ net[d] = "dialled"
    BY <1>0, <1>3 DEF LoopStart
  <2>2. Spares(p)
    BY <2>1, FinishSpares
  <2> QED
    BY <1>0, <2>1, <2>2, SparesBuilders, FlagStays DEF FlagInv, Connected
<1> QED
  BY <1>1, <1>2, <1>3

\* those that stop one, the second of which clears the flag with the connection,
LEMMA StoppingFlag ==
    ASSUME TypeOK, FlagInv, NEW p \in Procs, StopLoop(p) \/ StopDisconnect(p)
    PROVE  FlagInv'
<1>0. net \in [Clients -> NetStates] /\ connected \in BOOLEAN /\ Builders /\ FlagNeedsConnection
  BY DEF TypeOK, FlagInv
<1>1. CASE StopLoop(p)
  <2> DEFINE n == [net EXCEPT ![arg[p]] = CASE @ = "trying" -> "parked"
                                            [] @ = "up" -> "held"
                                            [] OTHER -> @]
  <2>1. /\ n \in [Clients -> NetStates]
        /\ \A d \in Clients : /\ net[d] = "made" => n[d] = "made"
                              /\ Connected(d) => n[d] \in {"up", "held"}
    BY <1>0 DEF NetStates, Connected
  <2>2. /\ connected' = connected
        /\ AfterStop(p, n) \/ (Goto(p, "disconnect", client) /\ net' = n)
    BY <1>1 DEF StopLoop
  <2> HIDE DEF n
  <2>3. Spares(p) /\ \A d \in Clients : net[d] # "none" => net'[d] = n[d]
    <3>1. "disconnect" \in PCs \ {"tls", "dial"}
      BY DEF PCs
    <3> QED
      BY <2>1, <2>2, <3>1, AfterStopSpares, GotoSpares
  <2> QED
    BY <1>0, <2>1, <2>2, <2>3, SparesBuilders, FlagStays DEF FlagInv, Connected
<1>2. CASE StopDisconnect(p)
  <2> DEFINE n == Disconnected(net, arg[p])
  <2>1. /\ n \in [Clients -> NetStates]
        /\ \A d \in Clients : /\ net[d] = "made" => n[d] = "made"
                              /\ d # arg[p] => n[d] = net[d]
    BY <1>0 DEF Disconnected, NetStates
  <2>2. AfterStop(p, n) /\ OnDisconnect(arg[p])
    BY <1>2 DEF StopDisconnect
  <2> HIDE DEF n
  <2>3. Spares(p) /\ \A d \in Clients : net[d] # "none" => net'[d] = n[d]
    BY <2>1, <2>2, AfterStopSpares
  <2>4. connected' => connected /\ ~Connected(arg[p])
    <3>1. CASE net[arg[p]] \in {"up", "held", "dialled"}
      BY <2>2, <3>1 DEF OnDisconnect
    <3>2. CASE net[arg[p]] \in {"trying", "parked"}
      BY <2>2, <3>2 DEF OnDisconnect, Connected
    <3>3. CASE net[arg[p]] \notin {"up", "held", "dialled", "trying", "parked"}
      BY <2>2, <3>3 DEF OnDisconnect, Connected
    <3> QED
      BY <3>1, <3>2, <3>3
  <2>5. FlagNeedsConnection'
    BY <1>0, <2>1, <2>3, <2>4 DEF FlagNeedsConnection, Connected
  <2> QED
    BY <1>0, <2>3, <2>5, SparesBuilders DEF FlagInv
<1> QED
  BY <1>1, <1>2

\* those of the logins and of what begins a coroutine,
LEMMA CoroutineFlag ==
    ASSUME TypeOK, FlagInv,
           \/ \E p \in Procs : LoginSucceeds(p) \/ LoginFails(p) \/ Heartbeat(p)
           \/ SetupStarts \/ PollAuthenticates \/ RecoveryFires \/ RenewalFires
           \/ Unload \/ RunCallback
    PROVE  FlagInv'
<1>0. /\ net \in [Clients -> NetStates] /\ pc \in [Procs -> PCs]
      /\ Builders /\ FlagNeedsConnection /\ connected' = connected
      /\ {"setup", "poll", "recover", "switch", "renew", "unload"} \subseteq Procs
  BY DEF TypeOK, FlagInv, Procs, LoginSucceeds, LoginFails, Heartbeat, SetupStarts,
         PollAuthenticates, RecoveryFires, RenewalFires, Unload, RunCallback
<1>1. ASSUME NEW p \in Procs, Spares(p), \A d \in Clients : net[d] # "none" => net'[d] = net[d]
      PROVE  FlagInv'
  BY <1>0, <1>1, SparesBuilders, FlagStays DEF FlagInv, Connected
<1>2. ASSUME UNCHANGED <<net, pc, arg>>
      PROVE  FlagInv'
  BY <1>0, <1>2 DEF FlagInv, Builders, FlagNeedsConnection
<1>3. ASSUME NEW p \in Procs, Stop(p)
      PROVE  FlagInv'
  BY <1>1, <1>3, StopSpares
<1>4. ASSUME NEW p \in Procs, Awaits(p), net' = net
      PROVE  FlagInv'
  <2>1. "login" \in PCs \ {"tls", "dial"}
    BY DEF PCs
  <2> QED
    BY <1>1, <1>4, <2>1, GotoSpares DEF Awaits
<1>5. ASSUME NEW p \in Procs, LoginSucceeds(p)
      PROVE  FlagInv'
  <2>1. pc'[p] \notin {"tls", "dial"} /\ \A q \in Procs : q # p => pc'[q] = pc[q]
    BY <1>0, <1>5 DEF LoginSucceeds
  <2> QED
    BY <1>1, <1>5, <2>1 DEF LoginSucceeds, Spares
<1>6. ASSUME NEW p \in Procs, LoginFails(p)
      PROVE  FlagInv'
  BY <1>1, <1>6, FinishSpares DEF LoginFails
<1>7. ASSUME NEW p \in Procs, Heartbeat(p)
      PROVE  FlagInv'
  <2>1. CASE Construct(p, net)
    BY <1>0, <1>1, <2>1, ConstructSpares
  <2>2. CASE Finish(p) /\ net' = net
    BY <1>1, <2>2, FinishSpares
  <2> QED
    BY <1>3, <1>7, <2>1, <2>2 DEF Heartbeat
<1>8. CASE SetupStarts
  BY <1>0, <1>1, <1>8, StartSpares DEF SetupStarts
<1>9. CASE PollAuthenticates \/ RecoveryFires \/ RenewalFires
  BY <1>0, <1>2, <1>4, <1>9 DEF PollAuthenticates, RecoveryFires, RenewalFires
<1>10. CASE Unload \/ RunCallback
  BY <1>0, <1>2, <1>3, <1>10 DEF Unload, RunCallback
<1> QED
  BY <1>5, <1>6, <1>7, <1>8, <1>9, <1>10

\* and those of the network threads, which set the flag with a connection and
\* clear it with any refusal or drop.
LEMMA ThreadFlag ==
    ASSUME TypeOK, FlagInv, NEW c \in Clients, BrokerAnswers(c) \/ Dropped(c)
    PROVE  FlagInv'
<1>0. net \in [Clients -> NetStates] /\ Builders /\ UNCHANGED <<pc, arg>>
  BY DEF TypeOK, FlagInv, BrokerAnswers, Accepted, Refused, Dropped
<1>1. CASE Accepted(c)
  <2>1. net'[c] = "up" /\ \A d \in Clients : net[d] = "made" => net'[d] = "made"
    BY <1>0, <1>1 DEF Accepted
  <2> QED
    BY <1>0, <2>1 DEF FlagInv, Builders, FlagNeedsConnection
<1>2. CASE Dropped(c) \/ \E permanent \in BOOLEAN : Refused(c, permanent)
  <2>1. /\ connected' = FALSE
        /\ net[c] \in {"up", "trying"}
        /\ \/ net' = net \/ net' = [net EXCEPT ![c] = "trying"]
           \/ net' = [net EXCEPT ![c] = "refused"] \/ net' = GiveUp(net)
    BY <1>2 DEF Dropped, Refused
  <2>2. \A d \in Clients : net[d] = "made" => net'[d] = "made"
    BY <1>0, <2>1 DEF GiveUp, Disconnected
  <2> QED
    BY <1>0, <2>1, <2>2 DEF FlagInv, Builders, FlagNeedsConnection
<1> QED
  BY <1>1, <1>2 DEF BrokerAnswers

\* However setup, polls, recoveries, switches, renewals and the unload overlap,
\* whenever the flag says connected some client has a connection that nobody has
\* closed: on_disconnect of the last one clears the flag, whoever set it.
THEOREM FlagHasAConnection == Spec => []FlagNeedsConnection
<1>1. Init => FlagInv
  BY DEF Init, FlagInv, Builders, FlagNeedsConnection
<1>2. TypeOK /\ FlagInv /\ [Next]_vars => FlagInv'
  <2> SUFFICES ASSUME TypeOK, FlagInv, [Next]_vars
               PROVE  FlagInv'
    OBVIOUS
  <2>1. CASE OutageEnds \/ UNCHANGED vars
    <3>1. UNCHANGED <<connected, net, pc, arg>>
      BY <2>1 DEF OutageEnds, vars
    <3> QED
      BY <3>1 DEF FlagInv, Builders, FlagNeedsConnection
  <2> QED
    BY <2>1, ConnectingFlag, StoppingFlag, CoroutineFlag, ThreadFlag DEF Next, ProcStep
<1>3. FlagInv => FlagNeedsConnection
  BY DEF FlagInv
<1> QED
  BY <1>1, <1>2, <1>3, Invariance, PTL DEF Spec
=============================================================================
