--------------------------- MODULE OneSessionProofs ---------------------------
(***************************************************************************)
(* One session, for any set of clients. With a token from the start, one   *)
(* thing at a time works on the connection until the shutdown: the setup,  *)
(* a client that is connected or trying, what a refusal has queued, the    *)
(* retry that waits, a recovery or a switch. A start that raises ends the  *)
(* chain, with nothing at work. The shutdown is the only thing that comes  *)
(* between, and after it nothing opens a further connection; if it meets   *)
(* no start under way, nothing is left when it returns.                    *)
(***************************************************************************)
EXTENDS MqttSessionProofs, FiniteSetTheorems

\* What the overlap run relaxes: a poll that finds no token logs in beside the
\* setup's start.
Smooth == ~FirstPollFailed

Starters == {"setup", "recover", "switch"}

Building(p) == pc[p] \in {"tls", "dial", "loop_start"}

\* Where each coroutine can be when the token is there from the start.
Whereabouts ==
    /\ jwt
    /\ pc["setup"] \in {"idle", "tls", "dial", "loop_start", "done"}
    /\ pc["recover"] \in {"idle", "login", "heartbeat", "loop_stop", "disconnect",
                          "tls", "dial", "loop_start"}
    /\ pc["switch"] \in {"idle", "loop_stop", "disconnect", "tls", "dial", "loop_start"}
    /\ pc["renew"] \in {"idle", "login", "heartbeat"}
    /\ pc["poll"] = "idle"
    /\ pc["unload"] \in {"idle", "loop_stop", "disconnect", "done"}
    /\ pc["unload"] # "idle" => closed

\* At most one client is in use and at most one start is under way, on a client
\* that is not connected yet.
Singles ==
    /\ \A c, d \in Clients : net[c] # "none" /\ net[d] # "none" => c = d
    /\ \A p, q \in Procs : Building(p) /\ Building(q) => p = q
    /\ \A p \in Procs : Building(p) => arg[p] \in Clients
    /\ \A p \in Procs : pc[p] \in {"tls", "dial"} => net[arg[p]] = "made"

Quiet == ~timer /\ callbacks = <<>>

\* One thing at a time.
OneAtWork ==
    /\ pc["setup"] # "done" => Quiet /\ pc["recover"] = "idle" /\ pc["switch"] = "idle"
    /\ pc["recover"] # "idle" => Quiet /\ pc["switch"] = "idle"
    /\ pc["switch"] # "idle" => Quiet
    /\ timer => callbacks = <<>>
    /\ callbacks \in {<<>>, <<"switch">>, <<"schedule">>}

\* Whatever it is works on the manager's client, and how far that has got.
OnTheClient ==
    /\ pc["setup"] = "idle" <=> client = NoClient
    /\ \A c \in Clients : net[c] # "none" => c = client
    /\ \A p \in Starters :
        /\ pc[p] \in {"tls", "dial"} => arg[p] = client /\ net[client] = "made"
        /\ pc[p] = "loop_start" => arg[p] = client /\ net[client] = "dialled"
        /\ pc[p] \in {"loop_stop", "disconnect"} =>
               arg[p] = client /\ net[client] \in {"none", "refused"}
    /\ pc["recover"] \in {"login", "heartbeat"} => net[client] = "none"
    /\ timer \/ callbacks = <<"schedule">> => net[client] = "none"
    /\ callbacks = <<"switch">> => net[client] = "refused"

\* A client that has not been refused has the token, or is about to be given it.
TokenGiven ==
    \A c \in Clients : net[c] \in {"made", "dialled", "trying", "up"} =>
        cred[c] \/ pc["renew"] = "heartbeat"

ConnectionInv ==
    /\ Smooth
    /\ Whereabouts
    /\ Singles
    /\ ~closed => OneAtWork /\ OnTheClient /\ TokenGiven

\* A step that opens nothing.
LEMMA SinglesStay ==
    ASSUME Singles,
           \A c \in Clients : net'[c] # "none" => net[c] # "none",
           \A p \in Procs : Building(p)' => Building(p) /\ arg'[p] = arg[p],
           \A p \in Procs : pc'[p] \in {"tls", "dial"} =>
                pc[p] \in {"tls", "dial"} /\ net'[arg[p]] = "made"
    PROVE  Singles'
BY DEF Singles, Building

\* A live client is the manager's, and nothing else is at work.
LEMMA LiveAlone ==
    ASSUME TypeOK, ConnectionInv, ~closed, NEW c \in Clients, Live(c)
    PROVE  /\ c = client /\ Quiet
           /\ pc["setup"] = "done" /\ pc["recover"] = "idle" /\ pc["switch"] = "idle"
<1>1. net[c] \in {"trying", "up"}
  BY DEF Live
<1>2. OneAtWork /\ OnTheClient /\ Whereabouts
  BY DEF ConnectionInv
<1>3. c = client /\ client # NoClient
  BY <1>1, <1>2, SessionAssumption DEF OnTheClient
<1>4. pc["setup"] = "done"
  BY <1>1, <1>2, <1>3 DEF OnTheClient, Whereabouts, Starters
<1>5. pc["recover"] = "idle" /\ pc["switch"] = "idle"
  BY <1>1, <1>2, <1>3 DEF OnTheClient, Whereabouts, Starters
<1>6. Quiet
  BY <1>1, <1>2, <1>3 DEF OnTheClient, OneAtWork, Quiet
<1> QED
  BY <1>3, <1>4, <1>5, <1>6

\* Each step preserves the invariant: the TLS setup of the one start,
LEMMA TlsOne ==
    ASSUME TypeOK, ConnectionInv, NEW p \in Procs, Tls(p)
    PROVE  ConnectionInv'
<1>0. pc[p] = "tls" /\ pc' = [pc EXCEPT ![p] = "dial"] /\ pc \in [Procs -> PCs]
      /\ UNCHANGED <<client, timer, closed, jwt, net, cred, arg, callbacks>>
  BY DEF Tls, TypeOK
<1>1. Whereabouts'
  BY <1>0 DEF ConnectionInv, Whereabouts, Procs
<1>2. Singles'
  BY <1>0 DEF ConnectionInv, Singles, Building
<1>3. ASSUME ~closed
      PROVE  OneAtWork' /\ OnTheClient' /\ TokenGiven'
  <2>1. OneAtWork /\ OnTheClient /\ TokenGiven /\ Whereabouts
    BY <1>3 DEF ConnectionInv
  <2>2. p \in Starters
    BY <1>0, <2>1 DEF Whereabouts, Procs, Starters
  <2>3. OneAtWork'
    BY <1>0, <2>1, <2>2 DEF OneAtWork, Quiet, Starters, Procs
  <2>4. OnTheClient'
    BY <1>0, <2>1, <2>2 DEF OnTheClient, Starters, Procs
  <2>5. TokenGiven'
    BY <1>0, <2>1, <2>2 DEF TokenGiven, Starters, Procs
  <2> QED
    BY <2>3, <2>4, <2>5
<1> QED
  BY <1>0, <1>1, <1>2, <1>3 DEF ConnectionInv, Smooth

\* its connect,
LEMMA DialOne ==
    ASSUME TypeOK, ConnectionInv, NEW p \in Procs, Dial(p)
    PROVE  ConnectionInv'
<1>0. /\ pc[p] = "dial" /\ pc' = [pc EXCEPT ![p] = "loop_start"] /\ pc \in [Procs -> PCs]
      /\ net' = [net EXCEPT ![arg[p]] = "dialled"] /\ net \in [Clients -> NetStates]
      /\ UNCHANGED <<client, timer, closed, jwt, cred, arg, callbacks>>
  BY DEF Dial, TypeOK
<1>00. arg[p] \in Clients /\ net[arg[p]] = "made" /\ Singles /\ Whereabouts
  BY <1>0 DEF ConnectionInv, Singles, Building
<1>1. Whereabouts'
  BY <1>0 DEF ConnectionInv, Whereabouts, Procs
<1>2. Singles'
  <2>1. \A q \in Procs : q # p => ~Building(q)
    BY <1>0, <1>00 DEF Singles, Building
  <2>2. \A c \in Clients : net'[c] # "none" => net[c] # "none"
    BY <1>0, <1>00
  <2>3. \A q \in Procs : Building(q)' => Building(q) /\ arg'[q] = arg[q]
    BY <1>0, <2>1 DEF Building
  <2>4. \A q \in Procs : pc'[q] \notin {"tls", "dial"}
    BY <1>0, <2>1 DEF Building
  <2> QED
    BY <1>00, <2>2, <2>3, <2>4, SinglesStay
<1>3. ASSUME ~closed
      PROVE  OneAtWork' /\ OnTheClient' /\ TokenGiven'
  <2>1. OneAtWork /\ OnTheClient /\ TokenGiven
    BY <1>3 DEF ConnectionInv
  <2>2. p \in Starters
    BY <1>0, <1>00 DEF Whereabouts, Procs, Starters
  <2>3. OneAtWork'
    BY <1>0, <2>1, <2>2 DEF OneAtWork, Quiet, Starters, Procs
  <2>4. client = arg[p] /\ ~timer /\ callbacks = <<>>
    BY <1>0, <1>00, <2>1, <2>2 DEF OnTheClient, OneAtWork, Quiet, Starters
  <2>5. \A q \in Starters : q # p => pc[q] \in {"idle", "done"}
    BY <1>0, <1>00, <2>1, <2>2 DEF OneAtWork, Whereabouts, Starters
  <2>6. OnTheClient'
    <3>1. net'[client] = "dialled" /\ \A c \in Clients : c # client => net'[c] = net[c]
      BY <1>0, <1>00, <2>4
    <3> QED
      BY <1>0, <1>00, <2>1, <2>2, <2>4, <2>5, <3>1 DEF OnTheClient, Starters, Procs
  <2>7. TokenGiven'
    BY <1>0, <1>00, <2>1, <2>2 DEF TokenGiven, Starters, Procs
  <2> QED
    BY <2>3, <2>6, <2>7
<1> QED
  BY <1>0, <1>1, <1>2, <1>3 DEF ConnectionInv, Smooth

\* the thread it starts,
LEMMA LoopStartOne ==
    ASSUME TypeOK, ConnectionInv, NEW p \in Procs, LoopStart(p)
    PROVE  ConnectionInv'
<1>0. /\ pc[p] = "loop_start" /\ Finish(p)
      /\ net' = IF net[arg[p]] = "dialled" THEN [net EXCEPT ![arg[p]] = "trying"] ELSE net
      /\ pc \in [Procs -> PCs] /\ net \in [Clients -> NetStates]
      /\ UNCHANGED <<client, timer, closed, jwt, cred, callbacks>>
  BY DEF LoopStart, TypeOK
<1>00. arg[p] \in Clients /\ Singles /\ Whereabouts
  BY <1>0 DEF ConnectionInv, Singles, Building
<1>01. /\ pc' = [pc EXCEPT ![p] = IF p = "setup" THEN "done" ELSE "idle"]
       /\ \A q \in Procs \ {p} : arg'[q] = arg[q]
       /\ p \in Starters
  BY <1>0, <1>00 DEF Finish, TypeOK, Whereabouts, Starters, Procs
<1>1. Whereabouts'
  BY <1>0, <1>00, <1>01 DEF Whereabouts, Procs, Starters
<1>2. Singles'
  <2>1. \A q \in Procs : q # p => ~Building(q)
    BY <1>0, <1>00 DEF Singles, Building
  <2>2. \A c \in Clients : net'[c] # "none" => net[c] # "none"
    BY <1>0, <1>00
  <2>3. \A q \in Procs : ~Building(q)'
    BY <1>0, <1>01, <2>1 DEF Building
  <2>4. \A q \in Procs : pc'[q] \notin {"tls", "dial"}
    BY <2>3 DEF Building
  <2> QED
    BY <1>00, <2>2, <2>3, <2>4, SinglesStay
<1>3. ASSUME ~closed
      PROVE  OneAtWork' /\ OnTheClient' /\ TokenGiven'
  <2>1. OneAtWork /\ OnTheClient /\ TokenGiven
    BY <1>3 DEF ConnectionInv
  <2>2. client = arg[p] /\ ~timer /\ callbacks = <<>> /\ net[client] = "dialled"
    BY <1>0, <1>00, <1>01, <2>1 DEF OnTheClient, OneAtWork, Quiet, Starters
  <2>3. \A q \in Starters : q # p => pc[q] \in {"idle", "done"}
    BY <1>0, <1>00, <1>01, <2>1 DEF OneAtWork, Whereabouts, Starters
  <2>4. pc'["setup"] = "done" /\ pc'["recover"] = "idle" /\ pc'["switch"] = "idle"
    <3>1. pc["setup"] # "idle"
      BY <1>0, <1>00, <1>01, <2>1 DEF OneAtWork, Starters
    <3> QED
      BY <1>0, <1>00, <1>01, <2>3, <3>1 DEF Starters, Procs, Whereabouts
  <2>5. net'[client] = "trying" /\ \A c \in Clients : c # client => net'[c] = net[c]
    BY <1>0, <1>00, <2>2
  <2>6. OneAtWork'
    BY <1>0, <2>2, <2>4 DEF OneAtWork, Quiet
  <2>7. OnTheClient'
    BY <1>0, <1>00, <2>1, <2>2, <2>4, <2>5, SessionAssumption DEF OnTheClient, Starters
  <2>8. TokenGiven'
    <3>1. pc'["renew"] = pc["renew"]
      BY <1>0, <1>01 DEF Starters, Procs
    <3> QED
      BY <1>0, <1>00, <2>1, <2>2, <2>5, <3>1 DEF TokenGiven
  <2> QED
    BY <2>6, <2>7, <2>8
<1> QED
  BY <1>0, <1>1, <1>2, <1>3 DEF ConnectionInv, Smooth

\* or the exception of either, after which nothing is at work,
LEMMA DialRaisesOne ==
    ASSUME TypeOK, ConnectionInv, NEW p \in Procs, DialRaises(p)
    PROVE  ConnectionInv'
<1>0. /\ pc[p] \in {"tls", "dial"} /\ Finish(p)
      /\ net' = [net EXCEPT ![arg[p]] = "none"]
      /\ pc \in [Procs -> PCs] /\ net \in [Clients -> NetStates]
      /\ UNCHANGED <<client, timer, closed, jwt, cred, callbacks>>
  BY DEF DialRaises, TypeOK
<1>00. arg[p] \in Clients /\ Singles /\ Whereabouts
  BY <1>0 DEF ConnectionInv, Singles, Building
<1>01. /\ pc' = [pc EXCEPT ![p] = IF p = "setup" THEN "done" ELSE "idle"]
       /\ \A q \in Procs \ {p} : arg'[q] = arg[q]
       /\ p \in Starters
  BY <1>0, <1>00 DEF Finish, TypeOK, Whereabouts, Starters, Procs
<1>1. Whereabouts'
  BY <1>0, <1>00, <1>01 DEF Whereabouts, Procs, Starters
<1>2. Singles'
  <2>1. \A q \in Procs : q # p => ~Building(q)
    BY <1>0, <1>00 DEF Singles, Building
  <2>2. \A c \in Clients : net'[c] # "none" => net[c] # "none"
    BY <1>0, <1>00
  <2>3. \A q \in Procs : ~Building(q)'
    BY <1>0, <1>01, <2>1 DEF Building
  <2>4. \A q \in Procs : pc'[q] \notin {"tls", "dial"}
    BY <2>3 DEF Building
  <2> QED
    BY <1>00, <2>2, <2>3, <2>4, SinglesStay
<1>3. ASSUME ~closed
      PROVE  OneAtWork' /\ OnTheClient' /\ TokenGiven'
  <2>1. OneAtWork /\ OnTheClient /\ TokenGiven
    BY <1>3 DEF ConnectionInv
  <2>2. client = arg[p] /\ ~timer /\ callbacks = <<>>
    BY <1>0, <1>00, <1>01, <2>1 DEF OnTheClient, OneAtWork, Quiet, Starters
  <2>3. \A q \in Starters : q # p => pc[q] \in {"idle", "done"}
    BY <1>0, <1>00, <1>01, <2>1 DEF OneAtWork, Whereabouts, Starters
  <2>4. pc'["setup"] = "done" /\ pc'["recover"] = "idle" /\ pc'["switch"] = "idle"
    <3>1. pc["setup"] # "idle"
      BY <1>0, <1>00, <1>01, <2>1 DEF OneAtWork, Starters
    <3> QED
      BY <1>0, <1>00, <1>01, <2>3, <3>1 DEF Starters, Procs, Whereabouts
  <2>5. \A c \in Clients : net'[c] = "none"
    BY <1>0, <1>00, <2>1, <2>2 DEF OnTheClient
  <2>6. OneAtWork'
    BY <1>0, <2>2, <2>4 DEF OneAtWork, Quiet
  <2>7. OnTheClient'
    BY <1>0, <1>00, <2>1, <2>2, <2>4, <2>5, SessionAssumption DEF OnTheClient, Starters
  <2>8. TokenGiven'
    BY <2>5 DEF TokenGiven
  <2> QED
    BY <2>6, <2>7, <2>8
<1> QED
  BY <1>0, <1>1, <1>2, <1>3 DEF ConnectionInv, Smooth

\* A start that builds its client when nothing else is at work and no other
\* client is in use.
LEMMA ConstructOne ==
    ASSUME TypeOK, ConnectionInv, NEW p \in Starters, NEW n, Construct(p, n),
           n \in [Clients -> NetStates], \A c \in Clients : n[c] = "none",
           pc[p] # "done", p # "setup" => pc["setup"] = "done",
           \A q \in Starters : q # p => pc[q] \in {"idle", "done"},
           ~timer', callbacks' = <<>>, UNCHANGED <<closed, jwt>>
    PROVE  ConnectionInv'
<1>0. PICK c \in Clients : /\ client' = c
                           /\ net' = [n EXCEPT ![c] = "made"]
                           /\ cred' = [cred EXCEPT ![c] = jwt]
                           /\ pc' = [pc EXCEPT ![p] = "tls"]
                           /\ arg' = [arg EXCEPT ![p] = c]
  BY DEF Construct, Goto
<1>1. /\ pc \in [Procs -> PCs] /\ arg \in [Procs -> Clients \cup {NoClient}]
      /\ cred \in [Clients -> BOOLEAN] /\ p \in Procs /\ Whereabouts /\ Singles
  BY DEF TypeOK, ConnectionInv, Starters, Procs
<1>2. net'[c] = "made" /\ \A d \in Clients : d # c => net'[d] = "none"
  BY <1>0
<1>3. /\ pc'[p] = "tls" /\ arg'[p] = c
      /\ \A q \in Procs : q # p => pc'[q] = pc[q] /\ arg'[q] = arg[q]
  BY <1>0, <1>1
<1>4. Whereabouts'
  BY <1>1, <1>3 DEF Whereabouts, Starters, Procs
<1>5. \A q \in Procs : q # p => ~Building(q)
  BY <1>1 DEF Whereabouts, Building, Starters, Procs
<1>6. Singles'
  BY <1>2, <1>3, <1>5 DEF Singles, Building
<1>7. OneAtWork'
  BY <1>1, <1>3 DEF OneAtWork, Quiet, Starters, Procs, Whereabouts
<1>8. OnTheClient'
  <2>1. c # NoClient
    BY SessionAssumption
  <2>2. \A q \in Starters : q # p => pc'[q] \in {"idle", "done"}
    BY <1>3 DEF Starters, Procs
  <2>3. pc'["setup"] # "idle"
    BY <1>1, <1>3 DEF Starters, Procs
  <2>4. pc'["recover"] \notin {"login", "heartbeat"}
    BY <1>3, <2>2 DEF Starters, Procs
  <2> QED
    BY <1>0, <1>2, <1>3, <2>1, <2>2, <2>3, <2>4 DEF OnTheClient, Starters
<1>9. TokenGiven'
  <2>1. cred'[c] = TRUE
    BY <1>0, <1>1 DEF Whereabouts
  <2> QED
    BY <1>2, <2>1 DEF TokenGiven
<1> QED
  BY <1>4, <1>6, <1>7, <1>8, <1>9 DEF ConnectionInv, Smooth

\* After the shutdown a stop is followed by no start.
LEMMA StopsForGood ==
    ASSUME TypeOK, ConnectionInv, NEW p \in Procs, NEW n, AfterStop(p, n), closed
    PROVE  /\ Finish(p) /\ client' = NoClient /\ net' = n /\ UNCHANGED cred
BY DEF AfterStop, Start

\* What remains to be shown of a step after the shutdown.
LEMMA ClosedStays ==
    ASSUME TypeOK, ConnectionInv, closed', Singles', Whereabouts'
    PROVE  ConnectionInv'
BY DEF ConnectionInv, Smooth

\* A coroutine that returns or moves on to an await of a stop.
LEMMA LeavesSingles ==
    ASSUME TypeOK, ConnectionInv, NEW p \in Procs,
           ~Building(p)',
           \A q \in Procs : q # p => pc'[q] = pc[q] /\ arg'[q] = arg[q],
           \A c \in Clients : net'[c] # "none" => net[c] # "none",
           \A c \in Clients : net[c] = "made" => net'[c] = "made"
    PROVE  Singles'
<1>1. Singles
  BY DEF ConnectionInv
<1>2. \A q \in Procs : Building(q)' => Building(q) /\ arg'[q] = arg[q]
  BY DEF Building
<1>3. \A q \in Procs : pc'[q] \in {"tls", "dial"} =>
            pc[q] \in {"tls", "dial"} /\ net'[arg[q]] = "made"
  BY <1>1 DEF Singles, Building
<1> QED
  BY <1>1, <1>2, <1>3, SinglesStay

\* the first half of a stop,
LEMMA StopLoopOne ==
    ASSUME TypeOK, ConnectionInv, NEW p \in Procs, StopLoop(p)
    PROVE  ConnectionInv'
<1> DEFINE n == [net EXCEPT ![arg[p]] = CASE @ = "trying" -> "parked"
                                          [] @ = "up" -> "held"
                                          [] OTHER -> @]
<1>0. /\ pc[p] = "loop_stop" /\ pc \in [Procs -> PCs] /\ net \in [Clients -> NetStates]
      /\ UNCHANGED <<timer, closed, jwt, callbacks>>
      /\ \/ client = NoClient /\ AfterStop(p, n)
         \/ /\ Goto(p, "disconnect", client) /\ net' = n
            /\ UNCHANGED <<client, cred>>
  BY DEF StopLoop, TypeOK
<1>1. \A c \in Clients : /\ n[c] # "none" => net[c] # "none"
                         /\ net[c] = "made" => n[c] = "made"
                         /\ net[c] \in {"none", "refused"} => n[c] = net[c]
                         /\ c # arg[p] => n[c] = net[c]
  BY <1>0
<1> HIDE DEF n
<1>2. Whereabouts /\ p \in {"recover", "switch", "unload"}
  BY <1>0 DEF ConnectionInv, Whereabouts, Procs
<1>3. CASE closed
  <2>1. /\ net' = n
        /\ pc' = [pc EXCEPT ![p] = pc'[p]]
        /\ pc'[p] \in {"disconnect", IF p = "unload" THEN "done" ELSE "idle"}
        /\ \A q \in Procs : q # p => pc'[q] = pc[q] /\ arg'[q] = arg[q]
    <3>1. CASE AfterStop(p, n)
      BY <1>0, <1>2, <1>3, <3>1, StopsForGood DEF Finish, TypeOK
    <3>2. CASE Goto(p, "disconnect", client) /\ net' = n
      BY <1>0, <1>2, <3>2 DEF Goto, TypeOK
    <3> QED
      BY <1>0, <3>1, <3>2
  <2>2. Whereabouts'
    BY <1>0, <1>2, <1>3, <2>1 DEF Whereabouts, Procs
  <2>3. Singles'
    BY <1>1, <2>1, LeavesSingles DEF Building
  <2> QED
    BY <1>0, <1>3, <2>2, <2>3, ClosedStays
<1>4. CASE ~closed
  <2>1. OneAtWork /\ OnTheClient /\ TokenGiven
    BY <1>4 DEF ConnectionInv
  <2>2. p \in Starters
    BY <1>0, <1>2, <1>4 DEF Whereabouts, Starters
  <2>3. client # NoClient
    BY <1>0, <1>2, <2>1, <2>2 DEF OnTheClient, OneAtWork, Starters
  <2>4. arg[p] = client /\ net[client] \in {"none", "refused"}
    BY <1>0, <2>1, <2>2 DEF OnTheClient
  <2>5. net' = n /\ \A c \in Clients : net'[c] = net[c]
    BY <1>0, <1>1, <2>3, <2>4
  <2>6. /\ pc' = [pc EXCEPT ![p] = "disconnect"]
        /\ arg'[p] = client /\ \A q \in Procs : q # p => arg'[q] = arg[q]
        /\ UNCHANGED <<client, cred>>
    BY <1>0, <2>3 DEF Goto, TypeOK
  <2>7. Whereabouts'
    BY <1>0, <1>2, <2>6 DEF Whereabouts, Procs
  <2>8. Singles'
    BY <1>0, <2>5, <2>6, LeavesSingles DEF Building
  <2>9. OneAtWork'
    BY <1>0, <1>2, <2>1, <2>6 DEF OneAtWork, Quiet, Procs
  <2>10. client \in Clients
    BY <2>3 DEF TypeOK
  <2>11. OnTheClient'
    BY <1>0, <1>2, <2>1, <2>2, <2>4, <2>5, <2>6, <2>10 DEF OnTheClient, Starters, Procs
  <2>12. TokenGiven'
    BY <1>0, <1>2, <2>1, <2>5, <2>6 DEF TokenGiven, Procs
  <2> QED
    BY <1>0, <2>7, <2>8, <2>9, <2>11, <2>12 DEF ConnectionInv, Smooth
<1> QED
  BY <1>3, <1>4

\* its second half, after which the start is the one thing at work,
LEMMA StopDisconnectOne ==
    ASSUME TypeOK, ConnectionInv, NEW p \in Procs, StopDisconnect(p)
    PROVE  ConnectionInv'
<1> DEFINE n == Disconnected(net, arg[p])
<1>0. /\ pc[p] = "disconnect" /\ pc \in [Procs -> PCs] /\ net \in [Clients -> NetStates]
      /\ UNCHANGED <<timer, closed, jwt, callbacks>>
      /\ AfterStop(p, n)
  BY DEF StopDisconnect, TypeOK
<1>1. /\ n \in [Clients -> NetStates]
      /\ \A c \in Clients : /\ n[c] # "none" => net[c] # "none"
                            /\ net[c] = "made" => n[c] = "made"
                            /\ c = arg[p] /\ net[c] # "made" => n[c] = "none"
                            /\ c # arg[p] => n[c] = net[c]
  BY <1>0 DEF Disconnected, NetStates
<1> HIDE DEF n
<1>2. Whereabouts /\ p \in {"recover", "switch", "unload"}
  BY <1>0 DEF ConnectionInv, Whereabouts, Procs
<1>3. CASE closed
  <2>1. /\ net' = n
        /\ pc'[p] = IF p = "unload" THEN "done" ELSE "idle"
        /\ pc' = [pc EXCEPT ![p] = pc'[p]]
        /\ \A q \in Procs : q # p => pc'[q] = pc[q] /\ arg'[q] = arg[q]
    BY <1>0, <1>2, <1>3, StopsForGood DEF Finish, TypeOK
  <2>2. Whereabouts'
    BY <1>0, <1>2, <1>3, <2>1 DEF Whereabouts, Procs
  <2>3. Singles'
    BY <1>1, <2>1, LeavesSingles DEF Building
  <2> QED
    BY <1>0, <1>3, <2>2, <2>3, ClosedStays
<1>4. CASE ~closed
  <2>1. OneAtWork /\ OnTheClient
    BY <1>4 DEF ConnectionInv
  <2>2. p \in Starters /\ p # "setup" /\ p # "unload"
    BY <1>0, <1>2, <1>4 DEF Whereabouts, Starters
  <2>3. pc["setup"] = "done" /\ ~timer /\ callbacks = <<>>
    BY <1>0, <1>2, <2>1, <2>2 DEF OneAtWork, Quiet
  <2>4. \A q \in Starters : q # p => pc[q] \in {"idle", "done"}
    BY <1>0, <1>2, <2>1, <2>2, <2>3 DEF OneAtWork, Starters
  <2>5. arg[p] = client /\ net[client] \in {"none", "refused"}
    BY <1>0, <2>1, <2>2 DEF OnTheClient
  <2>6. \A c \in Clients : n[c] = "none"
    BY <1>1, <2>1, <2>5 DEF OnTheClient
  <2>7. Construct(p, n)
    BY <1>0, <1>2, <1>4, <2>2 DEF AfterStop, Start, Whereabouts
  <2> QED
    BY <1>0, <1>1, <2>2, <2>3, <2>4, <2>6, <2>7, ConstructOne
<1> QED
  BY <1>3, <1>4

\* a login that succeeds,
LEMMA LoginSucceedsOne ==
    ASSUME TypeOK, ConnectionInv, NEW p \in Procs, LoginSucceeds(p)
    PROVE  ConnectionInv'
<1>0. /\ Whereabouts /\ p \in {"recover", "renew"} /\ pc[p] = "login"
      /\ pc' = [pc EXCEPT ![p] = "heartbeat"] /\ pc \in [Procs -> PCs]
      /\ jwt' = TRUE /\ cred' = [c \in Clients |-> FALSE]
      /\ UNCHANGED <<client, timer, closed, net, arg, callbacks>>
  BY DEF LoginSucceeds, ConnectionInv, Whereabouts, Procs, TypeOK
<1>1. Whereabouts'
  BY <1>0 DEF Whereabouts, Procs
<1>2. Singles'
  <2>1. ~Building(p)' /\ \A q \in Procs : q # p => pc'[q] = pc[q] /\ arg'[q] = arg[q]
    BY <1>0 DEF Building
  <2> QED
    BY <1>0, <2>1, LeavesSingles
<1>3. ASSUME ~closed
      PROVE  OneAtWork' /\ OnTheClient' /\ TokenGiven'
  <2>1. OneAtWork /\ OnTheClient
    BY <1>3 DEF ConnectionInv
  <2>2. OneAtWork'
    BY <1>0, <2>1 DEF OneAtWork, Quiet, Procs
  <2>3. OnTheClient'
    BY <1>0, <2>1 DEF OnTheClient, Starters, Procs
  <2>4. TokenGiven'
    <3>1. CASE p = "renew"
      BY <1>0, <3>1 DEF TokenGiven, Procs
    <3>2. CASE p = "recover"
      <4>1. \A c \in Clients : net'[c] = "none"
        BY <1>0, <2>1, <3>2 DEF OnTheClient
      <4> QED
        BY <4>1 DEF TokenGiven
    <3> QED
      BY <1>0, <3>1, <3>2
  <2> QED
    BY <2>2, <2>3, <2>4
<1> QED
  BY <1>0, <1>1, <1>2, <1>3 DEF ConnectionInv, Smooth

\* one that fails, of a recovery or of a renewal,
LEMMA LoginFailsOne ==
    ASSUME TypeOK, ConnectionInv, NEW p \in Procs, LoginFails(p)
    PROVE  ConnectionInv'
<1>0. /\ Whereabouts /\ p \in {"recover", "renew"} /\ pc[p] = "login"
      /\ pc' = [pc EXCEPT ![p] = "idle"] /\ pc \in [Procs -> PCs]
      /\ arg' = [arg EXCEPT ![p] = NoClient] /\ arg \in [Procs -> Clients \cup {NoClient}]
      /\ p = "renew" => timer' = timer
      /\ UNCHANGED <<client, closed, jwt, net, cred, callbacks>>
  BY DEF LoginFails, Finish, ConnectionInv, Whereabouts, Procs, TypeOK
<1>1. Whereabouts'
  BY <1>0 DEF Whereabouts, Procs
<1>2. Singles'
  <2>1. ~Building(p)' /\ \A q \in Procs : q # p => pc'[q] = pc[q] /\ arg'[q] = arg[q]
    BY <1>0 DEF Building
  <2> QED
    BY <1>0, <2>1, LeavesSingles
<1>3. ASSUME ~closed
      PROVE  OneAtWork' /\ OnTheClient' /\ TokenGiven'
  <2>1. OneAtWork /\ OnTheClient /\ TokenGiven
    BY <1>3 DEF ConnectionInv
  <2>2. CASE p = "renew"
    <3>1. OneAtWork'
      BY <1>0, <2>1, <2>2 DEF OneAtWork, Quiet, Procs
    <3>2. OnTheClient'
      BY <1>0, <2>1, <2>2 DEF OnTheClient, Starters, Procs
    <3>3. TokenGiven'
      BY <1>0, <2>1, <2>2 DEF TokenGiven, Procs
    <3> QED
      BY <3>1, <3>2, <3>3
  <2>3. CASE p = "recover"
    <3>1. pc["setup"] = "done" /\ pc["switch"] = "idle" /\ callbacks = <<>> /\ net[client] = "none"
      BY <1>0, <2>1, <2>3 DEF OneAtWork, OnTheClient, Quiet
    <3>2. pc'["setup"] = "done" /\ pc'["switch"] = "idle" /\ pc'["recover"] = "idle"
          /\ pc'["renew"] = pc["renew"]
      BY <1>0, <2>3, <3>1 DEF Procs
    <3>3. OneAtWork'
      BY <1>0, <3>1, <3>2 DEF OneAtWork, Quiet
    <3>4. OnTheClient'
      BY <1>0, <2>1, <3>1, <3>2 DEF OnTheClient, Starters
    <3>5. TokenGiven'
      BY <1>0, <2>1, <3>2 DEF TokenGiven
    <3> QED
      BY <3>3, <3>4, <3>5
  <2> QED
    BY <1>0, <2>2, <2>3
<1> QED
  BY <1>0, <1>1, <1>2, <1>3 DEF ConnectionInv, Smooth

\* A stop that does not wait for anything else, or that is for good.
LEMMA StopOne ==
    ASSUME TypeOK, ConnectionInv, NEW p \in {"recover", "switch", "unload"}, Stop(p),
           UNCHANGED jwt, p = "unload" => closed', p # "unload" => UNCHANGED closed,
           ~closed' => /\ ~closed /\ callbacks' = <<>>
                       /\ pc["setup"] = "done"
                       /\ \A q \in {"recover", "switch"} : q # p => pc[q] = "idle"
                       /\ net[client] \in {"none", "refused"}
    PROVE  ConnectionInv'
<1>0. /\ p \in Procs /\ timer' = FALSE /\ Whereabouts
      /\ pc \in [Procs -> PCs] /\ net \in [Clients -> NetStates]
      /\ arg \in [Procs -> Clients \cup {NoClient}]
  BY DEF Stop, Procs, ConnectionInv, TypeOK
<1>1. CASE closed' /\ client = NoClient /\ (closed \/ p = "unload")
  <2>1. /\ Finish(p) /\ net' = net
    BY <1>1 DEF Stop, AfterStop, Start
  <2>2. /\ pc' = [pc EXCEPT ![p] = IF p = "unload" THEN "done" ELSE "idle"]
        /\ \A q \in Procs : q # p => arg'[q] = arg[q]
    BY <1>0, <2>1 DEF Finish
  <2>3. Whereabouts'
    BY <1>0, <1>1, <2>2 DEF Whereabouts, Procs
  <2>4. Singles'
    BY <1>0, <2>1, <2>2, LeavesSingles DEF Building
  <2> QED
    BY <1>1, <2>3, <2>4, ClosedStays
<1>2. CASE client # NoClient
  <2>1. /\ pc' = [pc EXCEPT ![p] = "loop_stop"] /\ arg' = [arg EXCEPT ![p] = client]
        /\ UNCHANGED <<client, net, cred>>
    BY <1>2 DEF Stop, Goto
  <2>2. Whereabouts'
    BY <1>0, <2>1 DEF Whereabouts, Procs
  <2>3. Singles'
    BY <1>0, <2>1, LeavesSingles DEF Building
  <2>4. CASE closed'
    BY <2>2, <2>3, <2>4, ClosedStays
  <2>5. CASE ~closed'
    <3>1. OneAtWork /\ OnTheClient /\ TokenGiven /\ p # "unload" /\ client \in Clients
      BY <1>2, <2>5 DEF ConnectionInv, TypeOK
    <3>2. OneAtWork'
      BY <1>0, <2>1, <2>5, <3>1 DEF OneAtWork, Quiet, Procs
    <3>3. OnTheClient'
      BY <1>0, <2>1, <2>5, <3>1 DEF OnTheClient, Starters, Procs
    <3>4. TokenGiven'
      BY <1>0, <2>1, <3>1 DEF TokenGiven, Procs
    <3> QED
      BY <2>2, <2>3, <3>2, <3>3, <3>4 DEF ConnectionInv, Smooth
  <2> QED
    BY <2>4, <2>5
<1>3. ASSUME client = NoClient
      PROVE  closed' /\ (closed \/ p = "unload")
  <2>1. CASE ~closed'
    BY <1>3, <2>1 DEF ConnectionInv, OnTheClient
  <2>2. CASE closed'
    BY <2>2
  <2> QED
    BY <2>1, <2>2
<1> QED
  BY <1>1, <1>2, <1>3

\* the heartbeat, after which the client is given the token or a start begins,
LEMMA HeartbeatOne ==
    ASSUME TypeOK, ConnectionInv, NEW p \in Procs, Heartbeat(p)
    PROVE  ConnectionInv'
<1>0. /\ Whereabouts /\ pc \in [Procs -> PCs] /\ cred \in [Clients -> BOOLEAN]
      /\ pc[p] = "heartbeat" /\ p \in {"recover", "renew"}
      /\ UNCHANGED <<closed, jwt, callbacks>>
  BY DEF Heartbeat, ConnectionInv, Whereabouts, Procs, TypeOK
<1>1. CASE p = "renew"
  <2>1. UpdateCredentials /\ Finish(p) /\ UNCHANGED <<client, timer, net>>
    BY <1>0, <1>1 DEF Heartbeat
  <2>2. /\ pc' = [pc EXCEPT !["renew"] = "idle"]
        /\ \A q \in Procs : q # p => arg'[q] = arg[q]
    BY <1>1, <2>1 DEF Finish, TypeOK
  <2>3. Whereabouts'
    BY <1>0, <1>1, <2>2 DEF Whereabouts, Procs
  <2>4. Singles'
    BY <1>0, <1>1, <2>1, <2>2, LeavesSingles DEF Building
  <2>5. ASSUME ~closed
        PROVE  OneAtWork' /\ OnTheClient' /\ TokenGiven'
    <3>1. OneAtWork /\ OnTheClient
      BY <2>5 DEF ConnectionInv
    <3>2. OneAtWork'
      BY <1>0, <2>1, <2>2, <3>1 DEF OneAtWork, Quiet, Procs
    <3>3. OnTheClient'
      BY <1>0, <1>1, <2>1, <2>2, <3>1 DEF OnTheClient, Starters, Procs
    <3>4. TokenGiven'
      <4>1. SUFFICES ASSUME NEW c \in Clients, net[c] # "none"
                     PROVE  cred'[c]
        BY <2>1 DEF TokenGiven
      <4>2. c = client /\ client # NoClient
        BY <3>1, <4>1, SessionAssumption DEF OnTheClient
      <4> QED
        BY <1>0, <2>1, <4>2 DEF UpdateCredentials, Whereabouts
    <3> QED
      BY <3>2, <3>3, <3>4
  <2> QED
    BY <1>0, <2>3, <2>4, <2>5 DEF ConnectionInv, Smooth
<1>2. CASE p = "recover"
  <2>1. Stop(p)
    BY <1>0, <1>2 DEF Heartbeat
  <2>2. ~closed => /\ callbacks = <<>> /\ pc["setup"] = "done" /\ pc["switch"] = "idle"
                   /\ net[client] = "none"
    BY <1>0, <1>2 DEF ConnectionInv, OneAtWork, OnTheClient, Quiet
  <2> QED
    BY <1>0, <1>2, <2>1, <2>2, StopOne
<1> QED
  BY <1>0, <1>1, <1>2

\* the setup's start,
LEMMA SetupStartsOne ==
    ASSUME TypeOK, ConnectionInv, SetupStarts
    PROVE  ConnectionInv'
<1>1. /\ pc["setup"] = "idle" /\ Start("setup", net) /\ Whereabouts
      /\ net \in [Clients -> NetStates] /\ pc \in [Procs -> PCs]
      /\ UNCHANGED <<timer, closed, jwt, callbacks>>
  BY DEF SetupStarts, TypeOK, ConnectionInv
<1>2. CASE closed
  <2>1. /\ Finish("setup") /\ net' = net
    BY <1>1, <1>2 DEF Start
  <2>2. /\ pc' = [pc EXCEPT !["setup"] = "done"]
        /\ \A q \in Procs : q # "setup" => arg'[q] = arg[q]
    BY <2>1 DEF Finish, TypeOK
  <2>3. Whereabouts'
    BY <1>1, <2>2 DEF Whereabouts, Procs
  <2>4. Singles'
    BY <1>1, <2>1, <2>2, LeavesSingles DEF Building, Procs
  <2> QED
    BY <1>1, <1>2, <2>3, <2>4, ClosedStays
<1>3. CASE ~closed
  <2>1. /\ ~timer /\ callbacks = <<>> /\ pc["recover"] = "idle" /\ pc["switch"] = "idle"
        /\ \A c \in Clients : net[c] = "none"
    BY <1>1, <1>3, SessionAssumption DEF ConnectionInv, OneAtWork, OnTheClient, Quiet
  <2>2. Construct("setup", net)
    BY <1>1, <1>3 DEF Start, Whereabouts
  <2> QED
    BY <1>1, <2>1, <2>2, ConstructOne DEF Starters
<1> QED
  BY <1>2, <1>3

\* the retry that waited,
LEMMA RecoveryFiresOne ==
    ASSUME TypeOK, ConnectionInv, RecoveryFires
    PROVE  ConnectionInv'
<1>1. /\ timer /\ pc["recover"] = "idle" /\ timer' = FALSE /\ Whereabouts
      /\ pc \in [Procs -> PCs] /\ arg \in [Procs -> Clients \cup {NoClient}]
      /\ UNCHANGED <<client, closed, jwt, net, cred, callbacks>>
      /\ \/ closed /\ UNCHANGED <<pc, arg>>
         \/ /\ ~closed
            /\ pc' = [pc EXCEPT !["recover"] = "login"]
            /\ arg' = [arg EXCEPT !["recover"] = NoClient]
  BY DEF RecoveryFires, Awaits, Goto, TypeOK, ConnectionInv
<1>2. CASE closed
  BY <1>1, <1>2 DEF ConnectionInv, Smooth, Whereabouts, Singles, Building
<1>3. CASE ~closed
  <2>1. OneAtWork /\ OnTheClient /\ TokenGiven
    BY <1>3 DEF ConnectionInv
  <2>2. Whereabouts'
    BY <1>1, <1>3 DEF Whereabouts, Procs
  <2>3. Singles'
    BY <1>1, <1>3, LeavesSingles DEF Building, Procs
  <2>4. OneAtWork'
    BY <1>1, <1>3, <2>1 DEF OneAtWork, Quiet, Procs
  <2>5. OnTheClient'
    BY <1>1, <1>3, <2>1 DEF OnTheClient, Starters, Procs
  <2>6. TokenGiven'
    BY <1>1, <1>3, <2>1 DEF TokenGiven, Procs
  <2> QED
    BY <1>1, <2>2, <2>3, <2>4, <2>5, <2>6 DEF ConnectionInv, Smooth
<1> QED
  BY <1>2, <1>3

\* the renewal, which does not touch the connection yet,
LEMMA RenewalFiresOne ==
    ASSUME TypeOK, ConnectionInv, RenewalFires
    PROVE  ConnectionInv'
<1>1. /\ pc["renew"] = "idle" /\ Whereabouts
      /\ pc \in [Procs -> PCs] /\ arg \in [Procs -> Clients \cup {NoClient}]
      /\ pc' = [pc EXCEPT !["renew"] = "login"]
      /\ arg' = [arg EXCEPT !["renew"] = NoClient]
      /\ UNCHANGED <<client, timer, closed, jwt, net, cred, callbacks>>
  BY DEF RenewalFires, Awaits, Goto, TypeOK, ConnectionInv
<1>2. Whereabouts'
  BY <1>1 DEF Whereabouts, Procs
<1>3. Singles'
  BY <1>1, LeavesSingles DEF Building, Procs
<1>4. ASSUME ~closed
      PROVE  OneAtWork' /\ OnTheClient' /\ TokenGiven'
  <2>1. OneAtWork /\ OnTheClient /\ TokenGiven
    BY <1>4 DEF ConnectionInv
  <2>2. OneAtWork'
    BY <1>1, <2>1 DEF OneAtWork, Quiet, Procs
  <2>3. OnTheClient'
    BY <1>1, <2>1 DEF OnTheClient, Starters, Procs
  <2>4. TokenGiven'
    BY <1>1, <2>1 DEF TokenGiven, Procs
  <2> QED
    BY <2>2, <2>3, <2>4
<1> QED
  BY <1>1, <1>2, <1>3, <1>4 DEF ConnectionInv, Smooth

\* what a refusal has queued,
LEMMA CallbackOne ==
    ASSUME TypeOK, ConnectionInv, RunCallback
    PROVE  ConnectionInv'
<1>1. /\ callbacks # <<>> /\ callbacks' = Tail(callbacks) /\ Whereabouts
      /\ UNCHANGED <<closed, jwt>>
  BY DEF RunCallback, ConnectionInv
<1>2. ~closed => /\ callbacks' = <<>> /\ ~timer
                 /\ pc["setup"] = "done" /\ pc["recover"] = "idle" /\ pc["switch"] = "idle"
                 /\ net[client] = IF Head(callbacks) = "switch" THEN "refused" ELSE "none"
  BY <1>1 DEF ConnectionInv, OneAtWork, OnTheClient, Quiet
<1>3. CASE Head(callbacks) = "schedule" /\ ScheduleRecovery /\ UNCHANGED <<client, net, cred, pc, arg>>
  <2>1. Whereabouts' /\ Singles'
    BY <1>1, <1>3 DEF ConnectionInv, Whereabouts, Singles, Building
  <2>2. ASSUME ~closed
        PROVE  OneAtWork' /\ OnTheClient' /\ TokenGiven'
    <3>1. OneAtWork'
      BY <1>2, <1>3, <2>2 DEF OneAtWork, Quiet
    <3>2. OnTheClient'
      BY <1>2, <1>3, <2>2 DEF ConnectionInv, OnTheClient
    <3>3. TokenGiven'
      BY <1>3, <2>2 DEF ConnectionInv, TokenGiven
    <3> QED
      BY <3>1, <3>2, <3>3
  <2> QED
    BY <1>1, <2>1, <2>2 DEF ConnectionInv, Smooth
<1>4. CASE Stop("switch")
  BY <1>1, <1>2, <1>4, StopOne
<1> QED
  BY <1>3, <1>4 DEF RunCallback

\* What the network thread does to a client that tries or is up, before the shutdown.
LEMMA ThreadOne ==
    ASSUME TypeOK, ConnectionInv, NEW c \in Clients, BrokerAnswers(c) \/ Dropped(c)
    PROVE  ConnectionInv'
<1>1. /\ Live(c) /\ Whereabouts /\ net \in [Clients -> NetStates]
      /\ UNCHANGED <<client, timer, closed, jwt, cred, pc, arg>>
  BY DEF BrokerAnswers, Accepted, Refused, Dropped, Live, ConnectionInv, TypeOK
<1>2. \/ /\ \/ net' = net
            \/ net' = [net EXCEPT ![c] = "up"]
            \/ net' = [net EXCEPT ![c] = "trying"]
         /\ callbacks' = callbacks
      \/ net' = [net EXCEPT ![c] = "refused"] /\ callbacks' = Append(callbacks, "switch")
      \/ net' = GiveUp(net) /\ callbacks' = Append(callbacks, "schedule")
  BY DEF BrokerAnswers, Accepted, Refused, Dropped
<1>3. \A d \in Clients : /\ net'[d] # "none" => net[d] # "none"
                         /\ net[d] = "made" => net'[d] = "made"
  <2>1. CASE net' = GiveUp(net)
    BY <1>1, <2>1 DEF GiveUp, Disconnected
  <2> QED
    BY <1>1, <1>2, <2>1 DEF Live
<1>4. Singles'
  BY <1>1, <1>3 DEF ConnectionInv, Singles, Building
<1>5. Whereabouts'
  BY <1>1 DEF Whereabouts
<1>6. ASSUME ~closed
      PROVE  OneAtWork' /\ OnTheClient' /\ TokenGiven'
  <2>1. /\ c = client /\ ~timer /\ callbacks = <<>>
        /\ pc["setup"] = "done" /\ pc["recover"] = "idle" /\ pc["switch"] = "idle"
    BY <1>1, <1>6, LiveAlone DEF Quiet
  <2>2. OnTheClient /\ TokenGiven /\ client # NoClient
    BY <1>6, <2>1, SessionAssumption DEF ConnectionInv
  <2>3. /\ net'[client] \in {"up", "trying", "none", "refused"}
        /\ \A d \in Clients : d # client => net'[d] = net[d]
        /\ callbacks' = <<"schedule">> => net'[client] = "none"
        /\ callbacks' = <<"switch">> => net'[client] = "refused"
        /\ callbacks' \in {<<>>, <<"switch">>, <<"schedule">>}
    <3>1. net[client] \in {"trying", "up"} /\ client \in Clients
      BY <1>1, <2>1 DEF Live
    <3>2. CASE net' = GiveUp(net) /\ callbacks' = Append(callbacks, "schedule")
      BY <1>1, <2>1, <2>2, <3>1, <3>2 DEF GiveUp, Disconnected
    <3>3. CASE net' = [net EXCEPT ![c] = "refused"] /\ callbacks' = Append(callbacks, "switch")
      BY <1>1, <2>1, <3>1, <3>3
    <3>4. CASE /\ \/ net' = net
                  \/ net' = [net EXCEPT ![c] = "up"]
                  \/ net' = [net EXCEPT ![c] = "trying"]
               /\ callbacks' = callbacks
      <4>1. <<>> # <<"switch">> /\ <<>> # <<"schedule">>
        OBVIOUS
      <4> QED
        BY <1>1, <2>1, <3>1, <3>4, <4>1
    <3> QED
      BY <1>2, <3>2, <3>3, <3>4
  <2>4. OneAtWork'
    BY <1>1, <2>1, <2>3 DEF OneAtWork, Quiet
  <2>5. OnTheClient'
    BY <1>1, <2>1, <2>2, <2>3 DEF OnTheClient, Starters
  <2>6. TokenGiven'
    BY <1>1, <2>1, <2>2, <2>3 DEF TokenGiven, Live
  <2> QED
    BY <2>4, <2>5, <2>6
<1> QED
  BY <1>1, <1>4, <1>5, <1>6 DEF ConnectionInv, Smooth

\* and the shutdown, after which less is claimed.
LEMMA UnloadOne ==
    ASSUME TypeOK, ConnectionInv, Unload
    PROVE  ConnectionInv'
<1>1. Stop("unload") /\ closed' = TRUE /\ UNCHANGED jwt
  BY DEF Unload
<1> QED
  BY <1>1, StopOne

\* The invariant holds initially,
LEMMA InitOne ==
    ASSUME Smooth, Init
    PROVE  ConnectionInv
<1>1. Whereabouts
  BY DEF Init, Smooth, Whereabouts, Procs
<1>2. Singles
  BY DEF Init, Singles, Building
<1>3. OneAtWork /\ TokenGiven
  BY DEF Init, OneAtWork, Quiet, TokenGiven, Procs
<1>4. OnTheClient
  BY DEF Init, OnTheClient, Starters, Procs
<1> QED
  BY <1>1, <1>2, <1>3, <1>4 DEF ConnectionInv

\* every step preserves it,
LEMMA NextOne ==
    ASSUME TypeOK, ConnectionInv, [Next]_vars
    PROVE  ConnectionInv'
<1>1. ASSUME NEW p \in Procs, ProcStep(p)
      PROVE  ConnectionInv'
  BY <1>1, TlsOne, DialOne, DialRaisesOne, LoopStartOne, StopLoopOne, StopDisconnectOne,
     LoginSucceedsOne, LoginFailsOne, HeartbeatOne DEF ProcStep
<1>2. ~PollAuthenticates
  BY DEF PollAuthenticates, ConnectionInv, Whereabouts
<1>3. CASE OutageEnds \/ UNCHANGED vars
  <2>1. UNCHANGED <<client, timer, closed, jwt, net, cred, pc, arg, callbacks>>
    BY <1>3 DEF OutageEnds, vars
  <2> QED
    BY <2>1 DEF ConnectionInv, Smooth, Whereabouts, Singles, Building, OneAtWork, Quiet,
                OnTheClient, TokenGiven
<1> QED
  BY <1>1, <1>2, <1>3, SetupStartsOne, RecoveryFiresOne, RenewalFiresOne, UnloadOne,
     CallbackOne, ThreadOne DEF Next

\* so it holds throughout.
LEMMA OneInvariance == Smooth /\ Spec => [](TypeOK /\ ConnectionInv)
<1>1. Smooth /\ Init => ConnectionInv
  BY InitOne
<1>2. TypeOK /\ ConnectionInv /\ [Next]_vars => ConnectionInv'
  BY NextOne
<1> QED
  BY <1>1, <1>2, Invariance, PTL DEF Spec

\* Where nothing makes restarts overlap, the manager keeps one connection at a
\* time, for any number of clients, refusals and addresses, up to the shutdown
\* and after it.
THEOREM OneSessionAtATime == Smooth /\ Spec => []OneSession
<1>1. ConnectionInv => OneSession
  <2>1. SUFFICES ASSUME ConnectionInv
                 PROVE  OneSession
    OBVIOUS
  <2> DEFINE open == {c \in Clients : net[c] # "none"}
  <2>2. CASE open = {}
    BY <2>2, FS_EmptySet DEF OneSession
  <2>3. CASE open # {}
    <3>1. PICK c \in open : TRUE
      BY <2>3
    <3>2. open = {c}
      BY <2>1, <3>1 DEF ConnectionInv, Singles
    <3> QED
      BY <3>2, FS_Singleton DEF OneSession
  <2> QED
    BY <2>2, <2>3
<1> QED
  BY <1>1, OneInvariance, PTL

\* Until the shutdown, a client that asks the broker never goes with a retry or a
\* switch to come: the refused client was stopped by whichever of the two.
THEOREM RefusedArePaused == Smooth /\ Spec => []PausedUntilRetry
<1>1. TypeOK /\ ConnectionInv => PausedUntilRetry
  BY LiveAlone DEF PausedUntilRetry, Quiet
<1> QED
  BY <1>1, OneInvariance, PTL

\* A client that dials again by itself has the current token, however renewals,
\* recoveries and switches interleave.
THEOREM RedialsAreCurrent == Smooth /\ Spec => []RedialsWithCurrentToken
<1>1. ConnectionInv => RedialsWithCurrentToken
  BY DEF ConnectionInv, TokenGiven, RedialsWithCurrentToken, Live
<1> QED
  BY <1>1, OneInvariance, PTL

-----------------------------------------------------------------------------
(* The flag.                                                               *)

ClientUp == client # NoClient /\ net[client] = "up"

\* A client that a start builds is not connected.
LEMMA BuiltIsDown ==
    ASSUME NEW p \in Procs, NEW n \in [Clients -> NetStates], Construct(p, n)
    PROVE  ~ClientUp'
BY DEF Construct, ClientUp

\* The steps of a coroutine leave the flag right: those of a start,
LEMMA StartingFlag ==
    ASSUME TypeOK, ConnectionInv, ~closed, connected <=> ClientUp, NEW p \in Procs,
           Tls(p) \/ Dial(p) \/ DialRaises(p) \/ LoopStart(p)
    PROVE  connected' <=> ClientUp'
<1>1. /\ pc[p] \in {"tls", "dial", "loop_start"} /\ net \in [Clients -> NetStates]
      /\ UNCHANGED <<client, connected>>
      /\ \/ net' = net
         \/ pc[p] \in {"tls", "dial"} /\ net' = [net EXCEPT ![arg[p]] = "dialled"]
         \/ pc[p] \in {"tls", "dial"} /\ net' = [net EXCEPT ![arg[p]] = "none"]
         \/ net[arg[p]] = "dialled" /\ net' = [net EXCEPT ![arg[p]] = "trying"]
  BY DEF Tls, Dial, DialRaises, LoopStart, TypeOK
<1>2. arg[p] \in Clients /\ (pc[p] \in {"tls", "dial"} => net[arg[p]] = "made")
  BY <1>1 DEF ConnectionInv, Singles, Building
<1>3. \A c \in Clients : net[c] = "up" <=> net'[c] = "up"
  BY <1>1, <1>2
<1>4. client \in Clients \cup {NoClient}
  BY DEF TypeOK
<1> QED
  BY <1>1, <1>3, <1>4 DEF ClientUp

\* those of a stop, whose client is down already,
LEMMA StoppingLeavesFlag ==
    ASSUME TypeOK, ConnectionInv, ~closed, connected <=> ClientUp, NEW p \in Procs,
           StopLoop(p) \/ StopDisconnect(p)
    PROVE  connected' <=> ClientUp'
<1>0. /\ net \in [Clients -> NetStates] /\ connected \in BOOLEAN
      /\ Whereabouts /\ OneAtWork /\ OnTheClient
      /\ pc[p] \in {"loop_stop", "disconnect"}
  BY DEF TypeOK, ConnectionInv, StopLoop, StopDisconnect
<1>1. p \in Starters /\ p # "unload" /\ p # "setup"
  BY <1>0 DEF Whereabouts, Starters, Procs
<1>2. client # NoClient
  BY <1>0, <1>1 DEF OnTheClient, OneAtWork, Starters
<1>3. arg[p] = client /\ net[client] \in {"none", "refused"} /\ client \in Clients
  BY <1>0, <1>1, <1>2 DEF OnTheClient, TypeOK
<1>4. ~connected
  BY <1>3 DEF ClientUp
<1>5. CASE StopLoop(p)
  <2>1. UNCHANGED <<client, connected>>
        /\ net' = [net EXCEPT ![client] = CASE @ = "trying" -> "parked"
                                            [] @ = "up" -> "held"
                                            [] OTHER -> @]
    BY <1>2, <1>3, <1>5 DEF StopLoop
  <2>2. net'[client] = net[client]
    BY <1>0, <1>3, <2>1
  <2> QED
    BY <1>3, <1>4, <2>1, <2>2 DEF ClientUp
<1>6. CASE StopDisconnect(p)
  <2> DEFINE n == Disconnected(net, client)
  <2>1. n \in [Clients -> NetStates]
    BY <1>0 DEF Disconnected, NetStates
  <2>2. OnDisconnect(client) /\ AfterStop(p, n)
    BY <1>3, <1>6 DEF StopDisconnect
  <2> HIDE DEF n
  <2>3. Construct(p, n)
    BY <1>0, <1>1, <2>2 DEF AfterStop, Start, Whereabouts
  <2>4. ~connected'
    BY <1>3, <1>4, <2>2 DEF OnDisconnect
  <2> QED
    BY <2>1, <2>3, <2>4, BuiltIsDown
<1> QED
  BY <1>5, <1>6

\* and a restart that begins where a client may be there or not.
LEMMA StopBeginsFlag ==
    ASSUME TypeOK, ConnectionInv, ~closed, connected <=> ClientUp, NEW p \in Procs,
           Stop(p), client # NoClient, connected' = connected
    PROVE  connected' <=> ClientUp'
BY DEF Stop, ClientUp

\* Every step before the shutdown keeps the flag right.
LEMMA FlagKeeps ==
    ASSUME TypeOK, ConnectionInv, FlagMatchesClient, [Next]_vars
    PROVE  FlagMatchesClient'
<1>0. SUFFICES ASSUME ~closed'
               PROVE  connected' <=> ClientUp'
  BY DEF FlagMatchesClient, ClientUp
<1>1. ~closed /\ (connected <=> ClientUp) /\ Whereabouts /\ OneAtWork /\ OnTheClient
      /\ net \in [Clients -> NetStates]
  <2>1. closed => closed'
    BY DEF Next, ProcStep, Tls, Dial, DialRaises, LoopStart, StopLoop, StopDisconnect,
           LoginSucceeds, LoginFails, Heartbeat, SetupStarts, PollAuthenticates,
           RecoveryFires, RenewalFires, Unload, RunCallback, BrokerAnswers, Accepted,
           Refused, Dropped, OutageEnds, vars
  <2> QED
    BY <1>0, <2>1 DEF FlagMatchesClient, ClientUp, ConnectionInv, TypeOK
<1>2. ASSUME UNCHANGED <<client, connected, net>>
      PROVE  connected' <=> ClientUp'
  BY <1>1, <1>2 DEF ClientUp
<1>3. ASSUME NEW p \in Procs, ProcStep(p)
      PROVE  connected' <=> ClientUp'
  <2>1. CASE Tls(p) \/ Dial(p) \/ DialRaises(p) \/ LoopStart(p)
    BY <1>1, <2>1, StartingFlag
  <2>2. CASE StopLoop(p) \/ StopDisconnect(p)
    BY <1>1, <2>2, StoppingLeavesFlag
  <2>3. CASE LoginSucceeds(p) \/ LoginFails(p)
    BY <1>2, <2>3 DEF LoginSucceeds, LoginFails
  <2>4. CASE Heartbeat(p)
    <3>1. pc[p] = "heartbeat" /\ p \in {"recover", "renew"} /\ connected' = connected
      BY <1>1, <2>4 DEF Heartbeat, Whereabouts, Procs
    <3>2. CASE p = "renew"
      BY <1>2, <2>4, <3>1, <3>2 DEF Heartbeat
    <3>3. CASE p = "recover"
      <4>1. Stop(p) /\ client # NoClient
        BY <1>1, <2>4, <3>1, <3>3 DEF Heartbeat, OneAtWork, OnTheClient
      <4> QED
        BY <1>1, <3>1, <4>1, StopBeginsFlag
    <3> QED
      BY <3>1, <3>2, <3>3
  <2> QED
    BY <1>3, <2>1, <2>2, <2>3, <2>4 DEF ProcStep
<1>4. CASE SetupStarts
  <2>1. client = NoClient /\ Construct("setup", net) /\ connected' = connected
    BY <1>1, <1>4 DEF SetupStarts, Start, OnTheClient, Whereabouts
  <2>2. "setup" \in Procs
    BY DEF Procs
  <2> QED
    BY <1>1, <2>1, <2>2, BuiltIsDown DEF ClientUp
<1>5. CASE PollAuthenticates \/ RecoveryFires \/ RenewalFires \/ OutageEnds \/ UNCHANGED vars
  BY <1>2, <1>5 DEF PollAuthenticates, RecoveryFires, RenewalFires, OutageEnds, vars
<1>6. ~Unload
  BY <1>0 DEF Unload
<1>7. CASE RunCallback
  <2>1. CASE UNCHANGED <<client, net>>
    BY <1>2, <1>7, <2>1 DEF RunCallback
  <2>2. CASE Stop("switch")
    <3>1. connected' = connected /\ callbacks # <<>>
      BY <1>7 DEF RunCallback
    <3>2. client # NoClient /\ "switch" \in Procs
      BY <1>1, <3>1 DEF OneAtWork, OnTheClient, Quiet, Procs
    <3> QED
      BY <1>1, <2>2, <3>1, <3>2, StopBeginsFlag
  <2> QED
    BY <1>7, <2>1, <2>2 DEF RunCallback
<1>8. ASSUME NEW c \in Clients, BrokerAnswers(c) \/ Dropped(c)
      PROVE  connected' <=> ClientUp'
  <2>1. Live(c) /\ client' = client
    BY <1>8 DEF BrokerAnswers, Accepted, Refused, Dropped, Live
  <2>2. c = client /\ client # NoClient
    BY <1>1, <2>1, LiveAlone, SessionAssumption
  <2>3. CASE Accepted(c)
    BY <1>1, <2>1, <2>2, <2>3 DEF Accepted, ClientUp
  <2>4. CASE Dropped(c)
    BY <1>1, <2>1, <2>2, <2>4 DEF Dropped, ClientUp
  <2>5. ASSUME NEW permanent \in BOOLEAN, Refused(c, permanent)
        PROVE  connected' <=> ClientUp'
    <3>1. ~connected' /\ net[c] = "trying"
          /\ \/ net' = net \/ net' = [net EXCEPT ![c] = "refused"] \/ net' = GiveUp(net)
      BY <2>5 DEF Refused
    <3>2. net'[c] # "up"
      BY <1>1, <2>2, <3>1 DEF GiveUp, Disconnected
    <3> QED
      BY <2>1, <2>2, <3>1, <3>2 DEF ClientUp
  <2> QED
    BY <1>8, <2>3, <2>4, <2>5 DEF BrokerAnswers
<1> QED
  BY <1>3, <1>4, <1>5, <1>6, <1>7, <1>8 DEF Next

\* Until the shutdown the flag that commands and polls go by is set exactly while
\* the manager's own client is accepted: no handler of a stopped client clears it,
\* and no restart leaves it set.
THEOREM FlagIsTheClients == Smooth /\ Spec => []FlagMatchesClient
<1>1. Init => FlagMatchesClient
  BY DEF Init, FlagMatchesClient
<1>2. TypeOK /\ ConnectionInv /\ FlagMatchesClient /\ [Next]_vars => FlagMatchesClient'
  BY FlagKeeps
<1> QED
  BY <1>1, <1>2, OneInvariance, PTL DEF Spec

-----------------------------------------------------------------------------
(* The shutdown.                                                           *)

\* No start is past its check of _closed when the entry is unloaded.
UnloadsBetweenStarts == Unload => \A p \in Procs : ~Building(p)

\* From such a shutdown on nothing builds, only the client it stops may be live,
\* and it does not return before it has let go of that one.
ShuttingDown ==
    /\ \A p \in Procs : ~Building(p)
    /\ \A c \in Clients : Live(c) => c = client
    /\ pc["setup"] = "done"
    /\ pc["unload"] \in {"loop_stop", "disconnect", "done"}
    /\ pc["unload"] = "done" => client = NoClient
    /\ \A p \in Procs :
        pc[p] \in {"loop_stop", "disconnect"} => client \in {arg[p], NoClient}

\* What a step may do that leaves the shutdown its way: a coroutine goes to an
\* await that builds nothing, and the clients are left or let go of.
LEMMA ShutdownGoesOn ==
    ASSUME TypeOK, ShuttingDown,
           \A c \in Clients : Live(c)' => Live(c) /\ c = client',
           client' \in {client, NoClient},
           \A p \in Procs :
               \/ pc'[p] = pc[p] /\ arg'[p] = arg[p]
               \/ /\ ~Building(p)' /\ p # "setup"
                  /\ pc'[p] \in {"loop_stop", "disconnect"}
                         => client' \in {arg'[p], NoClient}
                  /\ p = "unload" =>
                         \/ pc'[p] \in {"loop_stop", "disconnect"}
                         \/ pc'[p] = "done" /\ client' = NoClient
    PROVE  ShuttingDown'
<1>1. \A p \in Procs : ~Building(p)'
  BY DEF ShuttingDown, Building
<1>2. pc'["setup"] = "done"
  BY DEF ShuttingDown, Procs
<1>3. pc'["unload"] \in {"loop_stop", "disconnect", "done"}
      /\ (pc'["unload"] = "done" => client' = NoClient)
  BY DEF ShuttingDown, Procs
<1>4. \A p \in Procs : pc'[p] \in {"loop_stop", "disconnect"} => client' \in {arg'[p], NoClient}
  BY DEF ShuttingDown
<1> QED
  BY <1>1, <1>2, <1>3, <1>4 DEF ShuttingDown

\* A stop that begins or ends after the shutdown.
LEMMA AfterStopShut ==
    ASSUME TypeOK, closed, ShuttingDown, NEW p \in Procs \ {"setup"},
           NEW n \in [Clients -> NetStates], \A c \in Clients : n[c] \notin {"trying", "up"},
           AfterStop(p, n)
    PROVE  ShuttingDown'
<1>1. Finish(p) /\ client' = NoClient /\ net' = n
  BY DEF AfterStop, Start
<1>2. /\ pc' = [pc EXCEPT ![p] = IF p = "unload" THEN "done" ELSE "idle"]
      /\ \A q \in Procs : q # p => pc'[q] = pc[q] /\ arg'[q] = arg[q]
  BY <1>1 DEF Finish, TypeOK
<1>3. \A c \in Clients : ~Live(c)'
  BY <1>1 DEF Live
<1>4. pc'[p] = IF p = "unload" THEN "done" ELSE "idle"
  BY <1>2 DEF TypeOK
<1>5. ~Building(p)'
  BY <1>4 DEF Building
<1> QED
  BY <1>1, <1>2, <1>3, <1>4, <1>5, ShutdownGoesOn

\* So does one that has only begun.
LEMMA StopShut ==
    ASSUME TypeOK, closed, ShuttingDown, NEW p \in Procs \ {"setup", "unload"}, Stop(p)
    PROVE  ShuttingDown'
<1>1. CASE client = NoClient
  <2>1. \A c \in Clients : net[c] \notin {"trying", "up"}
    BY <1>1, SessionAssumption DEF ShuttingDown, Live
  <2> QED
    BY <1>1, <2>1, AfterStopShut DEF Stop, TypeOK
<1>2. CASE client # NoClient
  <2>1. /\ pc' = [pc EXCEPT ![p] = "loop_stop"] /\ arg' = [arg EXCEPT ![p] = client]
        /\ client' = client /\ net' = net
    BY <1>2 DEF Stop, Goto
  <2>2. /\ pc'[p] = "loop_stop" /\ arg'[p] = client
        /\ \A q \in Procs : q # p => pc'[q] = pc[q] /\ arg'[q] = arg[q]
    BY <2>1 DEF TypeOK
  <2>3. ~Building(p)'
    BY <2>2 DEF Building
  <2>4. \A c \in Clients : Live(c)' => Live(c) /\ c = client'
    BY <2>1 DEF Live, ShuttingDown
  <2> QED
    BY <2>1, <2>2, <2>3, <2>4, ShutdownGoesOn
<1> QED
  BY <1>1, <1>2

\* The shutdown begins with one client at most, and stops it.
LEMMA UnloadShuts ==
    ASSUME TypeOK, ConnectionInv, ~closed, Unload, \A p \in Procs : ~Building(p)
    PROVE  ShuttingDown'
<1>1. OnTheClient /\ OneAtWork /\ Whereabouts /\ pc["setup"] = "done" /\ client # NoClient
  BY DEF ConnectionInv, Unload, OnTheClient
<1>2. /\ pc' = [pc EXCEPT !["unload"] = "loop_stop"] /\ arg' = [arg EXCEPT !["unload"] = client]
      /\ client' = client /\ net' = net
  BY <1>1 DEF Unload, Stop, Goto
<1>3. /\ pc'["unload"] = "loop_stop" /\ arg'["unload"] = client
      /\ \A p \in Procs : p # "unload" => pc'[p] = pc[p] /\ arg'[p] = arg[p]
  BY <1>2 DEF TypeOK, Procs
<1>4. \A p \in Procs : ~Building(p)'
  BY <1>3 DEF Building
<1>5. \A c \in Clients : Live(c)' => c = client'
  BY <1>1, <1>2 DEF Live, OnTheClient
<1>6. \A p \in Procs : pc'[p] \in {"loop_stop", "disconnect"} => client' \in {arg'[p], NoClient}
  <2> SUFFICES ASSUME NEW p \in Procs, p # "unload", pc[p] \in {"loop_stop", "disconnect"}
               PROVE  arg[p] = client
    BY <1>2, <1>3
  <2>1. p \in Starters
    BY <1>1 DEF Whereabouts, Starters, Procs
  <2> QED
    BY <1>1, <2>1 DEF OnTheClient
<1>7. pc'["setup"] = "done"
  BY <1>1, <1>3 DEF Procs
<1> QED
  BY <1>2, <1>3, <1>4, <1>5, <1>6, <1>7 DEF ShuttingDown

\* After it, the steps of the coroutines,
LEMMA ProcShut ==
    ASSUME TypeOK, ConnectionInv, closed, ShuttingDown, NEW p \in Procs, ProcStep(p)
    PROVE  ShuttingDown'
<1>0. Whereabouts /\ ~Building(p) /\ net \in [Clients -> NetStates]
      /\ client \in Clients \cup {NoClient}
  BY DEF ConnectionInv, ShuttingDown, TypeOK
<1>1. CASE Tls(p) \/ Dial(p) \/ DialRaises(p) \/ LoopStart(p)
  BY <1>0, <1>1 DEF Tls, Dial, DialRaises, LoopStart, Building
<1>2. CASE StopLoop(p)
  <2> DEFINE c == arg[p]
             n == [net EXCEPT ![c] = CASE @ = "trying" -> "parked"
                                       [] @ = "up" -> "held"
                                       [] OTHER -> @]
  <2>1. /\ n \in [Clients -> NetStates]
        /\ \A d \in Clients : n[d] \in {"trying", "up"} => Live(d)
    BY <1>0 DEF NetStates, Live
  <2>2. pc[p] = "loop_stop"
        /\ IF client = NoClient THEN AfterStop(p, n)
           ELSE Goto(p, "disconnect", client) /\ net' = n /\ client' = client
    BY <1>2 DEF StopLoop
  <2>3. p # "setup"
    BY <2>2 DEF ShuttingDown
  <2> HIDE DEF n
  <2>4. CASE client = NoClient
    <3>1. \A d \in Clients : n[d] \notin {"trying", "up"}
      BY <2>1, <2>4, SessionAssumption DEF ShuttingDown
    <3> QED
      BY <2>1, <2>2, <2>3, <2>4, <3>1, AfterStopShut
  <2>5. CASE client # NoClient
    <3>1. /\ pc' = [pc EXCEPT ![p] = "disconnect"] /\ arg' = [arg EXCEPT ![p] = client]
          /\ client' = client /\ net' = n
      BY <2>2, <2>5 DEF Goto
    <3>2. /\ pc'[p] = "disconnect" /\ arg'[p] = client
          /\ \A q \in Procs : q # p => pc'[q] = pc[q] /\ arg'[q] = arg[q]
      BY <3>1 DEF TypeOK
    <3>3. ~Building(p)'
      BY <3>2 DEF Building
    <3>4. \A d \in Clients : Live(d)' => Live(d) /\ d = client'
      BY <2>1, <3>1 DEF Live, ShuttingDown
    <3> QED
      BY <2>3, <3>1, <3>2, <3>3, <3>4, ShutdownGoesOn
  <2> QED
    BY <2>4, <2>5
<1>3. CASE StopDisconnect(p)
  <2> DEFINE n == Disconnected(net, arg[p])
  <2>1. n \in [Clients -> NetStates]
    BY <1>0 DEF Disconnected, NetStates
  <2>2. pc[p] = "disconnect" /\ AfterStop(p, n) /\ p # "setup"
    BY <1>3 DEF StopDisconnect, ShuttingDown
  <2>3. \A d \in Clients : n[d] \notin {"trying", "up"}
    BY <1>0, <2>2, SessionAssumption DEF Disconnected, ShuttingDown, Live
  <2> HIDE DEF n
  <2> QED
    BY <2>1, <2>2, <2>3, AfterStopShut
<1>4. CASE LoginSucceeds(p) \/ LoginFails(p)
  <2>1. /\ pc[p] \in {"login", "start_login"} /\ client' = client /\ net' = net
        /\ pc'[p] \in {"heartbeat", "start_heartbeat", "idle", "done"}
        /\ \A q \in Procs : q # p => pc'[q] = pc[q] /\ arg'[q] = arg[q]
    BY <1>4 DEF LoginSucceeds, LoginFails, Finish, TypeOK
  <2>2. p # "setup" /\ p # "unload"
    BY <2>1 DEF ShuttingDown
  <2>3. ~Building(p)' /\ \A c \in Clients : Live(c)' => Live(c) /\ c = client'
    BY <2>1 DEF Building, Live, ShuttingDown
  <2> QED
    BY <2>1, <2>2, <2>3, ShutdownGoesOn
<1>5. CASE Heartbeat(p)
  <2>1. pc[p] = "heartbeat" /\ p \in {"recover", "renew"}
    BY <1>0, <1>5 DEF Heartbeat, Whereabouts, Procs
  <2>2. CASE p = "recover"
    BY <1>5, <2>1, <2>2, StopShut DEF Heartbeat
  <2>3. CASE p = "renew"
    <3>1. /\ client' = client /\ net' = net /\ pc'[p] = "idle"
          /\ \A q \in Procs : q # p => pc'[q] = pc[q] /\ arg'[q] = arg[q]
      BY <1>5, <2>1, <2>3 DEF Heartbeat, Finish, TypeOK
    <3>2. ~Building(p)' /\ \A c \in Clients : Live(c)' => Live(c) /\ c = client'
      BY <3>1 DEF Building, Live, ShuttingDown
    <3> QED
      BY <2>3, <3>1, <3>2, ShutdownGoesOn
  <2> QED
    BY <2>1, <2>2, <2>3
<1> QED
  BY <1>1, <1>2, <1>3, <1>4, <1>5 DEF ProcStep

\* and all others, leave no other client live.
LEMMA OthersShut ==
    ASSUME TypeOK, ConnectionInv, closed, ShuttingDown, [Next]_vars,
           \A p \in Procs : ~ProcStep(p)
    PROVE  ShuttingDown'
<1>1. ~SetupStarts /\ ~Unload /\ ~PollAuthenticates
  BY DEF SetupStarts, Unload, PollAuthenticates, ShuttingDown
<1>2. CASE RecoveryFires \/ OutageEnds \/ UNCHANGED vars
  <2>1. UNCHANGED <<client, net, pc, arg>>
    BY <1>2 DEF RecoveryFires, OutageEnds, vars
  <2> QED
    BY <2>1 DEF ShuttingDown, Building, Live
<1>3. CASE RenewalFires
  <2>1. /\ client' = client /\ net' = net /\ pc'["renew"] = "login" /\ "renew" \in Procs
        /\ \A q \in Procs : q # "renew" => pc'[q] = pc[q] /\ arg'[q] = arg[q]
    BY <1>3 DEF RenewalFires, Awaits, Goto, TypeOK, Procs
  <2>2. ~Building("renew")' /\ \A c \in Clients : Live(c)' => Live(c) /\ c = client'
    BY <2>1 DEF Building, Live, ShuttingDown
  <2> QED
    BY <2>1, <2>2, ShutdownGoesOn
<1>4. CASE RunCallback
  <2>1. CASE UNCHANGED <<client, net, pc, arg>>
    BY <2>1 DEF ShuttingDown, Building, Live
  <2>2. CASE Stop("switch")
    BY <2>2, StopShut DEF Procs
  <2> QED
    BY <1>4, <2>1, <2>2 DEF RunCallback
<1>5. ASSUME NEW c \in Clients, BrokerAnswers(c) \/ Dropped(c)
      PROVE  ShuttingDown'
  <2>1. UNCHANGED <<client, pc, arg>> /\ Live(c)
    BY <1>5 DEF BrokerAnswers, Accepted, Refused, Dropped, Live
  <2>2. \A d \in Clients : net'[d] \in {"trying", "up"} => net[d] \in {"trying", "up"}
    BY <1>5 DEF BrokerAnswers, Accepted, Refused, Dropped, GiveUp, Disconnected, TypeOK
  <2> QED
    BY <2>1, <2>2 DEF ShuttingDown, Building, Live
<1> QED
  BY <1>1, <1>2, <1>3, <1>4, <1>5 DEF Next

\* An unload that meets no start under way ends the session: when it has returned
\* no client talks to the broker, whichever recovery, switch, renewal or refusal
\* was under way, and none will. The starts it excludes are those of the finding.
THEOREM UnloadEndsSession ==
    Smooth /\ Spec /\ [][UnloadsBetweenStarts]_vars => []SessionEndsWithEntry
<1> DEFINE Inv == closed => ShuttingDown
<1>1. Init => Inv
  BY DEF Init
<1>2. TypeOK /\ ConnectionInv /\ Inv /\ [Next]_vars /\ [UnloadsBetweenStarts]_vars => Inv'
  <2> SUFFICES ASSUME TypeOK, ConnectionInv, Inv, [Next]_vars, [UnloadsBetweenStarts]_vars,
                      closed'
               PROVE  ShuttingDown'
    OBVIOUS
  <2>1. CASE closed
    BY <2>1, ProcShut, OthersShut
  <2>2. CASE ~closed
    <3>1. Unload
      BY <2>2 DEF Next, ProcStep, Tls, Dial, DialRaises, LoopStart, StopLoop,
                  StopDisconnect, LoginSucceeds, LoginFails, Heartbeat, SetupStarts,
                  PollAuthenticates, RecoveryFires, RenewalFires, RunCallback,
                  BrokerAnswers, Accepted, Refused, Dropped, OutageEnds, vars
    <3>2. \A p \in Procs : ~Building(p)
      BY <2>2, <3>1 DEF UnloadsBetweenStarts, vars
    <3> QED
      BY <2>2, <3>1, <3>2, UnloadShuts
  <2> QED
    BY <2>1, <2>2
<1>3. Inv => SessionEndsWithEntry
  BY SessionAssumption DEF ShuttingDown, SessionEndsWithEntry, Procs
<1> QED
  BY <1>1, <1>2, <1>3, OneInvariance, PTL DEF Spec
===============================================================================
