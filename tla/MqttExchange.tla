---------------------------- MODULE MqttExchange ----------------------------
(***************************************************************************)
(* LocklyMQTTManager._exchange (mqtt.py): one request published over the   *)
(* broker and the wait for the reply that carries its requestId.           *)
(*                                                                         *)
(* Three parties interleave: the coroutine of each call on the event loop, *)
(* an executor thread that runs paho's publish, and paho's network thread, *)
(* which runs on_message and hands replies back with call_soon_threadsafe. *)
(* The broker may lose, repeat, delay and reorder what passes through it.  *)
(***************************************************************************)
EXTENDS Naturals, Sequences, FiniteSets

CONSTANTS
    Calls,          \* calls of _exchange; request ids are uuid4, so one id each
    QuietCalls,     \* the calls made with quiet=True
    InfoCalls,      \* calls of async_device_info; the rest are async_exchange_frame
    NoReply,        \* None, where a reply could be
    Cancelled,      \* a future that wait_for has cancelled
    MaxReplies,     \* bound: replies the far side makes to one request
    MaxCallbacks    \* bound: callbacks waiting on the event loop

\* What a reply says: "ok" has code 0 and a decodable lock response, "hollow"
\* has code 0 and none, "refused" has another code, and "exception" is the
\* server's own delivery failure (code 3005, device is offline).
Kinds == {"ok", "hollow", "refused", "exception"}

Message == [id : Calls, kind : Kinds]

ASSUME CallsAssumption == QuietCalls \subseteq Calls /\ InfoCalls \subseteq Calls
ASSUME NoReplyAssumption ==
    NoReply \notin Message /\ Cancelled \notin Message /\ Cancelled # NoReply
ASSUME BoundAssumption == MaxReplies \in Nat \ {0} /\ MaxCallbacks \in Nat \ {0}

VARIABLES
    connected,      \* a client is set and _connected is True
    phase,          \* phase[c]: where the coroutine of call c stands
    pending,        \* keys of _pending
    quiet,          \* _quiet_requests
    future,         \* future[c]: the result of c's future, NoReply while it is open
    result,         \* result[c]: what the caller got, NoReply for None
    callbacks,      \* _set closures queued by call_soon_threadsafe, in order
    warned,         \* requests an exception was logged at WARNING for
    requests,       \* requests handed to paho; each may reach the far side
    replies,        \* replies under way to this client; any may arrive, again
    answered        \* requests the far side answered favourably

vars == <<connected, phase, pending, quiet, future, result, callbacks, warned,
          requests, replies, answered>>

Phases == {"new", "publishing", "sent", "unsent", "waiting", "expired", "returned"}

\* The phases between registering the future and the finally clause.
Open(c) == phase[c] \in Phases \ {"new", "returned"}

TypeOK ==
    /\ connected \in BOOLEAN
    /\ phase \in [Calls -> Phases]
    /\ pending \subseteq Calls
    /\ quiet \subseteq QuietCalls
    /\ future \in [Calls -> Message \cup {NoReply, Cancelled}]
    /\ result \in [Calls -> Message \cup {NoReply}]
    /\ callbacks \in Seq(Message)
    /\ warned \subseteq Calls
    /\ requests \subseteq Calls
    /\ replies \subseteq Message
    /\ answered \subseteq Calls

Init ==
    /\ connected \in BOOLEAN
    /\ phase = [c \in Calls |-> "new"]
    /\ pending = {}
    /\ quiet = {}
    /\ future = [c \in Calls |-> NoReply]
    /\ result = [c \in Calls |-> NoReply]
    /\ callbacks = <<>>
    /\ warned = {}
    /\ requests = {}
    /\ replies = {}
    /\ answered = {}

-----------------------------------------------------------------------------
(* The coroutine of a call.                                                *)

\* The replies that are a success to the caller: async_exchange_frame wants a
\* decodable lock response, async_device_info only a code of 0.
Accepts(c, m) == m.kind = "ok" \/ (m.kind = "hollow" /\ c \in InfoCalls)

\* Mutant of Verdict: a code of 0 alone is a success.
CodeOnlyVerdict(c, m) ==
    IF m # NoReply /\ m.kind \in {"ok", "hollow"} THEN m ELSE NoReply

\* Mutant of Verdict: any reply is a success.
AnyReplyVerdict(c, m) == m

\* What async_exchange_frame or async_device_info makes of _exchange's payload.
Verdict(c, m) == IF m # NoReply /\ Accepts(c, m) THEN m ELSE NoReply

\* Mutant of Return: no finally clause.
ReturnWithoutFinally(c, v) ==
    /\ phase' = [phase EXCEPT ![c] = "returned"]
    /\ result' = [result EXCEPT ![c] = v]
    /\ UNCHANGED <<pending, quiet>>

\* The finally clause, and the return of v to the caller.
Return(c, v) ==
    /\ phase' = [phase EXCEPT ![c] = "returned"]
    /\ result' = [result EXCEPT ![c] = v]
    /\ pending' = pending \ {c}
    /\ quiet' = quiet \ {c}

\* Mutant of Begin: every request is registered as quiet.
BeginQuietly(c) ==
    /\ phase[c] = "new"
    /\ connected
    /\ phase' = [phase EXCEPT ![c] = "publishing"]
    /\ pending' = pending \cup {c}
    /\ quiet' = quiet \cup {c}
    /\ UNCHANGED <<connected, future, result, callbacks, warned, requests,
                   replies, answered>>

\* _exchange up to its first await: register the future, then publish.
Begin(c) ==
    /\ phase[c] = "new"
    /\ connected
    /\ phase' = [phase EXCEPT ![c] = "publishing"]
    /\ pending' = pending \cup {c}
    /\ quiet' = quiet \cup ({c} \cap QuietCalls)
    /\ UNCHANGED <<connected, future, result, callbacks, warned, requests,
                   replies, answered>>

\* Not connected: None before anything is registered.
BeginOffline(c) ==
    /\ phase[c] = "new"
    /\ ~connected
    /\ phase' = [phase EXCEPT ![c] = "returned"]
    /\ UNCHANGED <<connected, pending, quiet, future, result, callbacks, warned,
                   requests, replies, answered>>

\* client.publish on the executor, accepted by paho.
PublishAccepted(c) ==
    /\ phase[c] = "publishing"
    /\ phase' = [phase EXCEPT ![c] = "sent"]
    /\ requests' = requests \cup {c}
    /\ UNCHANGED <<connected, pending, quiet, future, result, callbacks, warned,
                   replies, answered>>

\* A publish that reports rc # 0 or raises. At QoS 1 paho reports "no
\* connection" for a message it has queued and sends once it reconnects.
PublishRefused(c) ==
    /\ phase[c] = "publishing"
    /\ phase' = [phase EXCEPT ![c] = "unsent"]
    /\ requests' \in {requests, requests \cup {c}}
    /\ UNCHANGED <<connected, pending, quiet, future, result, callbacks, warned,
                   replies, answered>>

ReturnUnsent(c) ==
    /\ phase[c] = "unsent"
    /\ Return(c, NoReply)
    /\ UNCHANGED <<connected, future, callbacks, warned, requests, replies, answered>>

\* Back on the event loop after a good publish: wait_for starts.
Await(c) ==
    /\ phase[c] = "sent"
    /\ phase' = [phase EXCEPT ![c] = "waiting"]
    /\ UNCHANGED <<connected, pending, quiet, future, result, callbacks, warned,
                   requests, replies, answered>>

\* Mutant of Expire: the wait has no timeout.
NeverExpire(c) == FALSE

\* wait_for's timer cancels the future. It may fire after the future was set
\* and before the coroutine has run again: the future keeps its result, but
\* the coroutine sees the timeout.
Expire(c) ==
    /\ phase[c] = "waiting"
    /\ phase' = [phase EXCEPT ![c] = "expired"]
    /\ future' = [future EXCEPT ![c] = IF @ = NoReply THEN Cancelled ELSE @]
    /\ UNCHANGED <<connected, pending, quiet, result, callbacks, warned, requests,
                   replies, answered>>

ReturnExpired(c) ==
    /\ phase[c] = "expired"
    /\ Return(c, NoReply)
    /\ UNCHANGED <<connected, future, callbacks, warned, requests, replies, answered>>

ReturnReply(c) ==
    /\ phase[c] = "waiting"
    /\ future[c] \in Message
    /\ Return(c, Verdict(c, future[c]))
    /\ UNCHANGED <<connected, future, callbacks, warned, requests, replies, answered>>

-----------------------------------------------------------------------------
(* paho's network thread and the callbacks it queues.                      *)

\* An exception is logged, at DEBUG if its request is known to be quiet.
LogException(m) ==
    warned' = IF m.kind = "exception" /\ m.id \notin quiet
              THEN warned \cup {m.id} ELSE warned

\* on_message and _resolve: a reply for a request still pending is queued for
\* the event loop, any other is dropped. The message is not consumed: the
\* broker delivers replies more than once.
OnMessage(m) ==
    /\ m \in replies
    /\ LogException(m)
    /\ \/ /\ m.id \in pending
          /\ Len(callbacks) < MaxCallbacks
          /\ callbacks' = Append(callbacks, m)
       \/ /\ m.id \notin pending
          /\ UNCHANGED callbacks
    /\ UNCHANGED <<connected, phase, pending, quiet, future, result, requests,
                   replies, answered>>

\* Mutant of Done: a future that wait_for cancelled counts as open.
DoneByResult(c) == future[c] \in Message

\* A future is done once it has a result, and once wait_for has cancelled it.
\* The future of a failed publish is never awaited: it stays open for good.
Done(c) == future[c] # NoReply

\* _set, on the event loop. The closure holds the future itself, so it runs
\* the same whether or not its request is still pending.
SetResult ==
    /\ callbacks # <<>>
    /\ callbacks' = Tail(callbacks)
    /\ LET m == Head(callbacks) IN
       future' = IF Done(m.id) THEN future ELSE [future EXCEPT ![m.id] = m]
    /\ UNCHANGED <<connected, phase, pending, quiet, result, warned, requests,
                   replies, answered>>

-----------------------------------------------------------------------------
(* The connection, the broker and what lies beyond it.                     *)

\* on_connect and on_disconnect; MqttSession has the detail.
Reconnect ==
    /\ connected' = ~connected
    /\ UNCHANGED <<phase, pending, quiet, future, result, callbacks, warned,
                   requests, replies, answered>>

\* The far side gets a request, however late, and replies to it.
FarSideReplies(c, k) ==
    /\ c \in requests
    /\ Cardinality({m \in replies : m.id = c}) < MaxReplies
    /\ replies' = replies \cup {[id |-> c, kind |-> k]}
    /\ answered' = IF Accepts(c, [id |-> c, kind |-> k])
                   THEN answered \cup {c} ELSE answered
    /\ UNCHANGED <<connected, phase, pending, quiet, future, result, callbacks,
                   warned, requests>>

-----------------------------------------------------------------------------
\* What the event loop and the executor owe a call once it has begun.
CallStep(c) ==
    \/ PublishAccepted(c) \/ PublishRefused(c)
    \/ ReturnUnsent(c) \/ Await(c) \/ Expire(c) \/ ReturnExpired(c)
    \/ ReturnReply(c)

Next ==
    \/ \E c \in Calls : Begin(c) \/ BeginOffline(c) \/ CallStep(c)
    \/ \E m \in Message : OnMessage(m)
    \/ SetResult
    \/ Reconnect
    \/ \E c \in Calls, k \in Kinds : FarSideReplies(c, k)

Spec == Init /\ [][Next]_vars

\* The executor finishes its jobs, timers fire and the loop runs what is ready.
\* Nothing is owed by the broker or the far side.
Fairness == \A c \in Calls : WF_vars(CallStep(c))

FairSpec == Spec /\ Fairness

-----------------------------------------------------------------------------
(* Properties.                                                             *)

\* A caller that gets a reply gets the reply to its own request, and the far
\* side really answered that request favourably (_resolve matches requestId;
\* the docstring of async_exchange_frame: a code of 0 alone is not a success).
OnlyOwnAnswers ==
    \A c \in Calls : result[c] # NoReply =>
        result[c].id = c /\ Accepts(c, result[c]) /\ c \in answered

\* _pending holds exactly the calls between registration and the finally
\* clause, and _quiet_requests exactly the quiet ones among them: no way out of
\* _exchange leaks an entry or drops one that is still awaited.
PendingIsOpenCalls ==
    /\ pending = {c \in Calls : Open(c)}
    /\ quiet = pending \cap QuietCalls

\* What a future is settled with is final: no second delivery overwrites a
\* result, none reaches a future that wait_for has cancelled, though its _set
\* was queued before (set_result would raise InvalidStateError on the event
\* loop), and the timer takes no result back. A call that has returned keeps
\* what it returned, though a future that its failed publish left open may
\* still be set.
FirstReplySettles ==
    [][\A c \in Calls :
          /\ future[c] # NoReply => future'[c] = future[c]
          /\ phase[c] = "returned" => result'[c] = result[c]]_vars

\* An exception for a quiet request is never a warning while it is awaited.
OpenQuietCallsStayQuiet ==
    [][\A c \in QuietCalls : Open(c) => (c \in warned' => c \in warned)]_vars

\* Every call returns, whatever the broker, the network and the far side do.
EveryCallReturns == \A c \in Calls : Open(c) ~> phase[c] = "returned"

-----------------------------------------------------------------------------
(* Refinement: a call as its caller sees it.                               *)

OutcomeOf(c) ==
    IF phase[c] = "new" THEN "new"
    ELSE IF Open(c) THEN "open"
    ELSE IF result[c] # NoReply THEN "success" ELSE "failure"

Promise == INSTANCE ExchangeSpec WITH
    outcome <- [c \in Calls |-> OutcomeOf(c)]

\* Every behaviour of the exchange is one the abstract specification allows.
KeepsPromise == Promise!Spec
=============================================================================
