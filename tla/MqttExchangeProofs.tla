-------------------------- MODULE MqttExchangeProofs --------------------------
(***************************************************************************)
(* What holds of MqttExchange for every set of calls and every bound:      *)
(* its types, its bookkeeping, that a caller only ever gets the answer to  *)
(* its own request, and that it implements ExchangeSpec.                   *)
(*                                                                         *)
(* OnlyOwnAnswers is not inductive: it says nothing of a reply that is     *)
(* still on its way. OwnReplies follows a reply from the far side through  *)
(* the callback queue into the future, and Unreturned keeps a result from  *)
(* appearing before its call returns.                                      *)
(***************************************************************************)
EXTENDS MqttExchange, TLAPS

\* Whatever could reach the caller of a request was really sent for it.
OwnReplies ==
    /\ \A m \in replies : Accepts(m.id, m) => m.id \in answered
    /\ \A i \in DOMAIN callbacks :
           Accepts(callbacks[i].id, callbacks[i]) => callbacks[i].id \in answered
    /\ \A c \in Calls : future[c] \in Message =>
           future[c].id = c /\ (Accepts(c, future[c]) => c \in answered)

\* A call has no result before it returns, and no request before it begins.
Unreturned ==
    /\ \A c \in Calls : phase[c] # "returned" => result[c] = NoReply
    /\ \A c \in requests : phase[c] # "new"

IInv ==
    /\ TypeOK
    /\ PendingIsOpenCalls
    /\ OwnReplies
    /\ Unreturned
    /\ OnlyOwnAnswers

-----------------------------------------------------------------------------
(* Types.                                                                  *)

\* The initial states have their types.
LEMMA InitTypeOK == Init => TypeOK
BY DEF Init, TypeOK, Phases

\* Every step of the exchange preserves the types of its variables.
LEMMA NextTypeOK == TypeOK /\ [Next]_vars => TypeOK'
<1> SUFFICES ASSUME TypeOK, [Next]_vars PROVE TypeOK'
  OBVIOUS
<1> USE CallsAssumption DEF TypeOK, Phases
<1>1. CASE \E c \in Calls : Begin(c) \/ BeginOffline(c)
  BY <1>1 DEF Begin, BeginOffline
<1>2. CASE \E c \in Calls : PublishAccepted(c) \/ PublishRefused(c) \/ Await(c) \/ Expire(c)
  BY <1>2 DEF PublishAccepted, PublishRefused, Await, Expire
<1>3. CASE \E c \in Calls : ReturnUnsent(c) \/ ReturnExpired(c) \/ ReturnReply(c)
  BY <1>3 DEF ReturnUnsent, ReturnExpired, ReturnReply, Return, Verdict
<1>4. CASE \E m \in Message : OnMessage(m)
  <2> PICK m \in Message : OnMessage(m)
    BY <1>4
  <2>1. warned' \subseteq Calls
    BY DEF OnMessage, LogException, Message
  <2>2. callbacks' \in Seq(Message)
    BY DEF OnMessage
  <2> QED
    BY <2>1, <2>2 DEF OnMessage
<1>5. CASE SetResult
  <2>1. Head(callbacks) \in Message /\ callbacks' \in Seq(Message)
    BY <1>5 DEF SetResult
  <2> QED
    BY <1>5, <2>1 DEF SetResult, Message
<1>6. CASE Reconnect
  BY <1>6 DEF Reconnect
<1>7. CASE \E c \in Calls, k \in Kinds : FarSideReplies(c, k)
  BY <1>7 DEF FarSideReplies, Message
<1>8. CASE UNCHANGED vars
  BY <1>8 DEF vars
<1> QED
  BY <1>1, <1>2, <1>3, <1>4, <1>5, <1>6, <1>7, <1>8 DEF Next, CallStep

\* The variables keep their types throughout every behaviour.
THEOREM TypeCorrect == Spec => []TypeOK
BY InitTypeOK, NextTypeOK, PTL DEF Spec

-----------------------------------------------------------------------------
(* The inductive invariant.                                                *)

\* The inductive invariant holds initially.
LEMMA InitIInv == Init => IInv
BY InitTypeOK, NoReplyAssumption DEF Init, IInv, TypeOK, PendingIsOpenCalls, Open, OwnReplies, Unreturned,
   OnlyOwnAnswers, Phases

\* Leaving the finally clause with an answer that is good for c.
LEMMA ReturnKeepsIInv ==
    ASSUME IInv, TypeOK', NEW c \in Calls, NEW v, Open(c), Return(c, v),
           v # NoReply => v.id = c /\ Accepts(c, v) /\ c \in answered,
           UNCHANGED <<connected, future, callbacks, warned, requests, replies, answered>>
    PROVE  IInv'
<1> USE DEF IInv, TypeOK, Return
<1>1. PendingIsOpenCalls'
  BY DEF PendingIsOpenCalls, Open, Phases
<1>2. OwnReplies'
  BY DEF OwnReplies, Accepts
<1>3. Unreturned'
  BY DEF Unreturned
<1>4. OnlyOwnAnswers'
  BY DEF OnlyOwnAnswers, Accepts
<1> QED
  BY <1>1, <1>2, <1>3, <1>4

\* Every step of the exchange preserves the inductive invariant.
LEMMA NextIInv == IInv /\ [Next]_vars => IInv'
<1> SUFFICES ASSUME IInv, [Next]_vars PROVE IInv'
  OBVIOUS
<1>0. TypeOK'
  BY NextTypeOK DEF IInv
<1>1. ASSUME NEW c \in Calls, Begin(c) PROVE IInv'
  <2> USE <1>0, <1>1 DEF IInv, TypeOK, Begin
  <2>1. PendingIsOpenCalls'
    BY CallsAssumption DEF PendingIsOpenCalls, Open, Phases
  <2>2. OwnReplies' /\ Unreturned' /\ OnlyOwnAnswers'
    BY DEF OwnReplies, Unreturned, OnlyOwnAnswers, Accepts
  <2> QED
    BY <2>1, <2>2
<1>2. ASSUME NEW c \in Calls, BeginOffline(c) PROVE IInv'
  <2> USE <1>0, <1>2 DEF IInv, TypeOK, BeginOffline
  <2>1. PendingIsOpenCalls'
    BY DEF PendingIsOpenCalls, Open, Phases
  <2>2. OwnReplies' /\ Unreturned' /\ OnlyOwnAnswers'
    BY DEF OwnReplies, Unreturned, OnlyOwnAnswers, Accepts
  <2> QED
    BY <2>1, <2>2
<1>3. ASSUME NEW c \in Calls, PublishAccepted(c) \/ PublishRefused(c) PROVE IInv'
  <2> USE <1>0, <1>3 DEF IInv, TypeOK, PublishAccepted, PublishRefused
  <2>1. PendingIsOpenCalls'
    BY DEF PendingIsOpenCalls, Open, Phases
  <2>2. OwnReplies' /\ Unreturned' /\ OnlyOwnAnswers'
    BY DEF OwnReplies, Unreturned, OnlyOwnAnswers, Accepts
  <2> QED
    BY <2>1, <2>2
<1>4. ASSUME NEW c \in Calls, Await(c) \/ Expire(c) PROVE IInv'
  <2> USE <1>0, <1>4 DEF IInv, TypeOK, Await, Expire
  <2>1. PendingIsOpenCalls'
    BY DEF PendingIsOpenCalls, Open, Phases
  <2>2. Unreturned' /\ OnlyOwnAnswers'
    BY DEF Unreturned, OnlyOwnAnswers, Accepts
  <2>3. \A d \in Calls : future'[d] \in Message => future'[d] = future[d]
    BY NoReplyAssumption
  <2>4. OwnReplies'
    BY <2>3 DEF OwnReplies, Accepts
  <2> QED
    BY <2>1, <2>2, <2>4
<1>5. ASSUME NEW c \in Calls, ReturnUnsent(c) \/ ReturnExpired(c) PROVE IInv'
  BY <1>0, <1>5, ReturnKeepsIInv DEF ReturnUnsent, ReturnExpired, Open, Phases
<1>6. ASSUME NEW c \in Calls, ReturnReply(c) PROVE IInv'
  <2>1. Open(c)
    BY <1>6 DEF ReturnReply, Open, Phases
  <2> DEFINE v == Verdict(c, future[c])
  <2>2. v # NoReply => v.id = c /\ Accepts(c, v) /\ c \in answered
    BY <1>6 DEF ReturnReply, Verdict, IInv, OwnReplies
  <2> QED
    BY <1>0, <1>6, <2>1, <2>2, ReturnKeepsIInv DEF ReturnReply
<1>7. ASSUME NEW m \in Message, OnMessage(m) PROVE IInv'
  <2> USE <1>0, <1>7 DEF IInv, TypeOK, OnMessage
  <2>1. PendingIsOpenCalls' /\ Unreturned' /\ OnlyOwnAnswers'
    BY DEF PendingIsOpenCalls, Open, Unreturned, OnlyOwnAnswers, Accepts
  <2>2. \A i \in DOMAIN callbacks' :
            Accepts(callbacks'[i].id, callbacks'[i]) => callbacks'[i].id \in answered
    <3>1. CASE UNCHANGED callbacks
      BY <3>1 DEF OwnReplies, Accepts
    <3>2. CASE callbacks' = Append(callbacks, m)
      <4> TAKE i \in DOMAIN callbacks'
      <4>1. i \in DOMAIN callbacks \/ (i = Len(callbacks) + 1 /\ callbacks'[i] = m)
        BY <3>2
      <4> QED
        BY <3>2, <4>1 DEF OwnReplies, Accepts
    <3> QED
      BY <3>1, <3>2
  <2>3. OwnReplies'
    BY <2>2 DEF OwnReplies, Accepts
  <2> QED
    BY <2>1, <2>3
<1>8. CASE SetResult
  <2> USE <1>0, <1>8 DEF IInv, TypeOK, SetResult
  <2>1. PendingIsOpenCalls' /\ Unreturned' /\ OnlyOwnAnswers'
    BY DEF PendingIsOpenCalls, Open, Unreturned, OnlyOwnAnswers, Accepts
  <2> DEFINE m == Head(callbacks)
  <2>2. m \in Message /\ m = callbacks[1] /\ 1 \in DOMAIN callbacks
    OBVIOUS
  <2>3. \A i \in DOMAIN callbacks' :
            i + 1 \in DOMAIN callbacks /\ callbacks'[i] = callbacks[i + 1]
    OBVIOUS
  <2>4. ASSUME NEW c \in Calls, future'[c] \in Message
        PROVE  future'[c].id = c /\ (Accepts(c, future'[c]) => c \in answered)
    <3>1. CASE future'[c] = future[c]
      BY <2>4, <3>1 DEF OwnReplies
    <3>2. CASE future'[c] # future[c]
      <4>1. c = m.id /\ future'[c] = m
        BY <2>2, <3>2
      <4> QED
        BY <2>2, <4>1 DEF OwnReplies
    <3> QED
      BY <3>1, <3>2
  <2>5. OwnReplies'
    BY <2>3, <2>4 DEF OwnReplies, Accepts
  <2> QED
    BY <2>1, <2>5
<1>9. CASE Reconnect \/ UNCHANGED vars
  BY <1>0, <1>9 DEF IInv, Reconnect, vars, PendingIsOpenCalls, Open, OwnReplies, Unreturned,
     OnlyOwnAnswers, Accepts
<1>10. ASSUME NEW c \in Calls, NEW k \in Kinds, FarSideReplies(c, k) PROVE IInv'
  <2> USE <1>0, <1>10 DEF IInv, TypeOK, FarSideReplies
  <2>1. PendingIsOpenCalls' /\ Unreturned'
    BY DEF PendingIsOpenCalls, Open, Unreturned
  <2>2. answered \subseteq answered'
    OBVIOUS
  <2>3. \A m \in replies' : Accepts(m.id, m) => m.id \in answered'
    BY DEF OwnReplies, Accepts
  <2>4. OwnReplies' /\ OnlyOwnAnswers'
    BY <2>2, <2>3 DEF OwnReplies, OnlyOwnAnswers, Accepts
  <2> QED
    BY <2>1, <2>4
<1> QED
  BY <1>1, <1>2, <1>3, <1>4, <1>5, <1>6, <1>7, <1>8, <1>9, <1>10 DEF Next, CallStep

\* The inductive invariant holds throughout every behaviour.
LEMMA IInvHolds == Spec => []IInv
BY InitIInv, NextIInv, PTL DEF Spec

\* A caller that gets a reply gets the reply to its own request, and the far
\* side really answered that request favourably, for every number of calls.
THEOREM OwnAnswers == Spec => []OnlyOwnAnswers
<1>1. IInv => OnlyOwnAnswers
  BY DEF IInv
<1> QED
  BY <1>1, IInvHolds, PTL

\* No way out of _exchange leaks an entry of _pending or _quiet_requests, or
\* drops one that is still awaited.
THEOREM PendingBookkeeping == Spec => []PendingIsOpenCalls
<1>1. IInv => PendingIsOpenCalls
  BY DEF IInv
<1> QED
  BY <1>1, IInvHolds, PTL

-----------------------------------------------------------------------------
(* Action properties.                                                      *)

\* A call that has returned keeps what it returned.
LEMMA ReturnedKeepsResult ==
    ASSUME TypeOK, Next, NEW c \in Calls, phase[c] = "returned"
    PROVE  result'[c] = result[c]
<1>1. ASSUME NEW d \in Calls, NEW v, phase[d] # "returned", Return(d, v)
      PROVE  result'[c] = result[c]
  BY <1>1 DEF Return, TypeOK
<1>2. CASE result' = result
  BY <1>2
<1> QED
  BY <1>1, <1>2 DEF Next, CallStep, Begin, BeginOffline, PublishAccepted, PublishRefused,
     ReturnUnsent, Await, Expire, ReturnExpired, ReturnReply, OnMessage, SetResult,
     Reconnect, FarSideReplies

\* A future is settled at most once, with a result or by wait_for's timeout, and
\* nothing that arrives afterwards changes it or what the caller was told.
THEOREM FutureSettlesOnce == Spec => FirstReplySettles
<1> DEFINE Settles == \A c \in Calls :
               /\ future[c] # NoReply => future'[c] = future[c]
               /\ phase[c] = "returned" => result'[c] = result[c]
<1>1. TypeOK /\ [Next]_vars => [Settles]_vars
  <2> SUFFICES ASSUME TypeOK, Next PROVE Settles
    BY DEF vars
  <2> SUFFICES \A c \in Calls : future[c] # NoReply => future'[c] = future[c]
    BY ReturnedKeepsResult
  <2>1. CASE SetResult
    BY <2>1 DEF SetResult, Done, TypeOK
  <2>2. CASE \E c \in Calls : Expire(c)
    BY <2>2 DEF Expire, TypeOK
  <2>3. CASE future' = future
    BY <2>3
  <2> QED
    BY <2>1, <2>2, <2>3 DEF Next, CallStep, Begin, BeginOffline, PublishAccepted,
       PublishRefused, ReturnUnsent, Await, ReturnExpired, ReturnReply, OnMessage,
       Reconnect, FarSideReplies
<1> QED
  BY <1>1, TypeCorrect, PTL DEF Spec, FirstReplySettles

\* An exception for a quiet request is never a warning while it is awaited.
THEOREM AwaitedQuietCallsStayQuiet == Spec => OpenQuietCallsStayQuiet
<1> DEFINE Quiet == \A c \in QuietCalls : Open(c) => (c \in warned' => c \in warned)
<1>1. IInv /\ [Next]_vars => [Quiet]_vars
  <2> SUFFICES ASSUME IInv, Next PROVE Quiet
    BY DEF vars
  <2>1. ASSUME NEW m \in Message, OnMessage(m) PROVE Quiet
    <3> SUFFICES ASSUME NEW c \in QuietCalls, Open(c), c \in warned', c \notin warned
                 PROVE  FALSE
      OBVIOUS
    <3>1. c = m.id /\ c \notin quiet
      BY <2>1 DEF OnMessage, LogException
    <3>2. c \in quiet
      BY CallsAssumption DEF IInv, PendingIsOpenCalls
    <3> QED
      BY <3>1, <3>2
  <2>2. CASE warned' = warned
    BY <2>2
  <2> QED
    BY <2>1, <2>2 DEF Next, CallStep, Begin, BeginOffline, PublishAccepted, PublishRefused,
       ReturnUnsent, Await, Expire, ReturnExpired, ReturnReply, SetResult, Reconnect,
       FarSideReplies
<1> QED
  BY <1>1, IInvHolds, PTL DEF Spec, OpenQuietCallsStayQuiet

-----------------------------------------------------------------------------
(* Refinement.                                                             *)

\* What a change of one call's phase does to the caller's view of it.
LEMMA ViewOfStep ==
    ASSUME IInv, IInv', NEW c \in Calls,
           \A d \in Calls \ {c} : phase'[d] = phase[d] /\ result'[d] = result[d]
    PROVE  [d \in Calls |-> OutcomeOf(d)]' =
               [[d \in Calls |-> OutcomeOf(d)] EXCEPT ![c] = OutcomeOf(c)']
BY DEF OutcomeOf, Open, IInv, TypeOK

\* Every step of the exchange is a step of the abstract specification, or none
\* that its variables show.
LEMMA StepKeepsPromise == IInv /\ IInv' /\ [Next]_vars => [Promise!Next]_(Promise!vars)
<1> SUFFICES ASSUME IInv, IInv', [Next]_vars PROVE [Promise!Next]_(Promise!vars)
  OBVIOUS
<1> USE DEF Promise!vars
<1> DEFINE view == [d \in Calls |-> OutcomeOf(d)]
<1>1. ASSUME NEW c \in Calls, Begin(c) PROVE Promise!Open(c)
  <2>1. OutcomeOf(c) = "new" /\ OutcomeOf(c)' = "open"
    BY <1>1 DEF Begin, OutcomeOf, Open, Phases, IInv, TypeOK
  <2> QED
    BY <1>1, <2>1, ViewOfStep DEF Begin, Promise!Open, IInv, TypeOK
<1>2. ASSUME NEW c \in Calls, BeginOffline(c) PROVE Promise!Fail(c)
  <2>1. OutcomeOf(c) = "new" /\ OutcomeOf(c)' = "failure"
    BY <1>2 DEF BeginOffline, OutcomeOf, Open, Phases, IInv, TypeOK, Unreturned
  <2> QED
    BY <1>2, <2>1, ViewOfStep DEF BeginOffline, Promise!Fail, IInv, TypeOK
<1>3. ASSUME NEW c \in Calls, NEW v, Open(c), Return(c, v), UNCHANGED answered,
             v # NoReply => c \in answered
      PROVE  Promise!Succeed(c) \/ Promise!Fail(c)
  <2>1. OutcomeOf(c) = "open" /\ OutcomeOf(c)' = IF v # NoReply THEN "success" ELSE "failure"
    BY <1>3 DEF Return, OutcomeOf, Open, Phases, IInv, TypeOK
  <2> QED
    BY <1>3, <2>1, ViewOfStep DEF Return, Promise!Succeed, Promise!Fail, IInv, TypeOK
<1>4. ASSUME NEW c \in Calls, ReturnUnsent(c) \/ ReturnExpired(c)
      PROVE  Promise!Succeed(c) \/ Promise!Fail(c)
  BY <1>3, <1>4 DEF ReturnUnsent, ReturnExpired, Open, Phases
<1>5. ASSUME NEW c \in Calls, ReturnReply(c) PROVE Promise!Succeed(c) \/ Promise!Fail(c)
  <2>1. Verdict(c, future[c]) # NoReply => c \in answered
    BY <1>5 DEF ReturnReply, Verdict, IInv, OwnReplies
  <2> QED
    BY <1>3, <1>5, <2>1 DEF ReturnReply, Open, Phases
<1>6. ASSUME NEW c \in Calls, NEW k \in Kinds, FarSideReplies(c, k)
      PROVE  Promise!Answer(c) \/ UNCHANGED Promise!vars
  <2>1. view' = view
    BY <1>6 DEF FarSideReplies, OutcomeOf, Open
  <2>2. view[c] # "new"
    BY <1>6 DEF FarSideReplies, OutcomeOf, Open, IInv, Unreturned
  <2> QED
    BY <1>6, <2>1, <2>2 DEF FarSideReplies, Promise!Answer
<1>7. ASSUME NEW c \in Calls,
             PublishAccepted(c) \/ PublishRefused(c) \/ Await(c) \/ Expire(c)
      PROVE  UNCHANGED Promise!vars
  <2>1. \A d \in Calls : OutcomeOf(d)' = OutcomeOf(d)
    BY <1>7 DEF PublishAccepted, PublishRefused, Await, Expire, OutcomeOf, Open, Phases,
       IInv, TypeOK
  <2>2. view' = view
    BY <2>1
  <2> QED
    BY <1>7, <2>2 DEF PublishAccepted, PublishRefused, Await, Expire
<1>8. CASE UNCHANGED <<phase, result, answered>>
  BY <1>8 DEF OutcomeOf, Open
<1> QED
  BY <1>1, <1>2, <1>4, <1>5, <1>6, <1>7, <1>8
  DEF Next, CallStep, OnMessage, SetResult, Reconnect, vars, Promise!Next

\* The exchange implements its abstract specification.
THEOREM ExchangeImplementsPromise == Spec => KeepsPromise
<1>1. Init => Promise!Init
  BY DEF Init, Promise!Init, OutcomeOf
<1> QED
  BY <1>1, IInvHolds, StepKeepsPromise, PTL DEF Spec, Promise!Spec, KeepsPromise
=============================================================================
