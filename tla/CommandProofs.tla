---------------------------- MODULE CommandProofs ----------------------------
(***************************************************************************)
(* What holds of Command for any number of overlapping calls, any host     *)
(* passwords and any use of the lock: a command is reported as carried out *)
(* only if the lock acted on it, the state shown is one the bolt has been  *)
(* in, the entity's flags are true, and a command fails only if it was     *)
(* disturbed on each of its transports. To its caller a command is a       *)
(* single request (ExchangeSpec).                                          *)
(***************************************************************************)
EXTENDS Command, TLAPS

\* An acknowledgement on its way to a call is the lock's own. Without it
\* ReportedMeansActed, which says nothing of replies, is not inductive.
AckMeansActed == \A c \in Commands : reply[c].what = "accepted" => c \in acted

IInv ==
    /\ TypeOK
    /\ AckMeansActed
    /\ ReportedMeansActed
    /\ FlagsAreTrue

-----------------------------------------------------------------------------
(* Types.                                                                  *)

\* What is built from the constants has the types TypeOK asks for.
LEMMA ConstantTypes ==
    /\ Nothing \in Reply /\ Fresh \in Local /\ "stale" \in Nonces
    /\ \A c \in Commands : Wanted(c) \in Bolt
BY CommandAssumption DEF Nonces, Nothing, Reply, Fresh, Local, Bolt, Failures, Wanted

\* The types hold initially.
LEMMA InitTypeOK == Init => TypeOK
BY CommandAssumption, ConstantTypes DEF Init, TypeOK, Bolt

\* Where a step of call c leaves its coroutine, the types hold.
LEMMA GotoTypes ==
    ASSUME TypeOK, NEW c \in Commands, NEW label \in Requests \cup {"pause"}, NEW l \in Local,
           Goto(c, label, l)
    PROVE  /\ pc' \in [Commands -> Requests \cup {"new", "pause", "returned"}]
           /\ local' \in [Commands -> Local] /\ reply' \in [Commands -> Reply]
           /\ outcome' \in [Commands -> BOOLEAN]
           /\ isLocking' \in BOOLEAN /\ isUnlocking' \in BOOLEAN
BY ConstantTypes DEF Goto, TypeOK

\* Where call c returns, the types hold.
LEMMA ReturnTypes ==
    ASSUME TypeOK, NEW c \in Commands, NEW ok \in BOOLEAN, Return(c, ok)
    PROVE  /\ pc' \in [Commands -> Requests \cup {"new", "pause", "returned"}]
           /\ local' \in [Commands -> Local] /\ reply' \in [Commands -> Reply]
           /\ outcome' \in [Commands -> BOOLEAN]
           /\ isLocking' \in BOOLEAN /\ isUnlocking' \in BOOLEAN
BY ConstantTypes DEF Return, TypeOK

\* What is recorded of a disturbance is a set of transports.
LEMMA SpoilTypes ==
    ASSUME TypeOK, NEW S, Spoil(S)
    PROVE  spoilt' \in [Commands -> SUBSET Transports]
BY DEF Spoil, Transport, Transports, TypeOK

\* Drawing a nonce changes nothing but the nonces of what calls hold and are told.
LEMMA DrawsNonceTypes ==
    ASSUME TypeOK, NEW replies \in [Commands -> Reply], DrawsNonce(replies)
    PROVE  /\ known' \in Nonces /\ late' \subseteq Commands
           /\ local' \in [Commands -> Local] /\ reply' \in [Commands -> Reply]
           /\ \A d \in Commands :
                /\ local'[d].pwd = local[d].pwd /\ local'[d].caps = local[d].caps
                /\ local'[d].nonce = "stale"
                /\ reply'[d].what = replies[d].what /\ reply'[d].bolt = replies[d].bolt
                /\ reply'[d].code = replies[d].code /\ reply'[d].nonce = "stale"
<1>1. ASSUME NEW d \in Commands
      PROVE  /\ local'[d] \in Local /\ local'[d].nonce = "stale"
             /\ local'[d].pwd = local[d].pwd /\ local'[d].caps = local[d].caps
  <2>1. local[d] \in Local /\ local'[d] = [local[d] EXCEPT !.nonce = "stale"]
    BY DEF TypeOK, DrawsNonce
  <2> QED
    BY <2>1, ConstantTypes DEF Local
<1>2. ASSUME NEW d \in Commands
      PROVE  /\ reply'[d] \in Reply /\ reply'[d].nonce = "stale"
             /\ reply'[d].what = replies[d].what /\ reply'[d].bolt = replies[d].bolt
             /\ reply'[d].code = replies[d].code
  <2>1. replies[d] \in Reply /\ reply'[d] = [replies[d] EXCEPT !.nonce = "stale"]
    BY DEF DrawsNonce
  <2> QED
    BY <2>1, ConstantTypes DEF Reply
<1>3. local' \in [Commands -> Local]
  BY <1>1 DEF DrawsNonce
<1>4. reply' \in [Commands -> Reply]
  BY <1>2 DEF DrawsNonce
<1>5. known' \in Nonces /\ late' \subseteq Commands
  BY ConstantTypes DEF DrawsNonce
<1> QED
  BY <1>1, <1>2, <1>3, <1>4, <1>5

\* The answers to a request are answers.
LEMMA AnswerTypes ==
    ASSUME TypeOK, NEW why \in Failures
    PROVE  /\ [Nothing EXCEPT !.what = "status", !.nonce = "current", !.bolt = bolt] \in Reply
           /\ [Nothing EXCEPT !.what = "entries",
                              !.code = IF slot0 THEN lockCode ELSE NoCode] \in Reply
           /\ [Nothing EXCEPT !.what = "accepted"] \in Reply
           /\ [Nothing EXCEPT !.what = "rejected"] \in Reply
           /\ [Nothing EXCEPT !.what = "refusal"] \in Reply
           /\ [Nothing EXCEPT !.what = why] \in Reply
BY ConstantTypes DEF Reply, Failures, TypeOK, Nothing, Nonces

\* Turning to MQTT keeps the types,
LEMMA TryMqttTypes ==
    ASSUME TypeOK, NEW c \in Commands, NEW l \in Local, TryMqtt(c, l)
    PROVE  /\ pc' \in [Commands -> Requests \cup {"new", "pause", "returned"}]
           /\ local' \in [Commands -> Local] /\ reply' \in [Commands -> Reply]
           /\ outcome' \in [Commands -> BOOLEAN]
           /\ isLocking' \in BOOLEAN /\ isUnlocking' \in BOOLEAN
           /\ spoilt' \in [Commands -> SUBSET Transports]
<1>1. CASE Goto(c, "mqtt_status", l) /\ UNCHANGED spoilt
  BY <1>1, GotoTypes DEF Requests, StatusAt, TypeOK
<1>2. CASE Return(c, FALSE) /\ spoilt' = [spoilt EXCEPT ![c] = @ \cup {"mqtt"}]
  BY <1>2, ReturnTypes DEF TypeOK, Transports
<1> QED
  BY <1>1, <1>2 DEF TryMqtt

\* and so does sending a directive over either transport.
LEMMA SendDirectiveTypes ==
    ASSUME TypeOK, NEW c \in Commands, NEW label \in CommandAt, NEW l \in Local,
           learned' \in BOOLEAN, SendDirective(c, label, l)
    PROVE  /\ pc' \in [Commands -> Requests \cup {"new", "pause", "returned"}]
           /\ local' \in [Commands -> Local] /\ reply' \in [Commands -> Reply]
           /\ outcome' \in [Commands -> BOOLEAN]
           /\ isLocking' \in BOOLEAN /\ isUnlocking' \in BOOLEAN
           /\ spoilt' \in [Commands -> SUBSET Transports]
<1> DEFINE m == [l EXCEPT !.caps = learned']
<1>1. m \in Local
  BY DEF Local
<1>2. CASE Goto(c, label, m) /\ UNCHANGED spoilt
  BY <1>1, <1>2, GotoTypes DEF Requests, TypeOK
<1>3. CASE TryMqtt(c, l)
  BY <1>3, TryMqttTypes
<1> QED
  BY <1>2, <1>3 DEF SendDirective

\* Every step of the commands, the transports and the lock preserves the types.
LEMMA NextTypeOK == TypeOK /\ [Next]_vars => TypeOK'
<1> SUFFICES ASSUME TypeOK, [Next]_vars PROVE TypeOK'
  OBVIOUS
<1>1. ASSUME NEW c \in Commands, Begin(c) PROVE TypeOK'
  BY <1>1 DEF Begin, TypeOK, fixed, sharedVars, lockVars, Requests, StatusAt
<1>2. ASSUME NEW c \in Commands, StatusReturns(c) PROVE TypeOK'
  <2> DEFINE l == [local[c] EXCEPT !.nonce = known']
  <2>1. reply[c] \in Reply /\ local[c] \in Local
    BY DEF TypeOK
  <2>2. /\ learned' \in BOOLEAN /\ known' \in Nonces
        /\ shown' \in Bolt \cup {"unknown"}
    BY <1>2, <2>1 DEF StatusReturns, Learn, TypeOK, Reply
  <2>3. l \in Local /\ [l EXCEPT !.pwd = hostPwd] \in Local
    BY <2>1, <2>2 DEF Local, TypeOK
  <2>4. CASE SendDirective(c, "directive", [l EXCEPT !.pwd = hostPwd])
    BY <1>2, <2>2, <2>3, <2>4, SendDirectiveTypes
    DEF StatusReturns, TypeOK, CommandAt, fixed, lockVars
  <2>5. CASE Goto(c, "password", l) /\ UNCHANGED spoilt
    BY <1>2, <2>2, <2>3, <2>5, GotoTypes
    DEF StatusReturns, TypeOK, Requests, PasswordAt, fixed, lockVars
  <2>6. CASE SendDirective(c, "directive_again", l)
    BY <1>2, <2>2, <2>3, <2>6, SendDirectiveTypes
    DEF StatusReturns, TypeOK, CommandAt, fixed, lockVars
  <2> QED
    BY <1>2, <2>4, <2>5, <2>6 DEF StatusReturns
<1>3. ASSUME NEW c \in Commands, MqttStatusReturns(c) PROVE TypeOK'
  <2> DEFINE r == reply[c]
             cached == IF hostRead THEN hostPwd ELSE NoCode
             l == [nonce |-> IF r.what = "status" THEN r.nonce ELSE local[c].nonce,
                   pwd |-> IF local[c].pwd # NoCode THEN local[c].pwd ELSE cached,
                   caps |-> learned']
             label == IF l.pwd # NoCode THEN "mqtt_command" ELSE "mqtt_password"
  <2>1. r \in Reply /\ local[c] \in Local
    BY DEF TypeOK
  <2>2. /\ learned' \in BOOLEAN /\ known' \in Nonces
        /\ shown' \in Bolt \cup {"unknown"}
    BY <1>3, <2>1 DEF MqttStatusReturns, Learn, TypeOK, Reply
  <2>3. cached \in Codes \cup {NoCode}
    BY DEF TypeOK
  <2>4. l \in Local
    BY <2>1, <2>2, <2>3 DEF Local, Reply
  <2>5. label \in Requests
    BY DEF Requests, CommandAt, PasswordAt
  <2>6. Goto(c, label, l)
    BY <1>3 DEF MqttStatusReturns
  <2> HIDE DEF l, label
  <2> QED
    BY <1>3, <2>2, <2>4, <2>5, <2>6, GotoTypes DEF MqttStatusReturns, TypeOK, fixed, lockVars
<1>4. ASSUME NEW c \in Commands, PasswordReturns(c) PROVE TypeOK'
  <2> DEFINE r == reply[c]
             l == [local[c] EXCEPT !.pwd = IF r.what = "entries" THEN r.code ELSE NoCode]
  <2>1. r \in Reply /\ local[c] \in Local
    BY DEF TypeOK
  <2>2. hostRead' \in BOOLEAN /\ hostPwd' \in Codes \cup {NoCode} /\ learned' \in BOOLEAN
    BY <1>4, <2>1 DEF PasswordReturns, TypeOK, Reply
  <2>3. l \in Local
    BY <2>1 DEF Local, Reply
  <2>4. CASE SendDirective(c, "directive", l)
    BY <1>4, <2>2, <2>3, <2>4, SendDirectiveTypes
    DEF PasswordReturns, TypeOK, CommandAt, fixed, lockVars
  <2>5. CASE Goto(c, "mqtt_command", l) /\ UNCHANGED spoilt
    BY <1>4, <2>2, <2>3, <2>5, GotoTypes
    DEF PasswordReturns, TypeOK, Requests, CommandAt, fixed, lockVars
  <2> QED
    BY <1>4, <2>4, <2>5 DEF PasswordReturns
<1>5. ASSUME NEW c \in Commands, CommandAccepted(c) PROVE TypeOK'
  BY <1>5, ReturnTypes, ConstantTypes DEF CommandAccepted, TypeOK, fixed, lockVars
<1>6. ASSUME NEW c \in Commands, CommandFails(c) \/ PauseEnds(c) PROVE TypeOK'
  <2>1. local[c] \in Local
    BY DEF TypeOK
  <2>2. CASE \/ Goto(c, "pause", local[c]) /\ UNCHANGED spoilt
             \/ Goto(c, "status_again", local[c]) /\ UNCHANGED spoilt
    <3>1. /\ pc' \in [Commands -> Requests \cup {"new", "pause", "returned"}]
          /\ local' \in [Commands -> Local] /\ reply' \in [Commands -> Reply]
          /\ outcome' \in [Commands -> BOOLEAN]
          /\ isLocking' \in BOOLEAN /\ isUnlocking' \in BOOLEAN
      BY <2>1, <2>2, GotoTypes DEF Requests, StatusAt
    <3> QED
      BY <1>6, <2>2, <3>1
      DEF CommandFails, PauseEnds, TypeOK, fixed, sharedVars, lockVars
  <2>3. CASE TryMqtt(c, local[c])
    BY <1>6, <2>1, <2>3, TryMqttTypes
    DEF CommandFails, PauseEnds, TypeOK, fixed, sharedVars, lockVars
  <2>4. CASE Return(c, FALSE) /\ UNCHANGED spoilt
    BY <1>6, <2>4, ReturnTypes
    DEF CommandFails, PauseEnds, TypeOK, fixed, sharedVars, lockVars
  <2> QED
    BY <1>6, <2>2, <2>3, <2>4 DEF CommandFails, PauseEnds
<1>0. UNCHANGED outside => TypeOK' \/
          ~(/\ known' \in Nonces /\ local' \in [Commands -> Local]
            /\ reply' \in [Commands -> Reply] /\ late' \subseteq Commands
            /\ bolt' \in Bolt /\ acted' \subseteq Commands /\ wasTrue' \subseteq Bolt
            /\ spoilt' \in [Commands -> SUBSET Transports])
  BY DEF TypeOK, outside, fixed
<1>7. ASSUME NEW c \in Commands, NEW r \in Reply, Answer(c, r), UNCHANGED outside,
             late' \subseteq Commands, spoilt' \in [Commands -> SUBSET Transports]
      PROVE  TypeOK'
  <2>1. reply' \in [Commands -> Reply]
    BY <1>7 DEF Answer, Answered, TypeOK
  <2> QED
    BY <1>0, <1>7, <2>1 DEF Answer, TypeOK
<1>8. ASSUME NEW c \in Commands, NEW replies \in [Commands -> Reply], ActOn(c, replies),
             UNCHANGED outside, spoilt' \in [Commands -> SUBSET Transports]
      PROVE  TypeOK'
  <2>1. DrawsNonce(replies)
    BY <1>8 DEF ActOn
  <2>2. bolt' \in Bolt /\ acted' \subseteq Commands /\ wasTrue' \subseteq Bolt
    BY <1>8, ConstantTypes DEF ActOn, TypeOK
  <2> QED
    BY <1>0, <1>8, <2>1, <2>2, DrawsNonceTypes
<1>9. ASSUME NEW c \in Commands, LateFrameArrives(c) PROVE TypeOK'
  BY <1>8, <1>9, SpoilTypes DEF LateFrameArrives, TypeOK
<1>10. CASE LockUsed
  <2>1. /\ known' \in Nonces /\ late' \subseteq Commands
        /\ local' \in [Commands -> Local] /\ reply' \in [Commands -> Reply]
    BY <1>10, DrawsNonceTypes DEF LockUsed, TypeOK
  <2>2. spoilt' \in [Commands -> SUBSET Transports]
    BY <1>10, SpoilTypes DEF LockUsed
  <2> QED
    BY <1>10, <2>1, <2>2 DEF LockUsed, TypeOK, fixed
<1>11. CASE UNCHANGED vars
  BY <1>11 DEF vars, TypeOK, fixed, sharedVars, callVars, lockVars
<1>12. ASSUME NEW c \in Commands, LockAnswers(c) PROVE TypeOK'
  <2> DEFINE accepted == [Nothing EXCEPT !.what = "accepted"]
  <2>1. CASE ActOn(c, Answered(c, accepted)) /\ Spoil(Holders \ {c})
    <3>1. Answered(c, accepted) \in [Commands -> Reply]
      BY AnswerTypes DEF Answered, TypeOK, Failures
    <3> QED
      BY <1>8, <1>12, <2>1, <3>1, SpoilTypes DEF LockAnswers
  <2>2. CASE UNCHANGED <<late, spoilt>>
    <3>1. late' \subseteq Commands /\ spoilt' \in [Commands -> SUBSET Transports]
      BY <2>2 DEF TypeOK
    <3>2. "refusal" \in Failures
      BY DEF Failures
    <3>3. \E r \in Reply : Answer(c, r) \/ ActOn(c, Answered(c, accepted))
      BY <1>12, <3>2, AnswerTypes DEF LockAnswers
    <3>4. CASE \E r \in Reply : Answer(c, r)
      BY <1>7, <1>12, <3>1, <3>4 DEF LockAnswers
    <3>5. CASE ActOn(c, Answered(c, accepted))
      <4>1. Answered(c, accepted) \in [Commands -> Reply]
        BY <3>2, AnswerTypes DEF Answered, TypeOK
      <4> QED
        BY <1>8, <1>12, <3>1, <3>5, <4>1 DEF LockAnswers
    <3> QED
      BY <3>3, <3>4, <3>5
  <2> QED
    BY <1>12, <2>1, <2>2 DEF LockAnswers
<1>13. ASSUME NEW c \in Commands, CloudRefuses(c) PROVE TypeOK'
  <2>1. "refusal" \in Failures
    BY DEF Failures
  <2> QED
    BY <1>7, <1>13, <2>1, AnswerTypes DEF CloudRefuses, TypeOK
<1>14. ASSUME NEW c \in Commands, NEW why \in Failures, RequestFails(c, why) PROVE TypeOK'
  <2>1. late' \subseteq Commands
    BY <1>14 DEF RequestFails, TypeOK
  <2> QED
    BY <1>7, <1>14, <2>1, AnswerTypes, SpoilTypes DEF RequestFails
<1> QED
  BY <1>1, <1>2, <1>3, <1>4, <1>5, <1>6, <1>9, <1>10, <1>11, <1>12, <1>13, <1>14
  DEF Next, CallStep

\* The variables keep their types throughout every behaviour.
THEOREM TypeCorrect == Spec => []TypeOK
BY InitTypeOK, NextTypeOK, PTL DEF Spec

-----------------------------------------------------------------------------
(* The acknowledgement invariant and the flags.                            *)

\* What every step of call c's coroutine, Goto or Return, does to what the
\* invariant is about; it is all the proof needs to know of the control flow.
Moves(c) ==
    /\ \/ /\ pc' = [pc EXCEPT ![c] = pc'[c]]
          /\ pc'[c] \notin {"new", "returned"}
          /\ UNCHANGED <<outcome, isLocking, isUnlocking>>
       \/ Return(c, FALSE)
    /\ reply' = [reply EXCEPT ![c] = Nothing]
    /\ UNCHANGED acted

\* A step that leaves call c in its coroutine, or returns a failure, Moves.
LEMMA CoroutineMoves ==
    ASSUME TypeOK, NEW c \in Commands,
           \/ StatusReturns(c) \/ MqttStatusReturns(c) \/ PasswordReturns(c)
           \/ CommandFails(c) \/ PauseEnds(c)
    PROVE  Moves(c) /\ pc[c] \notin {"new", "returned"}
<1>1. ASSUME NEW label \in Requests \cup {"pause"}, NEW l, Goto(c, label, l), UNCHANGED acted
      PROVE  Moves(c)
  BY <1>1 DEF Moves, Goto, TypeOK, Requests, StatusAt, PasswordAt, CommandAt
<1>2. ASSUME Return(c, FALSE), UNCHANGED acted PROVE Moves(c)
  BY <1>2 DEF Moves, Return
<1>3. ASSUME NEW l, TryMqtt(c, l), UNCHANGED acted PROVE Moves(c)
  BY <1>1, <1>2, <1>3 DEF TryMqtt, Requests, StatusAt
<1>4. ASSUME NEW label \in CommandAt, NEW l, SendDirective(c, label, l), UNCHANGED acted
      PROVE  Moves(c)
  BY <1>1, <1>3, <1>4 DEF SendDirective, Requests
<1>5. CASE StatusReturns(c)
  BY <1>1, <1>4, <1>5
  DEF StatusReturns, lockVars, CommandAt, Requests, PasswordAt
<1>6. CASE MqttStatusReturns(c)
  BY <1>1, <1>6
  DEF MqttStatusReturns, lockVars, CommandAt, Requests, PasswordAt
<1>7. CASE PasswordReturns(c)
  BY <1>1, <1>4, <1>7
  DEF PasswordReturns, lockVars, CommandAt, Requests, PasswordAt
<1>8. CASE CommandFails(c)
  BY <1>1, <1>2, <1>3, <1>8 DEF CommandFails, lockVars, CommandAt
<1>9. CASE PauseEnds(c)
  BY <1>1, <1>9 DEF PauseEnds, lockVars, Requests, StatusAt
<1> QED
  BY <1>5, <1>6, <1>7, <1>8, <1>9

\* What the transports and the lock do leaves the coroutines where they are. It
\* changes one call's answer at most, to what the lock has done or a failure.
LEMMA LockSpeaks ==
    ASSUME TypeOK, NEW c \in Commands,
           \/ LockAnswers(c) \/ CloudRefuses(c) \/ \E why \in Failures : RequestFails(c, why)
           \/ LateFrameArrives(c) \/ LockUsed
    PROVE  /\ UNCHANGED <<pc, outcome, isLocking, isUnlocking, shown>>
           /\ acted' = acted \/ (acted' = acted \cup {c} /\ Wanted(c) \in wasTrue')
           /\ wasTrue \subseteq wasTrue'
           /\ (bolt' = bolt /\ wasTrue' = wasTrue) \/ bolt' \in wasTrue'
           /\ \A d \in Commands :
                \/ reply'[d].what = reply[d].what /\ reply'[d].bolt = reply[d].bolt
                \/ /\ d = c
                   /\ reply'[c].what = "accepted" => c \in acted'
                   /\ reply'[c].what = "status" => reply'[c].bolt = bolt
<1>1. UNCHANGED <<pc, outcome, isLocking, isUnlocking, shown>>
  BY DEF LockAnswers, CloudRefuses, RequestFails, LateFrameArrives, LockUsed, outside
<1>2. ASSUME NEW r \in Reply, Answer(c, r), r.what # "accepted",
             r.what = "status" => r.bolt = bolt
      PROVE  /\ acted' = acted /\ wasTrue' = wasTrue /\ bolt' = bolt
             /\ \A d \in Commands :
                  \/ reply'[d].what = reply[d].what /\ reply'[d].bolt = reply[d].bolt
                  \/ /\ d = c /\ reply'[c].what # "accepted"
                     /\ reply'[c].what = "status" => reply'[c].bolt = bolt
  BY <1>2 DEF Answer, Answered, TypeOK
<1>3. ASSUME NEW why \in Failures
      PROVE  /\ [Nothing EXCEPT !.what = "status", !.nonce = "current", !.bolt = bolt].bolt = bolt
             /\ \A what \in {"status", "entries", "accepted", "rejected", "refusal", why} :
                   [Nothing EXCEPT !.what = what].what = what
             /\ [Nothing EXCEPT !.what = "status", !.nonce = "current", !.bolt = bolt].what
                    = "status"
             /\ [Nothing EXCEPT !.what = "entries",
                                !.code = IF slot0 THEN lockCode ELSE NoCode].what = "entries"
             /\ why \notin {"accepted", "status"} /\ "refusal" \in Failures
  BY DEF Nothing, Failures
<1>4. ASSUME NEW replies \in [Commands -> Reply], ActOn(c, replies),
             \A d \in Commands \ {c} : replies[d] = reply[d],
             replies[c] = reply[c] \/ replies[c].what = "accepted"
      PROVE  /\ acted' = acted \cup {c} /\ Wanted(c) \in wasTrue'
             /\ wasTrue \subseteq wasTrue' /\ bolt' \in wasTrue'
             /\ \A d \in Commands :
                  \/ reply'[d].what = reply[d].what /\ reply'[d].bolt = reply[d].bolt
                  \/ /\ d = c /\ reply'[c].what = "accepted"
  <2>1. \A d \in Commands : reply'[d].what = replies[d].what /\ reply'[d].bolt = replies[d].bolt
    BY <1>4, DrawsNonceTypes DEF ActOn
  <2> QED
    BY <1>4, <2>1 DEF ActOn
<1>5. CASE LockAnswers(c)
  <2> DEFINE accepted == [Nothing EXCEPT !.what = "accepted"]
  <2>0. "refusal" \in Failures
    BY DEF Failures
  <2>1. CASE ActOn(c, Answered(c, accepted))
    <3>1. /\ Answered(c, accepted) \in [Commands -> Reply]
          /\ Answered(c, accepted)[c].what = "accepted"
          /\ \A d \in Commands \ {c} : Answered(c, accepted)[d] = reply[d]
      BY <1>3, <2>0, AnswerTypes DEF Answered, TypeOK
    <3> QED
      BY <1>1, <1>4, <2>1, <3>1
  <2>2. CASE \E r \in Reply : Answer(c, r) /\ r.what # "accepted" /\ (r.what = "status" => r.bolt = bolt)
    BY <1>1, <1>2, <2>2
  <2> QED
    BY <1>3, <1>5, <2>0, <2>1, <2>2, AnswerTypes DEF LockAnswers
<1>6. CASE CloudRefuses(c) \/ \E why \in Failures : RequestFails(c, why)
  <2>0. "refusal" \in Failures
    BY DEF Failures
  <2>1. ASSUME NEW why \in Failures, Answer(c, [Nothing EXCEPT !.what = why])
        PROVE  \E r \in Reply : Answer(c, r) /\ r.what \notin {"accepted", "status"}
    BY <1>3, <2>1, AnswerTypes
  <2>2. \E why \in Failures : Answer(c, [Nothing EXCEPT !.what = why])
    BY <1>6, <2>0 DEF CloudRefuses, RequestFails
  <2> QED
    BY <1>1, <1>2, <2>1, <2>2
<1>7. CASE LateFrameArrives(c)
  BY <1>1, <1>4, <1>7 DEF LateFrameArrives, TypeOK
<1>8. CASE LockUsed
  <2>1. \A d \in Commands : reply'[d].what = reply[d].what /\ reply'[d].bolt = reply[d].bolt
    BY <1>8, DrawsNonceTypes DEF LockUsed, TypeOK
  <2> QED
    BY <1>1, <1>8, <2>1 DEF LockUsed
<1> QED
  BY <1>5, <1>6, <1>7, <1>8

\* The invariant holds initially.
LEMMA InitIInv == Init => IInv
BY InitTypeOK DEF Init, IInv, AckMeansActed, ReportedMeansActed, FlagsAreTrue, Nothing

\* A call that moves, or returns, leaves the flags true: it lowers the one it
\* raised, and another call's is backed by that call.
LEMMA FlagsAfterReturn ==
    ASSUME TypeOK, FlagsAreTrue, NEW c \in Commands, NEW ok, Return(c, ok)
    PROVE  FlagsAreTrue'
BY DEF TypeOK, FlagsAreTrue, Return, Running

\* Every step preserves the invariant.
LEMMA NextIInv == IInv /\ [Next]_vars => IInv'
<1> SUFFICES ASSUME IInv, [Next]_vars
             PROVE  AckMeansActed' /\ ReportedMeansActed' /\ FlagsAreTrue'
  BY NextTypeOK DEF IInv
<1> USE DEF IInv
<1>1. ASSUME NEW c \in Commands, Begin(c)
      PROVE  AckMeansActed' /\ ReportedMeansActed' /\ FlagsAreTrue'
  <2>1. pc' = [pc EXCEPT ![c] = "status"] /\ c \in Running'
    BY <1>1 DEF Begin, TypeOK, Running
  <2> QED
    BY <1>1, <2>1
    DEF Begin, lockVars, AckMeansActed, ReportedMeansActed, FlagsAreTrue
<1>2. ASSUME NEW c \in Commands, Moves(c), pc[c] \notin {"new", "returned"}
      PROVE  AckMeansActed' /\ ReportedMeansActed' /\ FlagsAreTrue'
  <2>1. AckMeansActed'
    BY <1>2 DEF Moves, TypeOK, AckMeansActed, Nothing
  <2>2. ReportedMeansActed'
    BY <1>2 DEF Moves, Return, TypeOK, ReportedMeansActed
  <2>3. CASE Return(c, FALSE)
    BY <2>1, <2>2, <2>3, FlagsAfterReturn
  <2>4. CASE /\ pc' = [pc EXCEPT ![c] = pc'[c]]
             /\ pc'[c] \notin {"new", "returned"}
             /\ UNCHANGED <<outcome, isLocking, isUnlocking>>
    <3>1. Running \subseteq Running'
      BY <2>4 DEF Running, TypeOK
    <3> QED
      BY <2>1, <2>2, <2>4, <3>1 DEF FlagsAreTrue
  <2> QED
    BY <1>2, <2>3, <2>4 DEF Moves
<1>3. ASSUME NEW c \in Commands, CommandAccepted(c)
      PROVE  AckMeansActed' /\ ReportedMeansActed' /\ FlagsAreTrue'
  <2>1. AckMeansActed' /\ ReportedMeansActed'
    BY <1>3 DEF CommandAccepted, Return, lockVars, TypeOK, AckMeansActed, ReportedMeansActed,
                Nothing
  <2> QED
    BY <1>3, <2>1, FlagsAfterReturn DEF CommandAccepted
<1>4. ASSUME NEW c \in Commands,
             \/ LockAnswers(c) \/ CloudRefuses(c) \/ \E why \in Failures : RequestFails(c, why)
             \/ LateFrameArrives(c) \/ LockUsed
      PROVE  AckMeansActed' /\ ReportedMeansActed' /\ FlagsAreTrue'
  <2>1. /\ UNCHANGED <<pc, outcome, isLocking, isUnlocking>> /\ acted \subseteq acted'
        /\ \A d \in Commands : \/ reply'[d].what = reply[d].what
                               \/ d = c /\ (reply'[c].what = "accepted" => c \in acted')
    BY <1>4, LockSpeaks
  <2> QED
    BY <2>1 DEF AckMeansActed, ReportedMeansActed, FlagsAreTrue, Running
<1>5. CASE LockUsed
  <2>1. CASE Commands = {}
    BY <1>5, <2>1 DEF AckMeansActed, ReportedMeansActed, FlagsAreTrue, Running, LockUsed
  <2> QED
    BY <1>4, <1>5, <2>1
<1>9. CASE UNCHANGED vars
  BY <1>9 DEF vars, callVars, lockVars,
              AckMeansActed, ReportedMeansActed, FlagsAreTrue, Running
<1>10. ASSUME NEW c \in Commands, CallStep(c)
       PROVE  AckMeansActed' /\ ReportedMeansActed' /\ FlagsAreTrue'
  BY <1>2, <1>3, <1>4, <1>10, CoroutineMoves DEF CallStep
<1> QED
  BY <1>1, <1>4, <1>5, <1>9, <1>10 DEF Next

\* The invariant holds in every reachable state.
LEMMA IInvHolds == Spec => []IInv
BY InitIInv, NextIInv, PTL DEF Spec

-----------------------------------------------------------------------------
(* What is shown.                                                          *)

\* What the lock says or has done is a position its bolt has been in.
RepliesWereTrue ==
    /\ bolt \in wasTrue
    /\ \A c \in Commands : reply[c].what = "status" => reply[c].bolt \in wasTrue
    /\ \A c \in acted : Wanted(c) \in wasTrue

ShownInv == RepliesWereTrue /\ ShownWasTrue

\* A step of call c other than the acknowledged one shows a status it was given
\* or nothing new.
LEMMA ShowsStatus ==
    ASSUME TypeOK, NEW c \in Commands,
           \/ StatusReturns(c) \/ MqttStatusReturns(c) \/ PasswordReturns(c)
           \/ CommandFails(c) \/ PauseEnds(c)
    PROVE  /\ reply' = [reply EXCEPT ![c] = Nothing]
           /\ UNCHANGED <<bolt, wasTrue, acted>>
           /\ shown' = shown \/ (reply[c].what = "status" /\ shown' = reply[c].bolt)
<1>1. reply' = [reply EXCEPT ![c] = Nothing]
  BY CoroutineMoves DEF Moves
<1>2. UNCHANGED <<bolt, wasTrue, acted>>
  BY DEF StatusReturns, MqttStatusReturns, PasswordReturns, CommandFails, PauseEnds, lockVars
<1>3. shown' = shown \/ (reply[c].what = "status" /\ shown' = reply[c].bolt)
  BY DEF StatusReturns, MqttStatusReturns, PasswordReturns, CommandFails, PauseEnds, Learn,
         sharedVars
<1> QED
  BY <1>1, <1>2, <1>3

\* Every step keeps what is shown one of the positions the bolt has been in.
LEMMA NextShown == IInv /\ ShownInv /\ [Next]_vars => ShownInv'
<1> SUFFICES ASSUME IInv, ShownInv, [Next]_vars PROVE ShownInv'
  OBVIOUS
<1>0. TypeOK /\ AckMeansActed /\ reply \in [Commands -> Reply]
  BY DEF IInv, TypeOK
<1>1. ASSUME NEW c \in Commands, Begin(c) PROVE ShownInv'
  BY <1>1 DEF Begin, sharedVars, lockVars, ShownInv, RepliesWereTrue, ShownWasTrue
<1>2. ASSUME NEW c \in Commands,
             \/ StatusReturns(c) \/ MqttStatusReturns(c) \/ PasswordReturns(c)
             \/ CommandFails(c) \/ PauseEnds(c)
      PROVE  ShownInv'
  <2>1. /\ reply' = [reply EXCEPT ![c] = Nothing]
        /\ UNCHANGED <<bolt, wasTrue, acted>>
        /\ shown' = shown \/ (reply[c].what = "status" /\ shown' = reply[c].bolt)
    BY <1>0, <1>2, ShowsStatus
  <2> QED
    BY <1>0, <2>1 DEF ShownInv, RepliesWereTrue, ShownWasTrue, Nothing
<1>3. ASSUME NEW c \in Commands, CommandAccepted(c) PROVE ShownInv'
  <2>1. /\ reply' = [reply EXCEPT ![c] = Nothing] /\ shown' = Wanted(c)
        /\ UNCHANGED <<bolt, wasTrue, acted>> /\ c \in acted
    BY <1>0, <1>3 DEF CommandAccepted, Return, lockVars, AckMeansActed
  <2> QED
    BY <1>0, <2>1 DEF ShownInv, RepliesWereTrue, ShownWasTrue, Nothing
<1>4. ASSUME NEW c \in Commands,
             \/ LockAnswers(c) \/ CloudRefuses(c) \/ \E why \in Failures : RequestFails(c, why)
             \/ LateFrameArrives(c) \/ LockUsed
      PROVE  ShownInv'
  <2>1. /\ shown' = shown
        /\ acted' = acted \/ (acted' = acted \cup {c} /\ Wanted(c) \in wasTrue')
        /\ wasTrue \subseteq wasTrue'
        /\ (bolt' = bolt /\ wasTrue' = wasTrue) \/ bolt' \in wasTrue'
        /\ \A d \in Commands :
             \/ reply'[d].what = reply[d].what /\ reply'[d].bolt = reply[d].bolt
             \/ d = c /\ (reply'[c].what = "status" => reply'[c].bolt = bolt)
    BY <1>0, <1>4, LockSpeaks
  <2> QED
    BY <2>1 DEF ShownInv, RepliesWereTrue, ShownWasTrue
<1>5. CASE LockUsed
  <2>1. CASE Commands = {}
    BY <1>5, <2>1 DEF LockUsed, ShownInv, RepliesWereTrue, ShownWasTrue
  <2> QED
    BY <1>4, <1>5, <2>1
<1>9. CASE UNCHANGED vars
  BY <1>9 DEF vars, callVars, lockVars, sharedVars, ShownInv, RepliesWereTrue, ShownWasTrue
<1> QED
  BY <1>1, <1>2, <1>3, <1>4, <1>5, <1>9 DEF Next, CallStep

-----------------------------------------------------------------------------
(* Commands and their transports.                                          *)

\* The password the lock will tell, and any call holds that holds one.
HostPassword == IF slot0 THEN lockCode ELSE NoCode

PasswordsKnown ==
    /\ ~slot0 => lockCode = CloudCode
    /\ hostRead => hostPwd = HostPassword
    /\ \A c \in Commands :
        /\ local[c].pwd \in {NoCode, HostPassword}
        /\ ~hostRead => local[c].pwd = NoCode
        /\ reply[c].what = "entries" => reply[c].code = HostPassword

WaitsForReply == \A c \in Commands : ~InFlight(c) => reply[c] = Nothing

\* A request on a transport that nothing has disturbed gets the answer it asks for:
\* until the lock accepts the command the call holds the latest nonce, its
\* capabilities were read after the type was learned, its password is the lock's.
AsExpected(c) ==
    /\ pc[c] \in StatusAt =>
        /\ reply[c].what \in {"none", "status"}
        /\ reply[c].what = "status" => reply[c].nonce = "current"
    /\ pc[c] \in PasswordAt =>
        reply[c].what \in {"none", "entries"} /\ local[c].nonce = "current"
    /\ pc[c] \in CommandAt =>
        \/ reply[c].what = "accepted"
        \/ reply[c] = Nothing /\ local[c].nonce = "current"
    /\ pc[c] = "password" => learned
    /\ pc[c] \in CommandAt \cup {"mqtt_password"} => local[c].caps
    /\ pc[c] \in CommandAt => local[c].pwd = HostPassword

\* A call that has given up a transport was disturbed on it.
OnCourse(c) ==
    /\ hubbed /\ pc[c] \in {"pause", "status_again", "directive_again"} \cup MqttAt =>
           "hub" \in spoilt[c]
    /\ InFlight(c) /\ Reachable(c) /\ Transport(c) \notin spoilt[c] => AsExpected(c)
    /\ pc[c] = "returned" /\ ~outcome[c] =>
           "mqtt" \in spoilt[c] /\ (hubbed => "hub" \in spoilt[c])

CourseInv ==
    /\ PasswordsKnown
    /\ WaitsForReply
    /\ \A c \in Commands : OnCourse(c)

\* Once a password that had been told is changed, every call is disturbed.
Ruined == \A c \in Commands : spoilt[c] = Transports

TransportInv == Ruined \/ CourseInv

\* A call that a step does not reach stays on course.
LEMMA KeepsCourse ==
    ASSUME NEW c, OnCourse(c), UNCHANGED <<hubbed, slot0, lockCode>>,
           learned => learned', spoilt[c] \subseteq spoilt'[c],
           pc'[c] = pc[c], reply'[c] = reply[c], local'[c] = local[c], outcome'[c] = outcome[c]
    PROVE  OnCourse(c)'
<1>1. HostPassword' = HostPassword
  BY DEF HostPassword
<1>2. /\ (pc[c] \in MqttAt)' <=> pc[c] \in MqttAt
      /\ Transport(c)' = Transport(c) /\ (Reachable(c)' <=> Reachable(c))
      /\ InFlight(c)' <=> InFlight(c)
  BY DEF Transport, Reachable, InFlight
<1>3. AsExpected(c) => AsExpected(c)'
  BY <1>1 DEF AsExpected
<1> QED
  BY <1>2, <1>3 DEF OnCourse

\* A step of call c's coroutine reaches no other call, and uses up its answer.
Alone(c) ==
    /\ reply'[c] = Nothing
    /\ \A d \in Commands : spoilt[d] \subseteq spoilt'[d]
    /\ \A d \in Commands \ {c} :
         /\ pc'[d] = pc[d] /\ reply'[d] = reply[d] /\ local'[d] = local[d]
         /\ outcome'[d] = outcome[d]

\* What such a step has to show of its own call alone.
LEMMA CourseAfter ==
    ASSUME TypeOK, CourseInv, NEW c \in Commands, Alone(c),
           UNCHANGED <<hubbed, slot0, lockCode>>,
           learned => learned', hostRead' => hostPwd' = HostPassword,
           hostRead => hostRead', ~hostRead' => local'[c].pwd = NoCode,
           local'[c].pwd \in {NoCode, HostPassword},
           OnCourse(c)'
    PROVE  CourseInv'
<1>1. HostPassword' = HostPassword
  BY DEF HostPassword
<1>2. PasswordsKnown'
  BY <1>1 DEF CourseInv, PasswordsKnown, Nothing, Alone
<1>3. WaitsForReply'
  BY DEF CourseInv, WaitsForReply, InFlight, Alone
<1>4. ASSUME NEW d \in Commands PROVE OnCourse(d)'
  BY <1>4, KeepsCourse DEF CourseInv, Alone
<1> QED
  BY <1>2, <1>3, <1>4 DEF CourseInv

\* A step that goes to a label, or returns, is such a step of its own call:
LEMMA GotoAlone ==
    ASSUME TypeOK, NEW c \in Commands, NEW label, NEW l, Goto(c, label, l), UNCHANGED spoilt
    PROVE  Alone(c) /\ pc'[c] = label /\ local'[c] = l /\ spoilt'[c] = spoilt[c]
BY DEF Goto, TypeOK, Alone

\* the returning call has its outcome.
LEMMA ReturnAlone ==
    ASSUME TypeOK, NEW c \in Commands, NEW ok \in BOOLEAN, Return(c, ok),
           \A d \in Commands : spoilt[d] \subseteq spoilt'[d]
    PROVE  Alone(c) /\ pc'[c] = "returned" /\ local'[c] = Fresh /\ outcome'[c] = ok
BY DEF Return, TypeOK, Alone

\* A call that turns to MQTT, for want of a hub or since it was disturbed there, asks
\* for the status or finds MQTT down.
LEMMA TryMqttAlone ==
    ASSUME TypeOK, NEW c \in Commands, NEW l, TryMqtt(c, l), hubbed' = hubbed,
           hubbed => "hub" \in spoilt[c]
    PROVE  Alone(c) /\ local'[c] \in {l, Fresh} /\ OnCourse(c)'
<1>1. CASE Goto(c, "mqtt_status", l) /\ UNCHANGED spoilt
  <2>1. /\ Alone(c) /\ pc'[c] = "mqtt_status" /\ local'[c] = l
        /\ reply'[c] = Nothing /\ spoilt'[c] = spoilt[c]
    BY <1>1, GotoAlone DEF Alone
  <2>2. AsExpected(c)'
    BY <2>1 DEF AsExpected, PasswordAt, CommandAt, Nothing
  <2> QED
    BY <2>1, <2>2 DEF OnCourse
<1>2. CASE Return(c, FALSE) /\ spoilt' = [spoilt EXCEPT ![c] = @ \cup {"mqtt"}]
  <2>1. /\ \A d \in Commands : spoilt[d] \subseteq spoilt'[d]
        /\ spoilt'[c] = spoilt[c] \cup {"mqtt"}
    BY <1>2 DEF TypeOK
  <2>2. Alone(c) /\ pc'[c] = "returned" /\ local'[c] = Fresh
    BY <1>2, <2>1, ReturnAlone
  <2> QED
    BY <2>1, <2>2 DEF OnCourse, InFlight, Requests, StatusAt, PasswordAt, CommandAt, MqttAt
<1> QED
  BY <1>1, <1>2 DEF TryMqtt

\* A call with a hub sends its directive to it, one without turns to MQTT.
LEMMA SendDirectiveAlone ==
    ASSUME TypeOK, NEW c \in Commands, NEW label, NEW l \in Local, SendDirective(c, label, l),
           UNCHANGED <<hubbed, slot0, lockCode>>,
           \/ label = "directive_again" /\ (hubbed => "hub" \in spoilt[c])
           \/ /\ label = "directive"
              /\ hubbed /\ "hub" \notin spoilt[c] =>
                     learned' = TRUE /\ l.nonce = "current" /\ l.pwd = HostPassword
    PROVE  Alone(c) /\ local'[c].pwd \in {NoCode, l.pwd} /\ OnCourse(c)'
<1>1. CASE hubbed /\ Goto(c, label, [l EXCEPT !.caps = learned']) /\ UNCHANGED spoilt
  <2> DEFINE m == [l EXCEPT !.caps = learned']
  <2>1. m.nonce = l.nonce /\ m.pwd = l.pwd /\ m.caps = learned'
    BY DEF Local
  <2> HIDE DEF m
  <2>2. /\ Alone(c) /\ pc'[c] = label /\ local'[c] = m /\ spoilt'[c] = spoilt[c]
        /\ reply'[c] = Nothing
    BY <1>1, GotoAlone DEF Alone, m
  <2>3. HostPassword' = HostPassword
    BY DEF HostPassword
  <2>4. CASE "hub" \in spoilt[c]
    BY <2>1, <2>2, <2>4 DEF OnCourse, Transport, MqttAt
  <2>5. CASE "hub" \notin spoilt[c]
    <3>1. AsExpected(c)'
      BY <1>1, <2>1, <2>2, <2>3, <2>5 DEF AsExpected, StatusAt, PasswordAt, CommandAt
    <3> QED
      BY <1>1, <2>1, <2>2, <2>5, <3>1 DEF OnCourse, MqttAt
  <2> QED
    BY <2>4, <2>5
<1>2. CASE ~hubbed /\ TryMqtt(c, l)
  BY <1>2, TryMqttAlone DEF Fresh
<1> QED
  BY <1>1, <1>2 DEF SendDirective

\* What a call knows when its answer is in.
LEMMA AtAnswer ==
    ASSUME CourseInv, NEW c \in Commands, pc[c] \in Requests, Reachable(c),
           Transport(c) \notin spoilt[c]
    PROVE  AsExpected(c)
BY DEF CourseInv, OnCourse, InFlight

\* The status comes back: with it the nonce of the command.
LEMMA StatusKeepsCourse ==
    ASSUME IInv, CourseInv, NEW c \in Commands, StatusReturns(c)
    PROVE  CourseInv'
<1> DEFINE l == [local[c] EXCEPT !.nonce = known']
<1>1. /\ TypeOK /\ local[c] \in Local /\ reply[c] \in Reply
      /\ local[c].pwd \in {NoCode, HostPassword}
      /\ ~hostRead => local[c].pwd = NoCode
      /\ hostRead => hostPwd = HostPassword
      /\ UNCHANGED <<hubbed, slot0, lockCode, hostRead, hostPwd>>
  BY DEF IInv, TypeOK, CourseInv, PasswordsKnown, StatusReturns, fixed, lockVars
<1>2. learned => learned'
  BY DEF StatusReturns, Learn
<1>3. ASSUME hubbed, "hub" \notin spoilt[c]
      PROVE  pc[c] = "status" /\ learned' = TRUE /\ known' = "current"
  <2>1. pc[c] = "status" /\ pc[c] \in Requests /\ Reachable(c) /\ Transport(c) \notin spoilt[c]
    BY <1>3 DEF CourseInv, OnCourse, StatusReturns, Requests, StatusAt, Reachable, Transport,
                MqttAt
  <2>2. reply[c].what = "status" /\ reply[c].nonce = "current"
    BY <2>1, AtAnswer DEF AsExpected, StatusAt, StatusReturns
  <2> QED
    BY <2>1, <2>2 DEF StatusReturns, Learn
<1>4. known' \in Nonces /\ learned' \in BOOLEAN
  BY <1>1 DEF StatusReturns, Learn, TypeOK, Reply
<1>5. /\ l \in Local /\ [l EXCEPT !.pwd = hostPwd] \in Local
      /\ l.pwd = local[c].pwd /\ l.nonce = known'
      /\ [l EXCEPT !.pwd = hostPwd].pwd = hostPwd
      /\ [l EXCEPT !.pwd = hostPwd].nonce = known'
  BY <1>1, <1>4 DEF Local, TypeOK
<1> HIDE DEF l
<1>6. CASE pc[c] = "status" /\ hostRead /\ SendDirective(c, "directive", [l EXCEPT !.pwd = hostPwd])
  <2> DEFINE m == [l EXCEPT !.pwd = hostPwd]
  <2>1. m \in Local /\ m.pwd = HostPassword /\ m.nonce = known'
    BY <1>1, <1>5, <1>6
  <2> HIDE DEF m
  <2>2. SendDirective(c, "directive", m)
    BY <1>6 DEF m
  <2>3. Alone(c) /\ local'[c].pwd \in {NoCode, m.pwd} /\ OnCourse(c)'
    BY <1>1, <1>3, <2>1, <2>2, SendDirectiveAlone
  <2> QED
    BY <1>1, <1>2, <1>6, <2>1, <2>3, CourseAfter
<1>7. CASE pc[c] = "status" /\ ~hostRead /\ Goto(c, "password", l) /\ UNCHANGED spoilt
  <2>1. /\ Alone(c) /\ pc'[c] = "password" /\ local'[c] = l /\ spoilt'[c] = spoilt[c]
        /\ reply'[c] = Nothing
    BY <1>1, <1>7, GotoAlone DEF Alone
  <2>2. ASSUME hubbed, "hub" \notin spoilt[c] PROVE AsExpected(c)'
    <3>1. learned'
      BY <1>3, <2>2
    <3>2. reply'[c].what = "none"
      BY <2>1 DEF Nothing
    <3>3. local'[c].nonce = "current" /\ pc'[c] = "password"
      BY <1>3, <1>5, <2>1, <2>2
    <3> QED
      BY <3>1, <3>2, <3>3 DEF AsExpected, StatusAt, PasswordAt, CommandAt
  <2>3. OnCourse(c)'
    BY <1>1, <2>1, <2>2 DEF OnCourse, Transport, Reachable, MqttAt
  <2> QED
    BY <1>1, <1>2, <1>5, <2>1, <2>3, CourseAfter
<1>8. CASE pc[c] = "status_again" /\ SendDirective(c, "directive_again", l)
  <2>1. hubbed => "hub" \in spoilt[c]
    BY <1>3, <1>8
  <2>2. Alone(c) /\ local'[c].pwd \in {NoCode, l.pwd} /\ OnCourse(c)'
    BY <1>1, <1>5, <1>8, <2>1, SendDirectiveAlone
  <2> QED
    BY <1>1, <1>2, <1>5, <2>2, CourseAfter
<1> QED
  BY <1>6, <1>7, <1>8 DEF StatusReturns, l

\* The status comes back over MQTT: nonce, password and capabilities are fixed.
LEMMA MqttStatusKeepsCourse ==
    ASSUME IInv, CourseInv, NEW c \in Commands, MqttStatusReturns(c)
    PROVE  CourseInv'
<1> DEFINE r == reply[c]
           cached == IF hostRead THEN hostPwd ELSE NoCode
           l == [nonce |-> IF r.what = "status" THEN r.nonce ELSE local[c].nonce,
                 pwd |-> IF local[c].pwd # NoCode THEN local[c].pwd ELSE cached,
                 caps |-> learned']
           label == IF l.pwd # NoCode THEN "mqtt_command" ELSE "mqtt_password"
<1>1. /\ TypeOK /\ UNCHANGED <<hubbed, slot0, lockCode, hostRead, hostPwd, spoilt>>
      /\ hostRead => hostPwd = HostPassword
      /\ Goto(c, label, l) /\ pc[c] = "mqtt_status"
  BY DEF IInv, CourseInv, PasswordsKnown, MqttStatusReturns, fixed, lockVars
<1>2. learned => learned'
  BY DEF MqttStatusReturns, Learn
<1>3. l.pwd \in {NoCode, HostPassword} /\ (~hostRead => l.pwd = NoCode)
  BY <1>1 DEF CourseInv, PasswordsKnown
<1>4. ASSUME "mqtt" \notin spoilt[c] PROVE learned' = TRUE /\ l.caps = TRUE /\ l.nonce = "current"
  <2>1. AsExpected(c)
    BY <1>1, <1>4, AtAnswer DEF Requests, StatusAt, MqttAt, Reachable, Transport
  <2>2. r.what = "status" /\ r.nonce = "current"
    BY <1>1, <2>1 DEF AsExpected, StatusAt, MqttStatusReturns
  <2> QED
    BY <2>2 DEF MqttStatusReturns, Learn
<1>5. /\ label \in {"mqtt_command", "mqtt_password"}
      /\ label = "mqtt_command" => l.pwd = HostPassword
  BY <1>3
<1> HIDE DEF l, label
<1>6. /\ Alone(c) /\ pc'[c] = label /\ local'[c] = l /\ reply'[c] = Nothing
      /\ spoilt'[c] = spoilt[c]
  BY <1>1, GotoAlone DEF Alone
<1>7. HostPassword' = HostPassword
  BY <1>1 DEF HostPassword
<1>8. ASSUME "mqtt" \notin spoilt[c] PROVE AsExpected(c)'
  <2>1. l.caps
    BY <1>4, <1>8
  <2>2. (local[c].caps)'
    BY <1>6, <2>1
  <2>3. reply'[c].what = "none"
    BY <1>6 DEF Nothing
  <2>4. l.nonce = "current"
    BY <1>4, <1>8
  <2>5. /\ reply'[c] = Nothing /\ local'[c].nonce = "current"
        /\ pc'[c] \in {"mqtt_command", "mqtt_password"}
        /\ pc'[c] = "mqtt_command" => local'[c].pwd = HostPassword'
    BY <1>5, <1>6, <1>7, <2>4
  <2> QED
    BY <2>2, <2>3, <2>5 DEF AsExpected, StatusAt, PasswordAt, CommandAt
<1>9. hubbed => "hub" \in spoilt[c]
  BY <1>1 DEF CourseInv, OnCourse, MqttAt
<1>10. OnCourse(c)'
  BY <1>1, <1>5, <1>6, <1>8, <1>9 DEF OnCourse, Transport, MqttAt
<1> QED
  BY <1>1, <1>2, <1>3, <1>6, <1>10, CourseAfter

\* The password comes back, over either transport.
LEMMA PasswordKeepsCourse ==
    ASSUME IInv, CourseInv, NEW c \in Commands, PasswordReturns(c)
    PROVE  CourseInv'
<1> DEFINE l == [local[c] EXCEPT !.pwd = IF reply[c].what = "entries" THEN reply[c].code
                                         ELSE NoCode]
<1>1. /\ TypeOK /\ local[c] \in Local /\ reply[c] \in Reply
      /\ UNCHANGED <<hubbed, slot0, lockCode, learned>>
      /\ reply[c].what = "entries" => reply[c].code = HostPassword
      /\ pc[c] \in PasswordAt /\ reply[c].what # "none"
  BY DEF IInv, TypeOK, CourseInv, PasswordsKnown, PasswordReturns, fixed, lockVars
<1>2. /\ hostRead' => hostPwd' = HostPassword
      /\ hostRead => hostRead'
      /\ ~hostRead' => reply[c].what # "entries"
  BY <1>1 DEF CourseInv, PasswordsKnown, PasswordReturns
<1>3. /\ l \in Local /\ l.pwd \in {NoCode, HostPassword}
      /\ l.nonce = local[c].nonce /\ l.caps = local[c].caps
      /\ reply[c].what = "entries" => l.pwd = HostPassword
      /\ reply[c].what # "entries" => l.pwd = NoCode
  BY <1>1 DEF Local, Reply
<1> HIDE DEF l
<1>4. HostPassword' = HostPassword
  BY <1>1 DEF HostPassword
<1>5. ASSUME Reachable(c), Transport(c) \notin spoilt[c]
      PROVE  /\ l.nonce = "current" /\ l.pwd = HostPassword
             /\ pc[c] = "password" => learned' = TRUE
             /\ pc[c] = "mqtt_password" => l.caps
  <2>1. AsExpected(c)
    BY <1>1, <1>5, AtAnswer DEF Requests
  <2>2. reply[c].what = "entries" /\ local[c].nonce = "current"
    BY <1>1, <2>1 DEF AsExpected
  <2> QED
    BY <1>1, <1>3, <2>1, <2>2 DEF AsExpected, TypeOK
<1>6. CASE pc[c] = "password" /\ SendDirective(c, "directive", l)
  <2>1. hubbed /\ "hub" \notin spoilt[c] =>
           learned' = TRUE /\ l.nonce = "current" /\ l.pwd = HostPassword
    BY <1>5, <1>6 DEF Reachable, Transport, MqttAt
  <2>2. Alone(c) /\ local'[c].pwd \in {NoCode, l.pwd} /\ OnCourse(c)'
    BY <1>1, <1>3, <1>6, <2>1, SendDirectiveAlone
  <2> QED
    BY <1>1, <1>2, <1>3, <2>2, CourseAfter
<1>7. CASE pc[c] = "mqtt_password" /\ Goto(c, "mqtt_command", l) /\ UNCHANGED spoilt
  <2>1. /\ Alone(c) /\ pc'[c] = "mqtt_command" /\ local'[c] = l /\ spoilt'[c] = spoilt[c]
        /\ reply'[c] = Nothing
    BY <1>1, <1>7, GotoAlone DEF Alone
  <2>2. ASSUME "mqtt" \notin spoilt[c] PROVE AsExpected(c)'
    BY <1>4, <1>5, <1>7, <2>1, <2>2
    DEF AsExpected, StatusAt, PasswordAt, CommandAt, Transport, Reachable, MqttAt
  <2>3. hubbed => "hub" \in spoilt[c]
    BY <1>7 DEF CourseInv, OnCourse, MqttAt
  <2>4. OnCourse(c)'
    BY <1>1, <2>1, <2>2, <2>3 DEF OnCourse, Transport, MqttAt
  <2> QED
    BY <1>1, <1>2, <1>3, <2>1, <2>4, CourseAfter
<1> QED
  BY <1>6, <1>7 DEF PasswordReturns, l

\* The command's own answer: a transport on which it fails was disturbed.
LEMMA CommandKeepsCourse ==
    ASSUME IInv, CourseInv, NEW c \in Commands,
           CommandAccepted(c) \/ CommandFails(c) \/ PauseEnds(c)
    PROVE  CourseInv'
<1>1. /\ TypeOK /\ UNCHANGED <<hubbed, slot0, lockCode, learned, hostRead, hostPwd>>
      /\ local[c].pwd \in {NoCode, HostPassword}
      /\ ~hostRead => local[c].pwd = NoCode
      /\ hostRead => hostPwd = HostPassword
      /\ Fresh.pwd = NoCode
  BY DEF IInv, CourseInv, PasswordsKnown, CommandAccepted, CommandFails, PauseEnds,
         fixed, lockVars, sharedVars, Fresh
<1>2. ASSUME CommandAccepted(c) PROVE CourseInv'
  <2>1. Alone(c) /\ pc'[c] = "returned" /\ local'[c] = Fresh /\ outcome'[c] = TRUE
    BY <1>1, <1>2, ReturnAlone DEF CommandAccepted
  <2>2. OnCourse(c)'
    BY <2>1 DEF OnCourse, InFlight, Requests, StatusAt, PasswordAt, CommandAt, MqttAt
  <2> QED
    BY <1>1, <2>1, <2>2, CourseAfter
<1>3. ASSUME CommandFails(c) \/ PauseEnds(c) PROVE CourseInv'
  <2>1. ASSUME pc[c] \in CommandAt, Reachable(c) PROVE Transport(c) \in spoilt[c]
    <3>1. CommandFails(c)
      BY <1>3, <2>1 DEF PauseEnds, CommandAt
    <3>2. reply[c].what \notin {"accepted", "none"}
      BY <3>1 DEF CommandFails, Failures
    <3>3. ~AsExpected(c)
      BY <2>1, <3>2 DEF AsExpected, Nothing
    <3> QED
      BY <2>1, <3>3, AtAnswer DEF Requests
  <2>2. hubbed => "hub" \in spoilt[c]
    <3>1. CASE pc[c] \in MqttAt \cup {"pause"}
      BY <3>1 DEF CourseInv, OnCourse
    <3>2. CASE pc[c] \in CommandAt \ MqttAt
      BY <2>1, <3>2 DEF Reachable, Transport
    <3> QED
      BY <1>3, <3>1, <3>2 DEF CommandFails, PauseEnds
  <2>3. ASSUME NEW label \in {"pause", "status_again"}, Goto(c, label, local[c]), UNCHANGED spoilt
        PROVE  CourseInv'
    <3>1. /\ Alone(c) /\ pc'[c] = label /\ local'[c] = local[c] /\ spoilt'[c] = spoilt[c]
      BY <1>1, <2>3, GotoAlone
    <3>2. OnCourse(c)'
      BY <1>1, <2>2, <2>3, <3>1 DEF OnCourse, Transport, Reachable, MqttAt
    <3> QED
      BY <1>1, <3>1, <3>2, CourseAfter
  <2>4. CASE TryMqtt(c, local[c])
    <3>1. Alone(c) /\ local'[c] \in {local[c], Fresh} /\ OnCourse(c)'
      BY <1>1, <2>2, <2>4, TryMqttAlone
    <3> QED
      BY <1>1, <3>1, CourseAfter
  <2>5. CASE pc[c] = "mqtt_command" /\ Return(c, FALSE) /\ UNCHANGED spoilt
    <3>1. Alone(c) /\ pc'[c] = "returned" /\ local'[c] = Fresh
      BY <1>1, <2>5, ReturnAlone
    <3>2. "mqtt" \in spoilt'[c] /\ spoilt'[c] = spoilt[c]
      BY <2>1, <2>5 DEF Transport, Reachable, CommandAt, MqttAt
    <3>3. OnCourse(c)'
      BY <1>1, <2>2, <3>1, <3>2
      DEF OnCourse, InFlight, Requests, StatusAt, PasswordAt, CommandAt, MqttAt
    <3> QED
      BY <1>1, <3>1, <3>3, CourseAfter
  <2> QED
    BY <1>3, <2>3, <2>4, <2>5 DEF CommandFails, PauseEnds
<1> QED
  BY <1>2, <1>3

\* An answer on its way to call c: the expected one, unless it spoils the transport.
LEMMA AnswerKeepsCourse ==
    ASSUME TypeOK, CourseInv, NEW c \in Commands, NEW r, InFlight(c), Answer(c, r),
           UNCHANGED outside, \A d \in Commands : spoilt[d] \subseteq spoilt'[d],
           r.what = "entries" => r.code = HostPassword,
           Reachable(c) /\ Transport(c) \notin spoilt'[c] =>
               /\ pc[c] \in StatusAt => r.what = "status" /\ r.nonce = "current"
               /\ pc[c] \in PasswordAt => r.what = "entries"
               /\ pc[c] \in CommandAt => r.what = "accepted"
    PROVE  CourseInv'
<1>1. /\ reply' = [reply EXCEPT ![c] = r]
      /\ UNCHANGED <<hubbed, slot0, pc, local, outcome, lockCode, learned, hostRead, hostPwd>>
  BY DEF Answer, Answered, outside, fixed
<1>2. HostPassword' = HostPassword
  BY <1>1 DEF HostPassword
<1>3. PasswordsKnown'
  BY <1>1, <1>2 DEF CourseInv, PasswordsKnown, TypeOK
<1>4. WaitsForReply'
  BY <1>1 DEF CourseInv, WaitsForReply, InFlight, TypeOK
<1>5. ASSUME NEW d \in Commands, d # c PROVE OnCourse(d)'
  BY <1>1, <1>5, KeepsCourse DEF CourseInv, TypeOK
<1>6. OnCourse(c)'
  <2>1. OnCourse(c) /\ reply'[c] = r
    BY <1>1 DEF CourseInv, TypeOK
  <2>2. ASSUME Reachable(c), Transport(c) \notin spoilt'[c] PROVE AsExpected(c)'
    <3>1. AsExpected(c)
      BY <2>1, <2>2 DEF OnCourse
    <3> QED
      BY <1>1, <1>2, <2>1, <2>2, <3>1 DEF AsExpected
  <2> QED
    BY <1>1, <2>1, <2>2 DEF OnCourse, Transport, Reachable, InFlight
<1> QED
  BY <1>3, <1>4, <1>5, <1>6 DEF CourseInv

\* The nonce is drawn: who held the last one is disturbed, but for a call that c
\* stands for, whose command the lock has just accepted.
LEMMA DrawKeepsCourse ==
    ASSUME TypeOK, CourseInv, NEW replies \in [Commands -> Reply], DrawsNonce(replies),
           UNCHANGED <<hubbed, slot0, pc, outcome, learned, hostRead, hostPwd>>,
           \/ lockCode' = lockCode
           \/ slot0 /\ ~hostRead /\ \A d \in Commands : reply[d].what # "entries",
           NEW S, Spoil(S),
           \A d \in Commands :
               \/ replies[d] = reply[d] /\ (d \in Holders => d \in S)
               \/ /\ replies[d].what = "accepted" /\ pc[d] \in CommandAt
                  /\ reply[d] = Nothing
    PROVE  CourseInv'
<1>1. \A d \in Commands :
         /\ local'[d].pwd = local[d].pwd /\ local'[d].caps = local[d].caps
         /\ reply'[d].what = replies[d].what /\ reply'[d].code = replies[d].code
         /\ spoilt[d] \subseteq spoilt'[d] /\ (d \in S => Transport(d) \in spoilt'[d])
  BY DrawsNonceTypes DEF Spoil, TypeOK
<1>2. PasswordsKnown'
  BY <1>1 DEF CourseInv, PasswordsKnown, HostPassword
<1>3. ASSUME NEW d \in Commands, ~InFlight(d) PROVE reply'[d] = Nothing
  <2>1. replies[d] = Nothing
    BY <1>3 DEF CourseInv, WaitsForReply, InFlight, Requests
  <2>2. reply'[d] = [Nothing EXCEPT !.nonce = "stale"]
    BY <2>1 DEF DrawsNonce
  <2> QED
    BY <2>2 DEF Nothing
<1>4. ASSUME NEW d \in Commands, reply[d] = Nothing, replies[d] = reply[d]
      PROVE  reply'[d] = Nothing
  <2>1. reply'[d] = [Nothing EXCEPT !.nonce = "stale"]
    BY <1>4 DEF DrawsNonce
  <2> QED
    BY <2>1 DEF Nothing
<1>5. ASSUME NEW d \in Commands PROVE OnCourse(d)'
  <2>1. OnCourse(d)
    BY DEF CourseInv
  <2>2. ASSUME InFlight(d), Reachable(d), Transport(d) \notin spoilt'[d] PROVE AsExpected(d)'
    <3>1. AsExpected(d) /\ d \notin S
      BY <1>1, <2>1, <2>2 DEF OnCourse
    <3>2. pc[d] \in CommandAt => HostPassword' = HostPassword
      <4>1. ASSUME pc[d] \in CommandAt, slot0, ~hostRead PROVE FALSE
        BY <3>1, <4>1, CommandAssumption
        DEF CourseInv, PasswordsKnown, AsExpected, HostPassword, TypeOK
      <4> QED
        BY <4>1 DEF HostPassword
    <3>3. CASE /\ replies[d].what = "accepted" /\ pc[d] \in CommandAt
               /\ reply[d] = Nothing
      BY <1>1, <3>1, <3>2, <3>3
      DEF AsExpected, StatusAt, PasswordAt, CommandAt
    <3>4. CASE replies[d] = reply[d] /\ (d \in Holders => d \in S)
      <4>1. /\ reply[d].nonce # "current"
            /\ pc[d] \in PasswordAt \cup CommandAt => local[d].nonce # "current"
        BY <3>1, <3>4 DEF Holders
      <4>2. pc[d] \notin PasswordAt
        BY <3>1, <4>1 DEF AsExpected
      <4>3. pc[d] \in CommandAt => reply[d].what = "accepted"
        BY <3>1, <4>1 DEF AsExpected
      <4>4. pc[d] \in StatusAt => reply'[d].what = "none"
        BY <1>1, <3>1, <3>4, <4>1 DEF AsExpected
      <4> QED
        BY <1>1, <3>1, <3>2, <3>4, <4>2, <4>3, <4>4
        DEF AsExpected, StatusAt, PasswordAt, CommandAt
    <3> QED
      BY <3>3, <3>4
  <2> QED
    BY <1>1, <2>1, <2>2 DEF OnCourse, Transport, Reachable, InFlight
<1> QED
  BY <1>2, <1>3, <1>5 DEF CourseInv, WaitsForReply, InFlight

\* A command on an undisturbed transport is one the lock accepts.
LEMMA UndisturbedIsGood ==
    ASSUME TypeOK, CourseInv, NEW c \in Commands, pc[c] \in CommandAt, Reachable(c),
           reply[c] = Nothing, Transport(c) \notin spoilt[c]
    PROVE  Good(c)
<1>1. AsExpected(c)
  BY AtAnswer DEF Requests
<1>2. local[c].nonce = "current" /\ local[c].caps /\ local[c].pwd = HostPassword
  BY <1>1 DEF AsExpected, Nothing
<1>3. IF local[c].pwd # NoCode THEN lockCode = local[c].pwd ELSE lockCode = CloudCode
  BY <1>2, CommandAssumption DEF CourseInv, PasswordsKnown, HostPassword, TypeOK
<1> QED
  BY <1>2, <1>3 DEF Good

\* What a spoilt step adds.
LEMMA SpoilAdds ==
    ASSUME TypeOK, NEW S, Spoil(S)
    PROVE  \A d \in Commands : /\ spoilt[d] \subseteq spoilt'[d]
                               /\ d \in S => Transport(d) \in spoilt'[d]
BY DEF Spoil, TypeOK

\* The lock's answers, the cloud's refusals and the losses keep calls on course.
LEMMA AnswersKeepCourse ==
    ASSUME IInv, CourseInv, NEW c \in Commands,
           \/ LockAnswers(c) \/ CloudRefuses(c) \/ \E why \in Failures : RequestFails(c, why)
    PROVE  CourseInv'
<1>0. TypeOK
  BY DEF IInv
<1> DEFINE status == [Nothing EXCEPT !.what = "status", !.nonce = "current", !.bolt = bolt]
           entries == [Nothing EXCEPT !.what = "entries",
                                      !.code = IF slot0 THEN lockCode ELSE NoCode]
           accepted == [Nothing EXCEPT !.what = "accepted"]
           rejected == [Nothing EXCEPT !.what = "rejected"]
<1>1. /\ status.what = "status" /\ status.nonce = "current"
      /\ entries.what = "entries" /\ entries.code = HostPassword
      /\ accepted.what = "accepted" /\ rejected.what = "rejected"
      /\ accepted \in Reply
  BY <1>0, AnswerTypes DEF Nothing, HostPassword, Failures
<1> HIDE DEF status, entries, accepted, rejected
<1>2. ASSUME LockAnswers(c) PROVE CourseInv'
  <2>1. InFlight(c) /\ reply[c] = Nothing /\ Reachable(c) /\ UNCHANGED outside
    BY <1>2 DEF LockAnswers
  <2>2. CASE pc[c] \in StatusAt /\ Answer(c, status) /\ UNCHANGED spoilt
    <3>1. pc[c] \notin PasswordAt /\ pc[c] \notin CommandAt
      BY <2>2 DEF StatusAt, PasswordAt, CommandAt
    <3> QED
      BY <1>0, <1>1, <2>1, <2>2, <3>1, AnswerKeepsCourse
  <2>3. CASE pc[c] \in PasswordAt /\ Answer(c, entries) /\ UNCHANGED spoilt
    <3>1. pc[c] \notin StatusAt /\ pc[c] \notin CommandAt
      BY <2>3 DEF StatusAt, PasswordAt, CommandAt
    <3> QED
      BY <1>0, <1>1, <2>1, <2>3, <3>1, AnswerKeepsCourse
  <2>4. CASE pc[c] \in CommandAt /\ ActOn(c, Answered(c, accepted)) /\ Spoil(Holders \ {c})
    <3>1. /\ Answered(c, accepted) \in [Commands -> Reply]
          /\ Answered(c, accepted)[c].what = "accepted"
          /\ \A d \in Commands \ {c} : Answered(c, accepted)[d] = reply[d]
      BY <1>0, <1>1 DEF Answered, TypeOK
    <3>2. /\ DrawsNonce(Answered(c, accepted))
          /\ UNCHANGED <<hubbed, slot0, pc, outcome, learned, hostRead, hostPwd, lockCode>>
      BY <2>1, <2>4 DEF ActOn, outside, fixed
    <3>3. \A d \in Commands :
             \/ Answered(c, accepted)[d] = reply[d] /\ (d \in Holders => d \in Holders \ {c})
             \/ /\ Answered(c, accepted)[d].what = "accepted" /\ pc[d] \in CommandAt
                /\ reply[d] = Nothing
      BY <2>1, <2>4, <3>1
    <3> QED
      BY <1>0, <2>4, <3>1, <3>2, <3>3, DrawKeepsCourse
  <2>5. CASE pc[c] \in CommandAt /\ ~Good(c) /\ Answer(c, rejected) /\ UNCHANGED spoilt
    <3>1. Transport(c) \in spoilt[c]
      BY <1>0, <2>1, <2>5, UndisturbedIsGood
    <3> QED
      BY <1>0, <1>1, <2>1, <2>5, <3>1, AnswerKeepsCourse
  <2> QED
    BY <1>2, <2>2, <2>3, <2>4, <2>5
    DEF LockAnswers, status, entries, accepted, rejected
<1>3. ASSUME CloudRefuses(c) PROVE CourseInv'
  <2> DEFINE r == [Nothing EXCEPT !.what = "refusal"]
  <2>1. r.what = "refusal"
    BY DEF Nothing
  <2> HIDE DEF r
  <2>2. InFlight(c) /\ ~Reachable(c) /\ Answer(c, r) /\ UNCHANGED <<outside, spoilt>>
    BY <1>3 DEF CloudRefuses, Reachable, r
  <2> QED
    BY <1>0, <2>1, <2>2, AnswerKeepsCourse
<1>4. ASSUME NEW why \in Failures, RequestFails(c, why) PROVE CourseInv'
  <2> DEFINE r == [Nothing EXCEPT !.what = why]
  <2>1. r.what # "entries"
    BY DEF Nothing, Failures
  <2> HIDE DEF r
  <2>2. InFlight(c) /\ Answer(c, r) /\ Spoil({c}) /\ UNCHANGED outside
    BY <1>4 DEF RequestFails, r
  <2>3. /\ \A d \in Commands : spoilt[d] \subseteq spoilt'[d]
        /\ Transport(c) \in spoilt'[c]
    BY <1>0, <2>2, SpoilAdds
  <2> QED
    BY <1>0, <2>1, <2>2, <2>3, AnswerKeepsCourse
<1> QED
  BY <1>2, <1>3, <1>4

\* The lock is used, and its code changed or not; or a late frame arrives.
LEMMA UseKeepsCourse ==
    ASSUME TypeOK, CourseInv, LockUsed \/ \E c \in Commands : LateFrameArrives(c)
    PROVE  TransportInv'
<1>1. ASSUME NEW c \in Commands, LateFrameArrives(c) PROVE TransportInv'
  <2>1. /\ DrawsNonce(reply) /\ Spoil(Holders) /\ reply \in [Commands -> Reply]
        /\ UNCHANGED <<hubbed, slot0, pc, outcome, learned, hostRead, hostPwd, lockCode>>
    BY <1>1 DEF LateFrameArrives, ActOn, outside, fixed, TypeOK
  <2> QED
    BY <2>1, DrawKeepsCourse DEF TransportInv
<1>2. CASE LockUsed
  <2>1. /\ DrawsNonce(reply) /\ reply \in [Commands -> Reply]
        /\ UNCHANGED <<hubbed, slot0, pc, outcome, learned, hostRead, hostPwd>>
    BY <1>2 DEF LockUsed, fixed, TypeOK
  <2>2. CASE Told /\ lockCode' # lockCode
    BY <1>2, <2>2 DEF LockUsed, TransportInv, Ruined
  <2>3. CASE ~(Told /\ lockCode' # lockCode)
    <3>1. Spoil(Holders)
      BY <1>2, <2>3 DEF LockUsed
    <3>2. \/ lockCode' = lockCode
          \/ slot0 /\ ~hostRead /\ \A d \in Commands : reply[d].what # "entries"
      BY <1>2, <2>3 DEF LockUsed, Told, TypeOK
    <3> QED
      BY <2>1, <3>1, <3>2, DrawKeepsCourse DEF TransportInv
  <2> QED
    BY <2>2, <2>3
<1> QED
  BY <1>1, <1>2

\* What has disturbed a call is not forgotten.
LEMMA TroubleStays == TypeOK /\ [Next]_vars => \A d \in Commands : spoilt[d] \subseteq spoilt'[d]
<1> SUFFICES ASSUME TypeOK, [Next]_vars PROVE \A d \in Commands : spoilt[d] \subseteq spoilt'[d]
  OBVIOUS
<1>1. \A S : Spoil(S) => \A d \in Commands : spoilt[d] \subseteq spoilt'[d]
  BY SpoilAdds
<1>2. ASSUME NEW c \in Commands, CallStep(c)
      PROVE  \/ spoilt' = spoilt \/ \E S : Spoil(S)
             \/ spoilt' = [spoilt EXCEPT ![c] = @ \cup {"mqtt"}]
  BY <1>2 DEF CallStep, StatusReturns, MqttStatusReturns, PasswordReturns, CommandAccepted,
     CommandFails, PauseEnds, LockAnswers, CloudRefuses, RequestFails, SendDirective, TryMqtt
<1>3. ASSUME NEW c \in Commands, CallStep(c)
      PROVE  \A d \in Commands : spoilt[d] \subseteq spoilt'[d]
  BY <1>1, <1>2, <1>3 DEF TypeOK
<1>4. CASE LockUsed
  BY <1>1, <1>4 DEF LockUsed, TypeOK
<1> QED
  BY <1>1, <1>3, <1>4 DEF Next, Begin, LateFrameArrives, vars

\* Every step keeps the calls on course.
LEMMA NextCourse == IInv /\ TransportInv /\ [Next]_vars => TransportInv'
<1> SUFFICES ASSUME IInv, TransportInv, [Next]_vars PROVE TransportInv'
  OBVIOUS
<1>0. TypeOK /\ TypeOK'
  BY NextIInv DEF IInv
<1>1. CASE Ruined
  <2>1. \A d \in Commands : spoilt[d] \subseteq spoilt'[d] /\ spoilt'[d] \subseteq Transports
    BY <1>0, TroubleStays DEF TypeOK
  <2> QED
    BY <1>1, <2>1 DEF Ruined, TransportInv
<1>2. ASSUME CourseInv, NEW c \in Commands, Begin(c) PROVE CourseInv'
  <2>1. /\ pc[c] = "new" /\ pc'[c] = "status"
        /\ reply' = reply /\ local' = local /\ outcome' = outcome /\ reply[c] = Nothing
        /\ UNCHANGED <<hubbed, slot0, lockCode, learned, hostRead, hostPwd, spoilt>>
    BY <1>0, <1>2 DEF Begin, fixed, sharedVars, lockVars, TypeOK, CourseInv, WaitsForReply,
                      InFlight, Requests, StatusAt, PasswordAt, CommandAt
  <2>2. Alone(c)
    BY <1>0, <1>2, <2>1 DEF Begin, TypeOK, Alone
  <2>3. AsExpected(c)'
    BY <2>1 DEF AsExpected, StatusAt, PasswordAt, CommandAt, Nothing
  <2>4. /\ local'[c].pwd \in {NoCode, HostPassword}
        /\ ~hostRead' => local'[c].pwd = NoCode
        /\ hostRead' => hostPwd' = HostPassword
        /\ OnCourse(c)'
    BY <1>2, <2>1, <2>3 DEF CourseInv, PasswordsKnown, OnCourse, MqttAt
  <2> QED
    BY <1>0, <1>2, <2>1, <2>2, <2>4, CourseAfter
<1>3. ASSUME CourseInv, NEW c \in Commands, CallStep(c) PROVE CourseInv'
  BY <1>3, StatusKeepsCourse, MqttStatusKeepsCourse, PasswordKeepsCourse, CommandKeepsCourse,
     AnswersKeepCourse DEF CallStep
<1>4. ASSUME CourseInv, UNCHANGED vars PROVE CourseInv'
  <2>1. UNCHANGED <<hubbed, slot0, lockCode, learned, hostRead, hostPwd, spoilt,
                    pc, reply, local, outcome>>
    BY <1>4 DEF vars, fixed, sharedVars, callVars, lockVars
  <2>2. \A c \in Commands : OnCourse(c)'
    BY <1>4, <2>1, KeepsCourse DEF CourseInv
  <2> QED
    BY <1>4, <2>1, <2>2 DEF CourseInv, PasswordsKnown, HostPassword, WaitsForReply, InFlight
<1>5. CASE CourseInv /\ (LockUsed \/ \E c \in Commands : LateFrameArrives(c))
  BY <1>0, <1>5, UseKeepsCourse
<1> QED
  BY <1>1, <1>2, <1>3, <1>4, <1>5 DEF Next, TransportInv

\* What is shown at first is nothing,
LEMMA InitShown == Init => ShownInv
BY DEF Init, ShownInv, RepliesWereTrue, ShownWasTrue, Nothing

\* and the calls start on course.
LEMMA InitCourse == Init => TransportInv
BY CommandAssumption
DEF Init, TransportInv, CourseInv, PasswordsKnown, HostPassword, WaitsForReply, OnCourse,
    InFlight, Requests, StatusAt, PasswordAt, CommandAt, MqttAt, Nothing, Fresh

-----------------------------------------------------------------------------
(* What the run checks, for every value of the constants.                  *)

\* A command reported as carried out was acted on by the lock.
THEOREM ReportsAreTrue == Spec => []ReportedMeansActed
<1>1. IInv => ReportedMeansActed
  BY DEF IInv
<1> QED
  BY <1>1, IInvHolds, PTL

\* The entity's flags are true however calls overlap.
THEOREM FlagsStayTrue == Spec => []FlagsAreTrue
<1>1. IInv => FlagsAreTrue
  BY DEF IInv
<1> QED
  BY <1>1, IInvHolds, PTL

\* The state shown is never one the bolt has not been in.
THEOREM ShownIsTrue == Spec => []ShownWasTrue
<1>1. Init => IInv /\ ShownInv
  BY InitIInv, InitShown
<1>2. (IInv /\ ShownInv) /\ [Next]_vars => (IInv /\ ShownInv)'
  BY NextIInv, NextShown
<1>3. IInv /\ ShownInv => ShownWasTrue
  BY DEF ShownInv
<1> QED
  BY <1>1, <1>2, <1>3, PTL DEF Spec

\* A command fails only if each transport it could go by was disturbed for it: by a
\* lost or refused request, by MQTT being down, by a nonce the lock drew between
\* telling the old one and getting the frame, be it for another call or for a use,
\* or by a change of a host password told before, however many calls overlap.
THEOREM FailsOnlyIfDisturbed == Spec => []OneTransportSuffices
<1>1. Init => IInv /\ TransportInv
  BY InitIInv, InitCourse
<1>2. (IInv /\ TransportInv) /\ [Next]_vars => (IInv /\ TransportInv)'
  BY NextIInv, NextCourse
<1>3. TransportInv => OneTransportSuffices
  BY DEF TransportInv, Ruined, CourseInv, OnCourse, OneTransportSuffices, Transports
<1> QED
  BY <1>1, <1>2, <1>3, PTL DEF Spec

-----------------------------------------------------------------------------
(* Refinement.                                                             *)

\* A frame given up on that may yet reach the lock is one of a call that began.
LateBegan == \A c \in late : pc[c] # "new"

\* What a step of one call does to the callers' view of all.
LEMMA ViewOfStep ==
    ASSUME TypeOK, TypeOK', NEW c \in Commands,
           \A d \in Commands \ {c} : pc'[d] = pc[d] /\ outcome'[d] = outcome[d]
    PROVE  [d \in Commands |-> OutcomeOf(d)]' =
               [[d \in Commands |-> OutcomeOf(d)] EXCEPT ![c] = OutcomeOf(c)']
BY DEF OutcomeOf, TypeOK

\* A call that has begun does not go back to before its beginning,
LEMMA BegunStays ==
    ASSUME IInv, NEW d \in Commands, pc[d] # "new", [Next]_vars
    PROVE  pc'[d] # "new"
<1> USE DEF IInv, TypeOK
<1>1. ASSUME NEW c \in Commands, Begin(c) PROVE pc'[d] # "new"
  BY <1>1 DEF Begin
<1>2. ASSUME NEW c \in Commands, CallStep(c) PROVE pc'[d] # "new"
  <2>1. ASSUME Moves(c) PROVE pc'[d] # "new"
    BY <2>1 DEF Moves, Return
  <2>2. CASE CommandAccepted(c)
    BY <2>2 DEF CommandAccepted, Return
  <2>3. CASE pc' = pc
    BY <2>3
  <2> QED
    BY <1>2, <2>1, <2>2, <2>3, CoroutineMoves
    DEF CallStep, LockAnswers, CloudRefuses, RequestFails, outside
<1>3. CASE LockUsed \/ UNCHANGED vars \/ \E c \in Commands : LateFrameArrives(c)
  BY <1>3 DEF LockUsed, vars, callVars, LateFrameArrives, outside
<1> QED
  BY <1>1, <1>2, <1>3 DEF Next

\* so neither does that of a late frame.
LEMMA NextLate == IInv /\ LateBegan /\ [Next]_vars => LateBegan'
<1> SUFFICES ASSUME IInv, LateBegan, [Next]_vars PROVE LateBegan'
  OBVIOUS
<1>1. late \subseteq Commands
  BY DEF IInv, TypeOK
<1>2. ASSUME NEW c \in Commands, CallStep(c) PROVE late' \subseteq late \cup {c}
  BY <1>2 DEF CallStep, StatusReturns, MqttStatusReturns, PasswordReturns, CommandAccepted,
              CommandFails, PauseEnds, LockAnswers, CloudRefuses, RequestFails, ActOn,
              DrawsNonce, lockVars
<1>3. ASSUME NEW c \in Commands, CallStep(c) PROVE pc[c] # "new"
  <2>1. CASE LockAnswers(c) \/ CloudRefuses(c) \/ \E why \in Failures : RequestFails(c, why)
    BY <2>1 DEF LockAnswers, CloudRefuses, RequestFails, InFlight, Requests, StatusAt,
                PasswordAt, CommandAt
  <2>2. CASE CommandAccepted(c)
    BY <2>2 DEF CommandAccepted, CommandAt
  <2> QED
    BY <1>3, <2>1, <2>2, CoroutineMoves DEF CallStep, IInv
<1>4. CASE \E c \in Commands : CallStep(c)
  BY <1>1, <1>2, <1>3, <1>4, BegunStays DEF LateBegan
<1>5. CASE \/ \E c \in Commands : Begin(c) \/ LateFrameArrives(c)
           \/ LockUsed \/ UNCHANGED vars
  <2>1. late' \subseteq late
    BY <1>5 DEF Begin, LateFrameArrives, ActOn, DrawsNonce, LockUsed, vars, lockVars
  <2> QED
    BY <1>1, <2>1, BegunStays DEF LateBegan
<1> QED
  BY <1>4, <1>5 DEF Next

\* Every step of a command, the transports or the lock is a step of the abstract
\* specification, or none that its variables show.
LEMMA StepKeepsPromise ==
    IInv /\ LateBegan /\ IInv' /\ [Next]_vars => [Promise!Next]_(Promise!vars)
<1> SUFFICES ASSUME IInv, LateBegan, IInv', [Next]_vars
             PROVE  [Promise!Next]_(Promise!vars)
  OBVIOUS
<1> USE DEF Promise!vars
<1> DEFINE view == [d \in Commands |-> OutcomeOf(d)]
<1>0. TypeOK /\ TypeOK'
  BY DEF IInv
<1>1. ASSUME NEW c \in Commands, Begin(c) PROVE Promise!Open(c)
  <2>1. OutcomeOf(c) = "new" /\ OutcomeOf(c)' = "open" /\ acted' = acted
    BY <1>0, <1>1 DEF Begin, OutcomeOf, TypeOK, lockVars
  <2>2. view' = [view EXCEPT ![c] = OutcomeOf(c)']
    BY <1>0, <1>1, ViewOfStep DEF Begin, TypeOK
  <2> QED
    BY <2>1, <2>2 DEF Promise!Open
<1>2. ASSUME NEW c \in Commands, NEW ok \in BOOLEAN, Return(c, ok), acted' = acted,
             pc[c] \notin {"new", "returned"}, ok => c \in acted
      PROVE  Promise!Succeed(c) \/ Promise!Fail(c)
  <2>1. OutcomeOf(c) = "open" /\ OutcomeOf(c)' = IF ok THEN "success" ELSE "failure"
    BY <1>0, <1>2 DEF Return, OutcomeOf, TypeOK
  <2>2. view' = [view EXCEPT ![c] = OutcomeOf(c)']
    BY <1>0, <1>2, ViewOfStep DEF Return, TypeOK
  <2> QED
    BY <1>2, <2>1, <2>2 DEF Promise!Succeed, Promise!Fail
<1>3. ASSUME NEW c \in Commands, Moves(c), pc[c] \notin {"new", "returned"}
      PROVE  Promise!Succeed(c) \/ Promise!Fail(c) \/ UNCHANGED Promise!vars
  <2>1. CASE Return(c, FALSE)
    BY <1>2, <1>3, <2>1 DEF Moves
  <2>2. CASE /\ pc' = [pc EXCEPT ![c] = pc'[c]]
             /\ pc'[c] \notin {"new", "returned"}
             /\ outcome' = outcome
    <3>1. \A d \in Commands : OutcomeOf(d)' = OutcomeOf(d)
      BY <1>0, <1>3, <2>2 DEF OutcomeOf, TypeOK
    <3>2. view' = view
      BY <3>1
    <3> QED
      BY <1>3, <3>2 DEF Moves
  <2> QED
    BY <1>3, <2>1, <2>2 DEF Moves
<1>4. ASSUME NEW c \in Commands, CommandAccepted(c) PROVE Promise!Succeed(c) \/ Promise!Fail(c)
  <2>1. Return(c, TRUE) /\ acted' = acted /\ c \in acted
    BY <1>4 DEF CommandAccepted, lockVars, IInv, AckMeansActed
  <2>2. pc[c] \notin {"new", "returned"}
    BY <1>4 DEF CommandAccepted, CommandAt
  <2> QED
    BY <1>2, <2>1, <2>2
<1>5. ASSUME NEW c \in Commands, acted' = acted \cup {c}, pc[c] # "new",
             UNCHANGED <<pc, outcome>>
      PROVE  Promise!Answer(c)
  <2>1. view' = view /\ view[c] # "new"
    BY <1>5 DEF OutcomeOf
  <2> QED
    BY <1>5, <2>1 DEF Promise!Answer
<1>6. ASSUME UNCHANGED <<pc, outcome, acted>> PROVE UNCHANGED Promise!vars
  BY <1>6 DEF OutcomeOf
<1>7. ASSUME NEW c \in Commands, CallStep(c) PROVE [Promise!Next]_(Promise!vars)
  <2>1. CASE LockAnswers(c)
    <3>1. pc[c] # "new" /\ UNCHANGED <<pc, outcome>>
      BY <2>1 DEF LockAnswers, outside, InFlight, Requests, StatusAt, PasswordAt, CommandAt
    <3>2. acted' = acted \cup {c} \/ acted' = acted
      BY <2>1 DEF LockAnswers, ActOn, Answer
    <3> QED
      BY <1>5, <1>6, <3>1, <3>2 DEF Promise!Next
  <2>2. CASE CloudRefuses(c) \/ \E why \in Failures : RequestFails(c, why)
    BY <1>6, <2>2 DEF CloudRefuses, RequestFails, Answer, outside
  <2>3. CASE CommandAccepted(c)
    BY <1>4, <2>3 DEF Promise!Next
  <2>4. CASE \/ StatusReturns(c) \/ MqttStatusReturns(c) \/ PasswordReturns(c)
             \/ CommandFails(c) \/ PauseEnds(c)
    BY <1>0, <1>3, <2>4, CoroutineMoves DEF Promise!Next
  <2> QED
    BY <1>7, <2>1, <2>2, <2>3, <2>4 DEF CallStep
<1>8. ASSUME NEW c \in Commands, LateFrameArrives(c) PROVE Promise!Answer(c)
  BY <1>5, <1>8 DEF LateFrameArrives, ActOn, outside, LateBegan
<1>9. CASE LockUsed \/ UNCHANGED vars
  BY <1>6, <1>9 DEF LockUsed, vars, callVars, lockVars
<1> QED
  BY <1>1, <1>7, <1>8, <1>9 DEF Next, Promise!Next

\* Commands implement the specification of a single request, for any number of
\* them: whatever was retried, sent over both transports or given up on, a call
\* returns once, and as carried out only once the lock has acted on that call.
THEOREM CommandImplementsPromise == Spec => KeepsPromise
<1>1. Init => Promise!Init
  BY DEF Init, Promise!Init, OutcomeOf
<1>2. Init => LateBegan
  BY DEF Init, LateBegan
<1> QED
  BY <1>1, <1>2, IInvHolds, NextLate, StepKeepsPromise, PTL DEF Spec, Promise!Spec, KeepsPromise
=============================================================================
