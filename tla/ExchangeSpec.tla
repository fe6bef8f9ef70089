---------------------------- MODULE ExchangeSpec ----------------------------
(***************************************************************************)
(* What a caller may rely on of LocklyMQTTManager._exchange, and so of the *)
(* commands and the Auto-Lock services built on it, with no futures,       *)
(* threads, messages, retries or timers in it: every call ends at most     *)
(* once, and it ends in success only when the far side (the lock, or the   *)
(* hub for a device-info request) has done what that very call asked.      *)
(*                                                                         *)
(* A failure promises nothing about the lock: Answer stays enabled after   *)
(* Fail, so a command reported as failed may still be acted on.            *)
(***************************************************************************)
CONSTANT Calls      \* the requests, commands or service calls made

VARIABLES
    outcome,        \* outcome[c]: "new", "open", "success" or "failure"
    answered        \* calls the far side has answered favourably

vars == <<outcome, answered>>

TypeOK ==
    /\ outcome \in [Calls -> {"new", "open", "success", "failure"}]
    /\ answered \subseteq Calls

Init ==
    /\ outcome = [c \in Calls |-> "new"]
    /\ answered = {}

\* The caller's coroutine starts the request.
Open(c) ==
    /\ outcome[c] = "new"
    /\ outcome' = [outcome EXCEPT ![c] = "open"]
    /\ UNCHANGED answered

\* The far side acts on a request it was sent, whatever became of the caller.
Answer(c) ==
    /\ outcome[c] # "new"
    /\ answered' = answered \cup {c}
    /\ UNCHANGED outcome

Succeed(c) ==
    /\ outcome[c] = "open"
    /\ c \in answered
    /\ outcome' = [outcome EXCEPT ![c] = "success"]
    /\ UNCHANGED answered

\* Not connected, not published, refused, or no usable reply in time.
Fail(c) ==
    /\ outcome[c] \in {"new", "open"}
    /\ outcome' = [outcome EXCEPT ![c] = "failure"]
    /\ UNCHANGED answered

Next == \E c \in Calls : Open(c) \/ Answer(c) \/ Succeed(c) \/ Fail(c)

Spec == Init /\ [][Next]_vars
=============================================================================
