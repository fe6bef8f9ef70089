--------------------------- MODULE AccessLogProofs ---------------------------
(***************************************************************************)
(* Theorems about the access log, for any locks, any number of overlapping *)
(* polls and forced reads, and any accesses.                               *)
(***************************************************************************)
EXTENDS AccessLog, FiniteSetTheorems, WellFoundedInduction, TLAPS

-----------------------------------------------------------------------------
(* Least and greatest elements.                                            *)

\* Some naturals have a least one among them: of the intervals that end at
\* them, one has none of the others strictly within it.
LEMMA LeastExists ==
    ASSUME NEW S, S \subseteq Nat, S # {}
    PROVE  \E n \in S : \A m \in S : n <= m
<1> DEFINE Up == {0..n : n \in S}
<1>1. Up \subseteq FiniteSubsetsOf(Nat) /\ Up # {}
  <2>1. ASSUME NEW n \in S PROVE 0..n \in FiniteSubsetsOf(Nat)
    BY FS_Interval DEF FiniteSubsetsOf
  <2> QED
    BY <2>1
<1>2. PICK x \in Up : \A y \in Up : <<y, x>> \notin StrictSubsetOrdering(Nat)
  <2> HIDE DEF Up
  <2>1. IsWellFoundedOn(StrictSubsetOrdering(Nat), FiniteSubsetsOf(Nat))
    BY FS_StrictSubsetOrderingWellFounded
  <2> QED
    BY <1>1, <2>1, WFMin
<1>3. PICK n \in S : x = 0..n
  OBVIOUS
<1>4. ASSUME NEW m \in S PROVE n <= m
  <2>1. SUFFICES ASSUME m < n PROVE FALSE
    OBVIOUS
  <2>2. 0..m \subseteq 0..n /\ 0..m # 0..n
    BY <2>1
  <2>3. <<0..m, 0..n>> \in StrictSubsetOrdering(Nat)
    BY <2>2 DEF StrictSubsetOrdering
  <2> QED
    BY <1>2, <1>3, <2>3
<1> QED
  BY <1>4

\* Min is a member.
LEMMA MinIsMember ==
    ASSUME NEW S, S \subseteq Nat, S # {}
    PROVE  Min(S) \in S
BY LeastExists DEF Min

\* The greatest of some accesses is one of them, and no other is greater.
LEMMA MaxIsGreatest ==
    ASSUME NEW S, S \subseteq Accesses, S # {}
    PROVE  Max(S) \in S /\ \A x \in S : x <= Max(S)
<1> DEFINE Gap == {MaxAccesses - x : x \in S}
<1>1. Gap \subseteq Nat /\ Gap # {}
  <2>1. ASSUME NEW x \in S PROVE MaxAccesses - x \in Nat
    <3>1. x \in 1..MaxAccesses /\ MaxAccesses \in Nat
      BY AccessLogAssumption DEF Accesses
    <3> QED
      BY <3>1
  <2>2. Gap # {}
    OBVIOUS
  <2> QED
    BY <2>1, <2>2
<1>2. PICK n \in Gap : \A m \in Gap : n <= m
  <2> HIDE DEF Gap
  <2> QED BY <1>1, LeastExists
<1>3. PICK x \in S : n = MaxAccesses - x
  BY DEF Gap
<1>4. ASSUME NEW y \in S PROVE y <= x
  <2>1. MaxAccesses - y \in Gap
    BY DEF Gap
  <2>2. MaxAccesses - x <= MaxAccesses - y
    BY <1>2, <1>3, <2>1
  <2> QED
    BY <2>2, AccessLogAssumption DEF Accesses
<1>5. \E z \in S : \A y \in S : z >= y
  BY <1>4, AccessLogAssumption DEF Accesses
<1>6. Max(S) \in S /\ \A y \in S : Max(S) >= y
  BY <1>5 DEF Max
<1> QED
  BY <1>6, AccessLogAssumption DEF Accesses

\* A lock stands at every position of the list, and there is a first one.
LEMMA Positions ==
    /\ 1 \in 1..Len(LockList)
    /\ \A i \in 1..Len(LockList) : LockList[i] \in Locks
    /\ DOMAIN LockList = 1..Len(LockList)
BY AccessLogAssumption DEF Locks

\* A run is at a position, and the one after it is a number.
LEMMA RunPosition ==
    ASSUME TypeOK, NEW t \in Tasks
    PROVE  /\ at[t] \in 1..Len(LockList)
           /\ at[t] + 1 \in Nat \ {0}
           /\ LockList[at[t]] \in Locks
<1>1. at[t] \in 1..Len(LockList)
  BY DEF TypeOK
<1>2. Len(LockList) \in Nat
  BY AccessLogAssumption
<1> QED
  BY <1>1, <1>2, Positions

-----------------------------------------------------------------------------
(* The end of a step: where a run goes on.                                 *)

\* Run t awaits its next request, or ends; at most one lock's own log is read
\* unasked for it, one that was not marked and now is.
Moves(t) ==
    /\ \E where \in {"idle", "cloud", "bulk", "paged"},
         i \in 1..Len(LockList), c \in 0..MaxAccesses :
           /\ Awaits(t, where, i, c)
           /\ where = "cloud" => c = cursors[LockList[i]]
    /\ logRead \subseteq logRead'
    /\ logRead' \subseteq Locks
    /\ \/ UNCHANGED startupReads
       \/ \E l \in logRead' \ logRead : startupReads' = [startupReads EXCEPT ![l] = @ + 1]

\* An unforced read moves its run.
LEMMA StartupReadMoves ==
    ASSUME TypeOK, NEW t \in Tasks, NEW i \in 1..Len(LockList),
           LockList[i] \notin logRead, StartupRead(t, i)
    PROVE  Moves(t)
<1>1. 0 \in 0..MaxAccesses /\ LockList[i] \in Locks
  BY Positions, AccessLogAssumption
<1> QED
  BY <1>1 DEF Moves, StartupRead, PollLockLog, Marked, TypeOK

\* So does the end of a run,
LEMMA EndsMoves ==
    ASSUME TypeOK, NEW t \in Tasks, Ends(t), UNCHANGED <<logRead, startupReads>>
    PROVE  Moves(t)
<1>1. 0 \in 0..MaxAccesses
  BY AccessLogAssumption
<1> QED
  BY <1>1, Positions DEF Moves, Ends, TypeOK

\* and going on to the next lock.
LEMMA AdvanceMoves ==
    ASSUME TypeOK, NEW t \in Tasks, NEW i \in Nat \ {0}, Advance(t, i)
    PROVE  Moves(t)
<1> DEFINE waiting == {j \in i..Len(LockList) : ~Skipped(LockList[j])}
           next == Min(waiting)
<1>1. Len(LockList) \in Nat
  BY AccessLogAssumption
<1>2. CASE waiting = {}
  BY <1>2, EndsMoves DEF Advance
<1>3. CASE waiting # {}
  <2>1. waiting \subseteq Nat
    BY <1>1
  <2>2. next \in waiting
    <3> HIDE DEF waiting
    <3> QED BY <1>3, <2>1, MinIsMember
  <2>3. next \in 1..Len(LockList) /\ LockList[next] \in Locks
    BY <1>1, <2>2, Positions
  <2>4. ~Skipped(LockList[next])
    BY <2>2
  <2> HIDE DEF next
  <2>5. CASE LockList[next] \in exhausted
    <3>1. StartupRead(t, next)
      BY <1>3, <2>5 DEF Advance, next
    <3>2. LockList[next] \notin logRead
      BY <2>4, <2>5 DEF Skipped
    <3> QED
      BY <2>3, <3>1, <3>2, StartupReadMoves
  <2>6. CASE LockList[next] \notin exhausted
    <3>1. /\ Awaits(t, "cloud", next, cursors[LockList[next]])
          /\ UNCHANGED <<logRead, startupReads>>
      BY <1>3, <2>6 DEF Advance, next
    <3>2. cursors[LockList[next]] \in 0..MaxAccesses
      BY <2>3 DEF TypeOK
    <3> QED
      BY <2>3, <3>1, <3>2 DEF Moves, TypeOK
  <2> QED
    BY <2>5, <2>6
<1> QED
  BY <1>2, <1>3

\* Where a read of a lock's own log returns to.
LEMMA ResumeMoves ==
    ASSUME TypeOK, NEW t \in Tasks, Resume(t)
    PROVE  Moves(t)
<1>1. at[t] + 1 \in Nat \ {0}
  BY RunPosition
<1> QED
  BY <1>1, AdvanceMoves, EndsMoves DEF Resume

-----------------------------------------------------------------------------
(* Types.                                                                  *)

\* The types of what a moving run changes.
MovedTypes ==
    /\ logRead \subseteq Locks
    /\ pc \in [Tasks -> {"idle", "cloud", "bulk", "paged"}]
    /\ at \in [Tasks -> 1..Len(LockList)]
    /\ since \in [Tasks -> 0..MaxAccesses]
    /\ answer \in [Tasks -> (SUBSET Accesses) \cup {Pending}]
    /\ startupReads \in [Locks -> Nat]

\* A moving run keeps its types.
LEMMA MovesTypes ==
    ASSUME TypeOK, NEW t \in Tasks, Moves(t)
    PROVE  MovedTypes'
<1>1. PICK where \in {"idle", "cloud", "bulk", "paged"}, i \in 1..Len(LockList),
           c \in 0..MaxAccesses : Awaits(t, where, i, c)
  BY DEF Moves
<1>2. logRead' \subseteq Locks
  BY DEF Moves
<1>3. startupReads' \in [Locks -> Nat]
  <2>1. startupReads \in [Locks -> Nat]
    BY DEF TypeOK
  <2>2. ASSUME NEW l \in Locks, startupReads' = [startupReads EXCEPT ![l] = @ + 1]
        PROVE  startupReads' \in [Locks -> Nat]
    BY <2>1, <2>2
  <2>3. startupReads' = startupReads
            \/ \E l \in Locks : startupReads' = [startupReads EXCEPT ![l] = @ + 1]
    BY <1>2 DEF Moves
  <2> QED
    BY <2>1, <2>2, <2>3
<1>4. /\ pc' \in [Tasks -> {"idle", "cloud", "bulk", "paged"}]
      /\ at' \in [Tasks -> 1..Len(LockList)]
  BY <1>1 DEF Awaits, TypeOK
<1>5. /\ since' \in [Tasks -> 0..MaxAccesses]
      /\ answer' \in [Tasks -> (SUBSET Accesses) \cup {Pending}]
  BY <1>1 DEF Awaits, TypeOK
<1> QED
  BY <1>2, <1>3, <1>4, <1>5 DEF MovedTypes

\* What a run that has an answer is about, and the records of the answer.
LEMMA AnswerTypes ==
    ASSUME TypeOK, NEW t \in Tasks, answer[t] # Pending
    PROVE  /\ LockList[at[t]] \in Locks
           /\ answer[t] \subseteq Accesses
           /\ Recent(answer[t]) \subseteq Accesses
           /\ LastSync(t) \in 0..MaxAccesses
<1>1. LockList[at[t]] \in Locks
  BY Positions DEF TypeOK
<1>2. answer[t] \subseteq Accesses
  BY DEF TypeOK
<1>3. LastSync(t) \in 0..MaxAccesses
  <2>1. CASE answer[t] = {}
    BY <2>1 DEF LastSync, TypeOK
  <2>2. CASE answer[t] # {}
    <3>1. Max(answer[t]) \in Accesses
      BY <1>2, <2>2, MaxIsGreatest
    <3> QED
      BY <2>2, <3>1, AccessLogAssumption DEF LastSync, Accesses
  <2> QED
    BY <2>1, <2>2
<1> QED
  BY <1>1, <1>2, <1>3 DEF Recent

\* The record that is shown of some recent ones is one of them.
LEMMA AttributedIsMember ==
    ASSUME NEW S, S \subseteq Accesses, S # {}
    PROVE  Attributed(S) \in S
<1>1. CASE S \subseteq Anonymous
  BY <1>1, MaxIsGreatest DEF Attributed
<1>2. CASE ~(S \subseteq Anonymous)
  <2>1. S \ Anonymous # {} /\ S \ Anonymous \subseteq Accesses
    BY <1>2
  <2>2. Max(S \ Anonymous) \in S \ Anonymous
    BY <2>1, MaxIsGreatest
  <2> QED
    BY <1>2, <2>2 DEF Attributed
<1> QED
  BY <1>1, <1>2

\* What an answer from the far side may be.
LEMMA AnswersAreRecords ==
    ASSUME TypeOK, NEW t \in Tasks, NEW records \in Answers(t)
    PROVE  records \subseteq Accesses
<1>1. LockList[at[t]] \in Locks /\ accesses[LockList[at[t]]] \in OldAccesses..MaxAccesses
  BY Positions DEF TypeOK
<1>2. since[t] \in Nat /\ OldAccesses \in Nat /\ MaxAccesses \in Nat
  BY AccessLogAssumption DEF TypeOK
<1>3. pc[t] \in {"idle", "cloud", "bulk", "paged"}
  BY DEF TypeOK
<1>4. CASE pc[t] = "cloud"
  BY <1>1, <1>2, <1>4 DEF Answers, Accesses
<1>5. CASE pc[t] = "bulk"
  BY <1>1, <1>2, <1>5 DEF Answers, Accesses
<1>6. CASE pc[t] = "paged"
  <2>1. records \in Pages(OldAccesses + 1, accesses[LockList[at[t]]]) \cup {{}}
    BY <1>6 DEF Answers
  <2> QED
    BY <1>1, <1>2, <2>1 DEF Pages, Accesses
<1>7. CASE pc[t] = "idle"
  BY <1>7 DEF Answers
<1> QED
  BY <1>3, <1>4, <1>5, <1>6, <1>7

\* The types hold initially.
LEMMA InitTypeOK == Init => TypeOK
<1> SUFFICES ASSUME Init PROVE TypeOK
  OBVIOUS
<1>1. 0 \in 0..MaxAccesses /\ OldAccesses \in OldAccesses..MaxAccesses
  BY AccessLogAssumption
<1> QED
  BY <1>1, Positions DEF Init, TypeOK

\* A step that moves a run and leaves the rest of the data keeps the types.
LEMMA MovesKeepTypes ==
    ASSUME TypeOK, NEW t \in Tasks, Moves(t),
           UNCHANGED <<accesses, cursors, exhausted, prefersPaged, seen, lastAccess,
                       cloudFired, ownFired, answering>>
    PROVE  TypeOK'
BY MovesTypes DEF TypeOK, MovedTypes

\* Every step preserves the types.
LEMMA NextTypeOK == TypeOK /\ [Next]_vars => TypeOK'
<1> SUFFICES ASSUME TypeOK, [Next]_vars PROVE TypeOK'
  OBVIOUS
<1>1. ASSUME NEW t \in Polls, PollBegins(t) PROVE TypeOK'
  <2>1. t \in Tasks
    BY DEF Tasks
  <2>2. Moves(t)
    BY <1>1, <2>1, AdvanceMoves DEF PollBegins
  <2> QED
    BY <1>1, <2>1, <2>2, MovesKeepTypes DEF PollBegins
<1>2. ASSUME NEW t \in Readers, NEW i \in DOMAIN LockList, ReaderBegins(t, i) PROVE TypeOK'
  <2>1. t \in Tasks /\ i \in 1..Len(LockList) /\ LockList[i] \in Locks
    BY Positions DEF Tasks
  <2>2. 0 \in 0..MaxAccesses
    BY AccessLogAssumption
  <2>3. Moves(t)
    BY <1>2, <2>1, <2>2 DEF ReaderBegins, PollLockLog, historyVars, Moves, TypeOK
  <2> QED
    BY <1>2, <2>1, <2>3, MovesKeepTypes DEF ReaderBegins, historyVars
<1>3. ASSUME NEW t \in Tasks, HistoryReturns(t) PROVE TypeOK'
  <2> DEFINE l == LockList[at[t]]
  <2>1. Moves(t)
    <3>1. at[t] + 1 \in Nat \ {0} /\ at[t] \in 1..Len(LockList)
      BY RunPosition
    <3> QED
      BY <1>3, <3>1, AdvanceMoves, StartupReadMoves DEF HistoryReturns
  <2>2. answer[t] # Pending
    BY <1>3 DEF HistoryReturns
  <2>3. cursors' \in [Locks -> 0..MaxAccesses]
    BY <1>3, <2>2, AnswerTypes DEF HistoryReturns, TypeOK
  <2>4. cloudFired' \in [Locks -> SUBSET Accesses]
    BY <1>3, <2>2, AnswerTypes DEF HistoryReturns, TypeOK
  <2>5. lastAccess' \in [Locks -> Accesses \cup {Never}]
    <3>1. Recent(answer[t]) # {} => Max(Recent(answer[t])) \in Accesses
      BY <2>2, AnswerTypes, MaxIsGreatest
    <3> QED
      BY <1>3, <3>1 DEF HistoryReturns, Surfaced, TypeOK
  <2>6. exhausted' \subseteq Locks
    BY <1>3, <2>2, AnswerTypes DEF HistoryReturns, TypeOK
  <2>7. UNCHANGED <<accesses, prefersPaged, seen, ownFired, answering>>
    BY <1>3 DEF HistoryReturns
  <2>8. MovedTypes'
    BY <2>1, MovesTypes
  <2> QED
    BY <2>3, <2>4, <2>5, <2>6, <2>7, <2>8 DEF TypeOK, MovedTypes
<1>4. ASSUME NEW t \in Tasks, HistoryFails(t) PROVE TypeOK'
  <2>1. at[t] + 1 \in Nat \ {0}
    BY RunPosition
  <2>2. Moves(t)
    BY <1>4, <2>1, AdvanceMoves DEF HistoryFails
  <2> QED
    BY <1>4, <2>2, MovesKeepTypes DEF HistoryFails
<1>5. ASSUME NEW t \in Tasks, LockLogReturns(t) PROVE TypeOK'
  <2> DEFINE l == LockList[at[t]]
             recent == Recent(answer[t])
  <2>1. MovedTypes'
    BY <1>5, ResumeMoves, MovesTypes DEF LockLogReturns
  <2>2. l \in Locks /\ recent \subseteq Accesses
    BY <1>5, AnswerTypes DEF LockLogReturns
  <2>3. prefersPaged' \subseteq Locks
    BY <1>5, <2>2 DEF LockLogReturns, TypeOK
  <2>4. seen' \in [Locks -> SUBSET Accesses]
    BY <1>5, <2>2 DEF LockLogReturns, TypeOK
  <2>5. ownFired' \in [Locks -> [Accesses -> Nat]]
    <3>1. ownFired' = [ownFired EXCEPT ![l] =
              [e \in Accesses |-> @[e] + IF e \in Unseen(l, recent) THEN 1 ELSE 0]]
      BY <1>5 DEF LockLogReturns
    <3>2. [e \in Accesses |-> ownFired[l][e] + IF e \in Unseen(l, recent) THEN 1 ELSE 0]
              \in [Accesses -> Nat]
      BY <2>2 DEF TypeOK
    <3> QED
      BY <3>1, <3>2 DEF TypeOK
  <2>6. lastAccess' \in [Locks -> Accesses \cup {Never}]
    <3>1. recent # {} => Attributed(recent) \in Accesses
      BY <2>2, AttributedIsMember
    <3> QED
      BY <1>5, <3>1 DEF LockLogReturns, TypeOK
  <2>7. UNCHANGED <<accesses, cursors, exhausted, cloudFired, answering>>
    BY <1>5 DEF LockLogReturns
  <2> QED
    BY <2>1, <2>3, <2>4, <2>5, <2>6, <2>7 DEF TypeOK, MovedTypes
<1>6. ASSUME NEW t \in Tasks, BulkFails(t) PROVE TypeOK'
  <2>1. at[t] \in 1..Len(LockList) /\ 0 \in 0..MaxAccesses
    BY AccessLogAssumption DEF TypeOK
  <2>2. Moves(t)
    BY <1>6, <2>1 DEF BulkFails, sharedVars, historyVars, Moves, TypeOK
  <2> QED
    BY <1>6, <2>2, MovesKeepTypes DEF BulkFails, sharedVars, historyVars
<1>7. ASSUME NEW t \in Tasks, PagedFails(t) PROVE TypeOK'
  BY <1>7, ResumeMoves, MovesKeepTypes DEF PagedFails
<1>8. ASSUME NEW t \in Tasks, FarSideAnswers(t) PROVE TypeOK'
  <2>1. PICK records \in Answers(t) : answer' = [answer EXCEPT ![t] = records]
    BY <1>8 DEF FarSideAnswers
  <2>2. answer' \in [Tasks -> (SUBSET Accesses) \cup {Pending}]
    BY <2>1, AnswersAreRecords DEF TypeOK
  <2> QED
    BY <1>8, <2>2 DEF FarSideAnswers, sharedVars, historyVars, TypeOK
<1>9. ASSUME NEW l \in Locks, LockUsed(l) PROVE TypeOK'
  <2>1. accesses' \in [Locks -> OldAccesses..MaxAccesses]
    BY <1>9, AccessLogAssumption DEF LockUsed, TypeOK
  <2> QED
    BY <1>9, <2>1 DEF LockUsed, sharedVars, taskVars, historyVars, TypeOK
<1>10. CASE OutageEnds
  BY <1>10 DEF OutageEnds, sharedVars, taskVars, historyVars, TypeOK
<1>11. CASE UNCHANGED vars
  BY <1>11 DEF vars, sharedVars, taskVars, historyVars, TypeOK
<1> QED
  BY <1>1, <1>2, <1>3, <1>4, <1>5, <1>6, <1>7, <1>8, <1>9, <1>10, <1>11
  DEF Next, RequestEnds

\* The variables keep their types throughout every behaviour.
THEOREM TypeCorrect == Spec => []TypeOK
BY InitTypeOK, NextTypeOK, PTL DEF Spec

-----------------------------------------------------------------------------
(* The inductive invariant.                                                *)

\* A lock is marked before its own log is read unasked, and only then.
ReadsAreMarked ==
    \A l \in Locks : startupReads[l] <= 1 /\ (startupReads[l] = 1 => l \in logRead)

\* The records counted as seen are those announced, each once.
SeenIsFired ==
    \A l \in Locks, e \in Accesses :
        ownFired[l][e] = IF e \in seen[l] THEN 1 ELSE 0

\* An answer on its way goes on where the cursor it was asked with stands, and
\* leaves nothing out.
AnswersAreComplete ==
    \A t \in Tasks : pc[t] = "cloud" /\ answer[t] # Pending =>
        /\ \A e \in answer[t] : since[t] < e
        /\ \A e \in Accesses, x \in answer[t] : since[t] < e /\ e <= x => e \in answer[t]

\* What a poll asks to leave out has been announced: its cursor may be out of
\* date, but what it passed stays announced.
AskedAfterFired ==
    \A t \in Tasks : pc[t] = "cloud" =>
        \A e \in Accesses :
            OldAccesses < e /\ e <= since[t] => e \in cloudFired[LockList[at[t]]]

IInv ==
    /\ TypeOK
    /\ ReadsAreMarked
    /\ SeenIsFired
    /\ AnswersAreComplete
    /\ AskedAfterFired
    /\ CursorSkipsNothing
    /\ ShownWasAnnounced

\* The invariant holds initially.
LEMMA InitIInv == Init => IInv
<1> SUFFICES ASSUME Init PROVE IInv
  OBVIOUS
<1>1. TypeOK
  BY InitTypeOK
<1>2. ReadsAreMarked /\ SeenIsFired
  BY DEF Init, ReadsAreMarked, SeenIsFired
<1>3. AnswersAreComplete /\ AskedAfterFired
  BY DEF Init, AnswersAreComplete, AskedAfterFired
<1>4. CursorSkipsNothing
  BY AccessLogAssumption DEF Init, CursorSkipsNothing, Accesses
<1>5. ShownWasAnnounced
  BY DEF Init, ShownWasAnnounced
<1> QED
  BY <1>1, <1>2, <1>3, <1>4, <1>5 DEF IInv

\* A moving run keeps what the invariant says of marks and requests, as long as
\* what was announced stays so.
LEMMA MovesKeepsIInv ==
    ASSUME IInv, NEW t \in Tasks, Moves(t), TypeOK',
           \A l \in Locks : cloudFired[l] \subseteq cloudFired'[l]
    PROVE  ReadsAreMarked' /\ AnswersAreComplete' /\ AskedAfterFired'
<1> USE DEF IInv
<1>1. PICK where \in {"idle", "cloud", "bulk", "paged"}, i \in 1..Len(LockList),
           c \in 0..MaxAccesses :
               Awaits(t, where, i, c) /\ (where = "cloud" => c = cursors[LockList[i]])
  BY DEF Moves
<1>2. ReadsAreMarked'
  <2>1. logRead \subseteq logRead' /\ logRead' \subseteq Locks
    BY DEF Moves
  <2>2. CASE UNCHANGED startupReads
    BY <2>1, <2>2 DEF ReadsAreMarked
  <2>3. ASSUME NEW l \in logRead' \ logRead,
               startupReads' = [startupReads EXCEPT ![l] = @ + 1]
        PROVE  ReadsAreMarked'
    <3>1. startupReads[l] = 0
      BY <2>1, <2>3 DEF ReadsAreMarked, TypeOK
    <3> QED
      BY <2>1, <2>3, <3>1 DEF ReadsAreMarked, TypeOK
  <2> QED
    BY <2>2, <2>3 DEF Moves
<1>3. \A u \in Tasks : u # t => /\ pc'[u] = pc[u] /\ at'[u] = at[u]
                               /\ since'[u] = since[u] /\ answer'[u] = answer[u]
  BY <1>1 DEF Awaits, TypeOK
<1>4. /\ pc'[t] = where /\ at'[t] = i /\ since'[t] = c /\ answer'[t] = Pending
  BY <1>1 DEF Awaits, TypeOK
<1>5. AnswersAreComplete'
  BY <1>3, <1>4 DEF AnswersAreComplete
<1>6. AskedAfterFired'
  <2> SUFFICES ASSUME NEW u \in Tasks, pc'[u] = "cloud", NEW e \in Accesses,
                      OldAccesses < e, e <= since'[u]
               PROVE  e \in cloudFired'[LockList[at'[u]]]
    BY DEF AskedAfterFired
  <2>1. LockList[at'[u]] \in Locks
    BY Positions DEF TypeOK
  <2>2. CASE u = t
    BY <1>1, <1>4, <2>1, <2>2 DEF CursorSkipsNothing
  <2>3. CASE u # t
    BY <1>3, <2>1, <2>3 DEF AskedAfterFired
  <2> QED
    BY <2>2, <2>3
<1> QED
  BY <1>2, <1>5, <1>6

\* A step that moves a run and leaves the rest of the data keeps the invariant.
LEMMA QuietMoveKeepsIInv ==
    ASSUME IInv, NEW t \in Tasks, Moves(t), TypeOK',
           UNCHANGED <<cursors, seen, lastAccess, cloudFired, ownFired>>
    PROVE  IInv'
BY MovesKeepsIInv DEF IInv, SeenIsFired, CursorSkipsNothing, ShownWasAnnounced

\* A page of the cloud log moves the cursor to its end and announces what of it
\* is recent.
LEMMA HistoryReturnsKeepsIInv ==
    ASSUME IInv, NEW t \in Tasks, HistoryReturns(t), TypeOK'
    PROVE  IInv'
<1> USE DEF IInv
<1> DEFINE l == LockList[at[t]]
           recent == Recent(answer[t])
<1>1. Moves(t)
  <2>1. at[t] + 1 \in Nat \ {0} /\ at[t] \in 1..Len(LockList)
    BY RunPosition
  <2> QED
    BY <2>1, AdvanceMoves, StartupReadMoves DEF HistoryReturns
<1>2. /\ l \in Locks /\ answer[t] \subseteq Accesses /\ recent \subseteq Accesses
      /\ LastSync(t) \in 0..MaxAccesses
      /\ pc[t] = "cloud" /\ answer[t] # Pending
  BY AnswerTypes DEF HistoryReturns
<1>3. cloudFired' = [cloudFired EXCEPT ![l] = @ \cup recent]
  BY DEF HistoryReturns
<1>4. \A k \in Locks : cloudFired[k] \subseteq cloudFired'[k]
  BY <1>2, <1>3 DEF TypeOK
<1>5. ReadsAreMarked' /\ AnswersAreComplete' /\ AskedAfterFired'
  BY <1>1, <1>4, MovesKeepsIInv
<1>6. SeenIsFired'
  BY DEF HistoryReturns, SeenIsFired
<1>7. CursorSkipsNothing'
  <2> SUFFICES ASSUME NEW k \in Locks, NEW e \in Accesses, OldAccesses < e, e <= cursors'[k]
               PROVE  e \in cloudFired'[k]
    BY DEF CursorSkipsNothing
  <2>1. CASE cursors'[k] = cursors[k]
    BY <1>4, <2>1 DEF CursorSkipsNothing
  <2>2. CASE cursors'[k] # cursors[k]
    <3>1. k = l /\ cursors'[k] = LastSync(t) /\ LastSync(t) > since[t]
      BY <1>2, <2>2 DEF HistoryReturns, TypeOK
    <3>2. answer[t] # {} /\ LastSync(t) = Max(answer[t])
      BY <3>1, <1>2 DEF LastSync, TypeOK
    <3>3. Max(answer[t]) \in answer[t]
      BY <1>2, <3>2, MaxIsGreatest
    <3>4. CASE e <= since[t]
      <4>1. e \in cloudFired[l]
        BY <1>2, <3>4 DEF AskedAfterFired
      <4> QED
        BY <1>2, <1>4, <3>1, <4>1
    <3>5. CASE ~(e <= since[t])
      <4>1. since[t] < e /\ e <= Max(answer[t])
        BY <3>1, <3>2, <3>5 DEF TypeOK, Accesses
      <4>2. e \in answer[t]
        BY <1>2, <3>3, <4>1 DEF AnswersAreComplete
      <4>3. e \in recent
        BY <4>2 DEF Recent
      <4> QED
        BY <1>2, <1>3, <3>1, <4>3 DEF TypeOK
    <3> QED
      BY <3>4, <3>5
  <2> QED
    BY <2>1, <2>2
<1>8. ShownWasAnnounced'
  <2> SUFFICES ASSUME NEW k \in Locks, lastAccess'[k] # Never
               PROVE  \/ lastAccess'[k] \in cloudFired'[k]
                      \/ ownFired'[k][lastAccess'[k]] > 0
    BY DEF ShownWasAnnounced
  <2>1. ownFired' = ownFired
    BY DEF HistoryReturns
  <2>2. CASE lastAccess'[k] = lastAccess[k]
    BY <1>4, <2>1, <2>2 DEF ShownWasAnnounced
  <2>3. CASE lastAccess'[k] # lastAccess[k]
    <3>1. k = l /\ recent # {} /\ lastAccess'[k] = Max(recent)
      BY <1>2, <2>3 DEF HistoryReturns, Surfaced, TypeOK
    <3>2. Max(recent) \in recent
      BY <1>2, <3>1, MaxIsGreatest
    <3> QED
      BY <1>2, <1>3, <3>1, <3>2 DEF TypeOK
  <2> QED
    BY <2>2, <2>3
<1> QED
  BY <1>5, <1>6, <1>7, <1>8

\* Records of a lock's own log are announced unless they were.
LEMMA LockLogReturnsKeepsIInv ==
    ASSUME IInv, NEW t \in Tasks, LockLogReturns(t), TypeOK'
    PROVE  IInv'
<1> USE DEF IInv
<1> DEFINE l == LockList[at[t]]
           recent == Recent(answer[t])
<1>1. Moves(t)
  BY ResumeMoves DEF LockLogReturns
<1>2. l \in Locks /\ recent \subseteq Accesses
  BY AnswerTypes DEF LockLogReturns
<1>3. UNCHANGED <<cursors, cloudFired>>
  BY DEF LockLogReturns
<1>4. ReadsAreMarked' /\ AnswersAreComplete' /\ AskedAfterFired'
  BY <1>1, <1>3, MovesKeepsIInv
<1>5. seen' = [seen EXCEPT ![l] = @ \cup recent]
  BY DEF LockLogReturns
<1>6. ownFired' = [ownFired EXCEPT ![l] =
          [e \in Accesses |-> @[e] + IF e \in Unseen(l, recent) THEN 1 ELSE 0]]
  BY DEF LockLogReturns
<1>7. \A k \in Locks : k # l => ownFired'[k] = ownFired[k] /\ seen'[k] = seen[k]
  BY <1>5, <1>6 DEF TypeOK
<1>8. \A e \in Accesses :
          ownFired'[l][e] = ownFired[l][e] + IF e \in Unseen(l, recent) THEN 1 ELSE 0
  BY <1>2, <1>6 DEF TypeOK
<1>9. seen'[l] = seen[l] \cup recent
  BY <1>2, <1>5 DEF TypeOK
<1>10. SeenIsFired'
  <2> SUFFICES ASSUME NEW k \in Locks, NEW e \in Accesses
               PROVE  ownFired'[k][e] = IF e \in seen'[k] THEN 1 ELSE 0
    BY DEF SeenIsFired
  <2>1. ownFired[k][e] = IF e \in seen[k] THEN 1 ELSE 0
    BY DEF SeenIsFired
  <2>2. CASE k = l
    BY <1>8, <1>9, <2>1, <2>2 DEF Unseen
  <2>3. CASE k # l
    BY <1>7, <2>1, <2>3
  <2> QED
    BY <2>2, <2>3
<1>11. CursorSkipsNothing'
  BY <1>3 DEF CursorSkipsNothing
<1>12. ShownWasAnnounced'
  <2> SUFFICES ASSUME NEW k \in Locks, lastAccess'[k] # Never
               PROVE  \/ lastAccess'[k] \in cloudFired'[k]
                      \/ ownFired'[k][lastAccess'[k]] > 0
    BY DEF ShownWasAnnounced
  <2>1. lastAccess'[k] \in Accesses
    BY DEF TypeOK
  <2>2. CASE lastAccess'[k] = lastAccess[k]
    <3>1. CASE lastAccess[k] \in cloudFired[k]
      BY <1>3, <2>2, <3>1
    <3>2. CASE ownFired[k][lastAccess[k]] > 0
      <4>1. lastAccess[k] \in seen[k]
        BY <2>1, <2>2, <3>2 DEF SeenIsFired
      <4>2. lastAccess[k] \in seen'[k]
        BY <1>7, <1>9, <4>1
      <4> QED
        BY <1>10, <2>1, <2>2, <4>2 DEF SeenIsFired
    <3> QED
      BY <2>2, <3>1, <3>2 DEF ShownWasAnnounced
  <2>3. CASE lastAccess'[k] # lastAccess[k]
    <3>1. k = l /\ recent # {} /\ lastAccess'[k] = Attributed(recent)
      BY <1>2, <2>3 DEF LockLogReturns, TypeOK
    <3>2. Attributed(recent) \in seen'[l]
      BY <1>2, <1>9, <3>1, AttributedIsMember
    <3> QED
      BY <1>2, <1>10, <2>1, <3>1, <3>2 DEF SeenIsFired
  <2> QED
    BY <2>2, <2>3
<1> QED
  BY <1>4, <1>10, <1>11, <1>12

\* An answer of the cloud holds what is later than the cursor it was asked with.
LEMMA FarSideAnswersKeepsIInv ==
    ASSUME IInv, NEW t \in Tasks, FarSideAnswers(t), TypeOK'
    PROVE  IInv'
<1> USE DEF IInv
<1>1. UNCHANGED <<accesses, sharedVars, pc, at, since, historyVars>>
  BY DEF FarSideAnswers
<1>2. PICK records \in Answers(t) : answer' = [answer EXCEPT ![t] = records]
  BY DEF FarSideAnswers
<1>3. AnswersAreComplete'
  <2> SUFFICES ASSUME NEW u \in Tasks, pc[u] = "cloud", answer'[u] # Pending
               PROVE  /\ \A e \in answer'[u] : since[u] < e
                      /\ \A e \in Accesses, x \in answer'[u] :
                             since[u] < e /\ e <= x => e \in answer'[u]
    BY <1>1 DEF AnswersAreComplete
  <2>1. CASE u # t
    BY <1>2, <2>1 DEF AnswersAreComplete, TypeOK
  <2>2. CASE u = t
    <3>1. answer'[u] = records
      BY <1>2, <2>2 DEF TypeOK
    <3>2. records = {} \/ records = (since[t] + 1)..accesses[LockList[at[t]]]
      BY <2>2 DEF Answers
    <3>3. since[t] \in Nat /\ accesses[LockList[at[t]]] \in Nat
      <4>1. LockList[at[t]] \in Locks
        BY RunPosition
      <4>2. since[t] \in 0..MaxAccesses
            /\ accesses[LockList[at[t]]] \in OldAccesses..MaxAccesses
        BY <4>1 DEF TypeOK
      <4> QED
        BY <4>2, AccessLogAssumption
    <3> QED
      BY <2>2, <3>1, <3>2, <3>3 DEF Accesses
  <2> QED
    BY <2>1, <2>2
<1> QED
  BY <1>1, <1>3 DEF sharedVars, historyVars, ReadsAreMarked, SeenIsFired, AskedAfterFired,
     CursorSkipsNothing, ShownWasAnnounced

\* Every step preserves the invariant.
LEMMA NextIInv == IInv /\ [Next]_vars => IInv'
<1> SUFFICES ASSUME IInv, [Next]_vars PROVE IInv'
  OBVIOUS
<1>0. TypeOK /\ TypeOK'
  BY NextTypeOK DEF IInv
<1>1. ASSUME NEW t \in Polls, PollBegins(t) PROVE IInv'
  <2>1. t \in Tasks
    BY DEF Tasks
  <2> QED
    BY <1>0, <1>1, <2>1, AdvanceMoves, QuietMoveKeepsIInv DEF PollBegins
<1>2. ASSUME NEW t \in Readers, NEW i \in DOMAIN LockList, ReaderBegins(t, i) PROVE IInv'
  <2>1. t \in Tasks /\ i \in 1..Len(LockList) /\ LockList[i] \in Locks
    BY Positions DEF Tasks
  <2>2. 0 \in 0..MaxAccesses
    BY AccessLogAssumption
  <2>3. Moves(t)
    BY <1>0, <1>2, <2>1, <2>2 DEF ReaderBegins, PollLockLog, historyVars, Moves, TypeOK
  <2> QED
    BY <1>0, <1>2, <2>1, <2>3, QuietMoveKeepsIInv DEF ReaderBegins, historyVars
<1>3. ASSUME NEW t \in Tasks, HistoryReturns(t) PROVE IInv'
  BY <1>0, <1>3, HistoryReturnsKeepsIInv
<1>4. ASSUME NEW t \in Tasks, HistoryFails(t) PROVE IInv'
  <2>1. at[t] + 1 \in Nat \ {0}
    BY <1>0, RunPosition
  <2> QED
    BY <1>0, <1>4, <2>1, AdvanceMoves, QuietMoveKeepsIInv DEF HistoryFails
<1>5. ASSUME NEW t \in Tasks, LockLogReturns(t) PROVE IInv'
  BY <1>0, <1>5, LockLogReturnsKeepsIInv
<1>6. ASSUME NEW t \in Tasks, BulkFails(t) PROVE IInv'
  <2>1. at[t] \in 1..Len(LockList) /\ 0 \in 0..MaxAccesses
    BY <1>0, AccessLogAssumption DEF TypeOK
  <2>2. Moves(t)
    BY <1>0, <1>6, <2>1 DEF BulkFails, sharedVars, historyVars, Moves, TypeOK
  <2> QED
    BY <1>0, <1>6, <2>2, QuietMoveKeepsIInv DEF BulkFails, sharedVars, historyVars
<1>7. ASSUME NEW t \in Tasks, PagedFails(t) PROVE IInv'
  BY <1>0, <1>7, ResumeMoves, QuietMoveKeepsIInv DEF PagedFails
<1>8. ASSUME NEW t \in Tasks, FarSideAnswers(t) PROVE IInv'
  BY <1>0, <1>8, FarSideAnswersKeepsIInv
<1>9. ASSUME UNCHANGED <<sharedVars, taskVars, historyVars>> PROVE IInv'
  BY <1>0, <1>9 DEF IInv, sharedVars, taskVars, historyVars, ReadsAreMarked, SeenIsFired,
     AnswersAreComplete, AskedAfterFired, CursorSkipsNothing, ShownWasAnnounced
<1> QED
  BY <1>1, <1>2, <1>3, <1>4, <1>5, <1>6, <1>7, <1>8, <1>9
  DEF Next, RequestEnds, LockUsed, OutageEnds, vars

\* The invariant holds in every reachable state.
LEMMA IInvHolds == Spec => []IInv
BY InitIInv, NextIInv, PTL DEF Spec

-----------------------------------------------------------------------------
(* What the run checks, for every value of the constants.                  *)

\* However many polls and forced reads overlap, a lock's own log is read unasked
\* once.
THEOREM WokenOnce == Spec => []OwnLogReadOnce
<1>1. IInv => OwnLogReadOnce
  BY DEF IInv, ReadsAreMarked, OwnLogReadOnce
<1> QED
  BY <1>1, IInvHolds, PTL

\* No record of a lock's own log is announced twice.
THEOREM AnnouncedOnce == Spec => []OwnRecordsFireOnce
<1>1. IInv => OwnRecordsFireOnce
  BY DEF IInv, SeenIsFired, OwnRecordsFireOnce
<1> QED
  BY <1>1, IInvHolds, PTL

\* No cursor, whoever sets it last, passes an access that was not announced.
THEOREM NothingSkipped == Spec => []CursorSkipsNothing
<1>1. IInv => CursorSkipsNothing
  BY DEF IInv
<1> QED
  BY <1>1, IInvHolds, PTL

\* Last Access only shows what was announced.
THEOREM LastAccessAnnounced == Spec => []ShownWasAnnounced
<1>1. IInv => ShownWasAnnounced
  BY DEF IInv
<1> QED
  BY <1>1, IInvHolds, PTL
=============================================================================
