--------------------------- MODULE PollCycleProofs ---------------------------
(***************************************************************************)
(* What holds of PollCycle for any list of locks, with hubs or without,    *)
(* and any number of attempts: no lock is abandoned, the waking is         *)
(* bounded, a Door entity has its proof, only late updates are lost.       *)
(***************************************************************************)
EXTENDS PollCycle, TLAPS

N == Len(LockList)
Queries == {"cached", "live", "probe"}

\* The lock is at a position before i.
Past(i, l) == \E j \in 1..(i - 1) : LockList[j] = l

\* The position the poll has reached.
Position == IF pc \in Queries THEN at ELSE 1

Asked(l) == pc = "live" /\ LockList[at] = l

\* A lock that is seeded has attempts left, or is in its last.
SeedingCounted ==
    /\ \A l \in seeding : attempts[l] < MaxAttempts \/ Asked(l)
    /\ pc = "live" => LockList[at] \in seeding
    /\ pc = "probe" => LockList[at] \notin due

\* A lock neither seeded nor probed has its reading where the end of the poll
\* finds it: in the result once the poll is past it, in the data before.
Accounted(i, res, pending) ==
    \A l \in Locks \ pending : IF Past(i, l) THEN res[l].read ELSE data[l].read

EveryLockAccounted ==
    polled \/ pc \notin {"idle", "login"} => Accounted(Position, result, seeding \cup retrying)

\* The poll queries with a token only, and has none before its first login.
TokenFirst ==
    /\ ~jwt => pc \in {"idle", "login"}
    /\ ~polled /\ pc \in {"idle", "login"} => ~jwt

\* Each attempt wakes a lock once; beside those of the last login there is at most
\* the one of the first poll.
WakesCounted ==
    /\ \A l \in Locks : wakes[l] <= MaxAttempts + 1
    /\ \A l \in seeding : wakes[l] <= attempts[l] + IF Asked(l) THEN 0 ELSE 1
    /\ ~jwt \/ pc = "login" => \A l \in Locks : wakes[l] <= 1
    /\ ~polled => \A l \in Locks : wakes[l] <= IF Past(Position, l) THEN 1 ELSE 0

PollInv ==
    /\ SeedingCounted /\ EveryLockAccounted /\ TokenFirst /\ WakesCounted /\ DoorNeedsProof

-----------------------------------------------------------------------------
(* Positions in the list of locks.                                         *)

\* Every lock has one position in the list.
LEMMA ListFacts ==
    /\ N \in Nat \ {0} /\ MaxAttempts \in Nat \ {0}
    /\ \A i \in 1..N : LockList[i] \in Locks
    /\ \A l \in Locks : \E i \in 1..N : LockList[i] = l
    /\ \A i, j \in 1..N : LockList[i] = LockList[j] => i = j
<1>1. LockList \in Seq(Locks) /\ LockList # <<>>
  BY PollAssumption
<1>2. N \in Nat \ {0} /\ DOMAIN LockList = 1..N
  BY <1>1 DEF N
<1> QED
  BY <1>1, <1>2, PollAssumption DEF N, Locks

\* How the set of locks the poll is past grows.
LEMMA PastFacts ==
    /\ \A l \in Locks : Past(N + 1, l) /\ ~Past(1, l)
    /\ \A i \in 1..N : ~Past(i, LockList[i])
    /\ \A i \in 1..N, l \in Locks : Past(i + 1, l) <=> Past(i, l) \/ l = LockList[i]
    /\ \A i, j \in 1..(N + 1), l \in Locks : i <= j /\ Past(i, l) => Past(j, l)
<1> USE ListFacts
<1>1. \A l \in Locks : Past(N + 1, l) /\ ~Past(1, l)
  <2> SUFFICES ASSUME NEW l \in Locks PROVE Past(N + 1, l) /\ ~Past(1, l)
    OBVIOUS
  <2>1. PICK i \in 1..N : LockList[i] = l
    OBVIOUS
  <2>2. i \in 1..((N + 1) - 1) /\ 1..(1 - 1) = {}
    OBVIOUS
  <2> QED
    BY <2>1, <2>2 DEF Past
<1>2. \A i \in 1..N : ~Past(i, LockList[i])
  <2> SUFFICES ASSUME NEW i \in 1..N, NEW j \in 1..(i - 1), LockList[j] = LockList[i]
               PROVE  FALSE
    BY DEF Past
  <2>1. j \in 1..N /\ j # i
    OBVIOUS
  <2> QED
    BY <2>1
<1>3. \A i \in 1..N, l \in Locks : Past(i + 1, l) <=> Past(i, l) \/ l = LockList[i]
  <2> SUFFICES ASSUME NEW i \in 1..N, NEW l \in Locks
               PROVE  Past(i + 1, l) <=> Past(i, l) \/ l = LockList[i]
    OBVIOUS
  <2>1. 1..((i + 1) - 1) = (1..(i - 1)) \cup {i}
    OBVIOUS
  <2> QED
    BY <2>1 DEF Past
<1>4. \A i, j \in 1..(N + 1), l \in Locks : i <= j /\ Past(i, l) => Past(j, l)
  <2> SUFFICES ASSUME NEW i \in 1..(N + 1), NEW j \in 1..(N + 1), NEW l \in Locks, i <= j,
                      NEW k \in 1..(i - 1), LockList[k] = l
               PROVE  Past(j, l)
    BY DEF Past
  <2>1. k \in 1..(j - 1)
    OBVIOUS
  <2> QED
    BY <2>1 DEF Past
<1> QED
  BY <1>1, <1>2, <1>3, <1>4

\* Keeping takes the data of the locks it passes.
LEMMA KeepingFacts ==
    ASSUME TypeOK, NEW i \in 1..(N + 1), NEW j \in i..(N + 1),
           NEW res \in [Locks -> LockData]
    PROVE  /\ Keeping(i, j, res) \in [Locks -> LockData]
           /\ \A l \in Locks : Keeping(i, j, res)[l] =
                               IF Past(j, l) /\ ~Past(i, l) THEN data[l] ELSE res[l]
<1>1. ASSUME NEW l \in Locks
      PROVE  (\E k \in i..(j - 1) : LockList[k] = l) <=> Past(j, l) /\ ~Past(i, l)
  <2>1. ASSUME NEW k \in i..(j - 1), LockList[k] = l PROVE Past(j, l) /\ ~Past(i, l)
    <3>1. k \in 1..(j - 1) /\ k \in 1..N
      BY ListFacts
    <3>2. ASSUME NEW m \in 1..(i - 1), LockList[m] = l PROVE FALSE
      <4>1. m \in 1..N /\ m # k
        BY ListFacts
      <4> QED
        BY <2>1, <3>1, <3>2, <4>1, ListFacts
    <3> QED
      BY <2>1, <3>1, <3>2 DEF Past
  <2>2. ASSUME Past(j, l), ~Past(i, l) PROVE \E k \in i..(j - 1) : LockList[k] = l
    <3>1. PICK k \in 1..(j - 1) : LockList[k] = l
      BY <2>2 DEF Past
    <3>2. k \notin 1..(i - 1)
      BY <2>2, <3>1 DEF Past
    <3>3. k \in i..(j - 1)
      BY <3>2, ListFacts
    <3> QED
      BY <3>1, <3>3
  <2> QED
    BY <2>1, <2>2
<1> QED
  BY <1>1 DEF Keeping, TypeOK

-----------------------------------------------------------------------------
(* Advancing.                                                              *)

\* The poll ends,
Ends(i, res, ok, tried) ==
    /\ pc' = "idle" /\ polled' = TRUE /\ at' = 1
    /\ data' = Keeping(i, N + 1, res)
    /\ result' = [l \in Locks |-> Blank]
    /\ attempts' = tried /\ due' = due
    /\ jwt' \in BOOLEAN
    /\ polled /\ (ok \/ i <= N) => jwt' = jwt

\* or it is suspended in a query of the lock at position next.
Suspends(i, next, res, seeds, tried) ==
    /\ UNCHANGED <<data, polled, jwt>>
    /\ pc' \in Queries /\ at' = next /\ result' = Keeping(i, next, res)
    /\ due' \subseteq due
    /\ pc' = "probe" => LockList[next] \notin due'
    /\ pc' = "live" => /\ LockList[next] \in seeds
                       /\ attempts' = [tried EXCEPT ![LockList[next]] = @ + 1]
    /\ pc' # "live" => attempts' = tried

FlagTypes ==
    /\ polling' = polling
    /\ cacheSupported' \in BOOLEAN /\ anyOk' \in BOOLEAN
    /\ cacheAsked' \in BOOLEAN /\ cacheAnswered' \in BOOLEAN

\* An advance ends the poll or suspends it at a later lock.
LEMMA AdvanceOutcome ==
    ASSUME TypeOK, NEW i \in 1..(N + 1), NEW res \in [Locks -> LockData],
           NEW ok \in BOOLEAN, NEW answered \in BOOLEAN,
           NEW seeds \in SUBSET Locks, NEW tried \in [Locks -> 0..MaxAttempts],
           Advance(i, res, ok, answered, seeds, tried)
    PROVE  /\ FlagTypes
           /\ \/ Ends(i, res, ok, tried)
              \/ \E next \in i..N : Suspends(i, next, res, seeds, tried)
<1>1. CASE FinishPoll(Keeping(i, N + 1, res), ok \/ (i <= N /\ polled), answered, tried)
  <2>1. polled /\ (ok \/ i <= N) => jwt' = jwt
    BY <1>1 DEF FinishPoll, TypeOK
  <2>2. cacheSupported' \in BOOLEAN /\ jwt' \in BOOLEAN
    BY <1>1 DEF FinishPoll, TypeOK
  <2> QED
    BY <1>1, <2>1, <2>2 DEF FinishPoll, Ends, FlagTypes
<1>2. ASSUME NEW next \in i..N,
             FirstAwait(LockList[next], seeds) # "kept",
             Ask(LockList[next], FirstAwait(LockList[next], seeds), tried),
             at' = next, result' = Keeping(i, next, res),
             anyOk' = (ok \/ (i < next /\ polled)), cacheAnswered' = answered
      PROVE  FlagTypes /\ Suspends(i, next, res, seeds, tried)
  <2>1. pc' = FirstAwait(LockList[next], seeds) /\ pc' \in Queries
        /\ (pc' = "live" => LockList[next] \in seeds)
    BY <1>2 DEF Ask, FirstAwait, WithoutCache, Queries
  <2>2. anyOk' \in BOOLEAN /\ cacheAsked' \in BOOLEAN /\ cacheAnswered' \in BOOLEAN
    BY <1>2 DEF Ask
  <2> QED
    BY <1>2, <2>1, <2>2 DEF Ask, Suspends, FlagTypes, TypeOK
<1> QED
  BY <1>1, <1>2 DEF Advance, N

\* What the step has to provide for the invariant to hold after the advance.
LEMMA AdvanceKeeps ==
    ASSUME TypeOK, NEW i \in 1..(N + 1), NEW res \in [Locks -> LockData],
           NEW ok \in BOOLEAN, NEW answered \in BOOLEAN,
           NEW seeds \in SUBSET Locks, NEW tried \in [Locks -> 0..MaxAttempts],
           Advance(i, res, ok, answered, seeds, tried),
           jwt, polled => ok \/ i <= N,
           seeding' = seeds, retrying' \subseteq Locks, due \subseteq retrying',
           proven' \subseteq Locks, UNCHANGED <<mqttUp, answering>>,
           wakes' \in [Locks -> Nat],
           \A l \in Locks : wakes'[l] <= MaxAttempts + 1,
           \A l \in seeds : tried[l] < MaxAttempts /\ wakes'[l] <= tried[l] + 1,
           ~polled => \A l \in Locks : wakes'[l] <= IF Past(i, l) THEN 1 ELSE 0,
           Accounted(i, res, seeds \cup retrying'),
           \A l \in Locks : data[l].wired \/ res[l].wired => l \in proven'
    PROVE  TypeOK' /\ PollInv'
<1> USE ListFacts
<1>0. Blank \in LockData /\ ~Blank.wired
  BY DEF Blank, LockData
<1>a. FlagTypes
  BY AdvanceOutcome
<1>1. CASE Ends(i, res, ok, tried)
  <2> USE DEF Ends
  <2>1. /\ data' \in [Locks -> LockData]
        /\ \A l \in Locks : data'[l] = IF Past(i, l) THEN res[l] ELSE data[l]
    BY <1>1, KeepingFacts, PastFacts
  <2>2. TypeOK'
    BY <1>0, <1>1, <1>a, <2>1 DEF TypeOK, N, FlagTypes
  <2>3. SeedingCounted'
    BY <1>1 DEF SeedingCounted
  <2>4. EveryLockAccounted'
    <3>1. \A l \in Locks \ (seeding' \cup retrying') : data'[l].read
      BY <2>1 DEF Accounted
    <3>2. \A l \in Locks : ~Past(1, l)
      BY PastFacts
    <3>3. \A l \in Locks : Past(1, l)' <=> Past(1, l)
      BY DEF Past
    <3> QED
      BY <1>1, <3>1, <3>2, <3>3 DEF EveryLockAccounted, Accounted, Position, Queries
  <2>5. TokenFirst'
    BY <1>1 DEF TokenFirst
  <2>6. WakesCounted'
    <3>1. \A l \in seeding' : wakes'[l] <= attempts'[l] + 1 /\ ~Asked(l)'
      BY <1>1 DEF Asked
    <3>2. ~jwt' \/ pc' = "login" => \A l \in Locks : wakes'[l] <= 1
      <4> SUFFICES ASSUME ~jwt', NEW l \in Locks PROVE wakes'[l] <= 1
        BY <1>1
      <4>1. ~polled
        BY <1>1
      <4> QED
        BY <4>1
    <3> QED
      BY <1>1, <3>1, <3>2 DEF WakesCounted
  <2>7. DoorNeedsProof'
    BY <1>0, <1>1, <2>1 DEF DoorNeedsProof
  <2> QED
    BY <2>2, <2>3, <2>4, <2>5, <2>6, <2>7 DEF PollInv
<1>2. ASSUME NEW next \in i..N, Suspends(i, next, res, seeds, tried) PROVE TypeOK' /\ PollInv'
  <2> USE DEF Suspends
  <2>0. next \in 1..N /\ i <= next /\ next \in i..(N + 1) /\ LockList[next] \in Locks
    OBVIOUS
  <2>1. /\ result' \in [Locks -> LockData]
        /\ \A l \in Locks : result'[l] = IF Past(next, l) /\ ~Past(i, l) THEN data[l]
                                         ELSE res[l]
    BY <1>2, <2>0, KeepingFacts
  <2>2. /\ attempts' \in [Locks -> 0..MaxAttempts]
        /\ \A l \in Locks : IF pc' = "live" /\ l = LockList[next]
                            THEN attempts'[l] = tried[l] + 1 ELSE attempts'[l] = tried[l]
    <3>1. CASE pc' = "live"
      BY <1>2, <2>0, <3>1
    <3>2. CASE pc' # "live"
      BY <1>2, <3>2
    <3> QED
      BY <3>1, <3>2
  <2>3. TypeOK'
    BY <1>2, <1>a, <2>0, <2>1, <2>2 DEF TypeOK, N, Queries, FlagTypes
  <2>4. \A l \in Locks : Asked(l)' <=> pc' = "live" /\ l = LockList[next]
    BY <1>2 DEF Asked
  <2>5. SeedingCounted'
    BY <1>2, <2>2, <2>4 DEF SeedingCounted
  <2>6. \A l \in Locks : Past(Position, l)' <=> Past(next, l)
    BY <1>2 DEF Past, Position
  <2>7. \A l \in Locks : Past(i, l) => Past(next, l)
    BY <2>0, PastFacts
  <2>8. EveryLockAccounted'
    <3>1. \A l \in Locks \ (seeding' \cup retrying') :
            IF Past(next, l) THEN result'[l].read ELSE data'[l].read
      BY <1>2, <2>1, <2>7 DEF Accounted
    <3> QED
      BY <2>6, <3>1 DEF EveryLockAccounted, Accounted
  <2>9. TokenFirst'
    BY <1>2 DEF TokenFirst, Queries
  <2>10. WakesCounted'
    <3>1. \A l \in seeding' : wakes'[l] <= attempts'[l] + IF Asked(l)' THEN 0 ELSE 1
      <4> SUFFICES ASSUME NEW l \in seeds
                   PROVE  wakes'[l] <= attempts'[l] + IF Asked(l)' THEN 0 ELSE 1
        OBVIOUS
      <4>1. wakes'[l] \in Nat /\ tried[l] \in Nat /\ wakes'[l] <= tried[l] + 1
        OBVIOUS
      <4> QED
        BY <2>2, <2>4, <4>1
    <3>2. ~polled' => \A l \in Locks : wakes'[l] <= IF Past(Position, l)' THEN 1 ELSE 0
      BY <1>2, <2>6, <2>7
    <3> QED
      BY <1>2, <3>1, <3>2 DEF WakesCounted, Queries
  <2>11. DoorNeedsProof'
    BY <1>2, <2>1 DEF DoorNeedsProof
  <2> QED
    BY <2>3, <2>5, <2>8, <2>9, <2>10, <2>11 DEF PollInv
<1>3. Ends(i, res, ok, tried) \/ \E next \in i..N : Suspends(i, next, res, seeds, tried)
  BY AdvanceOutcome
<1> QED
  BY <1>1, <1>2, <1>3

\* The lock that is being queried, and what the poll knows while it is.
LEMMA QueriedLock ==
    ASSUME TypeOK, PollInv, pc \in Queries
    PROVE  /\ at \in 1..N /\ at + 1 \in 1..(N + 1) /\ LockList[at] \in Locks
           /\ jwt /\ Position = at
           /\ ~Past(at, LockList[at])
           /\ \A l \in Locks : Past(at + 1, l) <=> Past(at, l) \/ l = LockList[at]
<1>1. at \in 1..N
  BY DEF TypeOK, N
<1>2. jwt /\ Position = at
  BY DEF PollInv, TokenFirst, Position, Queries
<1> QED
  BY <1>1, <1>2, ListFacts, PastFacts

\* A step that got a status preserves the invariant,
LEMMA ReadingKeeps ==
    ASSUME TypeOK, PollInv, pc \in Queries,
           NEW status \in Statuses, NEW answered \in BOOLEAN,
           NEW seeds \in SUBSET Locks, NEW tried \in [Locks -> 0..MaxAttempts],
           Reading(LockList[at], status, answered, seeds, tried),
           seeding' = seeds, retrying' \subseteq Locks, due \subseteq retrying',
           (seeding \cup retrying) \ {LockList[at]} \subseteq seeds \cup retrying',
           UNCHANGED <<mqttUp, answering, wakes>>,
           \A l \in seeds : tried[l] < MaxAttempts /\ wakes[l] <= tried[l] + 1
    PROVE  TypeOK' /\ PollInv'
<1> DEFINE q == LockList[at]
           new == [read |-> TRUE, carried |-> data[q].carried,
                   wired |-> q \in Learned(q, status)]
           res == [result EXCEPT ![q] = new]
<1>1. q \in Locks /\ result \in [Locks -> LockData] /\ data[q] \in LockData
  BY QueriedLock DEF TypeOK
<1>2. /\ res \in [Locks -> LockData]
      /\ res[q].read /\ (res[q].wired => q \in Learned(q, status))
      /\ \A l \in Locks \ {q} : res[l] = result[l]
  <2>1. new \in LockData /\ new.read /\ (new.wired => q \in Learned(q, status))
    <3>1. data[q].carried \in BOOLEAN
      BY <1>1 DEF LockData
    <3>2. (q \in Learned(q, status)) \in BOOLEAN
      OBVIOUS
    <3> QED
      BY <3>1, <3>2 DEF LockData
  <2> HIDE DEF new
  <2> QED
    BY <1>1, <2>1
<1>3. proven' = Learned(q, status) /\ proven \subseteq proven' /\ proven' \subseteq Locks
  BY <1>1 DEF Reading, Learned, TypeOK
<1>4. Advance(at + 1, res, TRUE, answered, seeds, tried)
  BY DEF Reading
<1>5. Accounted(at + 1, res, seeds \cup retrying')
  <2>1. Accounted(at, result, seeding \cup retrying)
    BY QueriedLock DEF PollInv, EveryLockAccounted, Queries
  <2> QED
    BY <1>2, <2>1, QueriedLock DEF Accounted
<1>6. \A l \in Locks : data[l].wired \/ res[l].wired => l \in proven'
  BY <1>2, <1>3 DEF PollInv, DoorNeedsProof
<1>7. /\ wakes' \in [Locks -> Nat]
      /\ \A l \in Locks : wakes'[l] <= MaxAttempts + 1
      /\ \A l \in seeds : wakes'[l] <= tried[l] + 1
  BY DEF TypeOK, PollInv, WakesCounted
<1>8. ~polled => \A l \in Locks : wakes'[l] <= IF Past(at + 1, l) THEN 1 ELSE 0
  <2> SUFFICES ASSUME ~polled, NEW l \in Locks
               PROVE  wakes[l] <= IF Past(at + 1, l) THEN 1 ELSE 0
    OBVIOUS
  <2>1. wakes[l] <= (IF Past(at, l) THEN 1 ELSE 0) /\ wakes[l] \in Nat
    BY QueriedLock DEF PollInv, WakesCounted, TypeOK
  <2> QED
    BY <2>1, QueriedLock
<1> HIDE DEF q, res
<1> QED
  BY <1>2, <1>3, <1>4, <1>5, <1>6, <1>7, <1>8, AdvanceKeeps, QueriedLock

\* and one that got none, if it takes no lock from the seeding or the probing.
LEMMA NoReadingKeeps ==
    ASSUME TypeOK, PollInv, pc \in Queries,
           NEW seeds \in SUBSET Locks, NEW tried \in [Locks -> 0..MaxAttempts],
           NoReading(LockList[at], seeds, tried),
           seeding' = seeds, retrying' \subseteq Locks, due \subseteq retrying',
           seeding \cup retrying \subseteq seeds \cup retrying',
           UNCHANGED <<mqttUp, answering>>,
           wakes' \in [Locks -> Nat],
           \A l \in Locks \ {LockList[at]} : wakes'[l] = wakes[l],
           wakes'[LockList[at]] <= wakes[LockList[at]] + 1,
           wakes'[LockList[at]] <= MaxAttempts + 1,
           \A l \in seeds : tried[l] < MaxAttempts /\ wakes'[l] <= tried[l] + 1
    PROVE  TypeOK' /\ PollInv'
<1> DEFINE q == LockList[at]
           res == [result EXCEPT ![q] = data[q]]
<1>1. q \in Locks /\ result \in [Locks -> LockData] /\ data[q] \in LockData
      /\ anyOk \in BOOLEAN /\ polled \in BOOLEAN /\ cacheAnswered \in BOOLEAN
  BY QueriedLock DEF TypeOK
<1>2. /\ res \in [Locks -> LockData]
      /\ res[q] = data[q] /\ \A l \in Locks \ {q} : res[l] = result[l]
  BY <1>1
<1>3. proven' = proven /\ proven \subseteq Locks
  BY DEF NoReading, TypeOK
<1>4. Advance(at + 1, res, anyOk \/ polled, cacheAnswered, seeds, tried)
  BY DEF NoReading
<1>5. Accounted(at + 1, res, seeds \cup retrying')
  <2>1. Accounted(at, result, seeding \cup retrying)
    BY QueriedLock DEF PollInv, EveryLockAccounted, Queries
  <2> QED
    BY <1>2, <2>1, QueriedLock DEF Accounted
<1>6. \A l \in Locks : data[l].wired \/ res[l].wired => l \in proven'
  BY <1>2, <1>3 DEF PollInv, DoorNeedsProof
<1>7. \A l \in Locks : wakes'[l] <= MaxAttempts + 1
  BY DEF PollInv, WakesCounted
<1>8. ~polled => \A l \in Locks : wakes'[l] <= IF Past(at + 1, l) THEN 1 ELSE 0
  <2> SUFFICES ASSUME ~polled, NEW l \in Locks
               PROVE  wakes'[l] <= IF Past(at + 1, l) THEN 1 ELSE 0
    OBVIOUS
  <2>1. wakes[l] <= (IF Past(at, l) THEN 1 ELSE 0) /\ wakes[l] \in Nat /\ wakes'[l] \in Nat
    BY QueriedLock DEF PollInv, WakesCounted, TypeOK
  <2>2. CASE l = q
    BY <2>1, <2>2, QueriedLock
  <2>3. CASE l # q
    BY <2>1, <2>3, QueriedLock
  <2> QED
    BY <2>2, <2>3
<1>9. (anyOk \/ polled) \in BOOLEAN /\ (polled => (anyOk \/ polled) \/ at + 1 <= N)
  OBVIOUS
<1> HIDE DEF q, res
<1> QED
  BY <1>1, <1>2, <1>3, <1>4, <1>5, <1>6, <1>7, <1>8, <1>9, AdvanceKeeps, QueriedLock

-----------------------------------------------------------------------------
(* The steps of the poll.                                                  *)

\* The steps of the poll preserve the invariant: its beginning,
LEMMA PollBeginsKeeps ==
    ASSUME TypeOK, PollInv, PollBegins PROVE TypeOK' /\ PollInv'
<1> USE DEF PollBegins, seedVars
<1>1. TypeOK'
  BY DEF TypeOK
<1>2. pc = "idle" /\ pc' \in {"login", "begin"} /\ (pc' = "login" <=> ~jwt)
  OBVIOUS
<1>3. SeedingCounted' /\ TokenFirst' /\ DoorNeedsProof'
  BY <1>2 DEF PollInv, SeedingCounted, TokenFirst, DoorNeedsProof, Asked
<1>4. Position = 1 /\ Position' = 1
  BY <1>2 DEF Position, Queries
<1>5. EveryLockAccounted'
  <2>1. pc' = "begin" => polled
    BY <1>2 DEF PollInv, TokenFirst
  <2> QED
    BY <1>2, <1>4, <2>1 DEF PollInv, EveryLockAccounted, Accounted, Past
<1>6. WakesCounted'
  BY <1>2, <1>4 DEF PollInv, WakesCounted, Asked, Past
<1> QED
  BY <1>1, <1>3, <1>5, <1>6 DEF PollInv

\* its login,
LEMMA AuthenticatedKeeps ==
    ASSUME TypeOK, PollInv, Authenticated PROVE TypeOK' /\ PollInv'
<1> USE DEF Authenticated
<1>1. TypeOK'
  BY ListFacts DEF TypeOK
<1>2. SeedingCounted' /\ TokenFirst' /\ DoorNeedsProof'
  BY ListFacts DEF PollInv, SeedingCounted, TokenFirst, DoorNeedsProof
<1>3. EveryLockAccounted'
  BY DEF EveryLockAccounted, Accounted
<1>4. WakesCounted'
  <2>1. Position = 1 /\ Position' = 1
    BY DEF Position, Queries
  <2>2. \A l \in Locks : wakes[l] <= 1
    BY DEF PollInv, WakesCounted
  <2> QED
    BY <2>1, <2>2 DEF PollInv, WakesCounted, Asked, Past
<1> QED
  BY <1>1, <1>2, <1>3, <1>4 DEF PollInv

\* the failure of that,
LEMMA LoginFailsKeeps ==
    ASSUME TypeOK, PollInv, LoginFails PROVE TypeOK' /\ PollInv'
<1> USE DEF LoginFails, seedVars
<1>1. TypeOK'
  BY DEF TypeOK
<1>2. Position = 1 /\ Position' = 1
  BY DEF Position, Queries
<1>3. SeedingCounted' /\ TokenFirst' /\ DoorNeedsProof'
  BY DEF PollInv, SeedingCounted, TokenFirst, DoorNeedsProof, Asked
<1>4. EveryLockAccounted'
  BY <1>2 DEF PollInv, EveryLockAccounted, Accounted, Past
<1>5. WakesCounted'
  BY <1>2 DEF PollInv, WakesCounted, Asked, Past
<1> QED
  BY <1>1, <1>3, <1>4, <1>5 DEF PollInv

\* the choice of the locks to probe,
LEMMA LoopBeginsKeeps ==
    ASSUME TypeOK, PollInv, LoopBegins PROVE TypeOK' /\ PollInv'
<1>1. pc = "begin" /\ Position = 1 /\ \A l \in Locks : ~Asked(l)
  BY DEF LoopBegins, Position, Queries, Asked
<1>2. jwt
  BY <1>1 DEF PollInv, TokenFirst
<1>3. Accounted(1, result, seeding \cup retrying)
  BY <1>1 DEF PollInv, EveryLockAccounted
<1>4. \A l \in seeding : attempts[l] < MaxAttempts /\ wakes[l] <= attempts[l] + 1
  <2> SUFFICES ASSUME NEW l \in seeding
               PROVE  attempts[l] < MaxAttempts /\ wakes[l] <= attempts[l] + 1
    OBVIOUS
  <2>1. l \in Locks /\ ~Asked(l)
    BY <1>1 DEF TypeOK
  <2> QED
    BY <2>1 DEF PollInv, SeedingCounted, WakesCounted
<1>5. /\ \A l \in Locks : wakes[l] <= MaxAttempts + 1
      /\ ~polled => \A l \in Locks : wakes[l] <= IF Past(1, l) THEN 1 ELSE 0
  BY <1>1 DEF PollInv, WakesCounted
<1>6. \A l \in Locks : data[l].wired \/ result[l].wired => l \in proven
  BY DEF PollInv, DoorNeedsProof
<1>7. /\ Advance(1, result, FALSE, FALSE, seeding, attempts)
      /\ UNCHANGED <<proven, seeding, retrying, mqttUp, wakes, answering>>
  BY DEF LoopBegins
<1>8. /\ result \in [Locks -> LockData] /\ seeding \in SUBSET Locks
      /\ attempts \in [Locks -> 0..MaxAttempts] /\ wakes \in [Locks -> Nat]
      /\ retrying \subseteq Locks /\ due \subseteq retrying /\ proven \subseteq Locks
  BY DEF TypeOK
<1>9. 1 \in 1..(N + 1) /\ 1 <= N /\ FALSE \in BOOLEAN
  BY ListFacts
<1> QED
  BY <1>2, <1>3, <1>4, <1>5, <1>6, <1>7, <1>8, <1>9, AdvanceKeeps

\* Seeds other than the lock that is asked have attempts left.
LEMMA OtherSeeds ==
    ASSUME TypeOK, PollInv, NEW l \in seeding, ~Asked(l)
    PROVE  attempts[l] < MaxAttempts /\ wakes[l] <= attempts[l] + 1
BY DEF PollInv, SeedingCounted, WakesCounted, TypeOK

\* the answer of the hub's cache,
LEMMA CachedReturnsKeeps ==
    ASSUME TypeOK, PollInv, NEW status \in Statuses \cup {NoStatus}, CachedReturns(status)
    PROVE  TypeOK' /\ PollInv'
<1> DEFINE q == LockList[at]
           kind == WithoutCache(q, seeding)
<1>1. /\ pc = "cached" /\ pc \in Queries
      /\ UNCHANGED <<seeding, retrying, mqttUp, wakes, answering>>
  BY DEF CachedReturns, Queries
<1>2. \A l \in Locks : ~Asked(l)
  BY <1>1 DEF Asked
<1>3. q \in Locks /\ at \in 1..N
  BY <1>1, QueriedLock
<1>4. /\ seeding \in SUBSET Locks /\ attempts \in [Locks -> 0..MaxAttempts]
      /\ wakes \in [Locks -> Nat]
      /\ retrying \subseteq Locks /\ due \subseteq retrying
  BY DEF TypeOK
<1>5. \A l \in seeding : attempts[l] < MaxAttempts /\ wakes[l] <= attempts[l] + 1
  BY <1>2, <1>4, OtherSeeds
<1>6. CASE status # NoStatus
  <2>1. Reading(q, status, TRUE, seeding, attempts) /\ status \in Statuses
    BY <1>6 DEF CachedReturns
  <2> HIDE DEF q
  <2> QED
    BY <1>1, <1>4, <1>5, <2>1, ReadingKeeps DEF q
<1>7. CASE status = NoStatus /\ kind = "kept"
  <2>1. NoReading(q, seeding, attempts)
    BY <1>7 DEF CachedReturns
  <2>2. \A l \in Locks : wakes[l] <= MaxAttempts + 1 /\ wakes[l] <= wakes[l] + 1
    BY <1>4 DEF PollInv, WakesCounted
  <2> QED
    BY <1>1, <1>3, <1>4, <1>5, <2>1, <2>2, NoReadingKeeps
<1>8. CASE status = NoStatus /\ kind # "kept"
  <2>1. Ask(q, kind, attempts) /\ UNCHANGED <<proven, at, result, anyOk, cacheAnswered>>
    BY <1>8 DEF CachedReturns
  <2>2. /\ kind \in {"live", "probe"}
        /\ kind = "live" => q \in seeding
        /\ UNCHANGED <<data, polled, polling, jwt, cacheSupported>>
        /\ pc' = kind /\ cacheAsked' \in BOOLEAN
        /\ due' \subseteq due /\ (kind = "probe" => q \notin due')
    BY <1>8, <2>1 DEF Ask, WithoutCache, TypeOK
  <2>3. /\ attempts' \in [Locks -> 0..MaxAttempts]
        /\ \A l \in Locks : attempts'[l] = IF kind = "live" /\ l = q THEN attempts[l] + 1
                                           ELSE attempts[l]
    <3>1. CASE kind = "live"
      <4>1. attempts' = [attempts EXCEPT ![q] = @ + 1] /\ attempts[q] < MaxAttempts
        BY <1>5, <2>1, <2>2, <3>1 DEF Ask
      <4> QED
        BY <1>3, <1>4, <3>1, <4>1, ListFacts
    <3>2. CASE kind # "live"
      BY <1>4, <2>1, <3>2 DEF Ask
    <3> QED
      BY <3>1, <3>2
  <2>4. \A l \in Locks : Asked(l)' <=> kind = "live" /\ l = q
    BY <2>1, <2>2 DEF Asked
  <2>5. Position = at /\ Position' = at
    BY <1>1, <2>1, <2>2 DEF Position, Queries
  <2> HIDE DEF kind, q
  <2>6. TypeOK'
    BY <1>1, <1>4, <2>1, <2>2, <2>3 DEF TypeOK
  <2>7. SeedingCounted'
    <3>1. \A l \in seeding' : attempts'[l] < MaxAttempts \/ Asked(l)'
      BY <1>1, <1>4, <1>5, <2>3, <2>4
    <3>2. LockList[at'] = q
      BY <2>1 DEF q
    <3> QED
      BY <1>1, <2>2, <3>1, <3>2 DEF SeedingCounted
  <2>8. EveryLockAccounted'
    <3>1. Accounted(at, result, seeding \cup retrying)
      BY <1>1, <2>5 DEF PollInv, EveryLockAccounted
    <3> QED
      BY <1>1, <2>1, <2>2, <2>5, <3>1 DEF EveryLockAccounted, Accounted, Past
  <2>9. jwt
    BY <1>1 DEF PollInv, TokenFirst
  <2>10. TokenFirst' /\ DoorNeedsProof'
    BY <2>1, <2>2, <2>9 DEF PollInv, TokenFirst, DoorNeedsProof
  <2>11. WakesCounted'
    <3>1. \A l \in seeding' : wakes'[l] <= attempts'[l] + IF Asked(l)' THEN 0 ELSE 1
      <4> SUFFICES ASSUME NEW l \in seeding
                   PROVE  wakes[l] <= attempts'[l] + IF Asked(l)' THEN 0 ELSE 1
        BY <1>1
      <4>1. l \in Locks /\ attempts[l] \in Nat /\ wakes[l] \in Nat
            /\ wakes[l] <= attempts[l] + 1
        BY <1>4, <1>5
      <4> QED
        BY <2>3, <2>4, <4>1
    <3>2. \A l \in Locks : Past(Position, l)' <=> Past(Position, l)
      BY <2>5 DEF Past
    <3> QED
      BY <1>1, <2>2, <2>9, <3>1, <3>2 DEF PollInv, WakesCounted
  <2> QED
    BY <2>6, <2>7, <2>8, <2>10, <2>11 DEF PollInv
<1> QED
  BY <1>6, <1>7, <1>8

\* that of a seeded lock,
LEMMA LiveReturnsKeeps ==
    ASSUME TypeOK, PollInv, NEW status \in Statuses \cup {NoStatus}, LiveReturns(status)
    PROVE  TypeOK' /\ PollInv'
<1> DEFINE q == LockList[at]
           over == SeedingOver(q, status)
           seeds == IF over THEN seeding \ {q} ELSE seeding
           tried == IF over THEN [attempts EXCEPT ![q] = 0] ELSE attempts
<1>1. /\ pc = "live" /\ pc \in Queries /\ seeding' = seeds
      /\ UNCHANGED <<mqttUp, answering>>
  BY DEF LiveReturns, Queries
<1>2. q \in Locks /\ at \in 1..N
  BY <1>1, QueriedLock
<1>3. /\ seeding \in SUBSET Locks /\ attempts \in [Locks -> 0..MaxAttempts]
      /\ wakes \in [Locks -> Nat]
      /\ retrying \subseteq Locks /\ due \subseteq retrying
  BY DEF TypeOK
<1>4. \A l \in Locks : Asked(l) <=> l = q
  BY <1>1 DEF Asked
<1>5. /\ seeds \in SUBSET Locks /\ tried \in [Locks -> 0..MaxAttempts]
      /\ \A l \in Locks \ {q} : tried[l] = attempts[l]
      /\ \A l \in Locks \ {q} : l \in seeds <=> l \in seeding
      /\ q \in seeds => ~over /\ tried[q] = attempts[q]
  BY <1>2, <1>3, ListFacts
<1>6. \A l \in seeds \ {q} : tried[l] < MaxAttempts /\ wakes[l] <= tried[l] + 1
  BY <1>3, <1>4, <1>5, OtherSeeds
<1>7. q \in seeding /\ wakes[q] <= attempts[q]
  BY <1>1, <1>2, <1>3, <1>4 DEF PollInv, SeedingCounted, WakesCounted
<1>8. CASE status # NoStatus
  <2>1. /\ Reading(q, status, cacheAnswered, seeds, tried) /\ status \in Statuses
        /\ UNCHANGED <<retrying, wakes>>
    BY <1>8 DEF LiveReturns
  <2>2. over /\ q \notin seeds
    BY <1>8 DEF SeedingOver
  <2>3. (seeding \cup retrying) \ {q} \subseteq seeds \cup retrying'
    BY <1>3, <1>5, <2>1
  <2>4. \A l \in seeds : tried[l] < MaxAttempts /\ wakes[l] <= tried[l] + 1
    BY <1>6, <2>2
  <2>5. cacheAnswered \in BOOLEAN /\ retrying' \subseteq Locks /\ due \subseteq retrying'
    BY <1>3, <2>1 DEF TypeOK
  <2> HIDE DEF over, seeds, tried
  <2> QED
    BY <1>1, <1>5, <2>1, <2>3, <2>4, <2>5, ReadingKeeps
<1>9. CASE status = NoStatus
  <2>1. /\ NoReading(q, seeds, tried)
        /\ retrying' = IF over THEN retrying \cup {q} ELSE retrying
        /\ wakes' = [wakes EXCEPT ![q] = @ + 1]
    BY <1>9 DEF LiveReturns, GivenUp
  <2>2. over <=> attempts[q] >= MaxAttempts
    BY <1>9 DEF SeedingOver
  <2>3. seeding \cup retrying \subseteq seeds \cup retrying'
    BY <1>3, <2>1
  <2>4. /\ wakes' \in [Locks -> Nat] /\ wakes'[q] = wakes[q] + 1
        /\ \A l \in Locks \ {q} : wakes'[l] = wakes[l]
    BY <1>2, <1>3, <2>1
  <2>5. attempts[q] \in 0..MaxAttempts /\ wakes[q] \in Nat /\ MaxAttempts \in Nat
    BY <1>2, <1>3, ListFacts
  <2>6. wakes'[q] <= wakes[q] + 1 /\ wakes'[q] <= MaxAttempts + 1
    BY <1>7, <2>4, <2>5
  <2>7. \A l \in seeds : tried[l] < MaxAttempts /\ wakes'[l] <= tried[l] + 1
    <3> SUFFICES ASSUME NEW l \in seeds
                 PROVE  tried[l] < MaxAttempts /\ wakes'[l] <= tried[l] + 1
      OBVIOUS
    <3>1. CASE l = q
      <4>1. attempts[q] < MaxAttempts /\ tried[q] = attempts[q]
        BY <1>5, <2>2, <2>5, <3>1
      <4> QED
        BY <1>7, <2>4, <2>5, <3>1, <4>1
    <3>2. CASE l # q
      BY <1>5, <1>6, <2>4, <3>2
    <3> QED
      BY <3>1, <3>2
  <2>8. retrying' \subseteq Locks /\ due \subseteq retrying'
    BY <1>2, <1>3, <2>1
  <2> HIDE DEF over, seeds, tried
  <2> QED
    BY <1>1, <1>5, <2>1, <2>3, <2>4, <2>6, <2>7, <2>8, NoReadingKeeps
<1> QED
  BY <1>8, <1>9

\* and that of a probed one.
LEMMA ProbeReturnsKeeps ==
    ASSUME TypeOK, PollInv, NEW status \in Statuses \cup {NoStatus}, ProbeReturns(status)
    PROVE  TypeOK' /\ PollInv'
<1> DEFINE q == LockList[at]
<1>1. /\ pc = "probe" /\ pc \in Queries
      /\ UNCHANGED <<seeding, mqttUp, wakes, answering>>
  BY DEF ProbeReturns, Queries
<1>2. q \in Locks
  BY <1>1, QueriedLock
<1>3. /\ seeding \in SUBSET Locks /\ attempts \in [Locks -> 0..MaxAttempts]
      /\ wakes \in [Locks -> Nat] /\ cacheAnswered \in BOOLEAN
      /\ retrying \subseteq Locks /\ due \subseteq retrying
  BY DEF TypeOK
<1>4. \A l \in seeding : attempts[l] < MaxAttempts /\ wakes[l] <= attempts[l] + 1
  BY <1>1, <1>3, OtherSeeds DEF Asked
<1>5. CASE status # NoStatus
  <2>1. /\ Reading(q, status, cacheAnswered, seeding, attempts) /\ status \in Statuses
        /\ retrying' = retrying \ {q}
    BY <1>5 DEF ProbeReturns
  <2>2. q \notin due
    BY <1>1 DEF PollInv, SeedingCounted
  <2>3. /\ (seeding \cup retrying) \ {q} \subseteq seeding \cup retrying'
        /\ retrying' \subseteq Locks /\ due \subseteq retrying'
    BY <1>3, <2>1, <2>2
  <2> QED
    BY <1>1, <1>3, <1>4, <2>1, <2>3, ReadingKeeps
<1>6. CASE status = NoStatus
  <2>1. NoReading(q, seeding, attempts) /\ retrying' = retrying
    BY <1>6 DEF ProbeReturns
  <2>2. \A l \in Locks : wakes[l] <= MaxAttempts + 1 /\ wakes[l] <= wakes[l] + 1
    BY <1>3 DEF PollInv, WakesCounted
  <2> QED
    BY <1>1, <1>2, <1>3, <1>4, <2>1, <2>2, NoReadingKeeps
<1> QED
  BY <1>5, <1>6

-----------------------------------------------------------------------------
(* The other steps.                                                        *)

\* A writer adds to what a lock shows, and a Door entity with its proof only.
Adds ==
    /\ OthersUnchanged
    /\ data' \in [Locks -> LockData] /\ polling' \in BOOLEAN
    /\ proven \subseteq proven' /\ proven' \subseteq Locks
    /\ \A l \in Locks : /\ data[l].read => data'[l].read
                        /\ data[l].carried => data'[l].carried
                        /\ data[l].wired => data'[l].wired
                        /\ data'[l].wired => l \in proven'

\* A writer that publishes no less than there was only adds.
LEMMA PublishAdds ==
    ASSUME TypeOK, PollInv, NEW l \in Locks, NEW d \in LockData, Publish(l, d),
           OthersUnchanged, proven \subseteq proven', proven' \subseteq Locks,
           data[l].read => d.read, data[l].carried => d.carried,
           data[l].wired => d.wired, d.wired => l \in proven'
    PROVE  Adds
<1>1. data' \in [Locks -> LockData] /\ (\A k \in Locks : data'[k] \in {data[k], d})
      /\ (\A k \in Locks \ {l} : data'[k] = data[k]) /\ polling' \in BOOLEAN
  BY DEF Publish, TypeOK
<1>2. \A k \in Locks : data[k].wired => k \in proven'
  BY DEF PollInv, DoorNeedsProof
<1> QED
  BY <1>1, <1>2 DEF Adds

\* All writers other than the poll are of this kind,
LEMMA WritersAdd ==
    ASSUME TypeOK, PollInv, OtherWriters PROVE Adds
<1> SUFFICES ASSUME NEW l \in Locks,
                    \/ PushState(l) \/ PushBattery(l) \/ PushDoorClosed(l)
                    \/ CommandDone(l) \/ AccessEvent(l)
                    \/ \E status \in Statuses : StatusRead(l, status)
             PROVE  Adds
  BY DEF OtherWriters
<1> DEFINE d == data[l]
<1>1. /\ d \in LockData /\ d.read \in BOOLEAN /\ d.carried \in BOOLEAN /\ d.wired \in BOOLEAN
      /\ proven \subseteq Locks
      /\ d.wired => l \in proven
  BY DEF TypeOK, LockData, PollInv, DoorNeedsProof
<1>2. CASE PushState(l) \/ CommandDone(l)
  <2>1. Publish(l, [d EXCEPT !.read = TRUE]) /\ proven' = proven /\ OthersUnchanged
    BY <1>2 DEF PushState, CommandDone
  <2>2. [d EXCEPT !.read = TRUE] \in LockData
    BY <1>1 DEF LockData
  <2>3. /\ [d EXCEPT !.read = TRUE].read
        /\ [d EXCEPT !.read = TRUE].carried = d.carried
        /\ [d EXCEPT !.read = TRUE].wired = d.wired
    BY <1>1 DEF LockData
  <2> QED
    BY <1>1, <2>1, <2>2, <2>3, PublishAdds
<1>3. CASE PushBattery(l) \/ AccessEvent(l)
  <2>1. Publish(l, [d EXCEPT !.carried = TRUE]) /\ proven' = proven /\ OthersUnchanged
    BY <1>3 DEF PushBattery, AccessEvent
  <2>2. [d EXCEPT !.carried = TRUE] \in LockData
    BY <1>1 DEF LockData
  <2>3. /\ [d EXCEPT !.carried = TRUE].carried
        /\ [d EXCEPT !.carried = TRUE].read = d.read
        /\ [d EXCEPT !.carried = TRUE].wired = d.wired
    BY <1>1 DEF LockData
  <2> QED
    BY <1>1, <2>1, <2>2, <2>3, PublishAdds
<1>4. CASE PushDoorClosed(l)
  <2>1. Publish(l, [d EXCEPT !.wired = TRUE]) /\ proven' = proven \cup {l} /\ OthersUnchanged
    BY <1>4 DEF PushDoorClosed
  <2>2. [d EXCEPT !.wired = TRUE] \in LockData
    BY <1>1 DEF LockData
  <2>3. /\ [d EXCEPT !.wired = TRUE].wired
        /\ [d EXCEPT !.wired = TRUE].read = d.read
        /\ [d EXCEPT !.wired = TRUE].carried = d.carried
    BY <1>1 DEF LockData
  <2>4. proven \subseteq proven' /\ proven' \subseteq Locks /\ l \in proven'
    BY <1>1, <2>1
  <2> QED
    BY <1>1, <2>1, <2>2, <2>3, <2>4, PublishAdds
<1>5. ASSUME NEW status \in Statuses, StatusRead(l, status) PROVE Adds
  <2> DEFINE door == l \in Learned(l, status)
             new == [d EXCEPT !.read = TRUE, !.wired = door]
  <2>1. Publish(l, new) /\ proven' = Learned(l, status) /\ OthersUnchanged
    BY <1>5 DEF StatusRead
  <2>2. proven \subseteq proven' /\ proven' \subseteq Locks /\ (door <=> l \in proven')
    BY <1>1, <2>1 DEF Learned
  <2>3. door \in BOOLEAN
    OBVIOUS
  <2> HIDE DEF door
  <2>4. new \in LockData
    BY <1>1, <2>3 DEF LockData
  <2>5. new.read /\ new.carried = d.carried /\ new.wired = door
    BY <1>1 DEF LockData
  <2> HIDE DEF new
  <2> QED
    BY <1>1, <2>1, <2>2, <2>4, <2>5, PublishAdds
<1> QED
  BY <1>2, <1>3, <1>4, <1>5

\* and adding preserves the invariant.
LEMMA AddsKeeps ==
    ASSUME TypeOK, PollInv, Adds PROVE TypeOK' /\ PollInv'
<1> USE DEF Adds, OthersUnchanged, seedVars, pollVars
<1>1. TypeOK'
  BY DEF TypeOK
<1>2. SeedingCounted' /\ TokenFirst'
  BY DEF PollInv, SeedingCounted, TokenFirst, Asked
<1>3. Position' = Position /\ \A l \in Locks : Past(Position, l)' <=> Past(Position, l)
  BY DEF Position, Past
<1>4. EveryLockAccounted'
  BY <1>3 DEF PollInv, EveryLockAccounted, Accounted
<1>5. WakesCounted'
  BY <1>3 DEF PollInv, WakesCounted, Asked
<1>6. DoorNeedsProof'
  BY DEF PollInv, DoorNeedsProof
<1> QED
  BY <1>1, <1>2, <1>4, <1>5, <1>6 DEF PollInv

\* The token, time, the connection and the outage.
LEMMA EnvironmentKeeps ==
    ASSUME TypeOK, PollInv,
           \/ RenewLogin \/ MqttChanges \/ OutageEnds
           \/ \E l \in Locks : RetryTimeComes(l)
           \/ UNCHANGED vars
    PROVE  TypeOK' /\ PollInv'
<1>1. /\ UNCHANGED <<data, polled, polling, proven, cacheSupported, seeding, attempts,
                     retrying, pollVars, wakes>>
      /\ jwt' \in BOOLEAN /\ mqttUp' \in BOOLEAN /\ answering' \in BOOLEAN
      /\ (jwt => jwt') /\ (~polled => jwt' = jwt)
      /\ due' \subseteq retrying
      /\ \A l \in due' \ due : ~(pc = "probe" /\ LockList[at] = l)
  <2>1. ASSUME NEW l \in Locks, RetryTimeComes(l)
        PROVE  /\ UNCHANGED <<data, polled, polling, proven, cacheSupported, seeding,
                              attempts, retrying, pollVars, wakes, jwt, mqttUp, answering>>
               /\ due' \subseteq retrying
               /\ \A k \in due' \ due : ~(pc = "probe" /\ LockList[at] = k)
    BY <2>1 DEF RetryTimeComes, TypeOK
  <2>2. CASE RenewLogin \/ MqttChanges \/ OutageEnds \/ UNCHANGED vars
    BY <2>2 DEF RenewLogin, MqttChanges, OutageEnds, vars, seedVars, TypeOK
  <2> QED
    BY <2>1, <2>2 DEF TypeOK
<1> USE DEF pollVars
<1>2. TypeOK'
  BY <1>1 DEF TypeOK
<1>3. SeedingCounted'
  BY <1>1 DEF PollInv, SeedingCounted, Asked
<1>4. TokenFirst' /\ DoorNeedsProof'
  BY <1>1 DEF PollInv, TokenFirst, DoorNeedsProof
<1>5. Position' = Position /\ \A l \in Locks : Past(Position, l)' <=> Past(Position, l)
  BY <1>1 DEF Position, Past
<1>6. EveryLockAccounted'
  BY <1>1, <1>5 DEF PollInv, EveryLockAccounted, Accounted
<1>7. WakesCounted'
  BY <1>1, <1>5 DEF PollInv, WakesCounted, Asked
<1> QED
  BY <1>2, <1>3, <1>4, <1>6, <1>7 DEF PollInv

-----------------------------------------------------------------------------
(* The invariant.                                                          *)

\* Types and invariant hold initially,
LEMMA InitEstablishes == Init => TypeOK /\ PollInv
<1> SUFFICES ASSUME Init PROVE TypeOK /\ PollInv
  OBVIOUS
<1> USE DEF Init
<1>1. Blank \in LockData /\ ~Blank.wired
  BY DEF Blank, LockData
<1>2. TypeOK
  <2>1. 0 \in 0..MaxAttempts /\ 1 \in 1..N /\ 0 \in Nat
    BY ListFacts
  <2>2. data \in [Locks -> LockData] /\ result \in [Locks -> LockData]
    BY <1>1
  <2>3. attempts \in [Locks -> 0..MaxAttempts] /\ wakes \in [Locks -> Nat]
    BY <2>1
  <2> QED
    BY <2>1, <2>2, <2>3 DEF TypeOK, N
<1>3. SeedingCounted /\ TokenFirst /\ DoorNeedsProof
  BY <1>1 DEF SeedingCounted, TokenFirst, DoorNeedsProof
<1>4. EveryLockAccounted
  BY DEF EveryLockAccounted
<1>5. WakesCounted
  <2>1. \A l \in Locks : wakes[l] = 0
    OBVIOUS
  <2> QED
    BY <2>1, ListFacts DEF WakesCounted
<1> QED
  BY <1>2, <1>3, <1>4, <1>5 DEF PollInv

\* every step preserves them,
LEMMA NextKeeps == TypeOK /\ PollInv /\ [Next]_vars => TypeOK' /\ PollInv'
<1> SUFFICES ASSUME TypeOK, PollInv, [Next]_vars PROVE TypeOK' /\ PollInv'
  OBVIOUS
<1>1. CASE PollBegins
  BY <1>1, PollBeginsKeeps
<1>2. CASE Authenticated
  BY <1>2, AuthenticatedKeeps
<1>3. CASE LoginFails
  BY <1>3, LoginFailsKeeps
<1>4. CASE LoopBegins
  BY <1>4, LoopBeginsKeeps
<1>5. CASE QueryReturns
  BY <1>5, CachedReturnsKeeps, LiveReturnsKeeps, ProbeReturnsKeeps DEF QueryReturns
<1>6. CASE OtherWriters
  BY <1>6, WritersAdd, AddsKeeps
<1>7. CASE \/ RenewLogin \/ MqttChanges \/ OutageEnds
           \/ \E l \in Locks : RetryTimeComes(l)
           \/ UNCHANGED vars
  BY <1>7, EnvironmentKeeps
<1> QED
  BY <1>1, <1>2, <1>3, <1>4, <1>5, <1>6, <1>7 DEF Next, PollStep

\* so they hold throughout.
LEMMA Invariance == Spec => [](TypeOK /\ PollInv)
BY InitEstablishes, NextKeeps, PTL DEF Spec

-----------------------------------------------------------------------------
(* What a poll does to data that is there.                                 *)

\* What a poll gathers of a lock does not take from what the lock shows.
Spares(l, gathered) ==
    /\ data[l].carried => gathered.carried
    /\ data[l].wired => gathered.wired

\* An advance takes nothing from the locks that were not gathered yet,
LEMMA AdvanceSpares ==
    ASSUME TypeOK, NEW i \in 1..(N + 1), NEW res \in [Locks -> LockData],
           NEW ok \in BOOLEAN, NEW answered \in BOOLEAN,
           NEW seeds \in SUBSET Locks, NEW tried \in [Locks -> 0..MaxAttempts],
           Advance(i, res, ok, answered, seeds, tried),
           polled => ok \/ i <= N,
           \A l \in Locks : Past(i, l) /\ ~Gathered(l) => Spares(l, res[l])
    PROVE  /\ jwt /\ ~jwt' => ~polled
           /\ \A l \in Locks : ~Gathered(l) => Spares(l, data'[l])
<1>1. CASE Ends(i, res, ok, tried)
  <2>1. N + 1 \in i..(N + 1)
    BY ListFacts
  <2>2. \A l \in Locks : data'[l] = IF Past(i, l) THEN res[l] ELSE data[l]
    BY <1>1, <2>1, KeepingFacts, PastFacts DEF Ends
  <2> QED
    BY <1>1, <2>2 DEF Ends, Spares
<1>2. ASSUME NEW next \in i..N, Suspends(i, next, res, seeds, tried)
      PROVE  data' = data /\ jwt' = jwt
  BY <1>2 DEF Suspends
<1> QED
  BY <1>1, <1>2, AdvanceOutcome DEF Spares

\* A lock at a position before the one that is asked is gathered.
LEMMA GatheredIsPast ==
    ASSUME TypeOK, PollInv, pc \in Queries, NEW l \in Locks
    PROVE  /\ Gathered(l) <=> Past(at, l)
           /\ Past(at + 1, l) /\ ~Gathered(l) => l = LockList[at]
<1>1. Gathered(l) <=> Past(at, l)
  BY DEF Gathered, Past, Queries
<1> QED
  BY <1>1, QueriedLock

\* nor does a step with a status,
LEMMA ReadingSpares ==
    ASSUME TypeOK, PollInv, pc \in Queries,
           NEW status \in Statuses, NEW answered \in BOOLEAN,
           NEW seeds \in SUBSET Locks, NEW tried \in [Locks -> 0..MaxAttempts],
           Reading(LockList[at], status, answered, seeds, tried)
    PROVE  /\ jwt /\ ~jwt' => ~polled
           /\ \A l \in Locks : ~Gathered(l) => Spares(l, data'[l])
<1> DEFINE q == LockList[at]
           new == [read |-> TRUE, carried |-> data[q].carried,
                   wired |-> q \in Learned(q, status)]
           res == [result EXCEPT ![q] = new]
<1>1. q \in Locks /\ result \in [Locks -> LockData] /\ data[q] \in LockData
  BY QueriedLock DEF TypeOK
<1>2. new \in LockData /\ Spares(q, new)
  <2>1. data[q].carried \in BOOLEAN
    BY <1>1 DEF LockData
  <2>2. data[q].wired => q \in Learned(q, status)
    BY <1>1 DEF PollInv, DoorNeedsProof, Learned
  <2>3. (q \in Learned(q, status)) \in BOOLEAN
    OBVIOUS
  <2> QED
    BY <2>1, <2>2, <2>3 DEF LockData, Spares
<1> HIDE DEF new
<1>3. res \in [Locks -> LockData] /\ res[q] = new
  BY <1>1, <1>2
<1>4. Advance(at + 1, res, TRUE, answered, seeds, tried)
  BY DEF Reading, new
<1> HIDE DEF res
<1>5. \A l \in Locks : Past(at + 1, l) /\ ~Gathered(l) => Spares(l, res[l])
  BY <1>2, <1>3, GatheredIsPast
<1> HIDE DEF q
<1> QED
  BY <1>3, <1>4, <1>5, AdvanceSpares, QueriedLock

\* nor one without,
LEMMA NoReadingSpares ==
    ASSUME TypeOK, PollInv, pc \in Queries,
           NEW seeds \in SUBSET Locks, NEW tried \in [Locks -> 0..MaxAttempts],
           NoReading(LockList[at], seeds, tried)
    PROVE  /\ jwt /\ ~jwt' => ~polled
           /\ \A l \in Locks : ~Gathered(l) => Spares(l, data'[l])
<1> DEFINE q == LockList[at]
           res == [result EXCEPT ![q] = data[q]]
           ok == anyOk \/ polled
<1>1. /\ q \in Locks /\ result \in [Locks -> LockData] /\ data[q] \in LockData
      /\ ok \in BOOLEAN /\ cacheAnswered \in BOOLEAN /\ (polled => ok)
  BY QueriedLock DEF TypeOK
<1>2. res \in [Locks -> LockData] /\ res[q] = data[q]
  BY <1>1
<1>3. Advance(at + 1, res, ok, cacheAnswered, seeds, tried)
  BY DEF NoReading
<1> HIDE DEF res, ok
<1>4. \A l \in Locks : Past(at + 1, l) /\ ~Gathered(l) => Spares(l, res[l])
  BY <1>2, GatheredIsPast DEF Spares
<1> HIDE DEF q
<1> QED
  BY <1>1, <1>2, <1>3, <1>4, AdvanceSpares, QueriedLock

\* so no answer to a query does,
LEMMA QueryReturnsSpares ==
    ASSUME TypeOK, PollInv, QueryReturns
    PROVE  /\ jwt /\ ~jwt' => ~polled
           /\ \A l \in Locks : ~Gathered(l) => Spares(l, data'[l])
<1> SUFFICES ASSUME NEW status \in Statuses \cup {NoStatus},
                    CachedReturns(status) \/ LiveReturns(status) \/ ProbeReturns(status)
             PROVE  /\ jwt /\ ~jwt' => ~polled
                    /\ \A l \in Locks : ~Gathered(l) => Spares(l, data'[l])
  BY DEF QueryReturns
<1> DEFINE q == LockList[at]
           kind == WithoutCache(q, seeding)
           over == SeedingOver(q, status)
           seeds == IF over THEN seeding \ {q} ELSE seeding
           tried == IF over THEN [attempts EXCEPT ![q] = 0] ELSE attempts
<1>1. pc \in Queries /\ q \in Locks
  BY QueriedLock DEF CachedReturns, LiveReturns, ProbeReturns, Queries
<1>2. /\ seeding \in SUBSET Locks /\ attempts \in [Locks -> 0..MaxAttempts]
      /\ cacheAnswered \in BOOLEAN
  BY DEF TypeOK
<1>3. seeds \in SUBSET Locks /\ tried \in [Locks -> 0..MaxAttempts]
  BY <1>1, <1>2, ListFacts
<1>4. CASE \/ Reading(q, status, TRUE, seeding, attempts) /\ status \in Statuses
           \/ Reading(q, status, cacheAnswered, seeding, attempts) /\ status \in Statuses
  BY <1>1, <1>2, <1>4, ReadingSpares
<1>5. CASE Reading(q, status, cacheAnswered, seeds, tried) /\ status \in Statuses
  <2> HIDE DEF seeds, tried
  <2> QED
    BY <1>1, <1>2, <1>3, <1>5, ReadingSpares
<1>6. CASE NoReading(q, seeding, attempts)
  BY <1>1, <1>2, <1>6, NoReadingSpares
<1>7. CASE NoReading(q, seeds, tried)
  <2> HIDE DEF seeds, tried
  <2> QED
    BY <1>1, <1>3, <1>7, NoReadingSpares
<1>8. CASE Ask(q, kind, attempts)
  <2>1. data' = data /\ jwt' = jwt
    BY <1>8 DEF Ask
  <2> QED
    BY <2>1 DEF Spares
<1>9. CASE CachedReturns(status)
  <2>1. CASE status # NoStatus
    BY <1>4, <1>9, <2>1 DEF CachedReturns
  <2>2. CASE status = NoStatus
    BY <1>6, <1>8, <1>9, <2>2 DEF CachedReturns
  <2> QED
    BY <2>1, <2>2
<1>10. CASE LiveReturns(status)
  BY <1>5, <1>7, <1>10 DEF LiveReturns
<1>11. CASE ProbeReturns(status)
  BY <1>4, <1>6, <1>11 DEF ProbeReturns
<1> QED
  BY <1>9, <1>10, <1>11

\* and no step at all.
LEMMA NextSpares ==
    ASSUME TypeOK, PollInv, [Next]_vars
    PROVE  /\ jwt /\ ~jwt' => ~polled
           /\ \A l \in Locks : ~Gathered(l) => Spares(l, data'[l])
<1>1. CASE LoopBegins
  <2>1. Advance(1, result, FALSE, FALSE, seeding, attempts)
    BY <1>1 DEF LoopBegins
  <2>2. /\ result \in [Locks -> LockData] /\ seeding \in SUBSET Locks
        /\ attempts \in [Locks -> 0..MaxAttempts]
    BY DEF TypeOK
  <2>3. 1 \in 1..(N + 1) /\ 1 <= N /\ FALSE \in BOOLEAN
    BY ListFacts
  <2>4. \A l \in Locks : ~Past(1, l)
    BY PastFacts
  <2> QED
    BY <2>1, <2>2, <2>3, <2>4, AdvanceSpares
<1>2. CASE QueryReturns
  BY <1>2, QueryReturnsSpares
<1>3. CASE OtherWriters
  BY <1>3, WritersAdd DEF Adds, OthersUnchanged, Spares
<1>4. CASE \/ PollBegins \/ Authenticated \/ LoginFails
           \/ RenewLogin \/ MqttChanges \/ OutageEnds
           \/ \E l \in Locks : RetryTimeComes(l)
           \/ UNCHANGED vars
  <2>1. CASE PollBegins \/ Authenticated \/ LoginFails
    <3>1. data' = data /\ (jwt' = jwt \/ jwt' = TRUE)
      BY <2>1 DEF PollBegins, Authenticated, LoginFails
    <3> QED
      BY <3>1 DEF Spares
  <2>2. CASE RenewLogin \/ MqttChanges \/ OutageEnds
    BY <2>2 DEF RenewLogin, MqttChanges, OutageEnds, Spares
  <2>3. CASE (\E l \in Locks : RetryTimeComes(l)) \/ UNCHANGED vars
    BY <2>3 DEF RetryTimeComes, vars, Spares
  <2> QED
    BY <1>4, <2>1, <2>2, <2>3
<1> QED
  BY <1>1, <1>2, <1>3, <1>4 DEF Next, PollStep

-----------------------------------------------------------------------------
(* What a failed login can end.                                            *)

\* The first poll asks each lock itself at most once.
FirstPollTries ==
    ~polled => \A l \in Locks :
        attempts[l] <= IF Past(Position, l) \/ Asked(l) THEN 1 ELSE 0

\* While a lock is left to the probe the polls go on, and no login is due.
ProbesGoOn ==
    /\ pc # "idle" => polling
    /\ retrying # {} => polling /\ jwt /\ polled /\ pc # "login"
    /\ FirstPollTries

\* An advance leaves it so,
LEMMA AdvanceGoesOn ==
    ASSUME TypeOK, NEW i \in 1..(N + 1), NEW res \in [Locks -> LockData],
           NEW ok \in BOOLEAN, NEW answered \in BOOLEAN,
           NEW seeds \in SUBSET Locks, NEW tried \in [Locks -> 0..MaxAttempts],
           Advance(i, res, ok, answered, seeds, tried),
           polling, jwt, polled => ok \/ i <= N,
           retrying' # {} => polled,
           ~polled => \A l \in Locks : tried[l] <= IF Past(i, l) THEN 1 ELSE 0
    PROVE  ProbesGoOn'
<1> USE ListFacts
<1>1. FlagTypes
  BY AdvanceOutcome
<1>2. CASE Ends(i, res, ok, tried)
  BY <1>1, <1>2 DEF Ends, FlagTypes, ProbesGoOn, FirstPollTries
<1>3. ASSUME NEW next \in i..N, Suspends(i, next, res, seeds, tried) PROVE ProbesGoOn'
  <2> USE DEF Suspends
  <2>1. next \in 1..N /\ i <= next /\ next \in 1..(N + 1) /\ LockList[next] \in Locks
    OBVIOUS
  <2>2. \A l \in Locks : /\ Past(Position, l)' <=> Past(next, l)
                         /\ Asked(l)' <=> pc' = "live" /\ l = LockList[next]
                         /\ Past(i, l) => Past(next, l)
    BY <1>3, <2>1, PastFacts DEF Past, Position, Asked
  <2>3. ~Past(next, LockList[next])
    BY <2>1, PastFacts
  <2>4. ASSUME ~polled, NEW l \in Locks
        PROVE  attempts'[l] <= IF Past(next, l) \/ Asked(l)' THEN 1 ELSE 0
    <3>1. tried[l] \in Nat /\ tried[l] <= IF Past(i, l) THEN 1 ELSE 0
      BY <2>4
    <3>2. CASE pc' = "live" /\ l = LockList[next]
      BY <1>3, <2>1, <2>2, <2>3, <3>1, <3>2
    <3>3. CASE ~(pc' = "live" /\ l = LockList[next])
      <4>1. attempts'[l] = tried[l]
        BY <1>3, <2>1, <3>3
      <4> QED
        BY <2>2, <3>1, <4>1
    <3> QED
      BY <3>2, <3>3
  <2>5. FirstPollTries'
    BY <1>3, <2>2, <2>4 DEF FirstPollTries
  <2> QED
    BY <1>1, <1>3, <2>5 DEF FlagTypes, ProbesGoOn, Queries
<1> QED
  BY <1>2, <1>3, AdvanceOutcome

\* and so does the answer of a query: the first poll gives no lock up.
LEMMA QueryGoesOn ==
    ASSUME MaxAttempts > 1, TypeOK, PollInv, ProbesGoOn, QueryReturns
    PROVE  ProbesGoOn'
<1> PICK status \in Statuses \cup {NoStatus} :
           CachedReturns(status) \/ LiveReturns(status) \/ ProbeReturns(status)
  BY DEF QueryReturns
<1> DEFINE q == LockList[at]
<1>1. pc \in Queries /\ pc # "idle" /\ polling
  BY DEF CachedReturns, LiveReturns, ProbeReturns, Queries, ProbesGoOn
<1>2. /\ at + 1 \in 1..(N + 1) /\ q \in Locks /\ jwt /\ Position = at /\ ~Past(at, q)
      /\ \A l \in Locks : Past(at + 1, l) <=> Past(at, l) \/ l = q
  BY <1>1, QueriedLock
<1>3. /\ result \in [Locks -> LockData] /\ data[q] \in LockData
      /\ anyOk \in BOOLEAN /\ polled \in BOOLEAN /\ cacheAnswered \in BOOLEAN
      /\ seeding \in SUBSET Locks /\ attempts \in [Locks -> 0..MaxAttempts]
  BY <1>2 DEF TypeOK
<1>4. ~polled => \A l \in Locks : attempts[l] <= IF Past(at + 1, l) THEN 1 ELSE 0
  <2> SUFFICES ASSUME ~polled, NEW l \in Locks
               PROVE  attempts[l] <= IF Past(at + 1, l) THEN 1 ELSE 0
    OBVIOUS
  <2>1. attempts[l] \in Nat /\ attempts[l] <= IF Past(at, l) \/ Asked(l) THEN 1 ELSE 0
    BY <1>2, <1>3 DEF ProbesGoOn, FirstPollTries
  <2>2. Asked(l) => l = q
    BY DEF Asked
  <2> QED
    BY <1>2, <2>1, <2>2
<1>5. ASSUME NEW seeds \in SUBSET Locks, NEW tried \in [Locks -> 0..MaxAttempts],
             NEW answered \in BOOLEAN,
             \A l \in Locks : tried[l] <= attempts[l],
             retrying' # {} => polled,
             NoReading(q, seeds, tried) \/ Reading(q, status, answered, seeds, tried)
      PROVE  ProbesGoOn'
  <2>1. ~polled => \A l \in Locks : tried[l] <= IF Past(at + 1, l) THEN 1 ELSE 0
    <3> SUFFICES ASSUME ~polled, NEW l \in Locks
                 PROVE  tried[l] <= IF Past(at + 1, l) THEN 1 ELSE 0
      OBVIOUS
    <3>1. /\ attempts[l] \in Nat /\ tried[l] \in Nat /\ tried[l] <= attempts[l]
          /\ attempts[l] <= IF Past(at + 1, l) THEN 1 ELSE 0
      BY <1>3, <1>4, <1>5
    <3> QED
      BY <3>1
  <2>2. CASE NoReading(q, seeds, tried)
    <3> DEFINE res == [result EXCEPT ![q] = data[q]]
    <3>1. Advance(at + 1, res, anyOk \/ polled, cacheAnswered, seeds, tried)
      BY <2>2 DEF NoReading
    <3>2. res \in [Locks -> LockData] /\ (anyOk \/ polled) \in BOOLEAN
      BY <1>2, <1>3
    <3> HIDE DEF res, q
    <3> QED
      BY <1>1, <1>2, <1>3, <1>5, <2>1, <3>1, <3>2, AdvanceGoesOn
  <2>3. CASE Reading(q, status, answered, seeds, tried)
    <3> DEFINE new == [read |-> TRUE, carried |-> data[q].carried,
                       wired |-> q \in Learned(q, status)]
               res == [result EXCEPT ![q] = new]
    <3>1. Advance(at + 1, res, TRUE, answered, seeds, tried)
      BY <2>3 DEF Reading
    <3>2. new \in LockData
      BY <1>3 DEF LockData
    <3>3. res \in [Locks -> LockData]
      BY <1>2, <1>3, <3>2
    <3> HIDE DEF new, res, q
    <3> QED
      BY <1>1, <1>2, <1>3, <1>5, <2>1, <3>1, <3>3, AdvanceGoesOn
  <2> QED
    BY <1>5, <2>2, <2>3
<1>6. \A l \in Locks : attempts[l] <= attempts[l]
  BY <1>3
<1>7. retrying # {} => polled
  BY DEF ProbesGoOn
<1>8. CASE CachedReturns(status)
  <2>1. retrying' = retrying
    BY <1>8 DEF CachedReturns
  <2>2. CASE \/ NoReading(q, seeding, attempts)
             \/ Reading(q, status, TRUE, seeding, attempts)
    <3> HIDE DEF q
    <3> QED
      BY <1>3, <1>5, <1>6, <1>7, <2>1, <2>2
  <2>3. CASE \E kind \in {"live", "probe"} :
               Ask(q, kind, attempts) /\ at' = at /\ pc = "cached"
    <3> PICK kind \in {"live", "probe"} :
               Ask(q, kind, attempts) /\ at' = at /\ pc = "cached"
      BY <2>3
    <3>1. /\ pc' = kind /\ UNCHANGED <<polled, polling, jwt>>
          /\ \A l \in Locks : attempts'[l] = IF kind = "live" /\ l = q THEN attempts[l] + 1
                                             ELSE attempts[l]
      BY <1>2, <1>3 DEF Ask
    <3>2. \A l \in Locks : /\ Past(Position, l)' <=> Past(at, l)
                           /\ Asked(l)' <=> kind = "live" /\ l = q
                           /\ ~Asked(l)
      BY <3>1 DEF Past, Position, Queries, Asked
    <3>3. ASSUME ~polled, NEW l \in Locks
          PROVE  attempts'[l] <= IF Past(at, l) \/ Asked(l)' THEN 1 ELSE 0
      <4>1. attempts[l] \in Nat /\ attempts[l] <= IF Past(at, l) THEN 1 ELSE 0
        BY <1>2, <1>3, <3>2, <3>3 DEF ProbesGoOn, FirstPollTries
      <4> HIDE DEF q
      <4> QED
        BY <1>2, <3>1, <3>2, <4>1
    <3>4. FirstPollTries'
      BY <3>1, <3>2, <3>3 DEF FirstPollTries
    <3> QED
      BY <1>1, <2>1, <3>1, <3>4 DEF ProbesGoOn
  <2> QED
    BY <1>8, <2>2, <2>3 DEF CachedReturns, WithoutCache
<1>9. CASE LiveReturns(status)
  <2> DEFINE over == SeedingOver(q, status)
             seeds == IF over THEN seeding \ {q} ELSE seeding
             tried == IF over THEN [attempts EXCEPT ![q] = 0] ELSE attempts
  <2>1. /\ seeds \in SUBSET Locks /\ tried \in [Locks -> 0..MaxAttempts]
        /\ \A l \in Locks : tried[l] <= attempts[l]
    <3>1. 0 \in 0..MaxAttempts /\ \A l \in Locks : attempts[l] \in Nat /\ 0 <= attempts[l]
      BY <1>3, ListFacts
    <3> QED
      BY <1>2, <1>3, <3>1
  <2>2. retrying' # {} => polled
    <3> SUFFICES ASSUME ~polled PROVE retrying' = retrying
      BY <1>7
    <3>1. attempts[q] \in Nat /\ attempts[q] <= 1 /\ MaxAttempts \in Nat
      BY <1>2, <1>3, <1>4, ListFacts
    <3>2. status = NoStatus => ~over
      BY <3>1 DEF SeedingOver
    <3> QED
      BY <1>9, <3>2 DEF LiveReturns, GivenUp
  <2>3. \/ NoReading(q, seeds, tried)
        \/ Reading(q, status, cacheAnswered, seeds, tried)
    BY <1>9 DEF LiveReturns
  <2> HIDE DEF q, seeds, tried
  <2> QED
    BY <1>3, <1>5, <2>1, <2>2, <2>3
<1>10. CASE ProbeReturns(status)
  <2>1. retrying' \subseteq retrying
    BY <1>10 DEF ProbeReturns
  <2>2. \/ NoReading(q, seeding, attempts)
        \/ Reading(q, status, cacheAnswered, seeding, attempts)
    BY <1>10 DEF ProbeReturns
  <2> HIDE DEF q
  <2> QED
    BY <1>3, <1>5, <1>6, <1>7, <2>1, <2>2
<1> QED
  BY <1>8, <1>9, <1>10

\* Every other step too: a login fails only while no lock is left to the probe.
LEMMA NextGoesOn ==
    ASSUME MaxAttempts > 1, TypeOK, PollInv, ProbesGoOn, [Next]_vars
    PROVE  ProbesGoOn'
<1>1. CASE LoopBegins
  <2>1. /\ pc = "begin" /\ polling /\ jwt /\ Position = 1
        /\ \A l \in Locks : ~Asked(l) /\ ~Past(1, l)
    BY <1>1, PastFacts
    DEF LoopBegins, PollInv, TokenFirst, ProbesGoOn, Position, Queries, Asked
  <2>2. /\ Advance(1, result, FALSE, FALSE, seeding, attempts) /\ retrying' = retrying
        /\ result \in [Locks -> LockData] /\ seeding \in SUBSET Locks
        /\ attempts \in [Locks -> 0..MaxAttempts]
    BY <1>1 DEF LoopBegins, TypeOK
  <2>3. 1 \in 1..(N + 1) /\ 1 <= N /\ FALSE \in BOOLEAN
    BY ListFacts
  <2>4. /\ retrying' # {} => polled
        /\ ~polled => \A l \in Locks : attempts[l] <= IF Past(1, l) THEN 1 ELSE 0
    BY <2>1, <2>2 DEF ProbesGoOn, FirstPollTries
  <2> QED
    BY <2>1, <2>2, <2>3, <2>4, AdvanceGoesOn
<1>2. CASE QueryReturns
  BY <1>2, QueryGoesOn
<1>3. CASE PollBegins \/ LoginFails
  <2>1. Position = 1 /\ Position' = 1 /\ UNCHANGED <<polled, jwt, retrying, attempts>>
    BY <1>3 DEF PollBegins, LoginFails, seedVars, Position, Queries
  <2>2. FirstPollTries'
    BY <1>3, <2>1
    DEF ProbesGoOn, FirstPollTries, Past, Asked, PollBegins, LoginFails
  <2> QED
    BY <1>3, <2>1, <2>2 DEF ProbesGoOn, PollBegins, LoginFails
<1>4. CASE Authenticated
  BY <1>4, ListFacts DEF Authenticated, ProbesGoOn, FirstPollTries
<1>5. CASE OtherWriters
  <2>1. /\ UNCHANGED <<polled, jwt, retrying, attempts, pc, at>>
        /\ polling => polling'
    BY <1>5 DEF OtherWriters, PushState, PushBattery, PushDoorClosed, CommandDone,
                AccessEvent, StatusRead, Publish, OthersUnchanged, seedVars, pollVars
  <2> QED
    BY <2>1 DEF ProbesGoOn, FirstPollTries, Past, Position, Asked
<1>6. CASE \/ RenewLogin \/ MqttChanges \/ OutageEnds
           \/ \E l \in Locks : RetryTimeComes(l)
           \/ UNCHANGED vars
  <2>1. UNCHANGED <<polled, polling, retrying, attempts, pc, at>> /\ (jwt => jwt')
    BY <1>6 DEF RenewLogin, MqttChanges, OutageEnds, RetryTimeComes, vars, seedVars, pollVars
  <2> QED
    BY <2>1 DEF ProbesGoOn, FirstPollTries, Past, Position, Asked
<1> QED
  BY <1>1, <1>2, <1>3, <1>4, <1>5, <1>6 DEF Next, PollStep

-----------------------------------------------------------------------------
(* The theorems.                                                           *)

\* What every variable of the poll and of its retries may hold, for any list of
\* locks.
THEOREM TypesHold == Spec => []TypeOK
BY Invariance, PTL

\* NeverAbandoned: whatever fails, a lock without a reading stays seeded or
\* probed (_async_update_data's live queries and their rearming).
THEOREM NoneAbandoned == Spec => []NeverAbandoned
<1>1. TypeOK /\ PollInv => NeverAbandoned
  <2> SUFFICES ASSUME TypeOK, PollInv, polled, NEW l \in Locks,
                      l \notin seeding \cup retrying
               PROVE  data[l].read \/ (Gathered(l) /\ result[l].read)
    BY DEF NeverAbandoned
  <2>1. IF Past(Position, l) THEN result[l].read ELSE data[l].read
    BY DEF PollInv, EveryLockAccounted, Accounted
  <2>2. Past(Position, l) => Gathered(l)
    <3>1. CASE pc \in Queries
      BY <3>1, GatheredIsPast DEF Position
    <3>2. CASE pc \notin Queries
      BY <3>2, PastFacts DEF Position
    <3> QED
      BY <3>1, <3>2
  <2> QED
    BY <2>1, <2>2
<1> QED
  BY <1>1, Invariance, PTL

\* SeedingWakesBounded: the seeding of a sleeping lock ends
\* (LIVE_INIT_MAX_ATTEMPTS).
THEOREM WakesBounded == Spec => []SeedingWakesBounded
<1>1. PollInv => SeedingWakesBounded
  BY DEF PollInv, WakesCounted, SeedingWakesBounded
<1> QED
  BY <1>1, Invariance, PTL

\* DoorNeedsProof: no Door entity without a closed door (_learn_from_status).
THEOREM DoorsProven == Spec => []DoorNeedsProof
<1>1. PollInv => DoorNeedsProof
  BY DEF PollInv
<1> QED
  BY <1>1, Invariance, PTL

\* TokenDroppedByFirstPollOnly: after a first poll no poll drops the token.
THEOREM LaterPollsKeepToken == Spec => TokenDroppedByFirstPollOnly
<1>1. TypeOK /\ PollInv /\ [Next]_vars => [jwt /\ ~jwt' => ~polled]_vars
  BY NextSpares
<1> QED
  BY <1>1, Invariance, PTL DEF Spec, TokenDroppedByFirstPollOnly

\* OnlyLateUpdatesLost: a poll takes nothing from a lock that came before the
\* poll gathered it (_CARRIED_FIELDS).
THEOREM EarlierUpdatesKept == Spec => OnlyLateUpdatesLost
<1>1. TypeOK /\ PollInv /\ [Next]_vars
      => [\A l \in Locks : ~Gathered(l) =>
             /\ data[l].carried => data'[l].carried
             /\ data[l].wired => data'[l].wired]_vars
  BY NextSpares DEF Spares
<1> QED
  BY <1>1, Invariance, PTL DEF Spec, OnlyLateUpdatesLost

\* Once a lock has been given up on, no failed login ends the polls any more, so
\* its probes come, for any locks and any limit above one (the limit is three;
\* with one the first poll gives locks up, and may be followed by a login).
THEOREM GivenUpKeepsPolling == MaxAttempts > 1 => (Spec => [](retrying # {} => polling))
<1> SUFFICES ASSUME MaxAttempts > 1 PROVE Spec => [](retrying # {} => polling)
  OBVIOUS
<1>1. Init => ProbesGoOn
  BY ListFacts DEF Init, ProbesGoOn, FirstPollTries
<1>2. TypeOK /\ PollInv /\ ProbesGoOn /\ [Next]_vars => ProbesGoOn'
  BY NextGoesOn
<1>3. ProbesGoOn => (retrying # {} => polling)
  BY DEF ProbesGoOn
<1> QED
  BY <1>1, <1>2, <1>3, Invariance, PTL DEF Spec
=============================================================================
