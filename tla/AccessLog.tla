------------------------------ MODULE AccessLog ------------------------------
(***************************************************************************)
(* The access log of LocklyCoordinator (__init__.py): _async_poll_history, *)
(* which reads the cloud's copy of every lock's log from a cursor on, and  *)
(* _poll_lock_log, which reads the log of the lock itself: once a session  *)
(* where the cloud's is barren, and whenever read_access_log is called.    *)
(*                                                                         *)
(* A poll may outlast the five minutes to the next one (getlkhist has no   *)
(* timeout but aiohttp's 300 s, a lock's own log takes up to nine requests *)
(* of 30 s), so polls overlap with each other and with forced reads.       *)
(***************************************************************************)
EXTENDS Naturals, Sequences, FiniteSets, FiniteSetsExt

CONSTANTS
    LockList,       \* the account's locks, in the order of the device list
    Uploading,      \* the locks whose accesses reach the cloud log; the log of
                    \* the others there is barren
    Polls,          \* runs of _async_poll_history that may overlap
    Readers,        \* runs of the service read_access_log that may overlap
    OldAccesses,    \* accesses 1..OldAccesses are past HISTORY_LOOKBACK_DAYS
    MaxAccesses,    \* bound on the accesses of each lock
    Anonymous       \* accesses that carry no credential

Locks == {LockList[i] : i \in DOMAIN LockList}
Tasks == Polls \cup Readers

\* An access is its time, which is also the id of its record.
Accesses == 1..MaxAccesses

\* No access yet, and no answer yet.
Never == 0
Pending == Accesses \cup {Never}

ASSUME AccessLogAssumption ==
    /\ LockList \in Seq(Locks)
    /\ LockList # <<>>
    /\ Cardinality(Locks) = Len(LockList)
    /\ Uploading \subseteq Locks
    /\ Polls \cap Readers = {}
    /\ OldAccesses \in Nat
    /\ MaxAccesses \in Nat
    /\ OldAccesses <= MaxAccesses
    /\ Anonymous \subseteq Accesses

VARIABLES
    accesses,       \* accesses[l]: how often lock l has been used
    cursors,        \* _history_cursors, 0 before the first sync
    exhausted,      \* _cloud_history_exhausted
    logRead,        \* _lock_log_read
    prefersPaged,   \* _prefer_paged_log
    seen,           \* _seen_log_ids
    lastAccess,     \* data[l]["last_access_event"]
    pc,             \* what each run awaits
    at,             \* the position in LockList it has reached
    since,          \* its local since_ms
    answer,         \* the records on their way to it
    cloudFired,     \* history: what the bus was told from the cloud log
    ownFired,       \* history: how often, from the lock's own log
    startupReads,   \* history: unforced reads of a lock's own log
    answering       \* from here on login, cloud and hubs answer

sharedVars == <<cursors, exhausted, logRead, prefersPaged, seen, lastAccess>>
taskVars == <<pc, at, since, answer>>
historyVars == <<cloudFired, ownFired, startupReads>>
vars == <<accesses, sharedVars, taskVars, historyVars, answering>>

TypeOK ==
    /\ accesses \in [Locks -> OldAccesses..MaxAccesses]
    /\ cursors \in [Locks -> 0..MaxAccesses]
    /\ exhausted \subseteq Locks
    /\ logRead \subseteq Locks
    /\ prefersPaged \subseteq Locks
    /\ seen \in [Locks -> SUBSET Accesses]
    /\ lastAccess \in [Locks -> Accesses \cup {Never}]
    /\ pc \in [Tasks -> {"idle", "cloud", "bulk", "paged"}]
    /\ at \in [Tasks -> 1..Len(LockList)]
    /\ since \in [Tasks -> 0..MaxAccesses]
    /\ answer \in [Tasks -> (SUBSET Accesses) \cup {Pending}]
    /\ cloudFired \in [Locks -> SUBSET Accesses]
    /\ ownFired \in [Locks -> [Accesses -> Nat]]
    /\ startupReads \in [Locks -> Nat]
    /\ answering \in BOOLEAN

Init ==
    /\ accesses = [l \in Locks |-> OldAccesses]
    /\ cursors = [l \in Locks |-> 0]
    /\ exhausted = {}
    /\ logRead = {}
    /\ prefersPaged = {}
    /\ seen = [l \in Locks |-> {}]
    /\ lastAccess = [l \in Locks |-> Never]
    /\ pc = [t \in Tasks |-> "idle"]
    /\ at = [t \in Tasks |-> 1]
    /\ since = [t \in Tasks |-> 0]
    /\ answer = [t \in Tasks |-> Pending]
    /\ cloudFired = [l \in Locks |-> {}]
    /\ ownFired = [l \in Locks |-> [e \in Accesses |-> 0]]
    /\ startupReads = [l \in Locks |-> 0]
    /\ answering = FALSE

\* _is_recent_event.
Recent(records) == {r \in records : r > OldAccesses}

-----------------------------------------------------------------------------
(* A run between two awaits.                                               *)

\* Run t suspends in a request about the lock at position i.
Awaits(t, where, i, cursor) ==
    /\ pc' = [pc EXCEPT ![t] = where]
    /\ at' = [at EXCEPT ![t] = i]
    /\ since' = [since EXCEPT ![t] = cursor]
    /\ answer' = [answer EXCEPT ![t] = Pending]

Ends(t) == Awaits(t, "idle", 1, 0)

\* _poll_lock_log begins: in bulk, unless that is known to fail on this lock.
PollLockLog(t, i) ==
    Awaits(t, IF LockList[i] \in prefersPaged THEN "paged" ELSE "bulk", i, 0)

\* Mutant of Marked: the lock is not marked before its log is read.
MarkedLater(l) == logRead

\* The lock is marked before its log is read, so that the set is up to date
\* while the read is awaited.
Marked(l) == logRead \cup {l}

\* _maybe_read_lock_log, unforced, for a lock that is not marked.
StartupRead(t, i) ==
    /\ logRead' = Marked(LockList[i])
    /\ startupReads' = [startupReads EXCEPT ![LockList[i]] = @ + 1]
    /\ PollLockLog(t, i)

\* Mutant of Skipped: a forced read counts as giving the cloud log up.
SkippedOnceRead(l) == l \in logRead

\* What a poll passes without a request.
Skipped(l) == l \in exhausted /\ l \in logRead

\* Poll t goes on at position i: past the locks whose cloud log is exhausted and
\* whose own log has been read, to the next that awaits something.
Advance(t, i) ==
    LET waiting == {j \in i..Len(LockList) : ~Skipped(LockList[j])}
        next == Min(waiting)
    IN IF waiting = {} \/ LockList[next] \notin exhausted
       THEN /\ IF waiting = {} THEN Ends(t)
               ELSE Awaits(t, "cloud", next, cursors[LockList[next]])
            /\ UNCHANGED <<logRead, startupReads>>
       ELSE StartupRead(t, next)

\* Where _poll_lock_log returns to: the loop of the poll, or the service.
Resume(t) ==
    IF t \in Polls
    THEN Advance(t, at[t] + 1)
    ELSE Ends(t) /\ UNCHANGED <<logRead, startupReads>>

-----------------------------------------------------------------------------
(* The cloud log.                                                          *)

\* Without a token, a key or locks a poll returns at once and changes nothing.
PollBegins(t) ==
    /\ pc[t] = "idle"
    /\ Advance(t, 1)
    /\ UNCHANGED <<accesses, cursors, exhausted, prefersPaged, seen, lastAccess,
                   cloudFired, ownFired, answering>>

\* Mutants of LastSync: the sync point is past the last record, and the time
\* of the answer's arrival is.
LastSyncPast(t) == IF answer[t] = {} THEN since[t] ELSE Max(answer[t]) + 1
LastSyncNow(t) == accesses[LockList[at[t]]]

\* LAST_EVENT_SYNC_TIME, or since_ms where there is none.
LastSync(t) == IF answer[t] = {} THEN since[t] ELSE Max(answer[t])

\* What is worth a bus event and the Last Access sensor.
Surfaced(records) == Recent(records)

\* The cursor moves on, recent records are announced, and a page that moved
\* nothing and held nothing recent is the last that is asked for.
HistoryReturns(t) ==
    LET l == LockList[at[t]]
        recent == Recent(answer[t])
        barren == LastSync(t) <= since[t] /\ recent = {}
    IN /\ pc[t] = "cloud"
       /\ answer[t] # Pending
       /\ cursors' = IF LastSync(t) > since[t]
                     THEN [cursors EXCEPT ![l] = LastSync(t)] ELSE cursors
       /\ cloudFired' = [cloudFired EXCEPT ![l] = @ \cup recent]
       /\ lastAccess' = IF Surfaced(answer[t]) # {}
                        THEN [lastAccess EXCEPT ![l] = Max(Surfaced(answer[t]))]
                        ELSE lastAccess
       /\ exhausted' = IF barren THEN exhausted \cup {l} ELSE exhausted
       /\ IF barren /\ l \notin logRead
          THEN StartupRead(t, at[t])
          ELSE Advance(t, at[t] + 1)
       /\ UNCHANGED <<accesses, prefersPaged, seen, ownFired, answering>>

HistoryFails(t) ==
    /\ pc[t] = "cloud"
    /\ ~answering
    /\ Advance(t, at[t] + 1)
    /\ UNCHANGED <<accesses, cursors, exhausted, prefersPaged, seen, lastAccess,
                   cloudFired, ownFired, answering>>

-----------------------------------------------------------------------------
(* The lock's own log.                                                     *)

\* handle_read_access_log: marked, and read however often it was before.
ReaderBegins(t, i) ==
    /\ pc[t] = "idle"
    /\ logRead' = logRead \cup {LockList[i]}
    /\ PollLockLog(t, i)
    /\ UNCHANGED <<accesses, cursors, exhausted, prefersPaged, seen, lastAccess,
                   historyVars, answering>>

\* Mutant of Unseen: what is not newer than the access shown counts as seen.
UnseenByTime(l, recent) == {r \in recent : r > lastAccess[l]}

\* The records that no read of l has announced.
Unseen(l, recent) == recent \ seen[l]

\* The record shown: the latest that names a credential, else the latest.
Attributed(recent) ==
    IF recent \subseteq Anonymous THEN Max(recent) ELSE Max(recent \ Anonymous)

\* Records arrive. That a paged read had any settles how the lock is read.
LockLogReturns(t) ==
    LET l == LockList[at[t]]
        recent == Recent(answer[t])
    IN /\ pc[t] \in {"bulk", "paged"}
       /\ answer[t] # Pending
       /\ prefersPaged' = IF pc[t] = "paged" /\ answer[t] # {}
                          THEN prefersPaged \cup {l} ELSE prefersPaged
       /\ seen' = [seen EXCEPT ![l] = @ \cup recent]
       /\ ownFired' = [ownFired EXCEPT ![l] =
                          [e \in Accesses |-> @[e] + IF e \in Unseen(l, recent) THEN 1 ELSE 0]]
       /\ lastAccess' = IF recent # {}
                        THEN [lastAccess EXCEPT ![l] = Attributed(recent)]
                        ELSE lastAccess
       /\ Resume(t)
       /\ UNCHANGED <<accesses, cursors, exhausted, cloudFired, answering>>

\* The bulk read fails, and the paged one is tried.
BulkFails(t) ==
    /\ pc[t] = "bulk"
    /\ Awaits(t, "paged", at[t], 0)
    /\ UNCHANGED <<accesses, sharedVars, historyVars, answering>>

PagedFails(t) ==
    /\ pc[t] = "paged"
    /\ Resume(t)
    /\ UNCHANGED <<accesses, cursors, exhausted, prefersPaged, seen, lastAccess,
                   cloudFired, ownFired, answering>>

-----------------------------------------------------------------------------
(* The world outside.                                                      *)

\* The pages that a paged read of accesses first..last may end up with: it stops
\* at its first failure or after max_pages. Which end it begins at is the lock's.
Pages(first, last) ==
    {first..k : k \in first..last} \cup {k..last : k \in first..last}

\* The records that the far side of t's request has at this moment.
Answers(t) ==
    LET l == LockList[at[t]]
    IN CASE pc[t] = "cloud" /\ l \in Uploading -> {(since[t] + 1)..accesses[l]}
         [] pc[t] = "cloud" /\ l \notin Uploading -> {{}}
         [] pc[t] = "bulk" -> {1..accesses[l]}
         [] pc[t] = "paged" -> Pages(OldAccesses + 1, accesses[l]) \cup {{}}
         [] pc[t] = "idle" -> {}

FarSideAnswers(t) ==
    /\ answer[t] = Pending
    /\ \E records \in Answers(t) : answer' = [answer EXCEPT ![t] = records]
    /\ UNCHANGED <<accesses, sharedVars, pc, at, since, historyVars, answering>>

\* Somebody opens lock l, or it locks itself.
LockUsed(l) ==
    /\ accesses[l] < MaxAccesses
    /\ accesses' = [accesses EXCEPT ![l] = @ + 1]
    /\ UNCHANGED <<sharedVars, taskVars, historyVars, answering>>

OutageEnds ==
    /\ ~answering
    /\ answering' = TRUE
    /\ UNCHANGED <<accesses, sharedVars, taskVars, historyVars>>

-----------------------------------------------------------------------------
RequestEnds(t) ==
    \/ HistoryReturns(t) \/ HistoryFails(t)
    \/ LockLogReturns(t) \/ BulkFails(t) \/ PagedFails(t)

Next ==
    \/ \E t \in Polls : PollBegins(t)
    \/ \E t \in Readers, i \in DOMAIN LockList : ReaderBegins(t, i)
    \/ \E t \in Tasks : RequestEnds(t) \/ FarSideAnswers(t)
    \/ \E l \in Locks : LockUsed(l)
    \/ OutageEnds

Spec == Init /\ [][Next]_vars

\* Once everything answers, polls are started, answered and run on. No access and
\* no service call is ever owed.
Fairness ==
    \A t \in Polls : WF_vars(answering /\ (PollBegins(t) \/ RequestEnds(t) \/ FarSideAnswers(t)))

FairSpec == Spec /\ Fairness

-----------------------------------------------------------------------------
(* Properties.                                                             *)

\* The own log of a lock, which wakes it and makes it beep, is read unasked at
\* most once a session, however polls and forced reads overlap
\* (_maybe_read_lock_log).
OwnLogReadOnce == \A l \in Locks : startupReads[l] <= 1

\* A record of a lock's own log is announced once, also where a forced read
\* overlaps the startup read, and however partial the pages were
\* (_seen_log_ids).
OwnRecordsFireOnce == \A l \in Locks, e \in Accesses : ownFired[l][e] <= 1

\* The cursor never passes a recent access that was not announced, whichever of
\* two overlapping polls sets it last (_async_poll_history: "Advance the cursor
\* through everything").
CursorSkipsNothing ==
    \A l \in Locks, e \in Accesses :
        OldAccesses < e /\ e <= cursors[l] => e \in cloudFired[l]

\* Last Access only shows what the bus was told: never a record from years ago,
\* whichever source and read it came from ("so the sensor and the bus event
\* agree").
ShownWasAnnounced ==
    \A l \in Locks : lastAccess[l] # Never =>
        lastAccess[l] \in cloudFired[l] \/ ownFired[l][lastAccess[l]] > 0

\* An access that reaches the cloud log is announced, or the cloud log of its
\* lock is given up, however polls overlap and requests failed before.
AnnouncedOrGivenUp ==
    \A l \in Uploading, e \in Accesses :
        answering /\ OldAccesses < e /\ e <= accesses[l]
            ~> e \in cloudFired[l] \/ l \in exhausted

\* Every access that reaches the cloud log is announced (README, Access log
\* polling).
EveryEntryFires ==
    \A l \in Uploading, e \in Accesses :
        answering /\ OldAccesses < e /\ e <= accesses[l]
            ~> e \in cloudFired[l] \/ ownFired[l][e] > 0
=============================================================================
