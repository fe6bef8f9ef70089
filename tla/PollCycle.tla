------------------------------ MODULE PollCycle ------------------------------
(***************************************************************************)
(* LocklyCoordinator._async_update_data (__init__.py): the poll that       *)
(* rebuilds the data of every lock across one await per query, among the   *)
(* writers that meanwhile publish into the same data: MQTT callbacks,      *)
(* status reads, commands and the access-log poll.                         *)
(*                                                                         *)
(* Each of those writers is one step of the event loop. The poll is not:   *)
(* what it gathers in `result` replaces the coordinator's data at its end. *)
(***************************************************************************)
EXTENDS Naturals, Sequences

CONSTANTS
    LockList,           \* the account's locks, in the order of the device list
    Hubbed,             \* the locks with a hubid; the others answer over MQTT only
    MaxAttempts         \* LIVE_INIT_MAX_ATTEMPTS

Locks == {LockList[i] : i \in DOMAIN LockList}

ASSUME PollAssumption ==
    /\ LockList \in Seq(Locks) /\ LockList # <<>>
    /\ \A i, j \in 1..Len(LockList) : LockList[i] = LockList[j] => i = j
    /\ Hubbed \subseteq Locks
    /\ MaxAttempts \in Nat \ {0}

VARIABLES
    data,           \* data[l]: what the entities of lock l show
    polled,         \* self.data is set: a poll has finished
    polling,        \* Home Assistant will run the next poll
    proven,         \* _door_sensor_proven
    jwt,            \* there is a token
    cacheSupported, \* _cache_supported
    seeding,        \* keys of _live_init_attempts
    attempts,       \* _live_init_attempts[l], 0 for other locks
    retrying,       \* keys of _live_init_retry_at
    due,            \* those whose retry time has come
    mqttUp,         \* the MQTT manager is there and connected
    pc,             \* what the poll awaits
    at,             \* the position in LockList it has reached
    result,         \* the data it has gathered so far
    anyOk,          \* any_ok
    cacheAsked,     \* cache_queried > 0
    cacheAnswered,  \* cache_failed_count < cache_queried
    wakes,          \* history: seeding queries of l that woke it in vain
    answering       \* from here on cloud, hubs, locks and broker answer

pollVars == <<pc, at, result, anyOk, cacheAsked, cacheAnswered>>
seedVars == <<seeding, attempts, retrying, due>>
vars == <<data, polled, polling, proven, jwt, cacheSupported, seedVars, mqttUp, pollVars,
          wakes, answering>>

\* What the properties tell apart in a lock's data: whether a reading of its
\* state is there, whether one of _CARRIED_FIELDS is (they come by MQTT push or
\* from the access log), and whether its Door entity is available.
LockData == [read : BOOLEAN, carried : BOOLEAN, wired : BOOLEAN]

Blank == [read |-> FALSE, carried |-> FALSE, wired |-> FALSE]

\* A reply to a status query, and the lack of one.
Statuses == {"door_closed", "other_reading"}
NoStatus == "none"

TypeOK ==
    /\ data \in [Locks -> LockData]
    /\ polled \in BOOLEAN /\ polling \in BOOLEAN
    /\ proven \subseteq Locks
    /\ jwt \in BOOLEAN
    /\ cacheSupported \in BOOLEAN
    /\ seeding \subseteq Locks
    /\ attempts \in [Locks -> 0..MaxAttempts]
    /\ retrying \subseteq Locks
    /\ due \subseteq retrying
    /\ mqttUp \in BOOLEAN
    /\ pc \in {"idle", "login", "begin", "cached", "live", "probe"}
    /\ at \in 1..Len(LockList)
    /\ result \in [Locks -> LockData]
    /\ anyOk \in BOOLEAN
    /\ cacheAsked \in BOOLEAN
    /\ cacheAnswered \in BOOLEAN
    /\ wakes \in [Locks -> Nat]
    /\ answering \in BOOLEAN

Init ==
    /\ data = [l \in Locks |-> Blank]
    /\ polled = FALSE /\ polling = TRUE
    /\ proven = {}
    /\ jwt = FALSE
    /\ cacheSupported = TRUE
    /\ seeding = {}
    /\ attempts = [l \in Locks |-> 0]
    /\ retrying = {}
    /\ due = {}
    /\ mqttUp = FALSE
    /\ pc = "idle"
    /\ at = 1
    /\ result = [l \in Locks |-> Blank]
    /\ anyOk = FALSE
    /\ cacheAsked = FALSE
    /\ cacheAnswered = FALSE
    /\ wakes = [l \in Locks |-> 0]
    /\ answering = FALSE

-----------------------------------------------------------------------------
(* The poll between two awaits. `seeds` and `tried` are seeding and        *)
(* attempts as the step so far has left them.                              *)

\* _live_query_possible.
QueryPossible(l) == l \in Hubbed \/ mqttUp

\* Mutant of WithoutCache: a lock given up on is not asked again.
WithoutProbe(l, seeds) == IF l \in seeds /\ QueryPossible(l) THEN "live" ELSE "kept"

\* How the loop body asks lock l once the hub's cache has nothing.
WithoutCache(l, seeds) ==
    IF l \in seeds /\ QueryPossible(l) THEN "live"
    ELSE IF l \in retrying \cap due /\ QueryPossible(l) THEN "probe"
    ELSE "kept"

\* What the loop body first awaits for lock l, "kept" if nothing.
FirstAwait(l, seeds) ==
    IF cacheSupported /\ l \in Hubbed THEN "cached" ELSE WithoutCache(l, seeds)

\* The poll suspends in a query of lock l. An attempt is counted, and a retry
\* time moved on, before the query.
Ask(l, kind, tried) ==
    /\ pc' = kind
    /\ attempts' = IF kind = "live" THEN [tried EXCEPT ![l] = @ + 1] ELSE tried
    /\ due' = IF kind = "probe" THEN due \ {l} ELSE due
    /\ cacheAsked' = (cacheAsked \/ kind = "cached")
    /\ UNCHANGED <<data, polled, polling, jwt, cacheSupported>>

\* The end of the poll: drop the cache if no hub answered it, drop the token if
\* every lock failed, and let Home Assistant take the result as the new data.
FinishPoll(res, ok, answered, tried) ==
    /\ cacheSupported' = (cacheSupported /\ (cacheAsked => answered))
    /\ jwt' = (jwt /\ (ok \/ Hubbed = {}))
    /\ data' = res
    /\ polled' = TRUE
    /\ pc' = "idle"
    /\ at' = 1
    /\ result' = [l \in Locks |-> Blank]
    /\ anyOk' = FALSE
    /\ cacheAsked' = FALSE
    /\ cacheAnswered' = FALSE
    /\ attempts' = tried
    /\ UNCHANGED <<due, polling>>

\* What is gathered once the locks from position i to before j kept their data.
Keeping(i, j, res) ==
    [l \in Locks |-> IF \E k \in i..(j - 1) : LockList[k] = l THEN data[l] ELSE res[l]]

\* On to the lock at position i: the locks that await nothing keep their data,
\* the first that does is asked, and after the last the poll ends.
Advance(i, res, ok, answered, seeds, tried) ==
    LET n == Len(LockList)
        Kept(j) == FirstAwait(LockList[j], seeds) = "kept"
    IN \/ /\ \A j \in i..n : Kept(j)
          /\ FinishPoll(Keeping(i, n + 1, res), ok \/ (i <= n /\ polled), answered, tried)
       \/ \E next \in i..n :
          /\ ~Kept(next) /\ \A j \in i..(next - 1) : Kept(j)
          /\ Ask(LockList[next], FirstAwait(LockList[next], seeds), tried)
          /\ at' = next
          /\ result' = Keeping(i, next, res)
          /\ anyOk' = (ok \/ (i < next /\ polled))
          /\ cacheAnswered' = answered

\* Mutant of NoReading: a lock that keeps its data counts as failed.
NoReadingFails(l, seeds, tried) ==
    /\ Advance(at + 1, [result EXCEPT ![l] = data[l]], anyOk, cacheAnswered, seeds, tried)
    /\ UNCHANGED proven

\* No status for lock l: it keeps what it shows now. Before the first poll that
\* is nothing, and no success.
NoReading(l, seeds, tried) ==
    /\ Advance(at + 1, [result EXCEPT ![l] = data[l]], anyOk \/ polled,
               cacheAnswered, seeds, tried)
    /\ UNCHANGED proven

\* _learn_from_status: a closed reading proves a door sensor.
Learned(l, status) == IF status = "door_closed" THEN proven \cup {l} ELSE proven

\* Mutant of Reading: nothing is carried over.
ReadingAnew(l, status, answered, seeds, tried) ==
    /\ proven' = Learned(l, status)
    /\ Advance(at + 1,
               [result EXCEPT ![l] = [read |-> TRUE, carried |-> FALSE,
                                      wired |-> l \in Learned(l, status)]],
               TRUE, answered, seeds, tried)

\* A status for lock l, with the fields that only other routes provide carried
\* over from what the lock shows now.
Reading(l, status, answered, seeds, tried) ==
    /\ proven' = Learned(l, status)
    /\ Advance(at + 1,
               [result EXCEPT ![l] = [read |-> TRUE, carried |-> data[l].carried,
                                      wired |-> l \in Learned(l, status)]],
               TRUE, answered, seeds, tried)

-----------------------------------------------------------------------------
(* The poll at its awaits.                                                 *)

\* The test of des3_key and locks goes with that of the token.
PollBegins ==
    /\ pc = "idle" /\ polling
    /\ pc' = IF jwt THEN "begin" ELSE "login"
    /\ UNCHANGED <<data, polled, polling, proven, jwt, cacheSupported, seedVars, mqttUp, at,
                   result, anyOk, cacheAsked, cacheAnswered, wakes, answering>>

\* _authenticate re-arms the cache and the seeding of every lock.
Authenticated ==
    /\ pc = "login"
    /\ jwt' = TRUE
    /\ cacheSupported' = TRUE
    /\ seeding' = Locks
    /\ attempts' = [l \in Locks |-> 0]
    /\ retrying' = {}
    /\ due' = {}
    /\ pc' = "begin"
    /\ UNCHANGED <<data, polled, polling, proven, mqttUp, at, result, anyOk, cacheAsked,
                   cacheAnswered, wakes, answering>>

\* The login raises: the poll fails, and the data stays. After an UpdateFailed
\* (no device list) Home Assistant polls on, in a setup by setting up anew. A
\* ConfigEntryAuthFailed, which stands for a login that got no answer too, ends
\* the polls, and a setup with them: that is re-raised, and not tried again.
LoginFails ==
    /\ pc = "login"
    /\ ~answering
    /\ pc' = "idle"
    /\ polling' \in {FALSE, polling}
    /\ UNCHANGED <<data, polled, proven, jwt, cacheSupported, seedVars, mqttUp, at,
                   result, anyOk, cacheAsked, cacheAnswered, wakes, answering>>

LoopBegins ==
    /\ pc = "begin"
    /\ Advance(1, result, FALSE, FALSE, seeding, attempts)
    /\ UNCHANGED <<proven, seeding, retrying, mqttUp, wakes, answering>>

\* The hub's cache answers, or the lock is asked itself, or left as it is.
CachedReturns(status) ==
    LET l == LockList[at]
        kind == WithoutCache(l, seeding)
    IN /\ pc = "cached"
       /\ answering => status # NoStatus
       /\ CASE status # NoStatus -> Reading(l, status, TRUE, seeding, attempts)
            [] status = NoStatus /\ kind = "kept" -> NoReading(l, seeding, attempts)
            [] status = NoStatus /\ kind # "kept" ->
                 /\ Ask(l, kind, attempts)
                 /\ UNCHANGED <<proven, at, result, anyOk, cacheAnswered>>
       /\ UNCHANGED <<seeding, retrying, mqttUp, wakes, answering>>

\* Mutants of SeedingOver: one attempt too many, and no limit.
SeedingOverLate(l, status) == status # NoStatus \/ attempts[l] > MaxAttempts
SeedingOverNever(l, status) == status # NoStatus

\* What ends the seeding of lock l.
SeedingOver(l, status) == status # NoStatus \/ attempts[l] >= MaxAttempts

\* Mutant of GivenUp: no probe is scheduled.
GivenUpForGood(l, over) == retrying

\* The locks left to the half-hourly probe after a seeding query of l failed.
GivenUp(l, over) == IF over THEN retrying \cup {l} ELSE retrying

\* A seeding query: a status ends the seeding of the lock, and so does the last
\* attempt, which leaves it to the half-hourly probe.
LiveReturns(status) ==
    LET l == LockList[at]
        over == SeedingOver(l, status)
        seeds == IF over THEN seeding \ {l} ELSE seeding
        tried == IF over THEN [attempts EXCEPT ![l] = 0] ELSE attempts
    IN /\ pc = "live"
       /\ answering => status # NoStatus
       /\ seeding' = seeds
       /\ \/ /\ status # NoStatus
             /\ Reading(l, status, cacheAnswered, seeds, tried)
             /\ UNCHANGED <<retrying, wakes>>
          \/ /\ status = NoStatus
             /\ retrying' = GivenUp(l, over)
             /\ NoReading(l, seeds, tried)
             /\ wakes' = [wakes EXCEPT ![l] = @ + 1]
       /\ UNCHANGED <<mqttUp, answering>>

\* The quiet probe of a lock given up on.
ProbeReturns(status) ==
    LET l == LockList[at]
    IN /\ pc = "probe"
       /\ answering => status # NoStatus
       /\ \/ /\ status # NoStatus
             /\ retrying' = retrying \ {l}
             /\ Reading(l, status, cacheAnswered, seeding, attempts)
          \/ /\ status = NoStatus
             /\ NoReading(l, seeding, attempts)
             /\ UNCHANGED retrying
       /\ UNCHANGED <<seeding, mqttUp, wakes, answering>>

-----------------------------------------------------------------------------
(* The other writers, each one step of the event loop.                     *)

\* async_set_updated_data, which also schedules the next poll.
Publish(l, d) ==
    /\ data' = IF polled THEN [data EXCEPT ![l] = d] ELSE data
    /\ polling' = (polling \/ polled)

OthersUnchanged ==
    UNCHANGED <<polled, jwt, cacheSupported, seedVars, mqttUp, pollVars, wakes, answering>>

\* _process_device_state, an item of an MQTT callback: the lock's state, its
\* battery, or a closed door, which proves the sensor. An unknown lock, or any
\* before the first data, is ignored.
PushState(l) ==
    /\ polled
    /\ Publish(l, [data[l] EXCEPT !.read = TRUE])
    /\ UNCHANGED proven
    /\ OthersUnchanged

PushBattery(l) ==
    /\ polled
    /\ Publish(l, [data[l] EXCEPT !.carried = TRUE])
    /\ UNCHANGED proven
    /\ OthersUnchanged

\* Mutant of PushDoorClosed: the sensor is not recorded as proven.
PushDoorUnproven(l) ==
    /\ polled
    /\ Publish(l, [data[l] EXCEPT !.wired = TRUE])
    /\ UNCHANGED proven
    /\ OthersUnchanged

PushDoorClosed(l) ==
    /\ polled
    /\ proven' = proven \cup {l}
    /\ Publish(l, [data[l] EXCEPT !.wired = TRUE])
    /\ OthersUnchanged

\* A status read before a command, for a nonce or on demand: _learn_from_status,
\* then _publish_status.
StatusRead(l, status) ==
    /\ polled
    /\ proven' = Learned(l, status)
    /\ Publish(l, [data[l] EXCEPT !.read = TRUE, !.wired = l \in Learned(l, status)])
    /\ OthersUnchanged

\* _set_optimistic_lock_state, after a command.
CommandDone(l) ==
    /\ polled
    /\ Publish(l, [data[l] EXCEPT !.read = TRUE])
    /\ UNCHANGED proven
    /\ OthersUnchanged

\* The access-log poll stores the newest event.
AccessEvent(l) ==
    /\ polled
    /\ Publish(l, [data[l] EXCEPT !.carried = TRUE])
    /\ UNCHANGED proven
    /\ OthersUnchanged

\* async_renew_login, for the MQTT manager or the renewal timer: a token, and
\* everything else as it is.
RenewLogin ==
    /\ ~jwt /\ polled
    /\ jwt' = TRUE
    /\ UNCHANGED <<data, polled, polling, proven, cacheSupported, seedVars, mqttUp, pollVars,
                   wakes, answering>>

\* LIVE_INIT_REARM_SECONDS are over, which is longer than a probe takes.
RetryTimeComes(l) ==
    /\ l \in retrying \ due
    /\ ~(pc = "probe" /\ LockList[at] = l)
    /\ due' = due \cup {l}
    /\ UNCHANGED <<data, polled, polling, proven, jwt, cacheSupported, seeding, attempts,
                   retrying, mqttUp, pollVars, wakes, answering>>

\* The MQTT manager is made and started once the first poll has succeeded.
MqttChanges ==
    /\ polled
    /\ answering => ~mqttUp
    /\ mqttUp' = ~mqttUp
    /\ UNCHANGED <<data, polled, polling, proven, jwt, cacheSupported, seedVars, pollVars,
                   wakes, answering>>

OutageEnds ==
    /\ ~answering
    /\ answering' = TRUE
    /\ UNCHANGED <<data, polled, polling, proven, jwt, cacheSupported, seedVars, mqttUp,
                   pollVars, wakes>>

-----------------------------------------------------------------------------
QueryReturns ==
    \E status \in Statuses \cup {NoStatus} :
        CachedReturns(status) \/ LiveReturns(status) \/ ProbeReturns(status)

PollStep == PollBegins \/ Authenticated \/ LoginFails \/ LoopBegins \/ QueryReturns

OtherWriters ==
    \E l \in Locks :
        \/ PushState(l) \/ PushBattery(l) \/ PushDoorClosed(l)
        \/ CommandDone(l) \/ AccessEvent(l)
        \/ \E status \in Statuses : StatusRead(l, status)

Next ==
    \/ PollStep
    \/ OtherWriters
    \/ RenewLogin \/ MqttChanges \/ OutageEnds
    \/ \E l \in Locks : RetryTimeComes(l)

Spec == Init /\ [][Next]_vars

\* Home Assistant keeps polling, queries end, time passes and MQTT, once it can,
\* connects. No push, command or event is ever owed.
Fairness ==
    /\ WF_vars(PollStep)
    /\ \A l \in Locks : WF_vars(RetryTimeComes(l))
    /\ WF_vars(answering /\ MqttChanges)

FairSpec == Spec /\ Fairness

-----------------------------------------------------------------------------
(* Properties.                                                             *)

\* What l will show when the poll under way ends, if the poll is past it.
Gathered(l) == pc \in {"cached", "live", "probe"} /\ \E i \in 1..(at - 1) : LockList[i] = l

\* A lock that has shown no state is still being seeded or probed, whatever
\* failed, re-logged in or gave up meanwhile: none is left stateless until a
\* restart (the comments on the live query and on LIVE_INIT_REARM_SECONDS).
NeverAbandoned ==
    polled => \A l \in Locks :
        l \in seeding \cup retrying \/ data[l].read \/ (Gathered(l) /\ result[l].read)

\* Seeding wakes a lock in vain at most once more than LIVE_INIT_MAX_ATTEMPTS:
\* only the failure of the first poll re-arms it (the comment on
\* LIVE_INIT_MAX_ATTEMPTS: "what keeps retries from becoming a poll loop").
SeedingWakesBounded == \A l \in Locks : wakes[l] <= MaxAttempts + 1

\* No Door entity is shown for a lock that never reported a closed door, in the
\* data or in what a poll is about to make the data (_learn_from_status).
DoorNeedsProof ==
    \A l \in Locks : data[l].wired \/ result[l].wired => l \in proven

\* Only the first poll ever drops the token, so an MQTT start after it never
\* finds one gone that it had (MqttSession relies on this).
TokenDroppedByFirstPollOnly == [][jwt /\ ~jwt' => ~polled]_vars

\* A poll erases a battery level, an access event or a Door entity only if it
\* came after the poll had gathered that lock: what was there when the status
\* arrived is carried over, however long the query took (_CARRIED_FIELDS).
OnlyLateUpdatesLost ==
    [][\A l \in Locks : ~Gathered(l) =>
           /\ data[l].carried => data'[l].carried
           /\ data[l].wired => data'[l].wired]_vars

\* A Door entity, once available, stays available (README, Door sensor).
DoorStaysAvailable ==
    [][\A l \in Locks : data[l].wired => data'[l].wired]_vars

\* Once everything answers, every lock gets a state, however long it was given
\* up on and however its hub's cache failed: as long as polls are due, and in any
\* case once a lock was given up on, since no failed login comes between such a
\* lock and its probes ("a hub that comes back is picked up on its own"). Before
\* that one login without an answer ends the polls, at the setup for good.
EveryLockGetsRead ==
    answering /\ (polling \/ retrying # {}) ~> \A l \in Locks : data[l].read
=============================================================================
