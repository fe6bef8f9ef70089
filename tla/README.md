# Lockly for Home Assistant: TLA+ models and proofs

This directory models the Home Assistant integration in
`src/custom_components/lockly` (about 5,300 lines of Python): what it keeps in
memory, who changes it, and in which orders. TLC checks the models on small
instances; TLAPS proves the central ones for every value of their constants.

## 1. The system

```
 Home Assistant event loop                               threads and the outside
 +-------------------------------------------------+
 | config entry: async_setup_entry / _unload_entry |
 |   LocklyCoordinator (__init__.py)               |
 |     poll (30 s)  ----- REST (api.py) -----------+--> Lockly cloud --> hub --> lock
 |     login, renewal (every ~23 h)                |
 |     commands  <--- LocklyLock (lock.py)         |
 |     access log (5 min)                          |
 |   LocklyMQTTManager (mqtt.py)                   |
 |     _exchange: request, future, reply           +--> executor threads: publish,
 |     async_start / async_stop / recover          |    connect, loop_stop ...
 |     call_soon_threadsafe  <---------------------+--- paho's network thread <-> broker
 +-------------------------------------------------+
```

Coroutines run on one event loop; an `await` is where another may run. paho's
network thread runs `on_connect`, `on_disconnect` and `on_message` and changes
some of the manager's fields there, the rest through `call_soon_threadsafe`.
Nothing is persisted: a restart of Home Assistant forgets everything, so there
is no recovery from storage to model.

| Component | State it keeps | Operations | What makes it hard | What makes it correct |
|---|---|---|---|---|
| MQTT request and reply (mqtt.py) | `_pending`, `_quiet_requests`, futures | `_exchange`, `_resolve`, `async_exchange_frame`, `async_device_info` | three threads, duplicated and late replies, a timer that races the reply | a caller gets the answer to its own request or None, and always returns |
| MQTT session (mqtt.py) | `_client`, `_connected`, `_refusals`, `_broker_index`, `_switching`, `_closed`, `_recovery_cancel` | start, stop, switch, recover, shutdown, connect handlers | restarts that overlap at their awaits, callbacks of old clients, unload at any time | one session, current token, no storm, push that comes back, nothing after unload |
| Login and renewal (`__init__.py`) | `jwt`, `locks`, `des3_key`, `mqtt_host`, `_token_renewal_cancel` | `_login`, `_authenticate`, `async_renew_login`, `_async_renew_token` | four callers: poll, MQTT start, MQTT recovery, timer | the client offers the current token; the next renewal is always set or under way |
| Poll (`__init__.py`) | `data`, `_cache_supported`, `_live_init_attempts`, `_live_init_retry_at`, `_door_sensor_proven` | `_async_update_data` | its result replaces data published during its awaits; a login that fails ends the polls until something is published, at the setup for good | no lock abandoned, few wake-ups, no Door entity without proof |
| Commands (`__init__.py`, api.py) | `_nonces`, `_capabilities`, `_host_passwords` | `_send_command`, `_try_mqtt_command` | a stale nonce, password or frame format; overlapping commands; lost replies; a retry and a second transport | success only on the lock's own word; failure only if each transport was disturbed |
| Lock entity (lock.py) | `_attr_is_locking`, `_attr_is_unlocking` | `async_lock`, `async_unlock` | overlapping service calls | the flags are those of a running call |
| Native Auto-Lock | none of its own; the lock's mode and settings byte, a nonce in a local | `_async_set_native_auto_lock` | two writes, read-modify-write over four awaits, one nonce for three frames | success means both writes; the switch never without the mode; the other switches survive |
| Access log | `_history_cursors`, `_cloud_history_exhausted`, `_seen_log_ids`, `_prefer_paged_log`, `_lock_log_read` | `_async_poll_history`, `_poll_lock_log` | polls that overlap across their awaits, two sources, a forced read beside the startup read | a lock is woken unasked once, no record is announced twice by its own log, the cursor skips nothing |
| Entry and services | `hass.data[DOMAIN]`, the service registry, the renewal and access-log timers, the aiohttp session | setup, unload, shutdown, 9 services | several accounts, setups that fail half way, logins under way at unload | a loaded account keeps services and renewal; a discarded coordinator leaves nothing |
| Guests, signal | none; the signal fields of the data | one request per service call | nothing relates two of them | not modelled |
| Frame codec, capabilities, config flow, sensors | none | pure functions and views | byte arithmetic | not modelled, but for the settings byte (`NativeAutoLock`) and the pages of a log (`AccessLog`) |

`PROJECT.json` lists every component with its status and every hazard at its line.

## 2. Modules

| Module | Models |
|---|---|
| `ExchangeSpec` | what a caller of `_exchange` may rely on, and of the commands and Auto-Lock calls built on it: a call ends at most once, and in success only if the far side has done what that very call asked |
| `MqttExchange` | `_exchange` and its three threads; refines `ExchangeSpec` |
| `MqttSession` | the push connection with the logins that start, renew and end it |
| `PollCycle` | the poll among the other writers of the coordinator's data |
| `Command` | lock and unlock commands over both transports, with the lock; refines `ExchangeSpec` |
| `AccessLog` | the history polls and the reads of a lock's own log |
| `NativeAutoLock` | the services that set a lock's own Auto-Lock, with the lock; refines `ExchangeSpec` |
| `Entry` | setup, unload and shutdown of several accounts, their services and renewals |
| `MqttExchangeProofs`, `MqttSessionProofs`, `OneSessionProofs`, `PollCycleProofs`, `CommandProofs`, `AccessLogProofs`, `NativeAutoLockProofs`, `EntryProofs` | theorems |
| `MC*` | instances for TLC |

The modules meet at narrow places, each an input in one and the subject of
another. `connected` is an input of `MqttExchange`, `PollCycle` and `Command` and
the subject of `MqttSession`. A whole `_exchange` is one await of `Command`, with
the outcomes `ExchangeSpec` allows: success only for an answered request, failure
at any time, and a frame that may arrive after the failure. That a token is
dropped by the first poll only (`TokenDroppedByFirstPollOnly` in `PollCycle`) is
what lets `MqttSession` put that drop into its initial state as the constant
`FirstPollFailed`. `Entry` knows of a login only who asked for it and how it
ended; when the poll and the MQTT manager log in is the subject of `PollCycle` and
`MqttSession`, and what the shutdown does to the connection is that of
`MqttSession`. A composed model of them all would multiply their state for
interleavings that meet only at these places.

### MqttExchange

A call's `phase` is the await it is suspended in; `pending`, `quiet`, `future`
are the fields of those names; `callbacks` is what `call_soon_threadsafe` has
queued. `requests` and `replies` are the network: a reply is never consumed, so
it may be delivered any number of times and in any order. `Expire` is the timer
of `wait_for`, which may fire between `set_result` and the coroutine's next run; a
future not set by then it cancels (`Cancelled`). After a publish that failed
`wait_for` never ran: that future stays open, and a queued `_set` may still set it
after the call has returned, where nobody reads it.
The executor job and the coroutine's resumption after it are separate
(`PublishAccepted`, then `Await`). A publish reported as failed may still be
sent: paho queues QoS 1 messages while it is disconnected.

### MqttSession

Six coroutines (`Procs`) may be suspended in a start or a stop; `pc` and `arg`
say where and with which client. `net[c]` is the connection of client `c`, an
object that survives in its thread after the manager has lost it. A handler of
paho's thread is one step: it runs between two steps of the event loop. No two
coroutines of one kind overlap: the delay before each (30 s at least for
recovery and poll, half an hour for the renewal) exceeds a run of it, and
Home Assistant does not start a poll while one runs. Setup's start can overlap
the poll because a login has no timeout but aiohttp's 300 s.
`DialRaises` is the `except` clause of `async_start`, for a TLS setup or a connect
that raises: the client stays the manager's and nothing schedules another start,
so a retry whose connect raises is the last one. The code's log line says so
("polling-only mode"), and no property says otherwise: `PushComesBack` is about
connects that work.
Left out: a start without the certificate files (they come with the integration,
and such a start changes nothing), `on_subscribe` (it only logs), `_gave_up`
(nothing reads it), and the lengths in `_RECOVERY_DELAYS` with `_recoveries` (the
retry fires some time).

### PollCycle

`data[l]` keeps what the properties tell apart: a reading, a carried field, the
availability of the Door entity. The poll is suspended in one query at a time;
between two awaits it is one step (`Advance` skips the locks that await
nothing). All other writers are atomic, as they are on the event loop. A live
query is one await whichever transport carries it. Before MQTT is up a lock
without a hub cannot be queried (`QueryPossible`).

`polling` says whether Home Assistant will run another poll. A login that fails
at a poll, for want of an answer too, is raised as `ConfigEntryAuthFailed`; Home
Assistant then schedules no poll until a push, a command or a status read
publishes data. At the setup the exception is raised again, the setup is not
retried, and no entity or MQTT manager is there yet to publish anything: the
polls are over for good, and no lock is read although the outage ends. A device
list that cannot be had is `UpdateFailed`, after which setup or poll is tried
again (`LoginFails` allows both). Status reads and MQTT come with the end of the first
poll (`polled`).
Data kept from before counts as success in the code, so that only the first poll
ever drops the token: a login that the cloud stops honouring later is not noticed
by the poll.

### Command

One lock, any number of calls. `local[c]` holds the locals of `_send_command`
(nonce, host password, and whether the frame is made for the type the lock
reported), `pc[c]` the request it awaits. The lock is an external component: it
acts on a good frame and rejects any other, and it draws a new nonce whenever it
is used (`docs/api.md`: it "rotates the value as it is used"). Acting on a command is a
use of it, by hand is another (`LockUsed`), and with the latter its host password may be
changed. Of a nonce it matters only whether it is the lock's latest: having none is
as good as having an old one. So calls that overlap make each other's frames
stale, and so does a frame that arrives late.

`RequestFails` covers a request lost on the way, a reply lost after the lock acted, and
a late frame (`late`, dropped when a new nonce makes it stale). `spoilt[c]` is history:
the transports on which call `c` was disturbed, by a request lost or refused, by MQTT
being down, or by a nonce drawn between the status that told it the old one and
the lock's receipt of its frame (`Holders` are the calls in that window).
`OneTransportSuffices` says that a call fails only if each transport it could go by was
disturbed for it. An overlapping call that spoils the directive over the hub is
thus made up for by MQTT, whose status is asked for anew. A lock without a hub has
MQTT alone, so of two overlapping calls the second may be rejected; nothing in the
code serialises them, and the property admits it.
The cached host password is used as it is for the whole session: once a call has
been told a password (`Told`) and it is changed on the lock, every later command
may fail both ways, and counts as disturbed on both transports. A change before
that disturbs only the calls that hold a nonce.
Status readers other than the commands are in `PollCycle`.

### AccessLog

A run (`Tasks`) is an execution of `_async_poll_history` or of the service
`read_access_log`; `pc`, `at`, `since` are its locals, `answer` is the reply on its
way, which may be out of date when it arrives. An access is a number, its time
and its record's id in one. `LockLogReturns`, `HistoryReturns` are the code after
an await to the next one, over the locks that need none (`Advance`). The branch
of `Advance` that starts a read of the own log is in the code (line 1250) but is
never taken: a lock becomes exhausted and is marked as read in the same step.
Left out: the seven days of `HISTORY_LOOKBACK_DAYS` do not pass (accesses
1..`OldAccesses` are old, the rest recent), and who the operator was. The timers
end with the entry, which is in `Entry`. The cloud is external and behaves as `docs/api.md` section 15
says: it returns what is later than the cursor, and the last event's time.

### NativeAutoLock

`pc[c]` is the request call `c` awaits, `nonce[c]` and `new[c]` its locals. A frame
once published stays in `frames`, from where the lock may take it now, later,
again or never; what it accepts is a matter of its nonce, which it draws anew
whenever it is used. `SetAutoLock` is `set_auto_lock_in_settings` as arithmetic on
the byte: bits 0 to 2 are kept, bit 3 is set or not, the upper half is cleared.
`AppWrites` is the app changing settings through the broker under the nonce
there is, the one case in which the read-modify-write may overwrite another's
change (`shared` remembers it). Nothing orders an enable and a disable call that
overlap: both may succeed and leave the mode of one with the switch of the other.
Each is told the truth about its own writes (`SuccessMeansWritten`), and no line of
the code says which should win, so no property does.

### Entry

`pc[a]` is the await that the setup or the unload of account `a` is suspended in;
Home Assistant overlaps the operations of different entries, never those of one.
Each setup makes a new coordinator, a number. `logins[k]` are the logins of
coordinator `k` under way, by who asked; they go on while the entry is unloaded.
`five` are the services that `async_unload_entry` removes (the other four are
registered with them and never removed), `serves` the coordinator that the
handlers of all nine close over. Two unloads that end together may find `DOMAIN`
gone from `hass.data`: the second raises `KeyError` (`UnloadRaises`) and its entry is
left for Home Assistant to call stuck. A coordinator shut down with a login under
way (`late`) has its renewal armed again by that login's end; the promise of
`async_shutdown` is therefore stated of the others.

## 3. Runs

| Run | Instance | Shows |
|---|---|---|
| `exchange` | 2 calls, one quiet, one device-info; 2 replies per request, 1 queued callback | results are own answers, bookkeeping exact, futures settle once (by a reply or the timeout), every call returns, `ExchangeSpec` is implemented |
| `session` | 2 clients, 2 refusals, 2 callbacks; connects never raise, first poll good | one session, paused while a retry waits, current token at redial, flag true, push comes back |
| `overlap` | the same with a dropped token and raising connects, symmetric clients | no retry and no new client after shutdown, however restarts overlap |
| `poll` | one hub lock, one WiFi lock, 3 attempts | no lock abandoned, waking bounded, Door proven, token dropped only by the first poll, only late updates lost, every lock read in the end if polls go on or one was given up on |
| `command` | lock and unlock, 2 passwords, the lock used at any time | reported means acted, shown was true, failure only if each transport was disturbed, flags true |
| `access_log` | one uploading lock, 2 recent accesses and an old one, 2 polls, 1 service call at a time | own log read unasked once, its records announced once, cursor skips nothing, all announced until the log is given up |
| `native_auto_lock` | an enable and a disable call, first byte 2 or 250, app bytes 0 and 10, 1 use of the lock | success means both writes, other switches kept, undisturbed succeeds |
| `entry` | 2 accounts (symmetric), 3 setups | loaded accounts keep services and renewal, five services go with the last, a discarded coordinator leaves nothing |
| `find_session_outlives` | as `overlap` | finding: a start under way at unload leaves a session |
| `find_door_lost` | two hub locks | finding: a pushed closed door is erased by the poll that overtook it |
| `find_log_goes_silent` | two locks, one poll at a time | finding: a quiet five minutes end the cloud log for the session |
| `find_services` | as `entry` | finding: the services serve an account that was unloaded, and not the one that is loaded |

**Bounds.** `MaxReplies` = 2 is the duplicate delivery the code speaks of; with
one queued callback (`MaxCallbacks` = 1) a second delivery still meets every phase,
because `OnMessage` is enabled again after `SetResult`. `MaxRefusals` = 2
separates the first refusal, the last one and `rc=5`. Two clients suffice where
one session is claimed: a second would be the violation; in `overlap`, where
more could exist, a start waits until one is free, so that run covers up to two
sessions at a time. Three attempts are the code's own `LIVE_INIT_MAX_ATTEMPTS`. In
`command` the lock is used without a bound; what is bounded is the number of calls.
In `native_auto_lock` one use of the lock gives two nonces: current and stale.
In `access_log` one lock is enough, for locks share nothing but the run that
visits them in turn (`find_log_goes_silent` visits two); two polls are the one
that outlasts its five minutes and the next, and with two recent accesses a
partial page, a late answer and a record without a credential can each be the
other access's. In `native_auto_lock` the first bytes have the Auto-Lock bit off
(2) and on (250), the second with the upper half in use; of the app's
bytes one clears a switch that is not Auto-Lock's and the other does not. In `entry` three setups let one
account be set up again while the other stays, fails or goes.

**Deadlock** is checked except in the session, poll, command and entry runs: after an
unload, after a setup whose login was refused, when all calls have returned, or
when no further setup is left those systems really stop.

**Fairness.** Coroutines that can run do run, executor jobs end, timers fire,
queued callbacks run: that is the event loop's scheduling, as weak fairness per
call, coroutine and lock. In `session` the broker also answers a client that
keeps asking. Nothing is assumed of the network, the cloud or the lock, except
after `healthy` (`MqttSession`) or `answering` (`PollCycle`, `AccessLog`) becomes true, which
is the premise of the liveness properties that mention it. No push, command,
unload, renewal or login success is ever owed. Polls are, while
`polling` holds: Home Assistant reschedules them. A login that fails takes `polling`
away, so `EveryLockGetsRead` starts from a state in which everything answers and polls
are due, or in which some lock has been given up on (`GivenUpKeepsPolling`).

## 4. Proofs

`MqttExchangeProofs` proves, for any set of calls and any bounds: the types; that
a success is the far side's answer to that request (`OwnAnswers`); the exact
contents of `_pending` and `_quiet_requests` (`PendingBookkeeping`); that a future
settles once, by a reply or by the timeout, and that nothing changes it or what
its call returned afterwards (`FutureSettlesOnce`); that awaited quiet calls stay quiet; and that
the exchange implements `ExchangeSpec` (`ExchangeImplementsPromise`).
`OnlyOwnAnswers` is not inductive, for it says nothing of a message before it is
a result; the invariant `IInv` follows it back through the future, the queued
callbacks and the replies under way, each of which holds only replies the far
side has made and that carry their own id.

`MqttSessionProofs` proves, for any set of clients, with the first token dropped
or not and with connects that raise or not: the types, `NoRetryAfterShutdown`,
`NoClientBuiltAfterShutdown` and, of `_connected`, as much as holds when restarts
overlap: it is set only while some client has a connection (`FlagHasAConnection`).
Every step of a coroutine goes through `Moves`, which says what a start or a stop
leaves to its caller; the invariant `SessionInv` adds that until the first login
there is nothing to connect with and only the setup logs in from within a start,
and that the setup ends before the shutdown. For the flag, `Builders` says that
starts that have not connected yet work on clients of their own, none of them
connected, however many run.

`OneSessionProofs` proves `OneSession`, `PausedUntilRetry`,
`RedialsWithCurrentToken` and `FlagMatchesClient` for any set of clients, under
`Smooth`: the first poll kept the token. Starts may raise. That premise is the
code's own condition. Nothing in it keeps two restarts apart; they are apart
because each is caused by the end of the other. The invariant `ConnectionInv` says
just that: before the shutdown one thing at a time works on the connection
(`OneAtWork`: the setup, a client that is connected or trying, what its refusal has
queued, the retry that waits, a recovery, a switch), what works holds the manager's
client (`OnTheClient`) and the current token (`TokenGiven`). A start that raises ends
the chain with nothing at work (`DialRaisesOne`). A dropped first token puts a poll
beside the setup; the `overlap` run shows what is left then.

The same invariant draws the limit of the finding `find_session_outlives`.
`UnloadEndsSession`: if no start is past its check of `_closed` when the entry is
unloaded (`UnloadsBetweenStarts`), `SessionEndsWithEntry` holds, whatever recovery,
switch, renewal or refusal is under way. From such an unload on nothing builds, only
the client that is being stopped can be live, and the shutdown does not return
before it has let go of it (`ShuttingDown`). The premise is about one step, and
it is needed: without it the theorem is the property the finding refutes.

`PollCycleProofs` proves, for any list of locks with hubs or without and any
number of attempts: the types and the five safety properties of the run, and what
`EveryLockGetsRead` rests on: once a lock has been given up on no login failure ends
the polls (`GivenUpKeepsPolling`, with more than one attempt: the first poll asks a
lock once, so none is given up before the polls have a token that only the first
can drop). None is
inductive alone. `EveryLockAccounted` finds the reading of a lock that is neither
seeded nor probed where the end of the poll will: in the result if the poll is
past it, in the data before. `WakesCounted` ties the wakes of a lock to the
attempts the code counts, up to the one under way, and `TokenFirst` is why only
one login can add to them. `Advance`, with which every step of the poll ends, skips the
locks that await nothing: `AdvanceOutcome` says where it may stop, and
`AdvanceKeeps` what a step has to provide for the invariant to hold there.

`CommandProofs` proves, for any number of overlapping calls and any passwords:
the types, `ReportsAreTrue`, `FlagsStayTrue`, `ShownIsTrue`, `FailsOnlyIfDisturbed` and
that a call implements `ExchangeSpec` (`CommandImplementsPromise`). For the reports the
strengthening is `AckMeansActed`, the same statement of an acknowledgement that has not reached
its call yet; for what is shown, `RepliesWereTrue`, of a status on its way. The
control flow is cut off by one lemma, `CoroutineMoves`: every step of a call other
than the acknowledged one either leaves it running with outcome and flags as they
were, or returns a failure. `OneTransportSuffices` speaks of the end of a
call only; `OnCourse` says for each of its awaits that a transport given up was
disturbed, and for the one being tried, if it is not, which answer is the only
one to come and what the call has by then (`AsExpected`: the latest nonce, frames for
the type that was learned, the lock's password). `PasswordsKnown` says that what any
call caches is the lock's password. What keeps overlapping calls apart is
`DrawKeepsCourse`: a new nonce disturbs exactly the calls in whose answer or frame the
old one was. A step that draws none leaves the other calls as they are (`KeepsCourse`). A
password changed before any call was told the old one leaves all this true
(`UseKeepsCourse`); one changed later disturbs both transports for every call
(`Ruined`), and what is disturbed stays so (`TroubleStays`).

`AccessLogProofs` proves, for any list of locks and any number of overlapping
polls and forced reads: the types and the four safety invariants of the run
(`WokenOnce`, `AnnouncedOnce`, `NothingSkipped`, `LastAccessAnnounced`). The cursor
is read before an await and set after it, so `CursorSkipsNothing` needs two more
facts: what a poll asks to leave out has been announced, even if its cursor is out
of date by now (`AskedAfterFired`), and an answer under way leaves nothing out from
there on (`AnswersAreComplete`). `SeenIsFired` ties `_seen_log_ids` to what was
announced. `Moves` stands for all that the end of a step may do to its run,
whichever lock comes next. That nonempty sets of naturals have a least element,
which `Min` and `Max` rest on, is derived from the well-foundedness of strict
inclusion of finite sets.

`NativeAutoLockProofs` proves, for any number of overlapping calls, any settings
bytes and any number of uses: the types, the three other properties of the run, that
the switch is only thrown for a call whose mode the lock has accepted
(`ModeBeforeSwitch`), that a lock of another type is never written to
(`OthersNeverWritten`), and that a call implements `ExchangeSpec`
(`AutoLockImplementsPromise`). `SettingsByte` is what `set_auto_lock_in_settings` does
to every byte. `AckMeansAccepted` follows a success back to the frame the lock took.
`OtherSettingsKept` needs `ReadIsCurrent`: a byte read under the nonce the lock still
has is the lock's own in bits 0 to 2, unless the app wrote under that nonce; any
use since makes the frame stale.

`EntryProofs` proves, for any number of accounts and setups: the types and the
four invariants of the run. The strengthening says that no two accounts share a
coordinator (`OwnCoordinators`), what an unload has already put away at each of its
awaits (`StoppingLeavesNothing`), and that `DOMAIN` is there while an entry is
(`DomainHolds`). `LoneAccountIsServed` shows what the finding `find_services` takes:
with a single account, `ServicesServeAnAccount` holds.

**One specification, three components.** `_exchange`, a command and an Auto-Lock
call each implement `ExchangeSpec`: a step of theirs opens, answers, ends one call
or shows nothing. What counts as the far side's answer differs: the reply published
for the request, the lock having acted on the call's frame, the lock having taken
both writes. The steps a refinement could fail at are those after the end of a call.
A command's frame that arrives late must still be that of a call that has begun
(`LateBegan`), and so must a write the lock takes after its call has returned
(`FramesOfCall`); both are then an `Answer` that the caller never learns of.

Theorems without a run of their own: `AwaitedQuietCallsStayQuiet`
(`MqttExchangeProofs`), which the warnings of `on_message` depend on,
`LastAccessAnnounced` (`AccessLogProofs`), `GivenUpKeepsPolling`, `FlagHasAConnection`, `ModeBeforeSwitch`,
`OthersNeverWritten`, `SettingsByte`, the refinements of `Command` and
`NativeAutoLock`, and the two that limit a finding, `UnloadEndsSession` and
`LoneAccountIsServed`.

Assumptions on constants are the named `ASSUME`s of each module; TLC evaluates
them in the runs. Only model-checked, because the prover has no rule for it:
liveness under fairness (`EveryCallReturns`, `PushComesBack`, `EveryLockGetsRead`,
`AnnouncedOrGivenUp`). Every safety property of the passing runs is a theorem, the
four of `OneSessionProofs` under the premise above. The findings are runs, not theorems.

## 5. Not modelled

* `query_passwords` drops a cached host password and reads it anew; beside the
  commands it multiplies their states several times over, for a cache that the
  model already lets be empty or full at a call's start.
* Guests and `read_signal`: one request per service call. Their requests are calls
  of `MqttExchange`; what they publish or return is used by nothing else.
* The frame codec and the ciphers of `api.py`: functions of bytes. What the
  properties tell apart of a frame (call, nonce, password, type, time field,
  settings byte) is in the records of `Command` and `NativeAutoLock`. A reference
  definition to check the byte layouts against would be the code once more.
* `capabilities.py`: a table. The models keep whether a frame is made for the type
  the lock reported.
* The config flow (one form, one login, no state after it) and the sensors
  (read-only views of the coordinator's data).
* What `_connected` says while restarts overlap: `on_disconnect` of an old client
  then clears the flag of a new one, and no line of the code says otherwise.
  `MqttSession` has the step; `FlagMatchesClient` is checked and proved where restarts
  do not overlap, and `FlagNeedsConnection` is proved everywhere.
* The order of overlapping commands: the state shown may be that of the earlier
  one until the next status. `ShownWasTrue` is what the code promises.
* Home Assistant's scheduling of polls, which every published update postpones:
  the poll is taken to run fairly.

## 6. Running

`tlc -workers 2 -config MCPollCycle.cfg MCPollCycle` and likewise for the other
configurations (a `Find*.cfg` belongs to the MC module of its component:
`FindSessionOutlives` to `MCMqttSession`, `FindDoorLost` to `MCPollCycle`,
`FindLogGoesSilent` to `MCAccessLog`, `FindServices` to `MCEntry`). The largest,
`MCCommand.cfg`, takes about two and a half minutes, the others less than one, and so do most
proofs: `tlapm MqttExchangeProofs.tla`, and likewise `MqttSessionProofs`,
`OneSessionProofs`, `PollCycleProofs`, `CommandProofs`, `AccessLogProofs`,
`NativeAutoLockProofs` and `EntryProofs`. `OneSessionProofs` extends
`MqttSessionProofs`.
