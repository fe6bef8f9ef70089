--------------------------------- MODULE Entry ---------------------------------
(***************************************************************************)
(* Config entries (__init__.py): async_setup_entry, async_unload_entry and *)
(* async_shutdown, the registration of the services, and the timer that    *)
(* renews the login, for several accounts.                                 *)
(*                                                                         *)
(* Home Assistant never overlaps two of its operations on one entry. Those *)
(* of different entries overlap at their awaits, and the logins of a       *)
(* coordinator (by its poll, its MQTT manager and its renewal timer) with  *)
(* all of them. Every setup makes a coordinator of its own.                *)
(***************************************************************************)
EXTENDS Naturals, FiniteSets

CONSTANTS
    Accounts,       \* the config entries
    MaxSetups       \* bound: setups ever begun

ASSUME EntryAssumption == MaxSetups \in Nat

\* Coordinators, in the order they are made, and none.
Coordinators == 1..MaxSetups
None == 0

VARIABLES
    entry,          \* entry[a]: what Home Assistant says of the entry
    pc,             \* pc[a]: the await its setup or unload is suspended in
    current,        \* current[a]: its latest coordinator
    made,           \* coordinators made so far
    held,           \* keys of hass.data[DOMAIN]
    present,        \* DOMAIN is a key of hass.data
    five,           \* the services that async_unload_entry removes are registered
    serves,         \* the coordinator in the closures of all nine
    renewal,        \* coordinators whose _token_renewal_cancel is pending
    logins,         \* logins[k]: the logins of k under way, by who asked
    session,        \* session[k]: k's aiohttp session
    manager,        \* coordinators with an MQTT manager that is not closed
    history,        \* coordinators with timers in _history_cancel
    gone,           \* history: those whose async_shutdown is done
    late            \* history: those shut down with a login under way

taskVars == <<entry, pc, current, made>>
serviceVars == <<held, present, five, serves>>
coordinatorVars == <<renewal, logins, session, manager, history, gone, late>>
vars == <<taskVars, serviceVars, coordinatorVars>>

\* Who logs in beside the first poll, which is part of the setup.
Askers == {"poll", "mqtt", "renewal"}

\* The stages of a setup and of an unload.
SetupAwaits == {"login", "refresh", "platforms", "mqtt_start"}
UnloadAwaits == {"unload_platforms", "mqtt_stop", "closing"}

TypeOK ==
    /\ entry \in [Accounts -> {"not_loaded", "setup", "loaded", "unloading", "stuck"}]
    /\ pc \in [Accounts -> {"idle"} \cup SetupAwaits \cup UnloadAwaits]
    /\ current \in [Accounts -> {None} \cup Coordinators]
    /\ made \in 0..MaxSetups
    /\ held \subseteq Accounts
    /\ present \in BOOLEAN /\ five \in BOOLEAN
    /\ serves \in {None} \cup Coordinators
    /\ renewal \subseteq Coordinators
    /\ logins \in [Coordinators -> SUBSET Askers]
    /\ session \in [Coordinators -> {"none", "open", "closed"}]
    /\ manager \subseteq Coordinators /\ history \subseteq Coordinators
    /\ gone \subseteq Coordinators /\ late \subseteq Coordinators
    /\ \A a \in Accounts :
        /\ pc[a] \in SetupAwaits <=> entry[a] = "setup"
        /\ pc[a] \in UnloadAwaits <=> entry[a] = "unloading"

Init ==
    /\ entry = [a \in Accounts |-> "not_loaded"]
    /\ pc = [a \in Accounts |-> "idle"]
    /\ current = [a \in Accounts |-> None]
    /\ made = 0
    /\ held = {} /\ present = FALSE
    /\ five = FALSE /\ serves = None
    /\ renewal = {}
    /\ logins = [k \in Coordinators |-> {}]
    /\ session = [k \in Coordinators |-> "none"]
    /\ manager = {} /\ history = {}
    /\ gone = {} /\ late = {}

-----------------------------------------------------------------------------
(* async_setup_entry.                                                      *)

\* The coordinators shut down late, with k.
Late(k) == IF logins[k] # {} THEN late \cup {k} ELSE late

GoOn(a, from, to) == pc[a] = from /\ pc' = [pc EXCEPT ![a] = to]

\* A coordinator is made, and its first refresh begins with a login.
SetupBegins(a) ==
    /\ entry[a] = "not_loaded" /\ made < MaxSetups
    /\ GoOn(a, "idle", "login")
    /\ entry' = [entry EXCEPT ![a] = "setup"]
    /\ made' = made + 1
    /\ current' = [current EXCEPT ![a] = made + 1]
    /\ session' = [session EXCEPT ![made + 1] = "open"]
    /\ UNCHANGED <<serviceVars, renewal, logins, manager, history, gone, late>>

\* The login of the first refresh; its queries are next.
FirstLogin(a) ==
    /\ GoOn(a, "login", "refresh")
    /\ renewal' = renewal \cup {current[a]}
    /\ UNCHANGED <<entry, current, made, serviceVars, logins, session, manager, history,
                   gone, late>>

\* Mutant of SetupFails: Home Assistant is not told.
SetupFailsUntold(a) ==
    /\ pc[a] \in {"login", "refresh"}
    /\ pc' = [pc EXCEPT ![a] = "idle"]
    /\ renewal' = renewal \ {current[a]}
    /\ session' = [session EXCEPT ![current[a]] = "closed"]
    /\ gone' = gone \cup {current[a]}
    /\ late' = Late(current[a])
    /\ UNCHANGED <<entry, current, made, serviceVars, logins, manager, history>>

\* The first refresh raises: the coordinator is shut down, and Home Assistant
\* told that the account is refused or not ready; it may try again.
SetupFails(a) ==
    /\ pc[a] \in {"login", "refresh"}
    /\ pc' = [pc EXCEPT ![a] = "idle"]
    /\ entry' = [entry EXCEPT ![a] = "not_loaded"]
    /\ renewal' = renewal \ {current[a]}
    /\ session' = [session EXCEPT ![current[a]] = "closed"]
    /\ gone' = gone \cup {current[a]}
    /\ late' = Late(current[a])
    /\ UNCHANGED <<current, made, serviceVars, logins, manager, history>>

\* The coordinator is entered into hass.data, and the platforms set up.
FirstRefreshDone(a) ==
    /\ GoOn(a, "refresh", "platforms")
    /\ held' = held \cup {a} /\ present' = TRUE
    /\ UNCHANGED <<entry, current, made, five, serves, coordinatorVars>>

\* The access-log timers are set and the MQTT manager is started.
PlatformsDone(a) ==
    /\ GoOn(a, "platforms", "mqtt_start")
    /\ history' = history \cup {current[a]}
    /\ manager' = manager \cup {current[a]}
    /\ UNCHANGED <<entry, current, made, serviceVars, renewal, logins, session, gone, late>>

\* _register_services: all nine, in place of those another account registered.
SetupDone(a) ==
    /\ GoOn(a, "mqtt_start", "idle")
    /\ entry' = [entry EXCEPT ![a] = "loaded"]
    /\ five' = TRUE
    /\ serves' = current[a]
    /\ UNCHANGED <<current, made, held, present, coordinatorVars>>

-----------------------------------------------------------------------------
(* async_unload_entry.                                                     *)

UnloadBegins(a) ==
    /\ entry[a] = "loaded"
    /\ GoOn(a, "idle", "unload_platforms")
    /\ entry' = [entry EXCEPT ![a] = "unloading"]
    /\ UNCHANGED <<current, made, serviceVars, coordinatorVars>>

\* A platform cannot be unloaded: the coordinator stays, and Home Assistant
\* does not touch the entry again.
PlatformsStay(a) ==
    /\ GoOn(a, "unload_platforms", "idle")
    /\ entry' = [entry EXCEPT ![a] = "stuck"]
    /\ UNCHANGED <<current, made, serviceVars, coordinatorVars>>

\* Mutant of PlatformsUnloaded: the renewal is not cancelled.
PlatformsUnloadedOnly(a) ==
    LET k == current[a]
    IN /\ GoOn(a, "unload_platforms", "mqtt_stop")
       /\ held' = held \ {a}
       /\ manager' = manager \ {k}
       /\ late' = Late(k)
       /\ UNCHANGED <<entry, current, made, present, five, serves, logins, session,
                      history, renewal, gone>>

\* The coordinator leaves hass.data, and async_shutdown begins: the renewal is
\* cancelled and the MQTT manager told to stop.
PlatformsUnloaded(a) ==
    LET k == current[a]
    IN /\ GoOn(a, "unload_platforms", "mqtt_stop")
       /\ held' = held \ {a}
       /\ renewal' = renewal \ {k}
       /\ manager' = manager \ {k}
       /\ late' = Late(k)
       /\ UNCHANGED <<entry, current, made, present, five, serves, logins, session,
                      history, gone>>

\* The rest of async_shutdown.
MqttStopped(a) ==
    /\ GoOn(a, "mqtt_stop", "closing")
    /\ history' = history \ {current[a]}
    /\ session' = [session EXCEPT ![current[a]] = "closed"]
    /\ gone' = gone \cup {current[a]}
    /\ UNCHANGED <<entry, current, made, serviceVars, renewal, logins, manager, late>>

\* Mutants of UnloadEnds: services go with every entry, or with the last that
\* Home Assistant has not unloaded.
UnloadEndsForAll(a) ==
    /\ present
    /\ GoOn(a, "closing", "idle")
    /\ entry' = [entry EXCEPT ![a] = "not_loaded"]
    /\ five' = FALSE
    /\ present' = (held # {})
    /\ UNCHANGED <<current, made, held, serves, coordinatorVars>>

UnloadEndsBySelf(a) ==
    /\ present
    /\ GoOn(a, "closing", "idle")
    /\ entry' = [entry EXCEPT ![a] = "not_loaded"]
    /\ IF held = {} /\ \A b \in Accounts \ {a} : entry[b] = "not_loaded"
       THEN five' = FALSE /\ present' = FALSE ELSE UNCHANGED <<five, present>>
    /\ UNCHANGED <<current, made, held, serves, coordinatorVars>>

\* Five services go with the last entry, and so does DOMAIN; four stay.
UnloadEnds(a) ==
    /\ present
    /\ GoOn(a, "closing", "idle")
    /\ entry' = [entry EXCEPT ![a] = "not_loaded"]
    /\ IF held = {} THEN five' = FALSE /\ present' = FALSE ELSE UNCHANGED <<five, present>>
    /\ UNCHANGED <<current, made, held, serves, coordinatorVars>>

\* DOMAIN went with another entry meanwhile: hass.data[DOMAIN] raises KeyError.
UnloadRaises(a) ==
    /\ ~present
    /\ GoOn(a, "closing", "idle")
    /\ entry' = [entry EXCEPT ![a] = "stuck"]
    /\ UNCHANGED <<current, made, serviceVars, coordinatorVars>>

-----------------------------------------------------------------------------
(* The logins of a coordinator.                                            *)

\* k is some account's, set up this far and not shut down.
InUse(k) ==
    \E a \in Accounts :
        /\ current[a] = k /\ k \notin gone
        /\ pc[a] \in {"idle", "platforms", "mqtt_start", "unload_platforms"}

Ensure(k) == session' = [session EXCEPT ![k] = "open"]

\* A poll without a token, or the MQTT manager after a refusal, logs in. When is
\* the subject of PollCycle and of MqttSession.
LoginBegins(k, asker) ==
    /\ InUse(k)
    /\ asker = "poll" \/ (asker = "mqtt" /\ k \in manager)
    /\ asker \notin logins[k]
    /\ logins' = [logins EXCEPT ![k] = @ \cup {asker}]
    /\ Ensure(k)
    /\ UNCHANGED <<taskVars, serviceVars, renewal, manager, history, gone, late>>

\* _async_renew_token.
RenewalFires(k) ==
    /\ k \in renewal
    /\ renewal' = renewal \ {k}
    /\ logins' = [logins EXCEPT ![k] = @ \cup {"renewal"}]
    /\ Ensure(k)
    /\ UNCHANGED <<taskVars, serviceVars, manager, history, gone, late>>

\* _login ends by scheduling the next renewal, for whomever it was.
LoginSucceeds(k, asker) ==
    /\ asker \in logins[k]
    /\ logins' = [logins EXCEPT ![k] = @ \ {asker}]
    /\ renewal' = renewal \cup {k}
    /\ UNCHANGED <<taskVars, serviceVars, session, manager, history, gone, late>>

\* Mutant of LoginFails: a renewal that fails is not tried again.
LoginFailsForGood(k, asker) ==
    /\ asker \in logins[k]
    /\ logins' = [logins EXCEPT ![k] = @ \ {asker}]
    /\ UNCHANGED <<renewal, taskVars, serviceVars, session, manager, history, gone, late>>

\* A renewal that fails is tried again in TOKEN_RENEW_MIN_SECONDS.
LoginFails(k, asker) ==
    /\ asker \in logins[k]
    /\ logins' = [logins EXCEPT ![k] = @ \ {asker}]
    /\ renewal' = IF asker = "renewal" THEN renewal \cup {k} ELSE renewal
    /\ UNCHANGED <<taskVars, serviceVars, session, manager, history, gone, late>>

-----------------------------------------------------------------------------
SetupStep(a) ==
    \/ SetupBegins(a) \/ FirstLogin(a) \/ SetupFails(a) \/ FirstRefreshDone(a)
    \/ PlatformsDone(a) \/ SetupDone(a)

UnloadStep(a) ==
    \/ UnloadBegins(a) \/ PlatformsStay(a) \/ PlatformsUnloaded(a) \/ MqttStopped(a)
    \/ UnloadEnds(a) \/ UnloadRaises(a)

LoginStep(k) ==
    \/ RenewalFires(k)
    \/ \E asker \in Askers :
        LoginBegins(k, asker) \/ LoginSucceeds(k, asker) \/ LoginFails(k, asker)

Next ==
    \/ \E a \in Accounts : SetupStep(a) \/ UnloadStep(a)
    \/ \E k \in Coordinators : LoginStep(k)

Spec == Init /\ [][Next]_vars

-----------------------------------------------------------------------------
(* Properties.                                                             *)

\* A loaded account has its services, whichever others were unloaded, set up
\* again or failed to be since (the comment above the removal: "unloading one
\* account removes them for the others" is what must not happen).
LoadedHaveServices == \A a \in Accounts : entry[a] = "loaded" => five

\* The five go with the last entry: while they are there, so is an entry or the
\* unload that will remove them, also when unloads overlap at their awaits.
FiveGoWithLast ==
    five => held # {} \/ \E a \in Accounts : pc[a] \in {"mqtt_stop", "closing"}

\* The login of a coordinator in use is always about to be renewed: after every
\* login and every failure, and however they overlap, the timer is set or the
\* renewal under way (_schedule_token_renewal: nothing else asks for a token).
RenewalNeverStops ==
    \A a \in Accounts :
        pc[a] \in {"refresh", "platforms", "mqtt_start", "unload_platforms"}
            \/ entry[a] = "loaded"
        => current[a] \in renewal \/ "renewal" \in logins[current[a]]

\* A discarded coordinator leaves nothing behind, neither timer nor session nor
\* login, unless a login was under way when it was shut down: such a login sets
\* the timer again, and renews for ever (async_shutdown).
DiscardedLeavesNothing ==
    \A k \in gone \ late :
        /\ k \notin renewal \cup manager \cup history
        /\ logins[k] = {} /\ session[k] # "open"

\* While an account is loaded, the services serve one that has not been unloaded
\* (the same comment: the services are the other accounts' too).
ServicesServeAnAccount ==
    (\E a \in Accounts : entry[a] = "loaded") => serves \notin gone
=============================================================================
