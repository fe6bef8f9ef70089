------------------------------ MODULE EntryProofs ------------------------------
(***************************************************************************)
(* What holds of Entry for any number of accounts and setups, however      *)
(* setups, unloads and logins overlap: accounts keep their services, the   *)
(* login of a coordinator in use is renewed, a discarded one leaves        *)
(* nothing, and a lone account is served.                                  *)
(***************************************************************************)
EXTENDS Entry, TLAPS

\* Every setup has made a coordinator of its own.
OwnCoordinators ==
    /\ gone \cup manager \cup history \subseteq 1..made
    /\ \A a \in Accounts : current[a] \in {None} \cup 1..made
    /\ \A a, b \in Accounts : a # b /\ current[a] = current[b] => current[a] = None

\* From its setup to the end of its shutdown an entry has one, not shut down,
\* that has no manager and no timers of the access log before its first refresh.
HasCoordinator ==
    \A a \in Accounts :
        /\ pc[a] \in SetupAwaits \cup {"unload_platforms", "mqtt_stop"}
               \/ entry[a] = "loaded"
           => current[a] \in Coordinators /\ current[a] \notin gone
        /\ pc[a] \in {"login", "refresh"} => current[a] \notin manager \cup history

\* hass.data[DOMAIN] holds the entries from their first refresh to their unload.
DomainHolds ==
    /\ five => present
    /\ held # {} => present
    /\ \A a \in Accounts :
        pc[a] \in {"platforms", "mqtt_start", "unload_platforms"} \/ entry[a] = "loaded"
        => a \in held

\* A shutdown that waits for MQTT to stop has left no timer and no login, unless
\* it was late.
StoppingLeavesNothing ==
    \A a \in Accounts :
        pc[a] = "mqtt_stop" /\ current[a] \notin late
        => current[a] \notin renewal \cup manager /\ logins[current[a]] = {}

EntryInv ==
    /\ OwnCoordinators /\ HasCoordinator /\ DomainHolds /\ StoppingLeavesNothing
    /\ LoadedHaveServices /\ FiveGoWithLast /\ RenewalNeverStops
    /\ DiscardedLeavesNothing

-----------------------------------------------------------------------------
(* Types.                                                                  *)

\* A setup that begins has a new number to give.
LEMMA NewCoordinator ==
    TypeOK /\ made < MaxSetups
    => made + 1 \in Coordinators /\ made + 1 \in 0..MaxSetups /\ made + 1 \notin 1..made
       /\ 1..made \subseteq 1..(made + 1) /\ made + 1 # None /\ made + 1 \in 1..(made + 1)
BY EntryAssumption DEF TypeOK, Coordinators, None

\* The types hold initially.
LEMMA InitTypeOK == Init => TypeOK
<1> SUFFICES ASSUME Init PROVE TypeOK
  OBVIOUS
<1>1. /\ entry \in [Accounts -> {"not_loaded", "setup", "loaded", "unloading", "stuck"}]
      /\ pc \in [Accounts -> {"idle"} \cup SetupAwaits \cup UnloadAwaits]
      /\ current \in [Accounts -> {None} \cup Coordinators]
  BY DEF Init
<1>2. /\ logins \in [Coordinators -> SUBSET Askers]
      /\ session \in [Coordinators -> {"none", "open", "closed"}]
      /\ made \in 0..MaxSetups
  BY EntryAssumption DEF Init
<1>3. \A a \in Accounts : pc[a] = "idle" /\ entry[a] = "not_loaded"
  BY DEF Init
<1> QED
  BY <1>1, <1>2, <1>3 DEF Init, TypeOK, SetupAwaits, UnloadAwaits

\* The operations of Home Assistant on an entry,
LEMMA SetupTypeOK ==
    ASSUME TypeOK, HasCoordinator, NEW a \in Accounts, SetupStep(a) PROVE TypeOK'
<1> USE DEF TypeOK, GoOn, SetupAwaits, UnloadAwaits, serviceVars, coordinatorVars
<1>1. CASE SetupBegins(a)
  BY <1>1, NewCoordinator DEF SetupBegins
<1>2. CASE FirstLogin(a)
  BY <1>2 DEF FirstLogin, HasCoordinator
<1>3. CASE SetupFails(a)
  BY <1>3 DEF SetupFails, HasCoordinator, Late
<1>4. CASE FirstRefreshDone(a)
  BY <1>4 DEF FirstRefreshDone
<1>5. CASE PlatformsDone(a)
  BY <1>5 DEF PlatformsDone, HasCoordinator
<1>6. CASE SetupDone(a)
  BY <1>6 DEF SetupDone, HasCoordinator
<1> QED
  BY <1>1, <1>2, <1>3, <1>4, <1>5, <1>6 DEF SetupStep

\* a setup and an unload, keep the types.
LEMMA UnloadTypeOK ==
    ASSUME TypeOK, HasCoordinator, NEW a \in Accounts, UnloadStep(a) PROVE TypeOK'
<1> USE DEF TypeOK, GoOn, SetupAwaits, UnloadAwaits, serviceVars, coordinatorVars
<1>1. CASE UnloadBegins(a)
  BY <1>1 DEF UnloadBegins
<1>2. CASE PlatformsStay(a)
  BY <1>2 DEF PlatformsStay
<1>3. CASE PlatformsUnloaded(a)
  BY <1>3 DEF PlatformsUnloaded, HasCoordinator, Late
<1>4. CASE MqttStopped(a)
  BY <1>4 DEF MqttStopped, HasCoordinator
<1>5. CASE UnloadEnds(a)
  BY <1>5 DEF UnloadEnds
<1>6. CASE UnloadRaises(a)
  BY <1>6 DEF UnloadRaises
<1> QED
  BY <1>1, <1>2, <1>3, <1>4, <1>5, <1>6 DEF UnloadStep

\* and the logins of a coordinator.
LEMMA LoginTypeOK ==
    ASSUME TypeOK, NEW k \in Coordinators, LoginStep(k) PROVE TypeOK'
<1> USE DEF TypeOK, taskVars, serviceVars, Ensure, Askers
<1>1. CASE RenewalFires(k)
  BY <1>1 DEF RenewalFires
<1>2. ASSUME NEW asker \in Askers, LoginBegins(k, asker) PROVE TypeOK'
  BY <1>2 DEF LoginBegins
<1>3. ASSUME NEW asker \in Askers, LoginSucceeds(k, asker) PROVE TypeOK'
  BY <1>3 DEF LoginSucceeds
<1>4. ASSUME NEW asker \in Askers, LoginFails(k, asker) PROVE TypeOK'
  BY <1>4 DEF LoginFails
<1> QED
  BY <1>1, <1>2, <1>3, <1>4 DEF LoginStep

\* So does every step.
LEMMA NextTypeOK == TypeOK /\ HasCoordinator /\ [Next]_vars => TypeOK'
<1>1. CASE UNCHANGED vars
  BY <1>1 DEF vars, taskVars, serviceVars, coordinatorVars, TypeOK
<1> QED
  BY <1>1, SetupTypeOK, UnloadTypeOK, LoginTypeOK DEF Next

-----------------------------------------------------------------------------
(* The invariant.                                                          *)

\* What a setup or unload of one entry leaves to the others.
LEMMA OthersLeftAlone ==
    ASSUME TypeOK, NEW a \in Accounts, SetupStep(a) \/ UnloadStep(a)
    PROVE  /\ \A b \in Accounts \ {a} :
                pc'[b] = pc[b] /\ entry'[b] = entry[b] /\ current'[b] = current[b]
           /\ logins' = logins
<1> USE DEF TypeOK, GoOn, coordinatorVars
<1>1. CASE SetupStep(a)
  BY <1>1 DEF SetupStep, SetupBegins, FirstLogin, SetupFails, FirstRefreshDone,
              PlatformsDone, SetupDone
<1>2. CASE UnloadStep(a)
  BY <1>2 DEF UnloadStep, UnloadBegins, PlatformsStay, PlatformsUnloaded, MqttStopped,
              UnloadEnds, UnloadRaises
<1> QED
  BY <1>1, <1>2

\* The steps of a setup preserve the invariant,
LEMMA SetupKeeps ==
    ASSUME TypeOK, EntryInv, NEW a \in Accounts, SetupStep(a) PROVE EntryInv'
<1>0. /\ OwnCoordinators /\ HasCoordinator /\ DomainHolds /\ StoppingLeavesNothing
      /\ LoadedHaveServices /\ FiveGoWithLast /\ RenewalNeverStops
      /\ DiscardedLeavesNothing
  BY DEF EntryInv
<1> USE OthersLeftAlone DEF TypeOK, GoOn, SetupAwaits, UnloadAwaits, taskVars,
        serviceVars, coordinatorVars
<1>1. CASE SetupBegins(a)
  <2> USE <1>0, <1>1, NewCoordinator DEF SetupBegins
  <2>1. OwnCoordinators'
    BY DEF OwnCoordinators
  <2>2. HasCoordinator' /\ DomainHolds' /\ StoppingLeavesNothing'
    BY DEF OwnCoordinators, HasCoordinator, DomainHolds, StoppingLeavesNothing
  <2>3. LoadedHaveServices' /\ FiveGoWithLast' /\ RenewalNeverStops'
    BY DEF LoadedHaveServices, FiveGoWithLast, RenewalNeverStops
  <2>4. DiscardedLeavesNothing'
    BY DEF DiscardedLeavesNothing, OwnCoordinators
  <2> QED
    BY <2>1, <2>2, <2>3, <2>4 DEF EntryInv
<1>2. CASE FirstLogin(a)
  <2> USE <1>0, <1>2 DEF FirstLogin
  <2>1. OwnCoordinators' /\ HasCoordinator' /\ DomainHolds'
    BY DEF OwnCoordinators, HasCoordinator, DomainHolds
  <2>0. current[a] \in Coordinators /\ current[a] # None
    BY DEF HasCoordinator, Coordinators, None
  <2>2. StoppingLeavesNothing'
    BY <2>0 DEF StoppingLeavesNothing, OwnCoordinators
  <2>3. LoadedHaveServices' /\ FiveGoWithLast' /\ RenewalNeverStops'
    BY DEF LoadedHaveServices, FiveGoWithLast, RenewalNeverStops
  <2>4. DiscardedLeavesNothing'
    BY DEF DiscardedLeavesNothing, HasCoordinator
  <2> QED
    BY <2>1, <2>2, <2>3, <2>4 DEF EntryInv
<1>3. CASE SetupFails(a)
  <2> USE <1>0, <1>3 DEF SetupFails, Late
  <2>0. current[a] \in Coordinators /\ current[a] # None /\ current[a] \in 1..made
    BY DEF HasCoordinator, Coordinators, None, OwnCoordinators
  <2>1. OwnCoordinators'
    BY <2>0 DEF OwnCoordinators
  <2>2. HasCoordinator' /\ DomainHolds'
    BY <2>0 DEF OwnCoordinators, HasCoordinator, DomainHolds
  <2>3. StoppingLeavesNothing'
    BY <2>0 DEF StoppingLeavesNothing, OwnCoordinators
  <2>4. LoadedHaveServices' /\ FiveGoWithLast'
    BY DEF LoadedHaveServices, FiveGoWithLast
  <2>5. RenewalNeverStops'
    BY <2>0 DEF RenewalNeverStops, OwnCoordinators
  <2>6. DiscardedLeavesNothing'
    BY <2>0 DEF DiscardedLeavesNothing, HasCoordinator
  <2> QED
    BY <2>1, <2>2, <2>3, <2>4, <2>5, <2>6 DEF EntryInv
<1>4. CASE FirstRefreshDone(a)
  <2> USE <1>0, <1>4 DEF FirstRefreshDone
  <2>1. OwnCoordinators' /\ HasCoordinator' /\ DomainHolds' /\ StoppingLeavesNothing'
    BY DEF OwnCoordinators, HasCoordinator, DomainHolds, StoppingLeavesNothing
  <2>2. LoadedHaveServices' /\ FiveGoWithLast' /\ RenewalNeverStops'
    BY DEF LoadedHaveServices, FiveGoWithLast, RenewalNeverStops
  <2>3. DiscardedLeavesNothing'
    BY DEF DiscardedLeavesNothing
  <2> QED
    BY <2>1, <2>2, <2>3 DEF EntryInv
<1>5. CASE PlatformsDone(a)
  <2> USE <1>0, <1>5 DEF PlatformsDone
  <2>0. current[a] \in Coordinators /\ current[a] # None /\ current[a] \in 1..made
        /\ current[a] \notin gone
    BY DEF HasCoordinator, Coordinators, None, OwnCoordinators
  <2>1. OwnCoordinators'
    BY <2>0 DEF OwnCoordinators
  <2>2. HasCoordinator' /\ DomainHolds' /\ StoppingLeavesNothing'
    BY <2>0 DEF OwnCoordinators, HasCoordinator, DomainHolds, StoppingLeavesNothing
  <2>3. LoadedHaveServices' /\ FiveGoWithLast' /\ RenewalNeverStops'
    BY DEF LoadedHaveServices, FiveGoWithLast, RenewalNeverStops
  <2>4. DiscardedLeavesNothing'
    BY <2>0 DEF DiscardedLeavesNothing
  <2> QED
    BY <2>1, <2>2, <2>3, <2>4 DEF EntryInv
<1>6. CASE SetupDone(a)
  <2> USE <1>0, <1>6 DEF SetupDone
  <2>1. OwnCoordinators' /\ HasCoordinator' /\ DomainHolds' /\ StoppingLeavesNothing'
    BY DEF OwnCoordinators, HasCoordinator, DomainHolds, StoppingLeavesNothing
  <2>2. LoadedHaveServices' /\ FiveGoWithLast' /\ RenewalNeverStops'
    BY DEF LoadedHaveServices, FiveGoWithLast, RenewalNeverStops, DomainHolds
  <2>3. DiscardedLeavesNothing'
    BY DEF DiscardedLeavesNothing
  <2> QED
    BY <2>1, <2>2, <2>3 DEF EntryInv
<1> QED
  BY <1>1, <1>2, <1>3, <1>4, <1>5, <1>6 DEF SetupStep

\* the steps of an unload,
LEMMA UnloadKeeps ==
    ASSUME TypeOK, EntryInv, NEW a \in Accounts, UnloadStep(a) PROVE EntryInv'
<1>0. /\ OwnCoordinators /\ HasCoordinator /\ DomainHolds /\ StoppingLeavesNothing
      /\ LoadedHaveServices /\ FiveGoWithLast /\ RenewalNeverStops
      /\ DiscardedLeavesNothing
  BY DEF EntryInv
<1> USE OthersLeftAlone DEF TypeOK, GoOn, SetupAwaits, UnloadAwaits, taskVars,
        serviceVars, coordinatorVars
<1>1. CASE UnloadBegins(a)
  <2> USE <1>0, <1>1 DEF UnloadBegins
  <2>1. OwnCoordinators' /\ HasCoordinator' /\ DomainHolds' /\ StoppingLeavesNothing'
    BY DEF OwnCoordinators, HasCoordinator, DomainHolds, StoppingLeavesNothing
  <2>2. LoadedHaveServices' /\ FiveGoWithLast' /\ RenewalNeverStops'
    BY DEF LoadedHaveServices, FiveGoWithLast, RenewalNeverStops
  <2>3. DiscardedLeavesNothing'
    BY DEF DiscardedLeavesNothing
  <2> QED
    BY <2>1, <2>2, <2>3 DEF EntryInv
<1>2. CASE PlatformsStay(a)
  <2> USE <1>0, <1>2 DEF PlatformsStay
  <2>1. OwnCoordinators' /\ HasCoordinator' /\ DomainHolds' /\ StoppingLeavesNothing'
    BY DEF OwnCoordinators, HasCoordinator, DomainHolds, StoppingLeavesNothing
  <2>2. LoadedHaveServices' /\ FiveGoWithLast' /\ RenewalNeverStops'
    BY DEF LoadedHaveServices, FiveGoWithLast, RenewalNeverStops
  <2>3. DiscardedLeavesNothing'
    BY DEF DiscardedLeavesNothing
  <2> QED
    BY <2>1, <2>2, <2>3 DEF EntryInv
<1>3. CASE PlatformsUnloaded(a)
  <2> USE <1>0, <1>3 DEF PlatformsUnloaded, Late
  <2>0. current[a] \in Coordinators /\ current[a] # None /\ current[a] \in 1..made
        /\ current[a] \notin gone
    BY DEF HasCoordinator, Coordinators, None, OwnCoordinators
  <2>1. OwnCoordinators' /\ HasCoordinator' /\ DomainHolds'
    BY <2>0 DEF OwnCoordinators, HasCoordinator, DomainHolds
  <2>2. StoppingLeavesNothing'
    BY <2>0 DEF StoppingLeavesNothing, OwnCoordinators
  <2>3. LoadedHaveServices' /\ FiveGoWithLast'
    BY DEF LoadedHaveServices, FiveGoWithLast
  <2>4. RenewalNeverStops'
    BY <2>0 DEF RenewalNeverStops, OwnCoordinators
  <2>5. DiscardedLeavesNothing'
    BY <2>0 DEF DiscardedLeavesNothing
  <2> QED
    BY <2>1, <2>2, <2>3, <2>4, <2>5 DEF EntryInv
<1>4. CASE MqttStopped(a)
  <2> USE <1>0, <1>4 DEF MqttStopped
  <2>0. current[a] \in Coordinators /\ current[a] # None /\ current[a] \in 1..made
    BY DEF HasCoordinator, Coordinators, None, OwnCoordinators
  <2>1. OwnCoordinators'
    BY <2>0 DEF OwnCoordinators
  <2>2. HasCoordinator' /\ DomainHolds' /\ StoppingLeavesNothing'
    BY <2>0 DEF OwnCoordinators, HasCoordinator, DomainHolds, StoppingLeavesNothing
  <2>3. LoadedHaveServices' /\ FiveGoWithLast' /\ RenewalNeverStops'
    BY DEF LoadedHaveServices, FiveGoWithLast, RenewalNeverStops
  <2>4. DiscardedLeavesNothing'
    BY <2>0 DEF DiscardedLeavesNothing, StoppingLeavesNothing
  <2> QED
    BY <2>1, <2>2, <2>3, <2>4 DEF EntryInv
<1>5. CASE UnloadEnds(a)
  <2> USE <1>0, <1>5 DEF UnloadEnds
  <2>1. OwnCoordinators' /\ HasCoordinator' /\ StoppingLeavesNothing'
    BY DEF OwnCoordinators, HasCoordinator, StoppingLeavesNothing
  <2>2. DomainHolds' /\ LoadedHaveServices'
    BY DEF DomainHolds, LoadedHaveServices
  <2>3. FiveGoWithLast'
    <3>1. five' => held' # {}
      OBVIOUS
    <3> QED
      BY <3>1 DEF FiveGoWithLast
  <2>5. RenewalNeverStops'
    BY DEF RenewalNeverStops
  <2>4. DiscardedLeavesNothing'
    BY DEF DiscardedLeavesNothing
  <2> QED
    BY <2>1, <2>2, <2>3, <2>4, <2>5 DEF EntryInv
<1>6. CASE UnloadRaises(a)
  <2> USE <1>0, <1>6 DEF UnloadRaises
  <2>1. OwnCoordinators' /\ HasCoordinator' /\ DomainHolds' /\ StoppingLeavesNothing'
    BY DEF OwnCoordinators, HasCoordinator, DomainHolds, StoppingLeavesNothing
  <2>2. LoadedHaveServices' /\ FiveGoWithLast' /\ RenewalNeverStops'
    BY DEF LoadedHaveServices, FiveGoWithLast, RenewalNeverStops, DomainHolds
  <2>3. DiscardedLeavesNothing'
    BY DEF DiscardedLeavesNothing
  <2> QED
    BY <2>1, <2>2, <2>3 DEF EntryInv
<1> QED
  BY <1>1, <1>2, <1>3, <1>4, <1>5, <1>6 DEF UnloadStep

\* and the logins and their renewals.
LEMMA LoginKeeps ==
    ASSUME TypeOK, EntryInv, NEW k \in Coordinators, LoginStep(k) PROVE EntryInv'
<1>0. /\ OwnCoordinators /\ HasCoordinator /\ DomainHolds /\ StoppingLeavesNothing
      /\ LoadedHaveServices /\ FiveGoWithLast /\ RenewalNeverStops
      /\ DiscardedLeavesNothing
  BY DEF EntryInv
<1>1. UNCHANGED <<taskVars, serviceVars, manager, history, gone, late>>
  BY DEF LoginStep, RenewalFires, LoginBegins, LoginSucceeds, LoginFails
<1>2. /\ OwnCoordinators' /\ HasCoordinator' /\ DomainHolds'
      /\ LoadedHaveServices' /\ FiveGoWithLast'
  BY <1>0, <1>1 DEF OwnCoordinators, HasCoordinator, DomainHolds, LoadedHaveServices,
                    FiveGoWithLast, taskVars, serviceVars
<1> USE <1>0, <1>1 DEF TypeOK, taskVars, Ensure
<1>3. CASE RenewalFires(k)
  <2> USE <1>3 DEF RenewalFires
  <2>1. StoppingLeavesNothing' /\ RenewalNeverStops'
    BY DEF StoppingLeavesNothing, RenewalNeverStops
  <2>2. DiscardedLeavesNothing'
    BY DEF DiscardedLeavesNothing
  <2> QED
    BY <1>2, <2>1, <2>2 DEF EntryInv
<1>4. ASSUME NEW asker \in Askers, LoginBegins(k, asker) PROVE EntryInv'
  <2> USE <1>4 DEF LoginBegins
  <2>0. PICK a \in Accounts : current[a] = k /\ k \notin gone /\ pc[a] # "mqtt_stop"
    BY DEF InUse
  <2>1. \A b \in Accounts : current[b] = k => b = a
    BY <2>0 DEF OwnCoordinators, Coordinators, None
  <2>2. StoppingLeavesNothing'
    BY <2>0, <2>1 DEF StoppingLeavesNothing
  <2>3. RenewalNeverStops'
    BY DEF RenewalNeverStops
  <2>4. DiscardedLeavesNothing'
    BY <2>0 DEF DiscardedLeavesNothing
  <2> QED
    BY <1>2, <2>2, <2>3, <2>4 DEF EntryInv
<1>5. ASSUME NEW asker \in Askers, LoginSucceeds(k, asker) PROVE EntryInv'
  <2>0. /\ renewal \subseteq renewal' /\ renewal' \subseteq renewal \cup {k}
        /\ logins[k] # {} /\ session' = session
        /\ \A m \in Coordinators : logins'[m] \subseteq logins[m]
        /\ \A m \in Coordinators : "renewal" \in logins[m]
                                   => "renewal" \in logins'[m] \/ m \in renewal'
    BY <1>5 DEF LoginSucceeds
  <2>1. StoppingLeavesNothing'
    BY <2>0 DEF StoppingLeavesNothing, HasCoordinator
  <2>2. RenewalNeverStops'
    BY <2>0 DEF RenewalNeverStops, HasCoordinator, SetupAwaits
  <2>3. DiscardedLeavesNothing'
    BY <2>0 DEF DiscardedLeavesNothing
  <2> QED
    BY <1>2, <2>1, <2>2, <2>3 DEF EntryInv
<1>6. ASSUME NEW asker \in Askers, LoginFails(k, asker) PROVE EntryInv'
  <2>0. /\ renewal \subseteq renewal' /\ renewal' \subseteq renewal \cup {k}
        /\ logins[k] # {} /\ session' = session
        /\ \A m \in Coordinators : logins'[m] \subseteq logins[m]
        /\ \A m \in Coordinators : "renewal" \in logins[m]
                                   => "renewal" \in logins'[m] \/ m \in renewal'
    BY <1>6 DEF LoginFails
  <2>1. StoppingLeavesNothing'
    BY <2>0 DEF StoppingLeavesNothing, HasCoordinator
  <2>2. RenewalNeverStops'
    BY <2>0 DEF RenewalNeverStops, HasCoordinator, SetupAwaits
  <2>3. DiscardedLeavesNothing'
    BY <2>0 DEF DiscardedLeavesNothing
  <2> QED
    BY <1>2, <2>1, <2>2, <2>3 DEF EntryInv
<1> QED
  BY <1>3, <1>4, <1>5, <1>6 DEF LoginStep

\* The types and the invariant hold of every behavior.
LEMMA Invariance == Spec => [](TypeOK /\ EntryInv)
<1>1. Init => TypeOK /\ EntryInv
  <2> SUFFICES ASSUME Init PROVE EntryInv
    BY InitTypeOK
  <2>1. OwnCoordinators /\ HasCoordinator /\ DomainHolds /\ StoppingLeavesNothing
    BY DEF Init, OwnCoordinators, HasCoordinator, DomainHolds, StoppingLeavesNothing,
           SetupAwaits, None
  <2>2. LoadedHaveServices /\ FiveGoWithLast /\ RenewalNeverStops /\ DiscardedLeavesNothing
    BY DEF Init, LoadedHaveServices, FiveGoWithLast, RenewalNeverStops,
           DiscardedLeavesNothing
  <2> QED
    BY <2>1, <2>2 DEF EntryInv
<1>2. TypeOK /\ EntryInv /\ [Next]_vars => TypeOK' /\ EntryInv'
  <2> SUFFICES ASSUME TypeOK, EntryInv, [Next]_vars PROVE TypeOK' /\ EntryInv'
    OBVIOUS
  <2>1. TypeOK'
    BY NextTypeOK DEF EntryInv
  <2>2. CASE UNCHANGED vars
    <3> USE <2>2 DEF vars, taskVars, serviceVars, coordinatorVars
    <3>1. OwnCoordinators' /\ HasCoordinator' /\ DomainHolds' /\ StoppingLeavesNothing'
      BY DEF EntryInv, OwnCoordinators, HasCoordinator, DomainHolds, StoppingLeavesNothing
    <3>2. LoadedHaveServices' /\ FiveGoWithLast' /\ RenewalNeverStops'
      BY DEF EntryInv, LoadedHaveServices, FiveGoWithLast, RenewalNeverStops
    <3>3. DiscardedLeavesNothing'
      BY DEF EntryInv, DiscardedLeavesNothing
    <3> QED
      BY <2>1, <3>1, <3>2, <3>3 DEF EntryInv
  <2> QED
    BY <2>1, <2>2, SetupKeeps, UnloadKeeps, LoginKeeps DEF Next
<1> QED
  BY <1>1, <1>2, PTL DEF Spec

\* The types, for any number of accounts: an await of a setup or an unload is
\* only ever that of an entry being set up or unloaded.
THEOREM TypesHold == Spec => []TypeOK
BY Invariance, PTL

\* A loaded account has its services, however many others are set up, fail and
\* are unloaded beside it (_register_services, async_unload_entry).
THEOREM ServicesStay == Spec => []LoadedHaveServices
BY Invariance, PTL DEF EntryInv

\* The five services are there only for an entry in hass.data, or for an unload
\* that is about to remove them (async_unload_entry).
THEOREM ServicesGo == Spec => []FiveGoWithLast
BY Invariance, PTL DEF EntryInv

\* A coordinator in use has its renewal set or under way, however its logins
\* overlap and fail (_schedule_token_renewal, _async_renew_token).
THEOREM RenewalsGoOn == Spec => []RenewalNeverStops
BY Invariance, PTL DEF EntryInv

\* A coordinator shut down with no login under way leaves no timer, session,
\* manager or login behind (async_shutdown).
THEOREM DiscardIsClean == Spec => []DiscardedLeavesNothing
BY Invariance, PTL DEF EntryInv

-----------------------------------------------------------------------------
(* The services of a lone account.                                         *)

\* With one account the services are of the setup that ended last.
Lone == \A a, b \in Accounts : a = b

ServesItsOwn == \A a \in Accounts : entry[a] = "loaded" => serves = current[a]

\* A lone account that is loaded is served.
LEMMA NextServesItsOwn ==
    Lone /\ TypeOK /\ ServesItsOwn /\ [Next]_vars => ServesItsOwn'
<1> SUFFICES ASSUME Lone, TypeOK, ServesItsOwn, [Next]_vars PROVE ServesItsOwn'
  OBVIOUS
<1> USE DEF GoOn, coordinatorVars, serviceVars, taskVars
<1>1. ASSUME NEW a \in Accounts, SetupStep(a) PROVE ServesItsOwn'
  <2>1. \A b \in Accounts : b = a
    BY DEF Lone
  <2>2. CASE SetupDone(a)
    BY <2>1, <2>2 DEF SetupDone, ServesItsOwn
  <2>3. CASE SetupBegins(a) \/ SetupFails(a)
    BY <2>1, <2>3 DEF SetupBegins, SetupFails, ServesItsOwn, TypeOK
  <2>4. CASE FirstLogin(a) \/ FirstRefreshDone(a) \/ PlatformsDone(a)
    BY <2>4 DEF FirstLogin, FirstRefreshDone, PlatformsDone, ServesItsOwn
  <2> QED
    BY <1>1, <2>2, <2>3, <2>4 DEF SetupStep
<1>2. ASSUME NEW a \in Accounts, UnloadStep(a) PROVE ServesItsOwn'
  <2>1. serves' = serves /\ current' = current
    BY <1>2 DEF UnloadStep, UnloadBegins, PlatformsStay, PlatformsUnloaded, MqttStopped,
                UnloadEnds, UnloadRaises
  <2>2. \A b \in Accounts : entry'[b] = "loaded" => entry[b] = "loaded"
    BY <1>2 DEF UnloadStep, UnloadBegins, PlatformsStay, PlatformsUnloaded, MqttStopped,
                UnloadEnds, UnloadRaises, TypeOK
  <2> QED
    BY <2>1, <2>2 DEF ServesItsOwn
<1>3. ASSUME NEW k \in Coordinators, LoginStep(k) PROVE ServesItsOwn'
  BY <1>3 DEF LoginStep, RenewalFires, LoginBegins, LoginSucceeds, LoginFails, ServesItsOwn
<1>4. CASE UNCHANGED vars
  BY <1>4 DEF vars, ServesItsOwn
<1> QED
  BY <1>1, <1>2, <1>3, <1>4 DEF Next

\* With a single account the services never outlive its coordinator: what the
\* closures of _register_services get wrong takes a second account.
THEOREM LoneAccountIsServed == Lone /\ Spec => []ServicesServeAnAccount
<1> SUFFICES ASSUME Lone PROVE Spec => []ServicesServeAnAccount
  OBVIOUS
<1>1. Init => ServesItsOwn
  BY DEF Init, ServesItsOwn
<1>2. TypeOK /\ ServesItsOwn /\ [Next]_vars => ServesItsOwn'
  BY NextServesItsOwn
<1>3. TypeOK /\ EntryInv /\ ServesItsOwn => ServicesServeAnAccount
  BY DEF EntryInv, HasCoordinator, ServesItsOwn, ServicesServeAnAccount
<1> QED
  BY <1>1, <1>2, <1>3, Invariance, PTL DEF Spec
=============================================================================
