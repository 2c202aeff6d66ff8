------------------------ MODULE OSDDisruptionProofs ------------------------
(***************************************************************************)
(* Proofs about OSDDisruption, for any number of OSDs, nodes, levels and   *)
(* failure domains and any number of failed reconciles.                    *)
(***************************************************************************)
EXTENDS OSDDisruption, TLAPS

\* A steady OSD has a deployment that has booted, and is not under replacement.
SteadyDeployed == \A s \in Steady : osd[s] \in {"up", "down"} /\ s \notin replacing

\* The listing misses the domain of no steady OSD: what it does not hold yet is held back with
\* the OSDs that are not ready, until their nodes are known.
ListingComplete ==
    \A s \in Steady :
        /\ pc = "nodes" => Location[snap.level][s] \in snap.all \/ s \in snap.downOSDs
        /\ pc \in {"health", "block", "default", "unblock", "noout"} =>
               Location[snap.level][s] \in snap.all

\* handleActiveDrains has blocked each domain it has visited, but for the draining one.
VisitedBlocked ==
    pc = "block" => \A d \in snap.all \ todo : d = mem.draining \/ <<snap.level, d>> \in blocking

\* Blocking budgets are deleted wholesale only under a default budget.
UnblockUnderDefault == pc = "unblock" => default.on

Inv == /\ TypeOK
       /\ SteadyDeployed
       /\ ListingComplete
       /\ VisitedBlocked
       /\ UnblockUnderDefault
       /\ OnlyDrainedDomainsExposed

-----------------------------------------------------------------------------
(* The end of a drain: what a reconcile has done by the time it stops.     *)

\* Unless another request is queued, the reconcile works at the level the pools have now.
CurrentLevel == pc \notin {"idle", "requeue"} /\ ~queued => Current(snap.level)

\* A reconcile that keeps the default budget has no draining domain, and has removed blocking
\* budgets and noout from the domains it has visited.
Reopens ==
    /\ pc \in {"default", "unblock"} => mem.draining = NoDomain
    /\ pc = "default" => todo = snap.all
    /\ pc = "unblock" => \A d \in snap.all \ todo : <<snap.level, d>> \notin blocking
    /\ pc = "noout" /\ default.on =>
         /\ mem.draining = NoDomain
         /\ \A d \in snap.all : <<snap.level, d>> \notin blocking
         /\ ~failed => noout \cap (snap.all \ todo) = {}

\* Nothing is left of a drain on the domains of steady OSDs, at the current level.
NothingLeft ==
    /\ cm.draining = NoDomain
    /\ \A l \in Levels : Current(l) =>
         \A d \in DomainsOf(l, Steady) : <<l, d>> \notin blocking /\ d \notin noout

\* What holds when requeuePDBController looks at the default budget, and when it has returned.
Finished ==
    /\ pc = "requeue" /\ ~queued /\ ~failed /\ default.on => NothingLeft
    /\ pc = "idle" /\ ~queued /\ pools # {} =>
         NothingLeft /\ default = [on |-> TRUE, excluded |-> {}]

EndInv == CurrentLevel /\ Reopens /\ Finished

-----------------------------------------------------------------------------
(* Types.                                                                  *)

\* An age stays an age as time passes.
LEMMA OlderType == ASSUME NEW a \in Ages PROVE Older(a) \in Ages
  BY DEF Older, Ages

\* The state map of a cluster without a drain is a state map.
LEMMA NoStateType == NoState \in StateMaps
  BY DEF NoState, StateMaps, Ages

\* The empty view is a snapshot.
LEMMA NoSnapType == NoSnap \in Snapshots
  BY LevelAssumption DEF NoSnap, Snapshots

\* The domains of a set of OSDs at a level are failure domains.
LEMMA DomainsOfType ==
    ASSUME NEW l \in Levels, NEW S, S \subseteq OSDs
    PROVE  DomainsOf(l, S) \subseteq Domains
  BY LocationAssumption DEF DomainsOf

\* Timestamping noout on a domain yields a state map.
LEMMA StampedType ==
    ASSUME mem \in StateMaps, NEW d \in Domains
    PROVE  stamped(d) \in StateMaps
  BY DEF stamped, StateMaps, Ages

\* The type invariant holds initially and is kept by every step.
LEMMA TypeInit == Init => TypeOK
  <1> SUFFICES ASSUME Init PROVE TypeOK
    OBVIOUS
  <1>1. default \in [on : BOOLEAN, excluded : SUBSET OSDs]
    BY DEF Init
  <1>2. cm \in StateMaps /\ mem \in StateMaps /\ snap \in Snapshots
    BY NoStateType, NoSnapType DEF Init
  <1>3. exposed \subseteq Domains \cup {NoDomain}
    BY DEF Init
  <1>4. osd \in [OSDs -> OSDStates]
    BY DEF Init, OSDStates
  <1>5. aborts \in 0..MaxAborts
    BY ChoiceAssumption DEF Init
  <1>6. pgClean \in BOOLEAN /\ failed \in BOOLEAN /\ queued \in BOOLEAN
    BY Zenon DEF Init
  <1> QED
    BY <1>1, <1>2, <1>3, <1>4, <1>5, <1>6 DEF Init, TypeOK, Steps

LEMMA TypeStep == TypeOK /\ [Next]_vars => TypeOK'
  <1> SUFFICES ASSUME TypeOK, [Next]_vars PROVE TypeOK'
    OBVIOUS
  <1> USE DEF TypeOK
  <1>1. CASE Start
    <2>1. snap' \in Snapshots
      BY <1>1, NoSnapType DEF Start, Snapshots, NoSnap
    <2> QED
      BY <1>1, <2>1, Zenon DEF Start, world, budgets, Steps
  <1>2. CASE getOSDFailureDomains
    <2> DEFINE notReady == {o \in Deployed \ replacing : osd[o] # "up"}
    <2>1. snap.level \in Levels
      BY DEF Snapshots
    <2>2. notReady \subseteq OSDs /\ Deployed \subseteq OSDs
      BY DEF Deployed
    <2>3. /\ DomainsOf(snap.level, Deployed \ notReady) \subseteq Domains
          /\ DomainsOf(snap.level, notReady) \subseteq Domains
      BY <2>1, <2>2, DomainsOfType
    <2>4. snap' \in Snapshots
      BY <1>2, <2>2, <2>3, Zenon DEF getOSDFailureDomains, Snapshots
    <2> QED
      BY <1>2, <2>4 DEF getOSDFailureDomains, world, budgets, Steps
  <1>3. CASE hasOSDNodeDrained
    <2> DEFINE known == {o \in snap.downOSDs : osd[o] \notin {"absent", "new"}}
    <2> DEFINE gone == {o \in known : NodeOf[o] \in cordoned}
    <2>1. snap.level \in Levels /\ known \subseteq OSDs /\ gone \subseteq OSDs
      BY DEF Snapshots
    <2>2. DomainsOf(snap.level, known) \subseteq Domains /\ DomainsOf(snap.level, gone) \subseteq Domains
      BY <2>1, DomainsOfType
    <2>3. snap' \in Snapshots
      BY <1>3, <2>2, Zenon DEF hasOSDNodeDrained, Snapshots
    <2> QED
      BY <1>3, <2>3 DEF hasOSDNodeDrained, world, budgets, Steps
  <1>4. CASE reconcilePDBsForOSDs
    <2>1. snap' \in Snapshots
      BY <1>4, NoSnapType, Zenon DEF reconcilePDBsForOSDs, Snapshots, NoSnap
    <2>2. setPDBConfig(cm) \subseteq StateMaps
      <3>1. \A d \in Domains, flag \in BOOLEAN :
              [cm EXCEPT !.draining = d, !.setNoOut = flag, !.since = "recent"] \in StateMaps
        BY Zenon DEF StateMaps, Ages
      <3>2. [cm EXCEPT !.since = "recent"] \in StateMaps
        BY DEF StateMaps, Ages
      <3>3. snap.drained \subseteq Domains /\ snap.down \subseteq Domains
        BY DEF Snapshots
      <3> QED
        BY <3>1, <3>2, <3>3, Zenon DEF setPDBConfig
    <2>3. resetPDBConfig(cm) \in StateMaps
      BY Zenon DEF resetPDBConfig, StateMaps, Ages
    <2>4. [cm EXCEPT !.since = IF @ = "none" THEN "recent" ELSE @] \in StateMaps
      BY DEF StateMaps, Ages
    <2>5. mem' \in StateMaps /\ exclude' \subseteq OSDs
      BY <1>4, <2>2, <2>3, <2>4 DEF reconcilePDBsForOSDs, decide, Snapshots
    <2>6. todo' \subseteq Domains
      BY <1>4 DEF reconcilePDBsForOSDs, Snapshots
    <2> QED
      BY <1>4, <2>1, <2>5, <2>6 DEF reconcilePDBsForOSDs, world, budgets, Steps
  <1>5. CASE handleActiveDrains
    <2>1. blocking' \subseteq Levels \X Domains /\ exposed' \subseteq Domains \cup {NoDomain}
      BY <1>5 DEF handleActiveDrains, createBlockingPDBForOSD, deleteBlockingPDBForOSD, Snapshots
    <2> QED
      BY <1>5, <2>1 DEF handleActiveDrains, world
  <1>6. CASE deleteDefaultPDBforOSD
    BY <1>6 DEF deleteDefaultPDBforOSD, world, Steps, Snapshots, StateMaps
  <1>7. CASE createDefaultPDBforOSD
    BY <1>7 DEF createDefaultPDBforOSD, world, Steps
  <1>8. CASE handleInactiveDrains
    BY <1>8 DEF handleInactiveDrains, world, Steps, Snapshots
  <1>9. CASE updateNoout
    <2>1. \A d \in Domains : [mem EXCEPT !.nooutSince[d] = "none"] \in StateMaps
      BY DEF StateMaps, Ages
    <2>2. mem' \in StateMaps /\ noout' \subseteq Domains /\ todo' \subseteq Domains
      BY <1>9, <2>1, StampedType DEF updateNoout
    <2> QED
      BY <1>9, <2>2 DEF updateNoout, world, budgets
  <1>10. CASE updateNooutFails
    <2>1. mem' \in StateMaps
      BY <1>10, StampedType DEF updateNooutFails
    <2> QED
      BY <1>10, <2>1, ChoiceAssumption DEF updateNooutFails, world, budgets
  <1>11. CASE savePDBState
    BY <1>11, NoStateType, NoSnapType DEF savePDBState, world, budgets, Steps
  <1>12. CASE requeuePDBController
    <2>1. queued' \in BOOLEAN
      BY <1>12 DEF requeuePDBController, Return
    <2> QED
      BY <1>12, <2>1, NoStateType, NoSnapType, Zenon DEF requeuePDBController, Return, world, budgets, Steps
  <1>13. CASE Abort
    <2>1. queued' \in BOOLEAN
      BY <1>13 DEF Abort, Return
    <2>2. aborts' \in 0..MaxAborts
      BY <1>13, ChoiceAssumption DEF Abort
    <2> QED
      BY <1>13, <2>1, <2>2, NoStateType, NoSnapType, Zenon DEF Abort, Return, world, budgets, Steps
  <1>14. CASE Environment
    <2> USE DEF controller, budgets, run
    <2>1. ASSUME NEW n \in Nodes, Cordon(n) \/ Uncordon(n) PROVE TypeOK'
      BY <2>1 DEF Cordon, Uncordon
    <2>2. ASSUME NEW o \in OSDs, Evict(o) \/ Crash(o) PROVE TypeOK'
      BY <2>2 DEF Evict, Crash, GoDown, Notify, OSDStates, NoDisruptionLeft, DefaultOn
    <2>3. ASSUME NEW o \in OSDs, Boot(o) \/ Add(o) \/ Remove(o) \/ Park(o) \/ Recreate(o) PROVE TypeOK'
      BY <2>3 DEF Boot, Add, Remove, Park, Recreate, Become, Notify, OSDStates, NoDisruptionLeft,
         DefaultOn
    <2>4. ASSUME NEW o \in OSDs, MarkReplacing(o) \/ Recover(o) PROVE TypeOK'
      BY <2>4 DEF MarkReplacing, Recover
    <2>5. ASSUME NEW P \in PoolChoices, ChangePools(P) PROVE TypeOK'
      BY <2>5 DEF ChangePools
    <2>6. ASSUME NEW d \in Expiring, AgeNoout(d) PROVE TypeOK'
      <3>1. d \in Domains
        BY ChoiceAssumption
      <3>2. cm' \in StateMaps /\ mem' \in StateMaps
        BY <2>6, <3>1, OlderType DEF AgeNoout, StateMaps
      <3> QED
        BY <2>6, <3>2 DEF AgeNoout, world
    <2>7. ASSUME Report PROVE TypeOK'
      BY <2>7 DEF Report
    <2>8. ASSUME AgeDrain PROVE TypeOK'
      <3>1. cm' \in StateMaps /\ mem' \in StateMaps
        BY <2>8, OlderType DEF AgeDrain, StateMaps
      <3> QED
        BY <2>8, <3>1 DEF AgeDrain, world
    <2> QED
      BY <1>14, <2>1, <2>2, <2>3, <2>4, <2>5, <2>6, <2>7, <2>8 DEF Environment
  <1>15. CASE UNCHANGED vars
    BY <1>15 DEF vars, world, controller, budgets, run
  <1> QED
    BY <1>1, <1>2, <1>3, <1>4, <1>5, <1>6, <1>7, <1>8, <1>9, <1>10, <1>11, <1>12, <1>13, <1>14,
       <1>15, Zenon DEF Next, Controller

\* Types of the controller's variables and of its surroundings, at every moment.
THEOREM TypeCorrect == Spec => []TypeOK
  BY TypeInit, TypeStep, PTL DEF Spec

-----------------------------------------------------------------------------
(* Coverage. Each part of Inv is kept by the steps that can disturb it.    *)

\* A step that leaves the budgets alone exposes no OSD.
LEMMA BudgetsUnchanged ==
    ASSUME OnlyDrainedDomainsExposed, UNCHANGED budgets
    PROVE  OnlyDrainedDomainsExposed'
  BY DEF OnlyDrainedDomainsExposed, budgets, Uncovered, BlockingOn, DefaultOn, InSteadyDomain

\* The OSDs that are steady stay deployed: only the others are added, removed and replaced.
LEMMA SteadyStep == TypeOK /\ SteadyDeployed /\ [Next]_vars => SteadyDeployed'
  <1> SUFFICES ASSUME TypeOK, SteadyDeployed, [Next]_vars PROVE SteadyDeployed'
    OBVIOUS
  <1> USE DEF SteadyDeployed, TypeOK
  <1>1. CASE Controller \/ updateNooutFails \/ Abort
    <2>1. UNCHANGED world
      BY <1>1 DEF Controller, updateNooutFails, Abort, Return, Start, getOSDFailureDomains,
         hasOSDNodeDrained, reconcilePDBsForOSDs, handleActiveDrains, deleteDefaultPDBforOSD,
         createDefaultPDBforOSD, handleInactiveDrains, updateNoout, savePDBState,
         requeuePDBController
    <2> QED
      BY <2>1 DEF world
  <1>2. CASE Environment
    <2>1. ASSUME NEW o \in OSDs, Evict(o) \/ Crash(o) PROVE SteadyDeployed'
      BY <2>1, OSDAssumption DEF Evict, Crash, GoDown
    <2>2. ASSUME NEW o \in OSDs, Boot(o) \/ Add(o) \/ Remove(o) \/ Park(o) \/ Recreate(o)
          PROVE  SteadyDeployed'
      BY <2>2, OSDAssumption DEF Boot, Add, Remove, Park, Recreate, Become
    <2>3. ASSUME NEW o \in OSDs, MarkReplacing(o) PROVE SteadyDeployed'
      BY <2>3 DEF MarkReplacing
    <2> QED
      BY <1>2, <2>1, <2>2, <2>3 DEF Environment, Cordon, Uncordon, Recover, Report, ChangePools,
         AgeDrain, AgeNoout, world
  <1>3. CASE UNCHANGED vars
    BY <1>3 DEF vars, world
  <1> QED
    BY <1>1, <1>2, <1>3 DEF Next

\* The listing of the deployments and the reading of the nodes between them record the failure
\* domain of every steady OSD.
LEMMA ListingStep ==
    TypeOK /\ SteadyDeployed /\ ListingComplete /\ [Next]_vars => ListingComplete'
  <1> SUFFICES ASSUME TypeOK, SteadyDeployed, ListingComplete, [Next]_vars,
                      NEW s \in Steady
               PROVE  /\ pc' = "nodes" => \/ Location[snap'.level][s] \in snap'.all
                                         \/ s \in snap'.downOSDs
                      /\ pc' \in {"health", "block", "default", "unblock", "noout"} =>
                             Location[snap'.level][s] \in snap'.all
    BY DEF ListingComplete
  <1> USE DEF ListingComplete
  <1>1. CASE getOSDFailureDomains
    <2>1. s \in Deployed /\ s \notin replacing
      BY OSDAssumption DEF SteadyDeployed, Deployed
    <2>2. /\ snap'.level = snap.level
          /\ \/ Location[snap.level][s] \in snap'.all
             \/ s \in snap'.downOSDs
      BY <1>1, <2>1 DEF getOSDFailureDomains, DomainsOf, TypeOK, Snapshots
    <2> QED
      BY <1>1, <2>2 DEF getOSDFailureDomains
  <1>2. CASE hasOSDNodeDrained
    <2>1. osd[s] \notin {"absent", "new"}
      BY DEF SteadyDeployed
    <2>2. Location[snap.level][s] \in snap'.all /\ snap'.level = snap.level
      BY <1>2, <2>1 DEF hasOSDNodeDrained, DomainsOf, TypeOK, Snapshots
    <2> QED
      BY <1>2, <2>2 DEF hasOSDNodeDrained
  <1>3. CASE reconcilePDBsForOSDs
    <2>1. snap'.level = snap.level /\ snap'.all = snap.all
      BY <1>3 DEF reconcilePDBsForOSDs, NoSnap
    <2> QED
      BY <1>3, <2>1 DEF reconcilePDBsForOSDs
  <1>4. CASE Start
    BY <1>4 DEF Start
  <1>5. CASE \/ handleActiveDrains \/ deleteDefaultPDBforOSD \/ createDefaultPDBforOSD
            \/ handleInactiveDrains \/ updateNoout \/ updateNooutFails \/ savePDBState
            \/ requeuePDBController \/ Abort
    BY <1>5 DEF handleActiveDrains, deleteDefaultPDBforOSD, createDefaultPDBforOSD,
       handleInactiveDrains, updateNoout, updateNooutFails, savePDBState, requeuePDBController,
       Abort, Return
  <1>6. CASE Environment
    BY <1>6 DEF Environment, Cordon, Uncordon, Evict, Crash, GoDown, Boot, Add, Remove, Park,
       Recreate, Become, MarkReplacing, Recover, Report, ChangePools, AgeDrain, AgeNoout,
       controller, run
  <1>7. CASE UNCHANGED vars
    BY <1>7 DEF vars, controller, run
  <1> QED
    BY <1>1, <1>2, <1>3, <1>4, <1>5, <1>6, <1>7 DEF Next, Controller

\* A domain that handleActiveDrains has visited is blocked until the default budget goes.
LEMMA VisitedStep == TypeOK /\ VisitedBlocked /\ [Next]_vars => VisitedBlocked'
  <1> SUFFICES ASSUME TypeOK, VisitedBlocked, [Next]_vars PROVE VisitedBlocked'
    OBVIOUS
  <1> USE DEF VisitedBlocked
  <1>1. CASE handleActiveDrains
    BY <1>1 DEF handleActiveDrains, createBlockingPDBForOSD, deleteBlockingPDBForOSD
  <1>2. CASE reconcilePDBsForOSDs
    BY <1>2 DEF reconcilePDBsForOSDs, NoSnap
  <1>3. CASE \/ Start \/ getOSDFailureDomains \/ hasOSDNodeDrained \/ deleteDefaultPDBforOSD
            \/ createDefaultPDBforOSD \/ handleInactiveDrains \/ updateNoout \/ updateNooutFails
            \/ savePDBState \/ requeuePDBController \/ Abort
    BY <1>3 DEF Start, getOSDFailureDomains, hasOSDNodeDrained, deleteDefaultPDBforOSD,
       createDefaultPDBforOSD, handleInactiveDrains, updateNoout, updateNooutFails, savePDBState,
       requeuePDBController, Abort, Return
  <1>4. CASE AgeDrain \/ \E d \in Expiring : AgeNoout(d)
    BY <1>4 DEF AgeDrain, AgeNoout, budgets, TypeOK, StateMaps
  <1>5. CASE Environment /\ ~AgeDrain /\ ~\E d \in Expiring : AgeNoout(d)
    BY <1>5 DEF Environment, Cordon, Uncordon, Evict, Crash, GoDown, Boot, Add, Remove, Park,
       Recreate, Become, MarkReplacing, Recover, Report, ChangePools, controller, budgets, run
  <1>6. CASE UNCHANGED vars
    BY <1>6 DEF vars, controller, budgets, run
  <1> QED
    BY <1>1, <1>2, <1>3, <1>4, <1>5, <1>6, Zenon DEF Next, Controller

\* handleInactiveDrains deletes blocking budgets with the default budget in place.
LEMMA UnblockStep == TypeOK /\ UnblockUnderDefault /\ [Next]_vars => UnblockUnderDefault'
  <1> SUFFICES ASSUME TypeOK, UnblockUnderDefault, [Next]_vars PROVE UnblockUnderDefault'
    OBVIOUS
  <1> USE DEF UnblockUnderDefault
  <1>1. CASE createDefaultPDBforOSD
    BY <1>1 DEF createDefaultPDBforOSD
  <1>2. CASE \/ Start \/ getOSDFailureDomains \/ hasOSDNodeDrained \/ reconcilePDBsForOSDs
            \/ handleActiveDrains \/ deleteDefaultPDBforOSD \/ handleInactiveDrains
            \/ updateNoout \/ updateNooutFails \/ savePDBState \/ requeuePDBController \/ Abort
    BY <1>2 DEF Start, getOSDFailureDomains, hasOSDNodeDrained, reconcilePDBsForOSDs,
       handleActiveDrains, deleteDefaultPDBforOSD, handleInactiveDrains, updateNoout,
       updateNooutFails, savePDBState, requeuePDBController, Abort, Return
  <1>3. CASE Environment
    BY <1>3 DEF Environment, Cordon, Uncordon, Evict, Crash, GoDown, Boot, Add, Remove, Park,
       Recreate, Become, MarkReplacing, Recover, Report, ChangePools, AgeDrain, AgeNoout,
       controller, budgets
  <1>4. CASE UNCHANGED vars
    BY <1>4 DEF vars, controller, budgets
  <1> QED
    BY <1>1, <1>2, <1>3, <1>4 DEF Next, Controller

\* No step takes the last budget off an OSD without recording a domain of that OSD as exposed.
LEMMA ExposedStep == Inv /\ [Next]_vars => OnlyDrainedDomainsExposed'
  <1> SUFFICES ASSUME Inv, [Next]_vars PROVE OnlyDrainedDomainsExposed'
    OBVIOUS
  <1>0. snap.level \in Levels
    BY DEF Inv, TypeOK, Snapshots
  <1>1. CASE handleActiveDrains
    <2> SUFFICES ASSUME NEW o \in OSDs, InSteadyDomain(o), ~default'.on, Uncovered(o)'
                 PROVE  \E l \in Levels : Location[l][o] \in exposed'
      BY DEF OnlyDrainedDomainsExposed, InSteadyDomain
    <2>1. PICK d \in todo : IF d # mem.draining THEN createBlockingPDBForOSD(d)
                                               ELSE deleteBlockingPDBForOSD(d)
      BY <1>1 DEF handleActiveDrains
    <2>2. UNCHANGED default
      BY <1>1 DEF handleActiveDrains
    <2>3. CASE Uncovered(o)
      <3>1. \E l \in Levels : Location[l][o] \in exposed
        BY <2>2, <2>3 DEF Inv, OnlyDrainedDomainsExposed
      <3> QED
        BY <2>1, <3>1 DEF createBlockingPDBForOSD, deleteBlockingPDBForOSD
    <2>4. CASE ~Uncovered(o)
      <3>1. PICK b \in blocking : Location[b[1]][o] = b[2] /\ b \notin blocking'
        BY <2>2, <2>4 DEF Uncovered, BlockingOn, DefaultOn
      <3>2. deleteBlockingPDBForOSD(d) /\ b = <<snap.level, d>>
        BY <2>1, <3>1 DEF createBlockingPDBForOSD, deleteBlockingPDBForOSD
      <3> QED
        BY <1>0, <3>1, <3>2 DEF deleteBlockingPDBForOSD
    <2> QED
      BY <2>3, <2>4
  <1>2. CASE deleteDefaultPDBforOSD
    <2> SUFFICES ASSUME NEW o \in OSDs, InSteadyDomain(o), Uncovered(o)'
                 PROVE  Location[snap.level][o] \in exposed'
      BY <1>0 DEF OnlyDrainedDomainsExposed, InSteadyDomain
    <2>1. PICK s \in Steady : Location[snap.level][s] = Location[snap.level][o]
      BY <1>0 DEF InSteadyDomain
    <2>2. Location[snap.level][o] \in snap.all \ todo
      BY <1>2, <2>1 DEF deleteDefaultPDBforOSD, Inv, ListingComplete
    <2>3. <<snap.level, Location[snap.level][o]>> \notin blocking
      BY <1>2 DEF deleteDefaultPDBforOSD, Uncovered, BlockingOn
    <2>4. Location[snap.level][o] = mem.draining
      BY <1>2, <2>2, <2>3 DEF deleteDefaultPDBforOSD, Inv, VisitedBlocked
    <2> QED
      BY <1>2, <2>4 DEF deleteDefaultPDBforOSD
  <1>3. CASE createDefaultPDBforOSD
    BY <1>3 DEF createDefaultPDBforOSD, OnlyDrainedDomainsExposed
  <1>4. CASE handleInactiveDrains
    BY <1>4 DEF handleInactiveDrains, Inv, UnblockUnderDefault, OnlyDrainedDomainsExposed
  <1>5. CASE \/ Start \/ getOSDFailureDomains \/ hasOSDNodeDrained \/ reconcilePDBsForOSDs
            \/ updateNoout \/ updateNooutFails \/ savePDBState \/ requeuePDBController \/ Abort
    <2>1. UNCHANGED budgets
      BY <1>5 DEF Start, getOSDFailureDomains, hasOSDNodeDrained, reconcilePDBsForOSDs,
         updateNoout, updateNooutFails, savePDBState, requeuePDBController, Abort, Return
    <2> QED
      BY <2>1, BudgetsUnchanged DEF Inv
  <1>6. CASE Environment
    <2>1. UNCHANGED budgets
      BY <1>6 DEF Environment, Cordon, Uncordon, Evict, Crash, GoDown, Boot, Add, Remove, Park,
         Recreate, Become, MarkReplacing, Recover, Report, ChangePools, AgeDrain, AgeNoout,
         controller
    <2> QED
      BY <2>1, BudgetsUnchanged DEF Inv
  <1>7. CASE UNCHANGED vars
    BY <1>7, BudgetsUnchanged DEF vars, controller, Inv
  <1> QED
    BY <1>1, <1>2, <1>3, <1>4, <1>5, <1>6, <1>7 DEF Next, Controller

\* The inductive invariant holds at every moment.
LEMMA Invariance == Spec => []Inv
  <1>1. Init => Inv
    <2> SUFFICES ASSUME Init PROVE Inv
      OBVIOUS
    <2>1. TypeOK
      BY TypeInit
    <2>2. SteadyDeployed
      BY OSDAssumption DEF Init, SteadyDeployed
    <2>3. ListingComplete /\ VisitedBlocked /\ UnblockUnderDefault
      BY DEF Init, ListingComplete, VisitedBlocked, UnblockUnderDefault
    <2>4. OnlyDrainedDomainsExposed
      BY LocationAssumption, LevelAssumption DEF Init, OnlyDrainedDomainsExposed
    <2> QED
      BY <2>1, <2>2, <2>3, <2>4 DEF Inv
  <1>2. Inv /\ [Next]_vars => Inv'
    BY TypeStep, SteadyStep, ListingStep, VisitedStep, UnblockStep, ExposedStep DEF Inv
  <1> QED
    BY <1>1, <1>2, PTL DEF Spec

\* For any cluster and any interleaving of drains, crashes, failed calls and restarts: while the
\* default budget is away, an OSD is without a budget only in a domain the controller itself
\* opened for draining.
THEOREM Coverage == Spec => []OnlyDrainedDomainsExposed
  <1>1. Inv => OnlyDrainedDomainsExposed
    BY DEF Inv
  <1> QED
    BY <1>1, Invariance, PTL
-----------------------------------------------------------------------------
(* The end of a drain.                                                     *)

\* Drains, crashes, pool changes and time do not touch what the controller has written, and
\* pools change only with a request in the queue.
Undisturbed ==
    /\ UNCHANGED <<noout, default, blocking, pc, snap, todo, failed>>
    /\ cm'.draining = cm.draining /\ mem'.draining = mem.draining
    /\ ~queued' => ~queued /\ UNCHANGED pools

\* The environment does no more than that.
LEMMA EnvironmentKeeps == ASSUME TypeOK, Environment \/ UNCHANGED vars PROVE Undisturbed
  <1>0. UNCHANGED controller /\ (queued' \/ UNCHANGED <<queued, pools>>) => Undisturbed
    BY DEF Undisturbed, controller, budgets, run
  <1>1. ASSUME NEW n \in Nodes, Cordon(n) \/ Uncordon(n) PROVE Undisturbed
    BY <1>0, <1>1, Zenon DEF Cordon, Uncordon
  <1>2. ASSUME NEW o \in OSDs, Evict(o) \/ Crash(o) PROVE Undisturbed
    BY <1>0, <1>2 DEF Evict, Crash, GoDown, Notify, TypeOK
  <1>3. ASSUME NEW o \in OSDs, Boot(o) \/ Add(o) \/ Remove(o) \/ Park(o) \/ Recreate(o)
        PROVE  Undisturbed
    BY <1>0, <1>3 DEF Boot, Add, Remove, Park, Recreate, Become, Notify, TypeOK
  <1>4. ASSUME NEW o \in OSDs, MarkReplacing(o) \/ Recover(o) PROVE Undisturbed
    BY <1>0, <1>4, Zenon DEF MarkReplacing, Recover
  <1>5. ASSUME NEW P \in PoolChoices, ChangePools(P) PROVE Undisturbed
    BY <1>0, <1>5, Zenon DEF ChangePools
  <1>6. ASSUME AgeDrain \/ \E d \in Expiring : AgeNoout(d) PROVE Undisturbed
    <2>1. UNCHANGED <<noout, default, blocking, pc, snap, todo, failed, queued, pools>>
      BY <1>6, Zenon DEF AgeDrain, AgeNoout, world, budgets
    <2>2. cm'.draining = cm.draining /\ mem'.draining = mem.draining
      BY <1>6 DEF AgeDrain, AgeNoout, TypeOK, StateMaps
    <2> QED
      BY <2>1, <2>2, Zenon DEF Undisturbed
  <1>7. ASSUME Report \/ UNCHANGED vars PROVE Undisturbed
    BY <1>0, <1>7, Zenon DEF Report, vars, world
  <1> QED
    BY <1>1, <1>2, <1>3, <1>4, <1>5, <1>6, <1>7, Zenon DEF Environment

\* The pools have one failure domain level.
LEMMA OneLevel ==
    ASSUME NEW l \in Levels, NEW m \in Levels, Current(l), Current(m)
    PROVE  l = m
  BY LevelAssumption DEF Current, getMinimumFailureDomain, IsFirst

\* The level of the running reconcile stays the current one, or a request is queued.
LEMMA LevelStep == TypeOK /\ CurrentLevel /\ [Next]_vars => CurrentLevel'
  <1> SUFFICES ASSUME TypeOK, CurrentLevel, [Next]_vars PROVE CurrentLevel'
    OBVIOUS
  <1> USE DEF CurrentLevel, Current
  <1>1. CASE Start
    <2>1. UNCHANGED pools
      BY <1>1, Zenon DEF Start, world
    <2>2. pc' # "idle" => getMinimumFailureDomain(pools, snap'.level)
      BY <1>1 DEF Start, NoSnap
    <2> QED
      BY <2>1, <2>2, Zenon
  <1>2. CASE getOSDFailureDomains \/ hasOSDNodeDrained \/ reconcilePDBsForOSDs
    <2>1. UNCHANGED <<pools, queued>> /\ pc \in {"list", "nodes", "health"}
      BY <1>2, Zenon DEF getOSDFailureDomains, hasOSDNodeDrained, reconcilePDBsForOSDs, world
    <2>2. snap'.level = snap.level
      BY <1>2, Zenon DEF getOSDFailureDomains, hasOSDNodeDrained, reconcilePDBsForOSDs, TypeOK, Snapshots,
         NoSnap
    <2> QED
      BY <2>1, <2>2
  <1>3. CASE \/ handleActiveDrains \/ deleteDefaultPDBforOSD \/ createDefaultPDBforOSD
            \/ handleInactiveDrains \/ updateNoout \/ updateNooutFails
    <2>1. UNCHANGED <<pools, queued, snap>> /\ pc \in {"block", "default", "unblock", "noout"}
      BY <1>3, Zenon DEF handleActiveDrains, deleteDefaultPDBforOSD, createDefaultPDBforOSD,
         handleInactiveDrains, updateNoout, updateNooutFails, world
    <2> QED
      BY <2>1
  <1>4. CASE savePDBState \/ requeuePDBController \/ Abort
    BY <1>4 DEF savePDBState, requeuePDBController, Abort, Return
  <1>5. CASE Environment \/ UNCHANGED vars
    BY <1>5, EnvironmentKeeps DEF Undisturbed
  <1> QED
    BY <1>1, <1>2, <1>3, <1>4, <1>5, Zenon DEF Next, Controller

\* A reconcile without a draining domain puts the default budget in place first, and then
\* deletes blocking budgets and noout domain by domain.
LEMMA ReopensStep == TypeOK /\ Reopens /\ [Next]_vars => Reopens'
  <1> SUFFICES ASSUME TypeOK, Reopens, [Next]_vars PROVE Reopens'
    OBVIOUS
  <1> USE DEF Reopens
  <1>1. CASE \/ Start \/ getOSDFailureDomains \/ hasOSDNodeDrained \/ savePDBState
            \/ requeuePDBController \/ Abort
    BY <1>1 DEF Start, getOSDFailureDomains, hasOSDNodeDrained, savePDBState,
       requeuePDBController, Abort, Return
  <1>2. CASE reconcilePDBsForOSDs
    BY <1>2 DEF reconcilePDBsForOSDs
  <1>3. CASE handleActiveDrains \/ deleteDefaultPDBforOSD
    BY <1>3 DEF handleActiveDrains, deleteDefaultPDBforOSD
  <1>4. CASE createDefaultPDBforOSD
    BY <1>4 DEF createDefaultPDBforOSD
  <1>5. CASE handleInactiveDrains
    BY <1>5 DEF handleInactiveDrains
  <1>6. CASE updateNoout \/ updateNooutFails
    <2>1. pc = "noout" /\ UNCHANGED <<pc, snap, default, blocking>>
      BY <1>6, Zenon DEF updateNoout, updateNooutFails, budgets
    <2>2. mem'.draining = mem.draining
      BY <1>6 DEF updateNoout, updateNooutFails, stamped, TypeOK, StateMaps
    <2>3. ASSUME default.on, ~failed' PROVE noout' \cap (snap.all \ todo') = {}
      <3>1. updateNoout /\ ~failed /\ mem.draining = NoDomain
        BY <1>6, <2>1, <2>3 DEF updateNoout, updateNooutFails
      <3>2. \A d \in todo : d # NoDomain
        BY DomainAssumption DEF TypeOK, NoDomain
      <3>3. PICK d \in todo : todo' = todo \ {d} /\ noout' = noout \ {d}
        BY <3>1, <3>2, Zenon DEF updateNoout
      <3> QED
        BY <2>1, <2>3, <3>1, <3>3
    <2> QED
      BY <2>1, <2>2, <2>3
  <1>7. CASE Environment \/ UNCHANGED vars
    BY <1>7, EnvironmentKeeps DEF Undisturbed
  <1> QED
    BY <1>1, <1>2, <1>3, <1>4, <1>5, <1>6, <1>7, Zenon DEF Next, Controller

\* When a reconcile has saved its state under a default budget, nothing is left of the drain;
\* nothing comes back before the next reconcile.
LEMMA FinishedStep == Inv /\ EndInv /\ [Next]_vars => Finished'
  <1> SUFFICES ASSUME Inv, EndInv, [Next]_vars PROVE Finished'
    OBVIOUS
  <1>0. TypeOK /\ Finished
    BY DEF Inv, EndInv
  <1> USE DEF Finished
  <1>1. CASE Start
    <2>1. (pools = {} /\ pc' = "idle" /\ UNCHANGED pools) \/ pc' = "list"
      BY <1>1, Zenon DEF Start, world
    <2> QED
      BY <2>1
  <1>2. CASE \/ getOSDFailureDomains \/ hasOSDNodeDrained \/ reconcilePDBsForOSDs
            \/ handleActiveDrains \/ deleteDefaultPDBforOSD \/ createDefaultPDBforOSD
            \/ handleInactiveDrains \/ updateNoout \/ updateNooutFails
    <2>1. pc' \notin {"requeue", "idle"}
      BY <1>2 DEF getOSDFailureDomains, hasOSDNodeDrained, reconcilePDBsForOSDs,
         handleActiveDrains, deleteDefaultPDBforOSD, createDefaultPDBforOSD,
         handleInactiveDrains, updateNoout, updateNooutFails
    <2> QED
      BY <2>1
  <1>3. CASE savePDBState
    <2>1. /\ pc = "noout" /\ todo = {} /\ pc' = "requeue" /\ cm' = mem
          /\ UNCHANGED <<noout, default, blocking, failed, queued, pools>>
      BY <1>3, Zenon DEF savePDBState, world, budgets
    <2> SUFFICES ASSUME ~queued, ~failed, default.on PROVE NothingLeft'
      BY <2>1
    <2>2. Current(snap.level) /\ snap.level \in Levels
      BY <2>1, <1>0 DEF EndInv, CurrentLevel, TypeOK, Snapshots
    <2>3. /\ mem.draining = NoDomain /\ noout \cap snap.all = {}
          /\ \A d \in snap.all : <<snap.level, d>> \notin blocking
      BY <2>1 DEF EndInv, Reopens
    <2>4. \A d \in DomainsOf(snap.level, Steady) : d \in snap.all
      BY <2>1 DEF Inv, ListingComplete, DomainsOf
    <2>5. ASSUME NEW l \in Levels, Current(l)', NEW d \in DomainsOf(l, Steady)
          PROVE  <<l, d>> \notin blocking /\ d \notin noout
      <3>1. l = snap.level
        BY <2>1, <2>2, <2>5, OneLevel DEF Current
      <3> QED
        BY <2>3, <2>4, <2>5, <3>1
    <2> QED
      BY <2>1, <2>3, <2>5 DEF NothingLeft, DomainsOf
  <1>4. CASE requeuePDBController
    <2>1. /\ pc = "requeue" /\ pc' = "idle"
          /\ ~queued' => ~queued /\ ~failed /\ default.on /\ default.excluded = {}
          /\ UNCHANGED <<cm, noout, default, blocking, pools>>
      BY <1>4, Zenon DEF requeuePDBController, Return, world, budgets
    <2> SUFFICES ASSUME ~queued' PROVE NothingLeft' /\ default = [on |-> TRUE, excluded |-> {}]
      BY <2>1
    <2>2. default = [on |-> TRUE, excluded |-> {}]
      BY <1>0, <2>1 DEF TypeOK
    <2> QED
      BY <1>0, <2>1, <2>2 DEF NothingLeft, Current, DomainsOf
  <1>5. CASE Abort
    BY <1>5, Zenon DEF Abort, Return
  <1>6. CASE Environment \/ UNCHANGED vars
    <2>1. /\ UNCHANGED <<noout, default, blocking, pc, failed>> /\ cm'.draining = cm.draining
          /\ ~queued' => ~queued /\ UNCHANGED pools
      BY <1>0, <1>6, EnvironmentKeeps DEF Undisturbed
    <2> QED
      BY <1>0, <2>1 DEF NothingLeft, Current, DomainsOf
  <1> QED
    BY <1>1, <1>2, <1>3, <1>4, <1>5, <1>6, Zenon DEF Next, Controller

\* For any cluster and whatever fails: the controller goes to sleep only when the default budget
\* is back over all OSDs and neither a blocking budget nor noout nor a record is left of the drain.
THEOREM SleepTheorem == Spec => []SleepsOnlyWhenRestored
  <1>1. Init => EndInv
    BY DEF Init, EndInv, CurrentLevel, Reopens, Finished
  <1>2. Inv /\ EndInv /\ [Next]_vars => EndInv'
    BY LevelStep, ReopensStep, FinishedStep DEF Inv, EndInv
  <1>3. EndInv => SleepsOnlyWhenRestored
    BY Zenon DEF EndInv, Finished, NothingLeft, SleepsOnlyWhenRestored
  <1> QED
    BY <1>1, <1>2, <1>3, Invariance, PTL DEF Spec
=============================================================================
