-------------------------- MODULE MonClusterProofs --------------------------
(***************************************************************************)
(* Proofs for MonCluster, for any number of mons, failures and restarts.   *)
(***************************************************************************)
EXTENDS MonCluster, FiniteSetTheorems, WellFoundedInduction, TLAPS

\* The bounds are natural numbers, the counts a CR may give are positive.
LEMMA Bounds ==
  MaxMonID \in Nat /\ MaxEvents \in Nat /\ Counts \subseteq Nat \ {0}
  BY MonAssumption

\* Every set of natural numbers has a least element.
LEMMA LeastOf ==
  ASSUME NEW T, T \subseteq Nat, T # {}
  PROVE  \E x \in T : \A y \in T : x <= y
  <1> DEFINE R == {ss \in Nat \X Nat : ss[1] < ss[2]}
  <1>1. IsWellFoundedOn(R, Nat)
    BY NatLessThanWellFounded DEF OpToRel
  <1>2. \A x, y \in Nat : y < x => <<y, x>> \in R
    OBVIOUS
  <1> HIDE DEF R
  <1>3. PICK x \in T : \A y \in T : ~ (<<y, x>> \in R)
    BY <1>1, WFMin, Zenon
  <1>4. \A y \in T : ~(y < x)
    BY <1>2, <1>3, Zenon
  <1> QED
    BY <1>4

\* Min of a set of natural numbers is one of them.
LEMMA MinOf ==
  ASSUME NEW S, S \subseteq Nat, S # {}
  PROVE  Min(S) \in S
  <1>1. \E m \in S : \A y \in S : m <= y
    BY LeastOf, Zenon
  <1> QED
    BY <1>1, Zenon DEF Min

\* Max of ids, or of ids and -1, is one of them and not below any.
LEMMA MaxOf ==
  ASSUME NEW S, S \subseteq -1..MaxMonID, S # {}
  PROVE  Max(S) \in S /\ \A y \in S : y <= Max(S)
  <1> DEFINE T == {MaxMonID - s : s \in S}
  <1>1. \A s \in S : MaxMonID - s \in Nat /\ s \in Int
    BY Bounds
  <1>2. PICK x \in T : \A y \in T : x <= y
    <2>1. T \subseteq Nat /\ T # {}
      BY <1>1, Zenon
    <2> HIDE DEF T
    <2> QED
      BY <2>1, LeastOf, Zenon
  <1>3. \E m \in S : \A y \in S : m >= y
    <2>1. PICK m \in S : x = MaxMonID - m
      BY <1>2
    <2>2. ASSUME NEW y \in S
          PROVE  m >= y
      <3>1. MaxMonID - m <= MaxMonID - y
        BY <1>2, <2>1
      <3> QED
        BY <3>1, <1>1, Bounds
    <2> QED
      BY <2>2
  <1> QED
    BY <1>3, Zenon DEF Max

\* Sets of mons are finite, and counted.
LEMMA Sizes ==
  ASSUME NEW S, S \subseteq Ids
  PROVE  /\ IsFiniteSet(S) /\ Cardinality(S) \in Nat
         /\ \A T : T \subseteq S => Cardinality(T) <= Cardinality(S)
  <1>1. IsFiniteSet(Ids)
    BY FS_Interval, Bounds DEF Ids
  <1>2. IsFiniteSet(S)
    BY <1>1, FS_Subset
  <1> QED
    BY <1>2, FS_Subset, FS_CardinalityType

\* One mon more, or less.
LEMMA OneMore ==
  ASSUME NEW S, S \subseteq Ids, NEW m
  PROVE  /\ Cardinality(S \cup {m}) = IF m \in S THEN Cardinality(S) ELSE Cardinality(S) + 1
         /\ Cardinality(S \ {m}) = IF m \in S THEN Cardinality(S) - 1 ELSE Cardinality(S)
  BY Sizes, FS_AddElement, FS_RemoveElement

\* The ids startMons chooses lie above the highest one, as many as it counts.
LEMMA IdsChosen ==
  ASSUME NEW mons, mons \subseteq Ids, NEW max \in -1..MaxMonID, NEW size \in Nat,
         max + Cardinality(initMonConfig(mons, max, size)) <= MaxMonID
  PROVE  LET ids == initMonConfig(mons, max, size)
         IN  /\ ids \subseteq Ids
             /\ max + Cardinality(ids) \in max..MaxMonID
             /\ \A m \in ids : m <= max + Cardinality(ids)
  <1>1. Cardinality(mons) \in Nat
    BY Sizes
  <1> DEFINE first == max + 1
             last == max + size - Cardinality(mons)
             ids == first..last
  <1>2. first \in Int /\ last \in Int /\ max \in Int
    BY <1>1, Bounds
  <1>3. Cardinality(ids) = IF first > last THEN 0 ELSE last - first + 1
    <2> HIDE DEF first, last
    <2> QED
      BY <1>2, FS_Interval
  <1>4. ids = initMonConfig(mons, max, size)
    BY DEF initMonConfig
  <1>5. max + Cardinality(ids) <= MaxMonID
    BY <1>4
  <1>6. /\ ids \subseteq Ids
        /\ max + Cardinality(ids) \in max..MaxMonID
        /\ \A m \in ids : m <= max + Cardinality(ids)
    BY <1>2, <1>3, <1>5, Bounds DEF Ids
  <1> QED
    BY <1>4, <1>6, Zenon

-----------------------------------------------------------------------------
(* Types, and the ids the operator gives.                                   *)

\* The types of the operator's locals, and those of all the rest.
LocalTypes ==
  /\ qmap \subseteq Ids /\ quo \subseteq qmap /\ todo \subseteq qmap
  /\ planned \subseteq Ids /\ listed \subseteq Ids
  /\ old \in Ids \cup {NoMon} /\ new \in Ids \cup {NoMon} /\ doomed \in Ids \cup {NoMon}
  /\ events \in 0..MaxEvents

StateTypes ==
  /\ monmap \subseteq Ids /\ running \subseteq Ids /\ fresh \subseteq Ids /\ lost \subseteq Ids
  /\ dep \subseteq Ids /\ stopped \subseteq dep /\ pdb \in -1..2 /\ count \in Counts
  /\ cmMons \subseteq Ids /\ cmOut \subseteq Ids /\ cmMax \in -1..MaxMonID
  /\ spec \in Counts \cup {0} /\ info \subseteq Ids /\ out \subseteq info /\ maxId \in -1..MaxMonID
  /\ timer \in [Ids -> {"none", "set", "expired"}] /\ retries \in 0..1 /\ moving \subseteq Ids

Failing == {"stop", "place", "startNew", "joinNew", "undo", "undoPlace"}

\* Expected mons have ids up to maxId, but for the replacement, which has the
\* next one until it is in quorum or forgotten; so have those still to come.
IdsGiven ==
  /\ pc = "idle" => todo = {}
  /\ pc \in Failing => new = maxId + 1
  /\ \A m \in planned : m <= maxId
  /\ \A m \in info :
       \/ m <= maxId
       \/ m = new /\ pc \in Failing \ {"stop", "place"}
       \/ m = doomed /\ pc \in {"remove", "forget"}

IdInv == LocalTypes /\ StateTypes /\ IdsGiven

USE DEF Event, Return, Failing, locals, configmap, memory, ceph, kube, NoMon

\* A return leaves no locals behind.
LEMMA Returns ==
  ASSUME LocalTypes, Return, Event \/ UNCHANGED events
  PROVE  LocalTypes' /\ pc' = "idle" /\ todo' = {} /\ planned' = {}
  BY Bounds DEF LocalTypes

\* Loading the configmap finds an id that is not below those of the mons in it.
LEMMA Loaded ==
  ASSUME StateTypes
  PROVE  loadedMaxMonID \in -1..MaxMonID /\ \A m \in cmMons : m <= loadedMaxMonID
  <1>1. {cmMax} \cup cmMons \subseteq -1..MaxMonID
    BY Bounds DEF StateTypes, Ids
  <1>2. Max({cmMax} \cup cmMons) \in {cmMax} \cup cmMons
    BY <1>1, MaxOf
  <1>3. \A m \in {cmMax} \cup cmMons : m <= Max({cmMax} \cup cmMons)
    BY <1>1, MaxOf
  <1> QED
    BY <1>1, <1>2, <1>3 DEF loadedMaxMonID

\* startMons gives the mons it adds ids above those there are.
LEMMA StartMonsIds ==
  ASSUME LocalTypes, todo = {}, NEW mons, mons \subseteq Ids,
         NEW max \in -1..MaxMonID, NEW size \in Nat, \A m \in mons : m <= max,
         startMons(mons, max, size)
  PROVE  /\ LocalTypes' /\ todo' = {} /\ pc' \in {"idle", "expect"}
         /\ maxId' \in -1..MaxMonID
         /\ \A m \in mons : m <= maxId'
         /\ \A m \in planned' : m <= maxId'
  <1> DEFINE ids == initMonConfig(mons, max, size)
  <1>1. /\ ids \subseteq Ids
        /\ maxId' \in max..MaxMonID
        /\ \A m \in ids : m <= maxId'
    BY IdsChosen DEF startMons
  <1>2. maxId' \in -1..MaxMonID /\ \A m \in mons : m <= maxId'
    BY <1>1, Bounds DEF Ids
  <1> HIDE DEF ids
  <1>3. CASE assignMonsFails(ids)
    BY <1>2, <1>3, Returns, Zenon DEF assignMonsFails
  <1>4. CASE planned' = ids /\ pc' = "expect" /\ qmap' = {} /\ quo' = {}
             /\ UNCHANGED <<todo, listed, old, new, newMonSucceeded, doomed, events>>
    BY <1>1, <1>2, <1>4 DEF LocalTypes
  <1> QED
    BY <1>3, <1>4 DEF startMons, ids

\* Start.
LEMMA StartIds ==
  ASSUME IdInv, Start
  PROVE  IdInv'
  <1> USE DEF IdInv
  <1>1. count \in Nat /\ todo = {} /\ cmMons \subseteq Ids
    BY Bounds DEF StateTypes, Start, IdsGiven
  <1>2. loadedMaxMonID \in -1..MaxMonID /\ \A m \in cmMons : m <= loadedMaxMonID
    BY Loaded
  <1>3. CASE startMons(cmMons, loadedMaxMonID, count) /\ cmMons' = info' /\ cmOut' = out'
    <2>1. /\ LocalTypes' /\ todo' = {} /\ pc' \in {"idle", "expect"}
          /\ maxId' \in -1..MaxMonID
          /\ \A m \in cmMons : m <= maxId'
          /\ \A m \in planned' : m <= maxId'
      BY <1>1, <1>2, <1>3, StartMonsIds, Zenon
    <2>2. StateTypes'
      BY <1>3, <2>1 DEF Start, loadMonConfig, StateTypes
    <2> QED
      BY <2>1, <2>2 DEF Start, loadMonConfig, IdsGiven
  <1>4. CASE saveFails /\ maxId' = loadedMaxMonID /\ Return
    <2>1. LocalTypes' /\ pc' = "idle" /\ todo' = {} /\ planned' = {}
      BY <1>4, Returns, Zenon DEF saveFails
    <2>2. StateTypes'
      BY <1>2, <1>4 DEF Start, saveFails, loadMonConfig, StateTypes
    <2> QED
      BY <1>2, <1>4, <2>1, <2>2 DEF Start, loadMonConfig, IdsGiven
  <1> QED
    BY <1>3, <1>4, Zenon DEF Start

\* startMon for expected mons keeps the types of what it writes.
LEMMA StartMonTypes ==
  ASSUME StateTypes, NEW S, S \subseteq Ids, NEW C, startMon(S, C)
  PROVE  /\ dep' \subseteq Ids /\ fresh' \subseteq Ids /\ stopped' \subseteq dep' /\ moving' \subseteq Ids
         /\ cmMons' \subseteq Ids /\ cmOut' \subseteq Ids /\ cmMax' \in -1..MaxMonID
  <1> DEFINE K == {cmMax} \cup (C \cap (S \ dep))
  <1>1. K \subseteq -1..MaxMonID /\ K # {}
    <2>1. cmMax \in -1..MaxMonID /\ Ids \subseteq -1..MaxMonID
      BY Bounds DEF StateTypes, Ids
    <2> QED
      BY <2>1, Zenon
  <1>2. Max(K) \in K
    BY <1>1, MaxOf
  <1>3. cmMax' \in -1..MaxMonID
    BY <1>1, <1>2 DEF startMon
  <1> QED
    BY <1>3 DEF startMon, StateTypes, hasToMove

\* checkForExtraMonResources deletes deployments and pods.
LEMMA ExtraTypes ==
  ASSUME StateTypes, NEW mons,
         checkForExtraMonResources(mons) \/ UNCHANGED <<dep, stopped, running>>
  PROVE  dep' \subseteq dep /\ stopped' \subseteq dep' /\ running' \subseteq running
  BY DEF checkForExtraMonResources, deleteDeployment, StateTypes

\* The budget lies between -1 (none) and 2.
LEMMA BudgetTypes ==
  ASSUME StateTypes, NEW m, m \subseteq Ids, NEW q, q \subseteq m
  PROVE  allowedDown(m, q) \in -1..2
  <1>1. Cardinality(m) \in Nat /\ Cardinality(q) \in Nat /\ Cardinality(q) <= Cardinality(m)
    BY Sizes
  <1> QED
    BY <1>1 DEF allowedDown, getMaxUnavailableMonPodCount, StateTypes

\* The other steps of startMons.
LEMMA ReconcileIds ==
  ASSUME IdInv, ensureMonsRunning \/ startDeployments \/ startSome \/ waitForMonsToJoin \/ refreshMonPDB
  PROVE  IdInv'
  <1> USE DEF IdInv
  <1>1. CASE ensureMonsRunning
    <2> DEFINE next == IF planned = {} THEN {} ELSE {Min(planned)}
    <2>1. next \subseteq planned
      <3>1. planned \subseteq Nat
        BY Bounds DEF LocalTypes, Ids
      <3> QED
        BY <3>1, MinOf, Zenon
    <2> HIDE DEF next
    <2>2. CASE initMonIPs(info \cup next) /\ saveMonConfig /\ pc' = "start" /\ UNCHANGED locals
      <3>1. LocalTypes' /\ StateTypes'
        BY <1>1, <2>1, <2>2 DEF ensureMonsRunning, initMonIPs, saveMonConfig, LocalTypes, StateTypes
      <3> QED
        BY <1>1, <2>1, <2>2, <3>1 DEF ensureMonsRunning, initMonIPs, IdsGiven
    <2>3. CASE initMonIPs(info \cup next) /\ saveFails /\ Return
      <3>1. LocalTypes' /\ pc' = "idle" /\ todo' = {} /\ planned' = {}
        BY <2>3, Returns, Zenon DEF saveFails
      <3>2. StateTypes'
        BY <1>1, <2>1, <2>3 DEF ensureMonsRunning, initMonIPs, saveFails, LocalTypes, StateTypes
      <3> QED
        BY <1>1, <2>1, <2>3, <3>1, <3>2 DEF ensureMonsRunning, initMonIPs, IdsGiven
    <2>4. CASE Event /\ Return /\ out' \in SUBSET out /\ UNCHANGED <<info, cmMons, cmOut>>
      <3>1. LocalTypes' /\ pc' = "idle" /\ todo' = {} /\ planned' = {}
        BY <2>4, Returns, Zenon
      <3>2. StateTypes'
        BY <1>1, <2>4 DEF ensureMonsRunning, StateTypes
      <3> QED
        BY <1>1, <2>4, <3>1, <3>2 DEF ensureMonsRunning, IdsGiven
    <2> QED
      BY <1>1, <2>2, <2>3, <2>4, Zenon DEF ensureMonsRunning, next
  <1>2. CASE startDeployments
    <2>1. /\ dep' \subseteq Ids /\ fresh' \subseteq Ids /\ stopped' \subseteq dep' /\ moving' \subseteq Ids
          /\ cmMons' \subseteq Ids /\ cmOut' \subseteq Ids /\ cmMax' \in -1..MaxMonID
      BY <1>2, StartMonTypes, Zenon DEF startDeployments, StateTypes
    <2>2. StateTypes'
      BY <1>2, <2>1 DEF startDeployments, StateTypes
    <2>3. events' \in 0..MaxEvents
      BY <1>2, Bounds DEF startDeployments, LocalTypes
    <2>4. LocalTypes'
      BY <1>2, <2>3 DEF startDeployments, LocalTypes, StateTypes
    <2> QED
      BY <1>2, <2>2, <2>4 DEF startDeployments, IdsGiven
  <1>3. CASE startSome
    <2>1. /\ dep' \subseteq Ids /\ fresh' \subseteq Ids /\ stopped' \subseteq dep' /\ moving' \subseteq Ids
          /\ cmMons' \subseteq Ids /\ cmOut' \subseteq Ids /\ cmMax' \in -1..MaxMonID
      BY <1>3, StartMonTypes DEF startSome, StateTypes
    <2>2. LocalTypes' /\ pc' = "idle" /\ todo' = {} /\ planned' = {}
      BY <1>3, Returns, Zenon DEF startSome, TimedOut
    <2>3. StateTypes'
      BY <1>3, <2>1 DEF startSome, StateTypes
    <2> QED
      BY <1>3, <2>2, <2>3 DEF startSome, IdsGiven
  <1>4. CASE waitForMonsToJoin
    <2>1. dep' \subseteq dep /\ stopped' \subseteq dep' /\ running' \subseteq running
      BY <1>4, ExtraTypes DEF waitForMonsToJoin
    <2>2. StateTypes'
      BY <1>4, <2>1 DEF waitForMonsToJoin, StateTypes
    <2>3. CASE Return
      <3>1. LocalTypes' /\ pc' = "idle" /\ todo' = {} /\ planned' = {}
        BY <1>4, <2>3, Returns, Zenon DEF waitForMonsToJoin, TimedOut
      <3> QED
        BY <1>4, <2>2, <3>1 DEF waitForMonsToJoin, IdsGiven
    <2>4. CASE ~Return
      <3>1. /\ planned' = planned \ info /\ listed' = {} /\ pc' \in {"pdb2", "expect"}
            /\ UNCHANGED <<qmap, quo, todo, old, new, newMonSucceeded, doomed, events>>
        BY <1>4, <2>4 DEF waitForMonsToJoin
      <3>2. LocalTypes'
        BY <3>1 DEF LocalTypes
      <3> QED
        BY <1>4, <2>2, <3>1, <3>2 DEF waitForMonsToJoin, IdsGiven
    <2> QED
      BY <2>3, <2>4, Zenon
  <1>5. CASE refreshMonPDB
    <2>1. allowedDown(monmap, Quorum) \in -1..2
      BY BudgetTypes DEF Quorum, StateTypes
    <2>2. StateTypes'
      BY <1>5, <2>1, Zenon DEF refreshMonPDB, StateTypes
    <2>3. LocalTypes' /\ pc' = "idle" /\ todo' = {} /\ planned' = {}
      BY <1>5, Returns, Zenon DEF refreshMonPDB
    <2> QED
      BY <1>5, <2>2, <2>3 DEF refreshMonPDB, IdsGiven
  <1> QED
    BY <1>1, <1>2, <1>3, <1>4, <1>5

\* Events are counted up to their bound.
LEMMA EventTypes ==
  ASSUME LocalTypes, Event \/ UNCHANGED events
  PROVE  events' \in 0..MaxEvents
  BY Bounds DEF LocalTypes

\* Only expected mons are marked out of quorum.
LEMMA TrackTypes ==
  ASSUME StateTypes, UNCHANGED info, NEW m \in Ids, NEW flags, flags \subseteq info
  PROVE  /\ \A b \in BOOLEAN : trackMon(flags, m, b) => out' \subseteq info' /\ cmOut' \subseteq Ids
         /\ trackOrLog(flags, m) /\ m \in info => out' \subseteq info' /\ cmOut' \subseteq Ids
  BY DEF trackMon, trackOrLog, StateTypes

\* failMon removes the mon, or gives its replacement the next id.
LEMMA FailMonIds ==
  ASSUME LocalTypes, StateTypes, IdsGiven, pc = "scan", NEW m \in Ids, NEW k, failMon(k, m),
         UNCHANGED <<info, maxId, qmap, quo, planned, listed>>, Event \/ UNCHANGED events
  PROVE  LocalTypes' /\ IdsGiven'
  <1>1. events' \in 0..MaxEvents
    BY EventTypes
  <1>2. maxId < MaxMonID => maxId + 1 \in Ids
    BY Bounds DEF StateTypes, Ids
  <1>3. LocalTypes'
    BY <1>1, <1>2 DEF failMon, LocalTypes
  <1> QED
    BY <1>3 DEF failMon, IdsGiven

\* The steps of the health check.
LEMMA CheckIds ==
  ASSUME IdInv, Check
  PROVE  IdInv'
  <1> USE DEF IdInv
  <1>1. CASE checkHealth
    <2>1. allowedDown(monmap, Quorum) \in -1..2
      BY BudgetTypes DEF Quorum, StateTypes
    <2>2. StateTypes'
      BY <1>1, <2>1 DEF checkHealth, StateTypes
    <2>3. events' \in 0..MaxEvents
      BY <1>1, EventTypes DEF checkHealth
    <2>4. LocalTypes'
      BY <1>1, <2>3 DEF checkHealth, LocalTypes, StateTypes, Quorum
    <2> QED
      BY <1>1, <2>2, <2>4 DEF checkHealth, IdsGiven
  <1>2. ASSUME NEW m \in Ids, removeUnknown(m)
        PROVE  IdInv'
    <2>1. LocalTypes' /\ StateTypes'
      BY <1>2 DEF removeUnknown, LocalTypes, StateTypes
    <2> QED
      BY <1>2, <2>1 DEF removeUnknown, IdsGiven
  <1>3. ASSUME NEW m \in Ids, foundInQuorum(m) \/ waitForTimeout(m)
        PROVE  IdInv'
    <2>1. out' \subseteq info' /\ cmOut' \subseteq Ids
      BY <1>3, TrackTypes, Zenon DEF foundInQuorum, waitForTimeout, StateTypes
    <2>2. LocalTypes' /\ StateTypes'
      BY <1>3, <2>1, Zenon DEF foundInQuorum, waitForTimeout, LocalTypes, StateTypes
    <2> QED
      BY <1>3, <2>2, Zenon DEF foundInQuorum, waitForTimeout, IdsGiven
  <1>4. ASSUME NEW m \in Ids, retryUnscheduled(m)
        PROVE  IdInv'
    <2>1. out' \subseteq info' /\ cmOut' \subseteq Ids
      BY <1>4, TrackTypes, Zenon DEF retryUnscheduled, StateTypes
    <2>2. StateTypes'
      BY <1>4, <2>1 DEF retryUnscheduled, StateTypes
    <2>3. LocalTypes' /\ pc' = "idle" /\ todo' = {} /\ planned' = {}
      BY <1>4, Returns, Zenon DEF retryUnscheduled
    <2> QED
      BY <1>4, <2>2, <2>3 DEF retryUnscheduled, IdsGiven
  <1>5. ASSUME NEW m \in Ids, failOutOfQuorum(m)
        PROVE  IdInv'
    <2>1. out' \subseteq info' /\ cmOut' \subseteq Ids
      BY <1>5, TrackTypes, Zenon DEF failOutOfQuorum, StateTypes
    <2>2. StateTypes'
      BY <1>5, <2>1 DEF failOutOfQuorum, StateTypes
    <2> QED
      BY <1>5, <2>2, FailMonIds DEF failOutOfQuorum
  <1>6. ASSUME NEW m \in Ids, trackFails(m)
        PROVE  IdInv'
    <2>1. StateTypes'
      BY <1>6 DEF trackFails, StateTypes
    <2>2. LocalTypes' /\ pc' = "idle" /\ todo' = {} /\ planned' = {}
      BY <1>6, Returns, Zenon DEF trackFails
    <2> QED
      BY <1>6, <2>1, <2>2 DEF trackFails, IdsGiven
  <1>7. clearOutOfQuorum \subseteq info
    BY DEF clearOutOfQuorum, StateTypes
  <1>8. ASSUME NEW m \in Ids, failListed(m)
        PROVE  IdInv'
    <2>1. out' \subseteq info' /\ cmOut' \subseteq Ids
      BY <1>7, <1>8, TrackTypes DEF failListed
    <2>2. StateTypes'
      BY <1>8, <2>1 DEF failListed, StateTypes
    <2>3. Event \/ UNCHANGED events
      BY <1>8, Zenon DEF failListed, trackOrLog
    <2> QED
      BY <1>8, <2>2, <2>3, FailMonIds DEF failListed, nothingElse, scanned
  <1>9. CASE failNotFound
    <2>1. PICK m \in info \ qmap : trackOrLog(clearOutOfQuorum, m) /\ failMon(Cardinality(info), m)
      BY <1>9 DEF failNotFound
    <2>2. m \in Ids
      BY DEF StateTypes
    <2>3. out' \subseteq info' /\ cmOut' \subseteq Ids
      BY <1>7, <1>9, <2>1, <2>2, TrackTypes DEF failNotFound
    <2>4. StateTypes'
      BY <1>9, <2>3 DEF failNotFound, StateTypes
    <2>5. Event \/ UNCHANGED events
      BY <2>1, Zenon DEF trackOrLog
    <2> QED
      BY <1>9, <2>1, <2>2, <2>4, <2>5, FailMonIds DEF failNotFound, scanned
  <1>10. ASSUME trackAll, UNCHANGED info
         PROVE  out' \subseteq info' /\ cmOut' \subseteq Ids
    BY <1>7, <1>10 DEF trackAll, StateTypes
  <1>11. CASE addMons
    <2>1. spec \in Nat /\ todo = {} /\ info \subseteq Ids /\ maxId \in -1..MaxMonID
      BY <1>11, Bounds DEF addMons, scanned, StateTypes
    <2>2. \A m \in info : m <= maxId
      BY <1>11 DEF addMons, scanned, IdsGiven
    <2>3. /\ LocalTypes' /\ todo' = {} /\ pc' \in {"idle", "expect"}
          /\ maxId' \in -1..MaxMonID
          /\ \A m \in info : m <= maxId'
          /\ \A m \in planned' : m <= maxId'
      BY <1>11, <2>1, <2>2, StartMonsIds DEF addMons
    <2>4. StateTypes'
      BY <1>10, <1>11, <2>3 DEF addMons, StateTypes
    <2> QED
      BY <1>11, <2>3, <2>4 DEF addMons, IdsGiven
  <1>12. CASE removeExtra
    <2>1. StateTypes'
      BY <1>10, <1>12 DEF removeExtra, StateTypes
    <2>2. LocalTypes'
      BY <1>12 DEF removeExtra, LocalTypes, StateTypes
    <2> QED
      BY <1>12, <2>1, <2>2 DEF removeExtra, scanned, IdsGiven
  <1>13. CASE healthy
    <2>1. StateTypes'
      BY <1>10, <1>13 DEF healthy, StateTypes
    <2>2. LocalTypes' /\ pc' = "idle" /\ todo' = {} /\ planned' = {}
      BY <1>13, Returns, Zenon DEF healthy
    <2> QED
      BY <1>13, <2>1, <2>2 DEF healthy, nothingElse, scanned, IdsGiven
  <1> QED
    BY <1>1, <1>2, <1>3, <1>4, <1>5, <1>6, <1>8, <1>9, <1>11, <1>12, <1>13 DEF Check

\* The steps of a failover or removal.
LEMMA FailoverIds ==
  ASSUME IdInv, Failover
  PROVE  IdInv'
  <1> USE DEF IdInv
  <1>1. CASE stopOldMon \/ revertFailover \/ removeMonitorFromQuorum \/ revertMaxMonID
    <2>1. StateTypes'
      BY <1>1 DEF stopOldMon, revertFailover, removeMonitorFromQuorum, revertMaxMonID, StateTypes
    <2>2. events' \in 0..MaxEvents
      BY <1>1, EventTypes DEF stopOldMon, revertFailover, removeMonitorFromQuorum, revertMaxMonID
    <2>3. LocalTypes'
      BY <1>1, <2>2 DEF stopOldMon, revertFailover, removeMonitorFromQuorum, revertMaxMonID, LocalTypes
    <2> QED
      BY <1>1, <2>1, <2>3, Zenon DEF stopOldMon, revertFailover, removeMonitorFromQuorum, revertMaxMonID,
                              IdsGiven
  <1>2. CASE placeNewMon
    <2>1. new \in Ids
      BY <1>2 DEF placeNewMon, IdsGiven, LocalTypes, StateTypes
    <2>2. StateTypes'
      BY <1>2, <2>1 DEF placeNewMon, saveMonConfig, saveFails, StateTypes
    <2>3. events' \in 0..MaxEvents
      BY <1>2, EventTypes DEF placeNewMon, saveMonConfig, saveFails
    <2>4. LocalTypes'
      BY <1>2, <2>3 DEF placeNewMon, LocalTypes
    <2> QED
      BY <1>2, <2>2, <2>4 DEF placeNewMon, IdsGiven
  <1>3. CASE startNewMon
    <2>1. new \in Ids
      BY <1>3 DEF startNewMon, IdsGiven, LocalTypes, StateTypes
    <2>2. /\ dep' \subseteq Ids /\ fresh' \subseteq Ids /\ stopped' \subseteq dep' /\ moving' \subseteq Ids
          /\ cmMons' \subseteq Ids /\ cmOut' \subseteq Ids /\ cmMax' \in -1..MaxMonID
      BY <1>3, <2>1, StartMonTypes DEF startNewMon
    <2>3. StateTypes'
      BY <1>3, <2>2 DEF startNewMon, StateTypes
    <2>4. events' \in 0..MaxEvents
      BY <1>3, EventTypes DEF startNewMon
    <2>5. LocalTypes'
      BY <1>3, <2>4 DEF startNewMon, LocalTypes, StateTypes
    <2> QED
      BY <1>3, <2>3, <2>5 DEF startNewMon, IdsGiven
  <1>4. CASE newMonJoined \/ newMonNotInQuorum
    <2>1. dep' \subseteq dep /\ stopped' \subseteq dep' /\ running' \subseteq running
      BY <1>4, ExtraTypes DEF newMonJoined, newMonNotInQuorum
    <2>2. maxId + 1 \in -1..MaxMonID
      BY <1>4, Bounds DEF newMonJoined, newMonNotInQuorum, IdsGiven, LocalTypes, StateTypes, Ids
    <2>3. StateTypes'
      BY <1>4, <2>1, <2>2 DEF newMonJoined, newMonNotInQuorum, StateTypes
    <2>4. events' \in 0..MaxEvents
      BY <1>4, EventTypes DEF newMonJoined, newMonNotInQuorum, TimedOut
    <2>5. LocalTypes'
      BY <1>4, <2>4 DEF newMonJoined, newMonNotInQuorum, LocalTypes
    <2>6. \A m \in Ids : m <= maxId => m <= maxId + 1
      BY DEF StateTypes, Ids
    <2> QED
      BY <1>4, <2>3, <2>5, <2>6 DEF newMonJoined, newMonNotInQuorum, IdsGiven, StateTypes, LocalTypes
  <1>5. ASSUME Removed, Event \/ UNCHANGED events
        PROVE  /\ LocalTypes' /\ pc' \in {"idle", "pdb2", "revertMax"}
               /\ todo' = {} \/ pc' # "idle"
               /\ planned' \subseteq planned
    <2>1. CASE Return
      BY <1>5, <2>1, Returns, Zenon
    <2>2. CASE pc' \in {"pdb2", "revertMax"} /\ UNCHANGED locals
      <3>1. events' \in 0..MaxEvents
        BY <1>5, EventTypes
      <3> QED
        BY <2>2, <3>1 DEF LocalTypes
    <2> QED
      BY <1>5, <2>1, <2>2, Zenon DEF Removed
  <1>6. CASE forgetMon
    <2>1. StateTypes'
      BY <1>6 DEF forgetMon, saveMonConfig, saveFails, StateTypes
    <2>2. CASE saveMonConfig /\ pc' = "delete" /\ UNCHANGED locals
      <3>1. LocalTypes'
        BY <2>2 DEF saveMonConfig, LocalTypes
      <3> QED
        BY <1>6, <2>1, <2>2, <3>1 DEF forgetMon, IdsGiven
    <2>3. CASE saveFails /\ Removed
      <3>1. /\ LocalTypes' /\ pc' \in {"idle", "pdb2", "revertMax"}
            /\ todo' = {} \/ pc' # "idle"
            /\ planned' \subseteq planned
        BY <1>5, <2>3 DEF saveFails
      <3> QED
        BY <1>6, <2>1, <3>1 DEF forgetMon, IdsGiven
    <2> QED
      BY <1>6, <2>2, <2>3 DEF forgetMon
  <1>7. CASE removeMonResources
    <2>1. StateTypes'
      BY <1>7 DEF removeMonResources, deleteDeployment, StateTypes
    <2>2. /\ LocalTypes' /\ pc' \in {"idle", "pdb2", "revertMax"}
          /\ todo' = {} \/ pc' # "idle"
          /\ planned' \subseteq planned
      BY <1>5, <1>7 DEF removeMonResources
    <2> QED
      BY <1>7, <2>1, <2>2 DEF removeMonResources, IdsGiven
  <1> QED
    BY <1>1, <1>2, <1>3, <1>4, <1>6, <1>7 DEF Failover

\* A restart, what happens to the mons, and the user.
LEMMA EnvironmentIds ==
  ASSUME IdInv, Restart \/ Environment
  PROVE  IdInv'
  <1> USE DEF IdInv
  <1>1. CASE Restart
    <2>1. LocalTypes' /\ pc' = "idle" /\ todo' = {} /\ planned' = {}
      BY <1>1, Returns, Zenon DEF Restart
    <2>2. StateTypes'
      BY <1>1, Bounds DEF Restart, StateTypes
    <2> QED
      BY <1>1, <2>1, <2>2 DEF Restart, IdsGiven
  <1>2. ASSUME NEW m \in Ids, MonUp(m) \/ PodEnds(m) \/ Crash(m) \/ LoseNode(m)
        PROVE  IdInv'
    <2>1. StateTypes'
      BY <1>2 DEF MonUp, PodEnds, Crash, LoseNode, StateTypes
    <2>2. events' \in 0..MaxEvents
      BY <1>2, EventTypes DEF MonUp, PodEnds, Crash, LoseNode
    <2> QED
      BY <1>2, <2>1, <2>2, Zenon DEF MonUp, PodEnds, Crash, LoseNode, LocalTypes, IdsGiven
  <1>3. ASSUME NEW m \in Ids, TimeoutPasses(m)
        PROVE  IdInv'
    <2>1. StateTypes'
      BY <1>3 DEF TimeoutPasses, StateTypes
    <2>2. events' \in 0..MaxEvents
      BY <1>3, EventTypes DEF TimeoutPasses, TimedOut
    <2> QED
      BY <1>3, <2>1, <2>2 DEF TimeoutPasses, LocalTypes, IdsGiven
  <1>4. CASE ChangeCount
    <2>1. StateTypes'
      BY <1>4 DEF ChangeCount, StateTypes
    <2>2. events' \in 0..MaxEvents
      BY <1>4, EventTypes DEF ChangeCount
    <2> QED
      BY <1>4, <2>1, <2>2 DEF ChangeCount, LocalTypes, IdsGiven
  <1> QED
    BY <1>1, <1>2, <1>3, <1>4 DEF Environment

\* A step keeps the invariant.
LEMMA IdStep ==
  ASSUME IdInv, [Next]_vars
  PROVE  IdInv'
  <1>1. CASE UNCHANGED vars
    <2>1. LocalTypes' /\ StateTypes'
      BY <1>1 DEF IdInv, vars, LocalTypes, StateTypes
    <2> QED
      BY <1>1, <2>1 DEF IdInv, vars, IdsGiven
  <1> QED
    BY <1>1, StartIds, ReconcileIds, CheckIds, FailoverIds, EnvironmentIds
       DEF Next, Operator, Reconcile

\* It holds at first: an established cluster has its ids in the configmap.
LEMMA IdInit ==
  ASSUME Init
  PROVE  IdInv
  <1>1. monmap \subseteq Ids
    BY MonAssumption DEF Init
  <1>2. {-1} \cup monmap \subseteq -1..MaxMonID
    BY <1>1, Bounds DEF Ids
  <1>3. Max({-1} \cup monmap) \in -1..MaxMonID
    BY <1>2, MaxOf
  <1>4. StateTypes
    BY <1>1, <1>3, Bounds DEF Init, StateTypes
  <1> QED
    BY <1>4, Bounds DEF Init, IdInv, LocalTypes, IdsGiven

\* The invariant holds in every state.
LEMMA IdInvariant == Spec => []IdInv
  BY IdInit, IdStep, PTL DEF Spec

\* A failover starts a mon whose id is above those of all mons expected, for
\* any number of failovers, reverted or interrupted, restarts and changes of
\* the count.
THEOREM NewIdUnusedTheorem == Spec => []NewIdUnused
  <1>1. IdInv => NewIdUnused
    BY DEF IdInv, IdsGiven, NewIdUnused, LocalTypes, StateTypes, Ids
  <1> QED
    BY <1>1, IdInvariant, PTL

MgrType == mgr \in BOOLEAN

\* All variables keep their types; marks are those of expected mons and only
\* existing deployments are scaled to zero.
THEOREM TypeTheorem == Spec => []TypeOK
  <1>1. Init => MgrType
    BY DEF Init, MgrType
  <1>2. ASSUME MgrType, [Next]_vars
        PROVE  MgrType'
    <2> USE DEF MgrType
    <2>1. CASE UNCHANGED mgr
      BY <1>2, <2>1, Zenon
    <2>2. CASE refreshMonPDB
      BY <1>2, <2>2, Zenon DEF refreshMonPDB
    <2>3. CASE Reconcile /\ ~refreshMonPDB
      <3>1. UNCHANGED mgr
        BY <2>3, Zenon DEF Reconcile, Start, ensureMonsRunning, startDeployments, startSome, waitForMonsToJoin
      <3> QED
        BY <2>1, <3>1
    <2>4. CASE Check
      <3>1. UNCHANGED mgr
        BY <2>4, Zenon DEF Check, checkHealth, removeUnknown, foundInQuorum, waitForTimeout, retryUnscheduled,
                    failOutOfQuorum, trackFails, failListed, failNotFound, addMons, removeExtra, healthy
      <3> QED
        BY <2>1, <3>1
    <2>5. CASE Failover
      <3>1. UNCHANGED mgr
        BY <2>5, Zenon DEF Failover, stopOldMon, placeNewMon, startNewMon, newMonJoined, newMonNotInQuorum,
                    revertFailover, removeMonitorFromQuorum, forgetMon, removeMonResources,
                    revertMaxMonID
      <3> QED
        BY <2>1, <3>1
    <2>6. CASE Restart \/ Environment \/ UNCHANGED vars
      <3>1. UNCHANGED mgr
        BY <2>6, Zenon DEF Restart, Environment, MonUp, PodEnds, Crash, LoseNode, TimeoutPasses, ChangeCount,
                    vars
      <3> QED
        BY <2>1, <3>1
    <2> QED
      BY <1>2, <2>2, <2>3, <2>4, <2>5, <2>6 DEF Next, Operator
  <1>3. IdInv /\ MgrType => TypeOK
    BY DEF MgrType, IdInv, LocalTypes, StateTypes, TypeOK
  <1> QED
    BY <1>1, <1>2, <1>3, IdInvariant, PTL DEF Spec

-----------------------------------------------------------------------------
(* The status a health check works with.                                    *)

Checking == {"scan", "stop", "place", "startNew", "joinNew", "undo", "undoPlace", "remove"}

\* Until `ceph mon remove` the mons of the status are in the monmap, and more
\* than half of them were in quorum.  A mon of the status is removed only if
\* there are too many, or its replacement has joined.
StatusInv ==
  /\ pc \in Checking => qmap \subseteq monmap /\ 2 * Cardinality(quo) > Cardinality(qmap)
  /\ pc \in {"idle", "scan"} => old = NoMon
  /\ pc = "remove" =>
       /\ doomed \in qmap => Cardinality(qmap) > spec \/ new \in monmap
       /\ old = NoMon \/ doomed \in {old, new}

USE DEF Checking

\* A step of the health check.
LEMMA CheckStatus ==
  ASSUME IdInv, StatusInv, Check
  PROVE  StatusInv'
  <1> USE DEF StatusInv, IdInv
  <1>1. CASE checkHealth
    <2>1. Quorum = running \cap monmap /\ 2 * Cardinality(running \cap monmap) > Cardinality(monmap)
      BY <1>1, Zenon DEF checkHealth, Quorum, Majority
    <2>2. qmap' = monmap' /\ quo' = running \cap monmap /\ monmap' = monmap
      BY <1>1, <2>1 DEF checkHealth
    <2> QED
      BY <1>1, <2>1, <2>2, Zenon DEF checkHealth
  <1>2. Cardinality(quo) \in Nat /\ Cardinality(qmap) \in Nat /\ Cardinality(quo) <= Cardinality(qmap)
    BY Sizes DEF LocalTypes
  <1>3. ASSUME NEW m \in Ids, removeUnknown(m)
        PROVE  StatusInv'
    <2>1. Cardinality(qmap) > spec
      BY <1>2, <1>3, Bounds DEF removeUnknown, StateTypes
    <2> QED
      BY <1>3, <2>1 DEF removeUnknown
  <1>4. ASSUME NEW m \in Ids, foundInQuorum(m) \/ waitForTimeout(m) \/ retryUnscheduled(m) \/ trackFails(m)
        PROVE  StatusInv'
    BY <1>4, Zenon DEF foundInQuorum, waitForTimeout, retryUnscheduled, trackFails
  <1>5. ASSUME NEW m \in Ids, failOutOfQuorum(m)
        PROVE  StatusInv'
    BY <1>5 DEF failOutOfQuorum, failMon
  <1>6. ASSUME NEW m \in Ids, failListed(m)
        PROVE  StatusInv'
    <2>1. info \subseteq qmap
      BY <1>6 DEF failListed, nothingElse
    <2>2. Cardinality(info) \in Nat /\ Cardinality(info) <= Cardinality(qmap)
      BY <2>1, Sizes DEF LocalTypes, StateTypes
    <2>3. Cardinality(info) > spec => Cardinality(qmap) > spec
      BY <1>2, <2>2, Bounds DEF StateTypes
    <2> QED
      BY <1>6, <2>3 DEF failListed, failMon, nothingElse, scanned
  <1>7. CASE failNotFound
    BY <1>7 DEF failNotFound, failMon, scanned
  <1>8. CASE addMons
    BY <1>8 DEF addMons, startMons, assignMonsFails
  <1>9. CASE removeExtra
    BY <1>9 DEF removeExtra, scanned
  <1>10. CASE healthy
    BY <1>10 DEF healthy
  <1> QED
    BY <1>1, <1>3, <1>4, <1>5, <1>6, <1>7, <1>8, <1>9, <1>10, Zenon DEF Check

\* Any step.
LEMMA StatusStep ==
  ASSUME IdInv, StatusInv, [Next]_vars
  PROVE  StatusInv'
  <1> USE DEF StatusInv
  <1>1. CASE Reconcile
    BY <1>1, Zenon DEF Reconcile, Start, startMons, assignMonsFails, ensureMonsRunning, startDeployments,
                startSome, waitForMonsToJoin, refreshMonPDB
  <1>2. CASE stopOldMon \/ placeNewMon \/ startNewMon
    BY <1>2, Zenon DEF stopOldMon, placeNewMon, startNewMon
  <1>3. CASE newMonJoined
    BY <1>3 DEF newMonJoined, Quorum
  <1>4. CASE newMonNotInQuorum \/ revertMaxMonID
    BY <1>4 DEF newMonNotInQuorum, revertMaxMonID
  <1>5. CASE revertFailover
    <2>1. new \notin qmap \/ new \in monmap
      BY <1>5 DEF revertFailover
    <2> QED
      BY <1>5, <2>1 DEF revertFailover
  <1>6. CASE removeMonitorFromQuorum \/ forgetMon \/ removeMonResources
    BY <1>6, Zenon DEF removeMonitorFromQuorum, forgetMon, removeMonResources, Removed
  <1>7. CASE Restart
    BY <1>7, Zenon DEF Restart
  <1>8. CASE Environment
    BY <1>8, Zenon DEF Environment, MonUp, PodEnds, Crash, LoseNode, TimeoutPasses, ChangeCount
  <1>9. CASE UNCHANGED vars
    BY <1>9 DEF vars
  <1> QED
    BY <1>1, <1>2, <1>3, <1>4, <1>5, <1>6, <1>7, <1>8, <1>9, CheckStatus, Zenon
       DEF Next, Operator, Failover

\* Both invariants hold in every state.
LEMMA StatusInvariant == Spec => [](IdInv /\ StatusInv)
  <1>1. Init => StatusInv
    BY DEF Init, StatusInv
  <1> QED
    BY <1>1, IdInit, IdStep, StatusStep, PTL DEF Spec

\* Only `ceph mon remove` takes a mon out of the monmap.
LEMMA MonmapGrows ==
  ASSUME [Next]_vars, ~removeMonitorFromQuorum
  PROVE  monmap \subseteq monmap'
  <1>1. CASE Reconcile
    BY <1>1, Zenon DEF Reconcile, Start, ensureMonsRunning, startDeployments, startSome, waitForMonsToJoin,
                refreshMonPDB
  <1>2. CASE Check
    BY <1>2, Zenon DEF Check, checkHealth, removeUnknown, foundInQuorum, waitForTimeout, retryUnscheduled,
                failOutOfQuorum, trackFails, failListed, failNotFound, addMons, removeExtra, healthy
  <1>3. CASE Failover
    BY <1>3, Zenon DEF Failover, stopOldMon, placeNewMon, startNewMon, newMonJoined, newMonNotInQuorum,
                revertFailover, forgetMon, removeMonResources, revertMaxMonID
  <1>4. CASE Restart \/ Environment \/ UNCHANGED vars
    BY <1>4, Zenon DEF Restart, Environment, MonUp, PodEnds, Crash, LoseNode, TimeoutPasses, ChangeCount, vars
  <1> QED
    BY <1>1, <1>2, <1>3, <1>4 DEF Next, Operator

\* `ceph mon remove` takes a mon of the checked status out of the monmap only
\* if as many remain as the CR asks for, or as there were.
THEOREM RemovesOnlySparesTheorem == Spec => RemovesOnlySpares
  <1>1. ASSUME IdInv, StatusInv, [Next]_vars, NEW m \in qmap \cap (monmap \ monmap')
        PROVE  \/ new \in qmap \/ Cardinality(monmap') >= spec
               \/ Cardinality(monmap') >= Cardinality(qmap)
    <2>1. removeMonitorFromQuorum
      BY <1>1, MonmapGrows
    <2>2. m = doomed /\ monmap' = monmap \ {doomed} /\ qmap \subseteq monmap
      BY <1>1, <2>1 DEF removeMonitorFromQuorum, StatusInv
    <2>3. monmap \subseteq Ids /\ spec \in Nat
      BY <1>1, Bounds DEF IdInv, StateTypes
    <2>4. /\ Cardinality(monmap) \in Nat /\ Cardinality(qmap) \in Nat
          /\ Cardinality(monmap') = Cardinality(monmap) - 1
          /\ Cardinality(qmap) <= Cardinality(monmap)
      BY <2>2, <2>3, <1>1, Sizes, OneMore
    <2>5. CASE Cardinality(qmap) > spec
      BY <2>3, <2>4, <2>5
    <2>6. CASE new \in monmap \ qmap
      <3>1. qmap \cup {new} \subseteq monmap /\ qmap \subseteq Ids
        BY <2>2, <2>3, <2>6
      <3>2. Cardinality(qmap \cup {new}) = Cardinality(qmap) + 1
        BY <2>6, <3>1, OneMore
      <3>3. Cardinality(qmap \cup {new}) <= Cardinality(monmap)
        BY <2>3, <3>1, Sizes
      <3> QED
        BY <2>4, <3>2, <3>3
    <2> QED
      BY <1>1, <2>1, <2>2, <2>5, <2>6 DEF StatusInv, removeMonitorFromQuorum
  <1>2. IdInv /\ StatusInv /\ [Next]_vars =>
          [\A m \in qmap \cap (monmap \ monmap') :
             \/ new \in qmap \/ Cardinality(monmap') >= spec
             \/ Cardinality(monmap') >= Cardinality(qmap)]_vars
    BY <1>1
  <1> QED
    BY <1>2, StatusInvariant, PTL DEF Spec, RemovesOnlySpares

\* The budget a health check writes leaves a quorum, for any number of mons.
THEOREM BudgetTheorem == Spec => BudgetLeavesQuorum
  <1>1. ASSUME IdInv, checkHealth, events' = events, spec > 2, Cardinality(monmap) >= spec
        PROVE  2 * (Cardinality(Quorum) - pdb') > Cardinality(monmap)
    <2>1. /\ Quorum = running \cap monmap
          /\ 2 * Cardinality(running \cap monmap) > Cardinality(monmap)
      BY <1>1 DEF checkHealth, Quorum, Majority
    <2>2. spec \in Nat /\ Cardinality(monmap) \in Nat /\ Cardinality(Quorum) \in Nat
      BY <1>1, <2>1, Bounds, Sizes DEF IdInv, StateTypes
    <2>3. pdb' = allowedDown(monmap, Quorum)
      BY <1>1 DEF checkHealth, IdInv, LocalTypes
    <2> QED
      BY <1>1, <2>1, <2>2, <2>3 DEF allowedDown, getMaxUnavailableMonPodCount
  <1>2. IdInv /\ [Next]_vars =>
          [checkHealth /\ events' = events /\ spec > 2 /\ Cardinality(monmap) >= spec
             => 2 * (Cardinality(Quorum) - pdb') > Cardinality(monmap)]_vars
    BY <1>1
  <1> QED
    BY <1>2, IdInvariant, PTL DEF Spec, BudgetLeavesQuorum

-----------------------------------------------------------------------------
(* Failovers and the quorum.                                                *)

\* Counting: of mons Q a majority q ran; in a monmap M that is not larger all
\* of q run but x, which was not in q, or q was all of three mons or more.
LEMMA StillMajority ==
  ASSUME NEW Q, Q \subseteq Ids, NEW q, q \subseteq Q, 2 * Cardinality(q) > Cardinality(Q),
         NEW M, M \subseteq Ids, Cardinality(M) <= Cardinality(Q),
         NEW S, NEW x, q \ {x} \subseteq S \cap M,
         x \notin q \/ (Q = q /\ Cardinality(Q) > 2)
  PROVE  2 * Cardinality(S \cap M) > Cardinality(M)
  <1>1. q \subseteq Ids /\ S \cap M \subseteq Ids
    OBVIOUS
  <1>2. /\ Cardinality(Q) \in Nat /\ Cardinality(q) \in Nat
        /\ Cardinality(M) \in Nat /\ Cardinality(S \cap M) \in Nat
    BY <1>1, Sizes
  <1>3. Cardinality(q \ {x}) = IF x \in q THEN Cardinality(q) - 1 ELSE Cardinality(q)
    BY <1>1, OneMore, Zenon
  <1>4. Cardinality(q \ {x}) <= Cardinality(S \cap M)
    BY <1>1, Sizes
  <1> QED
    BY <1>2, <1>3, <1>4

\* A step that leaves the monmap and what serves in it keeps the majority.
LEMMA MajorityKept ==
  ASSUME IdInv, monmap' = monmap, Serving \cap monmap \subseteq Serving', Majority(Serving)
  PROVE  Majority(Serving)'
  <1>1. monmap \subseteq Ids
    BY DEF IdInv, StateTypes
  <1>2. Serving' \cap monmap \subseteq Ids /\ Serving \cap monmap \subseteq Serving' \cap monmap
    BY <1>1
  <1>3. /\ Cardinality(Serving \cap monmap) \in Nat /\ Cardinality(Serving' \cap monmap) \in Nat
        /\ Cardinality(Serving \cap monmap) <= Cardinality(Serving' \cap monmap)
        /\ Cardinality(monmap) \in Nat
    BY <1>1, <1>2, Sizes
  <1> QED
    BY <1>3 DEF Majority

\* No step of a failover or removal takes the quorum away, while nothing else
\* fails.
LEMMA QuorumStep ==
  ASSUME IdInv, StatusInv, Failover, StatusHolds, Majority(Serving),
         Spared, NoLateJoin, NoEarlyJoin, NotAlone
  PROVE  Majority(Serving)'
  <1> USE DEF IdInv, Spared, NoEarlyJoin, NotAlone
  <1>1. CASE stopOldMon
    <2>1. monmap = qmap /\ 2 * Cardinality(quo) > Cardinality(qmap)
      BY <1>1 DEF stopOldMon, StatusHolds, StatusInv
    <2>2. qmap \subseteq Ids /\ quo \subseteq qmap /\ monmap \subseteq Ids
      BY <2>1 DEF LocalTypes
    <2>3. quo \ {old} \subseteq Serving' \cap monmap
      BY <1>1, <2>1, <2>2 DEF stopOldMon, StatusHolds, Serving
    <2>4. old \notin quo \/ (qmap = quo /\ Cardinality(qmap) > 2)
      OBVIOUS
    <2>5. Cardinality(monmap) <= Cardinality(qmap)
      BY <2>1, <2>2, Sizes
    <2>6. 2 * Cardinality(Serving' \cap monmap) > Cardinality(monmap)
      BY <2>1, <2>2, <2>3, <2>4, <2>5, StillMajority, Zenon
    <2> QED
      BY <1>1, <2>6 DEF stopOldMon, Majority
  <1>2. CASE placeNewMon \/ forgetMon \/ revertMaxMonID
    BY <1>2, MajorityKept, Zenon DEF placeNewMon, forgetMon, revertMaxMonID, Serving
  <1>3. CASE startNewMon
    BY <1>3, MajorityKept, Zenon DEF startNewMon, startMon, Serving
  <1>4. CASE newMonJoined \/ newMonNotInQuorum
    <2>1. Cardinality({new}) = 1
      BY FS_Singleton
    <2>2. spec \in Nat /\ spec > 1
      <3>1. pc = "joinNew"
        BY <1>4, Zenon DEF newMonJoined, newMonNotInQuorum
      <3>2. spec \in Counts \cup {0}
        BY Zenon DEF StateTypes
      <3> QED
        BY <3>1, <3>2, Bounds
    <2>3. ~(Cardinality({new}) >= spec)
      BY <2>1, <2>2
    <2>4. checkForExtraMonResources({new}) => UNCHANGED <<dep, stopped, running>>
      BY <2>3, Zenon DEF checkForExtraMonResources
    <2>5. UNCHANGED <<dep, stopped, running>> /\ UNCHANGED monmap
      BY <1>4, <2>4 DEF newMonJoined, newMonNotInQuorum
    <2>6. UNCHANGED <<dep, stopped, running, monmap>>
      BY <2>5
    <2> QED
      BY <2>6, MajorityKept DEF Serving
  <1>5. CASE revertFailover
    BY <1>5, MajorityKept DEF revertFailover, Serving
  <1>6. CASE removeMonitorFromQuorum
    <2>1. CASE monmap' = monmap
      BY <1>6, <2>1, MajorityKept DEF removeMonitorFromQuorum, Serving
    <2>2. CASE monmap' = monmap \ {doomed}
      <3> DEFINE M == monmap \ {doomed}
      <3>1. /\ qmap \subseteq monmap /\ monmap \subseteq Ids /\ quo \subseteq qmap
            /\ 2 * Cardinality(quo) > Cardinality(qmap)
            /\ old = NoMon \/ doomed \in {old, new}
            /\ Serving' = Serving
        BY <1>6, Zenon DEF removeMonitorFromQuorum, StatusInv, LocalTypes, StateTypes, Serving
      <3>2. /\ Cardinality(monmap) \in Nat /\ Cardinality(qmap) \in Nat
            /\ M \subseteq Ids /\ qmap \subseteq Ids
        BY <3>1, Sizes
      <3>3. CASE doomed \in qmap
        <4>1. Cardinality(qmap \ {doomed}) = Cardinality(qmap) - 1
          BY <3>2, <3>3, OneMore
        <4>2. M \subseteq (qmap \ {doomed}) \cup {new}
          BY DEF StatusHolds
        <4>3. Cardinality(M) <= Cardinality(qmap)
          <5>1. CASE new \in M
            <6>1. Cardinality((qmap \ {doomed}) \cup {new}) = Cardinality(qmap \ {doomed}) + 1
              BY <3>2, OneMore DEF StatusHolds
            <6>2. (qmap \ {doomed}) \cup {new} \subseteq Ids
              BY <3>2, <5>1
            <6>3. Cardinality(M) <= Cardinality((qmap \ {doomed}) \cup {new})
              BY <4>2, <6>2, Sizes
            <6> QED
              BY <3>2, <4>1, <6>1, <6>3
          <5>2. CASE new \notin M
            <6>1. M \subseteq qmap
              BY <4>2, <5>2
            <6> QED
              BY <3>2, <6>1, Sizes
          <5> QED
            BY <5>1, <5>2
        <4>4. quo \ {doomed} \subseteq Serving \cap M
          <5>1. new # doomed
            BY <3>3 DEF StatusHolds
          <5>2. NoMon \notin quo
            BY <3>1, <3>2 DEF Ids
          <5> QED
            BY <3>1, <5>1, <5>2 DEF StatusHolds
        <4>5. doomed \notin quo \/ (qmap = quo /\ Cardinality(qmap) > 2)
          OBVIOUS
        <4>6. 2 * Cardinality(Serving \cap M) > Cardinality(M)
          BY <3>1, <3>2, <4>3, <4>4, <4>5, StillMajority, Zenon
        <4> QED
          BY <2>2, <3>1, <4>6 DEF Majority
      <3>4. CASE doomed \in monmap \ qmap
        <4>1. M \subseteq qmap
          BY <3>4 DEF StatusHolds
        <4>2. Cardinality(M) <= Cardinality(qmap)
          BY <3>2, <4>1, Sizes
        <4>3. quo \ {old} \subseteq Serving \cap M
          BY <3>1, <3>4 DEF StatusHolds
        <4>4. old \notin quo \/ (qmap = quo /\ Cardinality(qmap) > 2)
          OBVIOUS
        <4>5. 2 * Cardinality(Serving \cap M) > Cardinality(M)
          <5> HIDE DEF M
          <5> QED
            BY <3>1, <3>2, <4>2, <4>3, <4>4, StillMajority, Zenon
        <4> QED
          BY <2>2, <3>1, <4>5 DEF Majority
      <3>5. CASE doomed \notin monmap
        BY <2>1, <2>2, <3>5
      <3> QED
        BY <3>1, <3>3, <3>4, <3>5
    <2> QED
      BY <1>6, <2>1, <2>2 DEF removeMonitorFromQuorum
  <1>7. CASE removeMonResources
    <2>1. doomed \notin monmap /\ monmap' = monmap
      BY <1>7 DEF removeMonResources, NoLateJoin
    <2>2. Serving \cap monmap \subseteq Serving'
      BY <1>7, <2>1 DEF removeMonResources, deleteDeployment, Serving
    <2> QED
      BY <2>1, <2>2, MajorityKept
  <1> QED
    BY <1>1, <1>2, <1>3, <1>4, <1>5, <1>6, <1>7 DEF Failover

\* For any number of mons, and at any time after the status was taken: while
\* nothing else fails (StatusHolds), no step of a failover or removal takes the
\* quorum away if the mon that goes was out of quorum, or one of at least three
\* that all were in it (Spared: not so for a cluster of two mons, and not for a
\* move from the failover list with another mon out), if no mon joins between
\* `ceph mon remove` and the deletion of its deployment (NoLateJoin), if the
\* replacement does not join before the old mon is stopped (NoEarlyJoin), and
\* if the cluster is to have more than one mon (NotAlone).
THEOREM KeepsQuorumTheorem == Spec => KeepsQuorum
  <1>1. IdInv /\ StatusInv /\ [Next]_vars =>
          [/\ Failover /\ StatusHolds /\ Majority(Serving)
           /\ Spared /\ NoLateJoin /\ NoEarlyJoin /\ NotAlone
           => Majority(Serving)']_vars
    BY QuorumStep
  <1> QED
    BY <1>1, StatusInvariant, PTL DEF Spec, KeepsQuorum
=============================================================================
