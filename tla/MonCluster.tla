---------------------------- MODULE MonCluster ----------------------------
(***************************************************************************)
(* The Ceph monitors of a cluster (pkg/operator/ceph/cluster/mon): their   *)
(* creation by the CephCluster reconcile (Start, startMons) and their      *)
(* health check (checkHealth), which fails over mons that are out of       *)
(* quorum or have to move, removes spare ones and keeps the mon budget.    *)
(*                                                                         *)
(* Both run under one lock, so the operator is one sequence of API calls,  *)
(* between which mons die and come back, nodes are deleted, the user       *)
(* changes the CR and the operator itself is restarted.  What it expects   *)
(* of the mons is kept in memory (info, out, maxId) and in the configmap   *)
(* rook-ceph-mon-endpoints (cmMons, cmOut, cmMax).                         *)
(*                                                                         *)
(* A mon is its numeric id: IndexToName gives the letters.  Pods and the   *)
(* monmap are external and modelled from how the code uses them.           *)
(***************************************************************************)
EXTENDS Integers, FiniteSets, FiniteSetsExt

CONSTANTS
    MaxMonID,     \* bound: ids of the mons are 0..MaxMonID
    Clusters,     \* the mons the cluster may have at first
    Counts,       \* values the user gives spec.mon.count
    Moved,        \* mons whose storage or network is not the one the CR now asks for
    Crashable,    \* mons whose pod may fail
    Losable,      \* mons whose node may be lost for good
    Pinned,       \* mons assigned to a node, the others are on volumes
    MaxEvents     \* bound: failures, restarts and changes of the CR in one behaviour

Ids == 0..MaxMonID
NoMon == -1

ASSUME MonAssumption ==
    /\ MaxMonID \in Nat /\ MaxEvents \in Nat
    /\ Clusters \subseteq SUBSET Ids /\ Moved \subseteq Ids
    /\ Crashable \subseteq Ids /\ Losable \subseteq Ids /\ Pinned \subseteq Ids
    /\ Counts \subseteq Nat \ {0}

VARIABLES
    monmap,   \* the mons in Ceph's monmap
    running,  \* mons whose daemon runs
    fresh,    \* mons with an empty store: they join the monmap when they start
    lost,     \* mons whose node or volume is gone
    dep,      \* the mon deployments
    stopped,  \* those scaled to zero
    pdb,      \* maxUnavailable of the mon budget, -1 without one
    count,    \* spec.mon.count of the CR
    mgr,      \* the mgr deployment exists: the mons were started once, their health is checked
    cmMons,   \* the configmap: endpoints,
    cmOut,    \*   mons out of quorum,
    cmMax,    \*   maxMonId
    spec,     \* c.spec.Mon.Count, as of the last Start
    info,     \* ClusterInfo.InternalMonitors; empty in a new operator
    out,      \* those with OutOfQuorum
    maxId,    \* c.maxMonID
    timer,    \* monTimeoutList
    retries,  \* retriesBeforeNodeDrainFailover
    moving,   \* monsToFailover
    pc,       \* the operator's next call
    qmap,     \* the quorum status the health check works with: its monmap
    quo,      \*   and its quorum
    todo,     \* mons the loop over that monmap has still to visit
    planned,  \* mons startMons has still to create
    listed,   \* the deployments startDeployments listed
    old,      \* the mon being failed over
    new,      \* its replacement
    newMonSucceeded,  \* whether that is in quorum
    doomed,   \* the mon being removed
    events

ceph == <<monmap, running, fresh, lost>>
kube == <<dep, stopped, pdb, count, mgr>>
configmap == <<cmMons, cmOut, cmMax>>
memory == <<spec, info, out, maxId, timer, retries, moving>>
locals == <<qmap, quo, todo, planned, listed, old, new, newMonSucceeded, doomed>>
vars == <<ceph, kube, configmap, memory, pc, locals, events>>

Majority(S) == 2 * Cardinality(S \cap monmap) > Cardinality(monmap)
Quorum == IF Majority(running) THEN running \cap monmap ELSE {}

\* Something goes wrong or is changed; it happens at most MaxEvents times.
Event == events < MaxEvents /\ events' = events + 1

\* A daemon can start: with an empty store it has to join a quorum, or to found one.
CanStart(m) ==
    /\ m \in dep \ (stopped \cup lost \cup running)
    /\ m \in monmap \/ (m \in fresh /\ (Quorum # {} \/ monmap = {}))

\* A time limit is reached; that mons which can start have not done so is an event.
TimedOut(mons) == IF \E m \in mons : CanStart(m) THEN Event ELSE UNCHANGED events

Return == /\ pc' = "idle" /\ qmap' = {} /\ quo' = {} /\ todo' = {} /\ planned' = {} /\ listed' = {}
          /\ old' = NoMon /\ new' = NoMon /\ newMonSucceeded' = FALSE /\ doomed' = NoMon

(***************************************************************************)
(* The mon budget                                                          *)
(***************************************************************************)

getMaxUnavailableMonPodCount == IF spec >= 5 THEN 2 ELSE 1

\* Variant: the mons that are already out do not count.
allowedDown_IgnoresDown(m, q) == IF spec <= 2 THEN pdb ELSE getMaxUnavailableMonPodCount

\* pdb after reconcileMonPDB with the status of monmap m and quorum q.
allowedDown(m, q) ==
    LET free == getMaxUnavailableMonPodCount - (Cardinality(m) - Cardinality(q))
    IN  IF spec <= 2 THEN pdb ELSE IF free < 0 THEN 0 ELSE free

(***************************************************************************)
(* The CephCluster reconcile: Start and startMons                          *)
(***************************************************************************)

\* The ids of the mons missing among mons, above max.
initMonConfig(mons, max, size) == (max + 1)..(max + size - Cardinality(mons))

\* No node can be found for one of them.
assignMonsFails(ids) == ids # {} /\ Event /\ Return

\* startMons up to its first write.
startMons(mons, max, size) ==
    LET ids == initMonConfig(mons, max, size)
    IN  /\ max + Cardinality(ids) <= MaxMonID
        /\ maxId' = max + Cardinality(ids)
        /\ \/ /\ planned' = ids
              /\ pc' = "expect" /\ qmap' = {} /\ quo' = {}
              /\ UNCHANGED <<todo, listed, old, new, newMonSucceeded, doomed, events>>
           \/ assignMonsFails(ids)

\* saveMonConfig writes the configmap first: where it fails, that may have been done.
saveFails ==
    /\ Event
    /\ (cmMons' = info' /\ cmOut' = out') \/ UNCHANGED <<cmMons, cmOut>>

saveMonConfig == cmMons' = info' /\ cmOut' = out' /\ UNCHANGED events

\* Variant: only the id committed counts.
loadedMaxMonID_Committed == cmMax

\* The highest id loadMonConfig finds: the one committed, or that of a mon expected above it.
loadedMaxMonID == Max({cmMax} \cup cmMons)

loadMonConfig == info' = cmMons /\ out' = cmOut \cap cmMons

\* Start: load the configmap, save it, start the mons.
Start ==
    /\ pc = "idle"
    /\ spec' = count
    /\ loadMonConfig
    /\ \/ cmMons' = info' /\ cmOut' = out' /\ startMons(cmMons, loadedMaxMonID, count)
       \/ saveFails /\ maxId' = loadedMaxMonID /\ Return
    /\ UNCHANGED <<ceph, kube, cmMax, timer, retries, moving>>

\* initMonIPs makes the MonInfo of every mon anew, without a mark.
initMonIPs(mons) == info' = mons /\ out' = {}

\* ensureMonsRunning adds the next mon, if one is missing, and saves the config.  It returns where
\* a service cannot be created or the config cannot be saved.
ensureMonsRunning ==
    /\ pc = "expect"
    /\ \/ /\ initMonIPs(info \cup (IF planned = {} THEN {} ELSE {Min(planned)}))
          /\ \/ saveMonConfig /\ pc' = "start" /\ UNCHANGED locals
             \/ saveFails /\ Return
       \/ /\ Event /\ Return
          /\ out' \in SUBSET out
          /\ UNCHANGED <<info, cmMons, cmOut>>
    /\ UNCHANGED <<ceph, kube, cmMax, spec, maxId, timer, retries, moving>>

\* configureDefaultMonStorage puts existing mons that have to move on the failover list.
hasToMove(S) == S \cap dep \cap Moved

\* startMon for the mons in S; those in C also get their id committed.  The deployment of a mon that
\* has to move is not updated.
startMon(S, C) ==
    LET created == S \ dep
    IN  /\ dep' = dep \cup created
        /\ fresh' = fresh \cup created
        /\ stopped' = stopped \ (S \ hasToMove(S))
        /\ moving' = moving \cup hasToMove(S)
        /\ cmMax' = Max({cmMax} \cup (C \cap created))
        /\ IF C \cap created = {} THEN UNCHANGED <<cmMons, cmOut>> ELSE cmMons' = info /\ cmOut' = out

\* startDeployments creates or updates the deployments and goes on where one fails.
startDeployments ==
    /\ pc = "start"
    /\ listed' = dep
    /\ \/ startMon(info, info) /\ UNCHANGED events
       \/ Event /\ \E m \in info : startMon(info \ {m}, info) \/ startMon(info, info \ {m})
    /\ pc' = "join"
    /\ UNCHANGED <<monmap, running, lost, pdb, count, mgr, spec, info, out, maxId, timer, retries,
                   qmap, quo, todo, planned, old, new, newMonSucceeded, doomed>>

\* If all deployments exist and one is ready, it waits for a quorum after each mon and stops where
\* there is none.
startSome ==
    /\ pc = "start" /\ Quorum = {} /\ TimedOut(info)
    /\ Cardinality(dep) >= Cardinality(info) /\ running \cap dep # {}
    /\ \E S \in SUBSET info \ {{}} : startMon(S, S)
    /\ Return
    /\ UNCHANGED <<monmap, running, lost, pdb, count, mgr, spec, info, out, maxId, timer, retries>>

\* removeMonResources: a deployment is deleted in the foreground, with its pod.
deleteDeployment(m) == dep' = dep \ {m} /\ stopped' = stopped \ {m} /\ running' = running \ {m}

\* Variant: also during a failover.
checkForExtraMonResources_Always(mons) ==
    IF Cardinality(listed) > spec /\ Cardinality(listed) > Cardinality(mons)
    THEN \E m \in listed \ mons : deleteDeployment(m)
    ELSE UNCHANGED <<dep, stopped, running>>

\* checkForExtraMonResources deletes one deployment that belongs to no expected mon.
checkForExtraMonResources(mons) ==
    IF /\ Cardinality(listed) > spec /\ Cardinality(listed) > Cardinality(mons)
       /\ Cardinality(mons) >= spec
    THEN \E m \in listed \ mons : deleteDeployment(m)
    ELSE UNCHANGED <<dep, stopped, running>>

\* waitForMonsToJoin: a quorum will do for mons that exist, a new mon has to be in it.  Setting the
\* config options may still fail after that.
waitForMonsToJoin ==
    LET joined == IF planned = {} THEN Quorum # {} ELSE info \subseteq Quorum
        rest == planned \ info
    IN  /\ pc = "join"
        /\ \/ /\ joined
              /\ checkForExtraMonResources(info)
              /\ \/ /\ pc' = IF rest = {} THEN "pdb2" ELSE "expect"
                    /\ planned' = rest /\ listed' = {}
                    /\ UNCHANGED <<qmap, quo, todo, old, new, newMonSucceeded, doomed, events>>
                 \/ Event /\ Return
           \/ /\ ~joined /\ TimedOut(info)
              /\ checkForExtraMonResources(info) \/ UNCHANGED <<dep, stopped, running>>
              /\ Return
        /\ UNCHANGED <<monmap, fresh, lost, pdb, count, mgr, configmap, memory>>

\* reconcileMonPDB at the end of startMons and of a failover: above two mons it needs the quorum
\* status.  Where it fails startMons does, and the reconcile does not come to the mgr; nor does it
\* where a later call fails.
refreshMonPDB ==
    LET budget == IF Quorum = {} THEN pdb ELSE allowedDown(monmap, Quorum)
    IN  /\ pc = "pdb2"
        /\ \/ pdb' = budget /\ mgr' = (IF spec <= 2 \/ Quorum # {} THEN TRUE ELSE mgr) /\ UNCHANGED events
           \/ Event /\ pdb' \in {pdb, budget} /\ UNCHANGED mgr
        /\ Return
        /\ UNCHANGED <<ceph, dep, stopped, count, configmap, memory>>

(***************************************************************************)
(* checkHealth                                                             *)
(***************************************************************************)

\* Get the quorum status, without which the check fails, and update the budget.  The mons of that
\* monmap are then visited one by one, in any order; visits that change nothing are left out.
checkHealth ==
    /\ pc = "idle" /\ mgr /\ info # {} /\ Quorum # {}
    /\ qmap' = monmap /\ quo' = Quorum
    /\ todo' = {m \in monmap : m \in Quorum /\ m \in info => m \in out \/ timer[m] # "none"}
    /\ \/ pdb' = allowedDown(monmap, Quorum) /\ UNCHANGED events
       \/ Event /\ UNCHANGED pdb
    /\ pc' = "scan"
    /\ UNCHANGED <<ceph, dep, stopped, count, mgr, configmap, memory, planned, listed, old, new,
                   newMonSucceeded, doomed>>

\* trackMonInOrOutOfQuorum for one mon, after the marks were set to flags.  The configmap is given
\* the mon just marked, or none.
trackMon(flags, m, inQuorum) ==
    /\ out' = IF inQuorum THEN flags \ {m} ELSE flags \cup ({m} \cap info)
    /\ cmOut' = IF out' # flags THEN IF inQuorum THEN {} ELSE {m}
                ELSE IF flags # out THEN {} ELSE cmOut

\* failMon marks the mon and goes on where the configmap cannot be written.
trackOrLog(flags, m) ==
    \/ trackMon(flags, m, FALSE) /\ UNCHANGED events
    \/ m \notin flags /\ Event /\ out' = flags \cup {m} /\ cmOut' = IF flags = out THEN cmOut ELSE {}

\* failMon: a spare mon is removed, another one failed over.
failMon(monCount, m) ==
    /\ IF monCount > spec
       THEN pc' = "remove" /\ doomed' = m /\ UNCHANGED <<old, new>>
       ELSE /\ maxId < MaxMonID
            /\ pc' = "stop" /\ old' = m /\ new' = maxId + 1 /\ UNCHANGED doomed
    /\ todo' = {}

\* A mon nobody expects is in a quorum that is large enough without it.
removeUnknown(m) ==
    /\ pc = "scan" /\ m \in (todo \cap quo) \ info /\ Cardinality(quo) > spec
    /\ pc' = "remove" /\ doomed' = m /\ todo' = {}
    /\ UNCHANGED <<ceph, kube, configmap, memory, qmap, quo, planned, listed, old, new, newMonSucceeded, events>>

foundInQuorum(m) ==
    /\ pc = "scan" /\ m \in todo \cap quo /\ (m \in info \/ Cardinality(quo) <= spec)
    /\ trackMon(out, m, TRUE)
    /\ timer' = [timer EXCEPT ![m] = "none"]
    /\ todo' = todo \ {m}
    /\ UNCHANGED <<ceph, kube, cmMons, cmMax, spec, info, maxId, retries, moving, pc,
                   qmap, quo, planned, listed, old, new, newMonSucceeded, doomed, events>>

\* shouldFailoverMonImmediately: the node the mon is assigned to does not exist.
immediately(m) == m \in lost \cap info \cap Pinned

waitForTimeout(m) ==
    /\ pc = "scan" /\ m \in todo \ quo
    /\ timer[m] # "expired" /\ ~immediately(m)
    /\ trackMon(out, m, FALSE)
    /\ timer' = [timer EXCEPT ![m] = "set"]
    /\ todo' = todo \ {m}
    /\ UNCHANGED <<ceph, kube, cmMons, cmMax, spec, info, maxId, retries, moving, pc,
                   qmap, quo, planned, listed, old, new, newMonSucceeded, doomed, events>>

\* Variant: the retries are not counted.
retryUnscheduled_Uncounted(m) ==
    /\ pc = "scan" /\ m \in todo \ (quo \cup running)
    /\ timer[m] = "expired" /\ ~immediately(m) /\ retries > 0
    /\ trackMon(out, m, FALSE)
    /\ timer' = [timer EXCEPT ![m] = "none"]
    /\ Return
    /\ UNCHANGED <<ceph, kube, cmMons, cmMax, spec, info, maxId, retries, moving, events>>

\* The pod is not even scheduled: wait once more.
retryUnscheduled(m) ==
    /\ pc = "scan" /\ m \in todo \ (quo \cup running)
    /\ timer[m] = "expired" /\ ~immediately(m) /\ retries > 0
    /\ trackMon(out, m, FALSE)
    /\ timer' = [timer EXCEPT ![m] = "none"] /\ retries' = retries - 1
    /\ Return
    /\ UNCHANGED <<ceph, kube, cmMons, cmMax, spec, info, maxId, moving, events>>

failOutOfQuorum(m) ==
    /\ pc = "scan" /\ m \in todo \ quo
    /\ timer[m] = "expired" \/ immediately(m)
    /\ trackMon(out, m, FALSE)
    /\ timer' = [timer EXCEPT ![m] = IF @ = "none" THEN "set" ELSE @]
    /\ retries' = IF immediately(m) THEN retries ELSE 1
    /\ failMon(Cardinality(qmap), m)
    /\ UNCHANGED <<ceph, kube, cmMons, cmMax, spec, info, maxId, moving, qmap, quo, planned, listed,
                   newMonSucceeded, events>>

\* The configmap cannot be written: the check returns, the mark stays in memory.
trackFails(m) ==
    /\ pc = "scan" /\ m \in todo \cap info
    /\ (m \in out) = (m \in quo)
    /\ out' = IF m \in quo THEN out \ {m} ELSE out \cup {m}
    /\ Event /\ Return
    /\ UNCHANGED <<ceph, kube, configmap, spec, info, maxId, timer, retries, moving>>

\* All mons of the monmap are visited and none was failed over.
scanned == pc = "scan" /\ todo = {}
allMonsInQuorum == qmap = quo

clearOutOfQuorum == IF allMonsInQuorum THEN {} ELSE out

\* trackMonInOrOutOfQuorum("", true) if all are in quorum: what it clears are marks of mons that
\* have left the monmap.
trackAll ==
    /\ out' = clearOutOfQuorum
    /\ cmOut' = IF out' = out THEN cmOut ELSE {}

failNotFound ==
    /\ scanned
    /\ \E m \in info \ qmap : trackOrLog(clearOutOfQuorum, m) /\ failMon(Cardinality(info), m)
    /\ UNCHANGED <<ceph, kube, cmMons, cmMax, spec, info, maxId, timer, retries, moving,
                   qmap, quo, planned, listed, newMonSucceeded>>

addMons ==
    /\ scanned /\ info \subseteq qmap /\ Cardinality(qmap) < spec
    /\ trackAll
    /\ startMons(info, maxId, spec)
    /\ UNCHANGED <<ceph, kube, cmMons, cmMax, spec, info, timer, retries, moving>>

keepTwo == spec < 2 /\ Cardinality(qmap) = 2

\* determineExtraMonToRemove picks one of the expected mons.
removeExtra ==
    /\ scanned /\ info \subseteq qmap /\ allMonsInQuorum /\ Cardinality(qmap) > spec /\ ~keepTwo
    /\ trackAll
    /\ \E m \in info : doomed' = m
    /\ pc' = "remove"
    /\ UNCHANGED <<ceph, kube, cmMons, cmMax, spec, info, maxId, timer, retries, moving,
                   qmap, quo, todo, planned, listed, old, new, newMonSucceeded, events>>

\* Otherwise a mon of the mon failover list is failed over.
nothingElse ==
    /\ scanned /\ info \subseteq qmap /\ Cardinality(qmap) >= spec
    /\ allMonsInQuorum /\ Cardinality(qmap) > spec => keepTwo

failListed(m) ==
    /\ nothingElse /\ m \in moving \cap info
    /\ trackOrLog(clearOutOfQuorum, m)
    /\ failMon(Cardinality(info), m)
    /\ moving' = moving \ {m}
    /\ UNCHANGED <<ceph, kube, cmMons, cmMax, spec, info, maxId, timer, retries,
                   qmap, quo, planned, listed, newMonSucceeded>>

healthy ==
    /\ nothingElse /\ moving \cap info = {}
    /\ trackAll
    /\ Return
    /\ UNCHANGED <<ceph, kube, cmMons, cmMax, spec, info, maxId, timer, retries, moving, events>>

(***************************************************************************)
(* failoverMon and removeMon                                               *)
(***************************************************************************)

\* Scale the old mon down; if that fails the failover goes on.
stopOldMon ==
    /\ pc = "stop"
    /\ \/ stopped' = stopped \cup ({old} \cap dep) /\ UNCHANGED events
       \/ Event /\ UNCHANGED stopped
    /\ pc' = "place"
    /\ UNCHANGED <<ceph, dep, pdb, count, mgr, configmap, memory, locals>>

\* Assign the new mon to a node, create its service and save it among the expected mons.
placeNewMon ==
    /\ pc = "place"
    /\ \/ /\ info' = info \cup {new} /\ out' = out \ {new}
          /\ \/ saveMonConfig /\ pc' = "startNew"
             \/ saveFails /\ pc' = "undoPlace"
       \/ Event /\ pc' = "undoPlace" /\ UNCHANGED <<info, out, cmMons, cmOut>>
    /\ UNCHANGED <<ceph, kube, cmMax, spec, maxId, timer, retries, moving, locals>>

startNewMon ==
    /\ pc = "startNew"
    /\ listed' = dep
    /\ \/ startMon({new}, {new}) /\ UNCHANGED events
       \/ Event /\ (startMon({}, {}) \/ startMon({new}, {}))
    /\ pc' = "joinNew"
    /\ UNCHANGED <<monmap, running, lost, pdb, count, mgr, spec, info, out, maxId, timer, retries,
                   qmap, quo, todo, planned, old, new, newMonSucceeded, doomed>>

\* Variant: the deployment is enough.
newMonJoined_Early ==
    /\ pc = "joinNew" /\ new \in dep
    /\ checkForExtraMonResources({new})
    /\ maxId' = maxId + 1
    /\ newMonSucceeded' = TRUE
    /\ pc' = "remove" /\ doomed' = old /\ listed' = {}
    /\ UNCHANGED <<monmap, fresh, lost, pdb, count, mgr, configmap, spec, info, out, timer, retries, moving,
                   qmap, quo, todo, planned, old, new, events>>

\* The new mon has to be in quorum before the old one is removed.
newMonJoined ==
    /\ pc = "joinNew" /\ new \in Quorum
    /\ checkForExtraMonResources({new})
    /\ maxId' = maxId + 1
    /\ newMonSucceeded' = TRUE
    /\ pc' = "remove" /\ doomed' = old /\ listed' = {}
    /\ UNCHANGED <<monmap, fresh, lost, pdb, count, mgr, configmap, spec, info, out, timer, retries, moving,
                   qmap, quo, todo, planned, old, new, events>>

\* Five minutes have passed.
newMonNotInQuorum ==
    /\ pc = "joinNew" /\ new \notin Quorum /\ TimedOut({new})
    /\ checkForExtraMonResources({new}) \/ UNCHANGED <<dep, stopped, running>>
    /\ pc' = "undo" /\ listed' = {}
    /\ UNCHANGED <<monmap, fresh, lost, pdb, count, mgr, configmap, memory, qmap, quo, todo, planned, old, new,
                   newMonSucceeded, doomed>>

\* The deferred clean-up: scale the old mon up, remove the new one, from quorum if it was started.
revertFailover ==
    /\ pc \in {"undo", "undoPlace"}
    /\ \/ stopped' = stopped \ {old} /\ UNCHANGED events
       \/ Event /\ UNCHANGED stopped
    /\ doomed' = new
    /\ pc' = IF pc = "undo" THEN "remove" ELSE "forget"
    /\ UNCHANGED <<ceph, dep, pdb, count, mgr, configmap, memory, qmap, quo, todo, planned, listed, old, new, newMonSucceeded>>

\* `ceph mon remove`: it fails without quorum, or for another reason, which is only logged.
removeMonitorFromQuorum ==
    /\ pc = "remove"
    /\ \/ monmap' = (IF Quorum = {} THEN monmap ELSE monmap \ {doomed}) /\ UNCHANGED events
       \/ Event /\ UNCHANGED monmap
    /\ pc' = "forget"
    /\ UNCHANGED <<running, fresh, lost, kube, configmap, memory, locals>>

\* Where removeMon returns to: the revert, the end of failMon or the end of the check.
Removed ==
    IF old = NoMon THEN Return
    ELSE pc' = (IF newMonSucceeded THEN "pdb2" ELSE "revertMax") /\ UNCHANGED locals

\* Variant: the mark stays.
forgetMon_KeepsMark ==
    /\ pc = "forget"
    /\ info' = info \ {doomed} /\ out' = out
    /\ \/ saveMonConfig /\ pc' = "delete" /\ UNCHANGED locals
       \/ saveFails /\ Removed
    /\ UNCHANGED <<ceph, kube, cmMax, spec, maxId, timer, retries, moving>>

\* Drop the mon from the expected ones; its deployment goes only after that is saved.
forgetMon ==
    /\ pc = "forget"
    /\ info' = info \ {doomed} /\ out' = out \ {doomed}
    /\ \/ saveMonConfig /\ pc' = "delete" /\ UNCHANGED locals
       \/ saveFails /\ Removed
    /\ UNCHANGED <<ceph, kube, cmMax, spec, maxId, timer, retries, moving>>

removeMonResources ==
    /\ pc = "delete"
    /\ \/ deleteDeployment(doomed) /\ UNCHANGED events
       \/ Event /\ UNCHANGED <<dep, stopped, running>>
    /\ Removed
    /\ UNCHANGED <<monmap, fresh, lost, pdb, count, mgr, configmap, memory>>

\* The id of the new mon was committed when it started.
revertMaxMonID ==
    /\ pc = "revertMax"
    /\ \/ cmMax' = maxId /\ UNCHANGED events
       \/ Event /\ UNCHANGED cmMax
    /\ pc' = "pdb2"
    /\ UNCHANGED <<ceph, kube, cmMons, cmOut, memory, locals>>

\* A restarted operator remembers nothing.
Restart ==
    /\ Event
    /\ Return
    /\ spec' = 0 /\ info' = {} /\ out' = {} /\ maxId' = -1
    /\ timer' = [m \in Ids |-> "none"] /\ retries' = 1 /\ moving' = {}
    /\ UNCHANGED <<ceph, kube, configmap>>

(***************************************************************************)
(* Pods, nodes, Ceph, time and the user                                    *)
(***************************************************************************)

MonUp(m) ==
    /\ CanStart(m)
    /\ running' = running \cup {m}
    /\ monmap' = monmap \cup {m} /\ fresh' = fresh \ {m}
    /\ UNCHANGED <<lost, kube, configmap, memory, pc, locals, events>>

\* The pod of a deployment that is scaled down ends.
PodEnds(m) ==
    /\ m \in running \cap stopped
    /\ running' = running \ {m}
    /\ UNCHANGED <<monmap, fresh, lost, kube, configmap, memory, pc, locals, events>>

Crash(m) ==
    /\ m \in running \cap Crashable /\ Event
    /\ running' = running \ {m}
    /\ UNCHANGED <<monmap, fresh, lost, kube, configmap, memory, pc, locals>>

LoseNode(m) ==
    /\ m \in Losable \ lost /\ Event
    /\ lost' = lost \cup {m} /\ running' = running \ {m}
    /\ UNCHANGED <<monmap, fresh, kube, configmap, memory, pc, locals>>

\* MonOutTimeout passes, which only the next check notices.
TimeoutPasses(m) ==
    /\ pc = "idle" /\ m \in monmap \ Quorum
    /\ timer[m] = "set" /\ TimedOut({m})
    /\ timer' = [timer EXCEPT ![m] = "expired"]
    /\ UNCHANGED <<ceph, kube, configmap, spec, info, out, maxId, retries, moving, pc, locals>>

ChangeCount ==
    /\ Event
    /\ count' \in Counts \ {count}
    /\ UNCHANGED <<ceph, dep, stopped, pdb, mgr, configmap, memory, pc, locals>>

(***************************************************************************)
(* The specification                                                       *)
(***************************************************************************)

\* An established cluster, healthy, or none yet; the operator has just started.
Init ==
    /\ monmap \in Clusters /\ running = monmap /\ fresh = {} /\ lost = {}
    /\ dep = monmap /\ stopped = {} /\ pdb = -1 /\ count \in Counts /\ mgr = (monmap # {})
    /\ cmMons = monmap /\ cmOut = {} /\ cmMax = Max({-1} \cup monmap)
    /\ spec = 0 /\ info = {} /\ out = {} /\ maxId = -1
    /\ timer = [m \in Ids |-> "none"] /\ retries = 1 /\ moving = {}
    /\ pc = "idle" /\ qmap = {} /\ quo = {} /\ todo = {} /\ planned = {} /\ listed = {}
    /\ old = NoMon /\ new = NoMon /\ newMonSucceeded = FALSE /\ doomed = NoMon
    /\ events = 0

Reconcile == \/ Start \/ ensureMonsRunning \/ startDeployments \/ startSome \/ waitForMonsToJoin
             \/ refreshMonPDB

Check == \/ checkHealth
         \/ \E m \in Ids : \/ removeUnknown(m) \/ foundInQuorum(m) \/ waitForTimeout(m)
                            \/ retryUnscheduled(m) \/ failOutOfQuorum(m) \/ trackFails(m)
                            \/ failListed(m)
         \/ failNotFound \/ addMons \/ removeExtra \/ healthy

Failover == \/ stopOldMon \/ placeNewMon \/ startNewMon \/ newMonJoined \/ newMonNotInQuorum
            \/ revertFailover \/ removeMonitorFromQuorum \/ forgetMon \/ removeMonResources
            \/ revertMaxMonID

Operator == Reconcile \/ Check \/ Failover

Environment == \/ \E m \in Ids : MonUp(m) \/ PodEnds(m) \/ Crash(m) \/ LoseNode(m) \/ TimeoutPasses(m)
               \/ ChangeCount

Next == Operator \/ Restart \/ Environment

Spec == Init /\ [][Next]_vars

\* The operator goes on and the health check is not kept from running; pods start and end, time
\* passes.  The mons are started in Go's random map order: a stopped one is not always passed over.
FairSpec ==
    /\ Spec
    /\ WF_vars(Operator) /\ SF_vars(checkHealth) /\ SF_vars(startSome /\ stopped' # stopped)
    /\ (\A m \in Ids : WF_vars(MonUp(m))) /\ WF_vars(\E m \in Ids : PodEnds(m))
    /\ SF_vars(\E m \in Ids : TimeoutPasses(m))

(***************************************************************************)
(* Properties                                                              *)
(***************************************************************************)

\* Types; only expected mons are marked out of quorum (MonInfo.OutOfQuorum), only existing
\* deployments are scaled to zero.
TypeOK ==
    /\ monmap \subseteq Ids /\ running \subseteq Ids /\ fresh \subseteq Ids /\ lost \subseteq Ids
    /\ dep \subseteq Ids /\ stopped \subseteq dep /\ pdb \in -1..2 /\ count \in Counts /\ mgr \in BOOLEAN
    /\ cmMons \subseteq Ids /\ cmOut \subseteq Ids /\ cmMax \in -1..MaxMonID
    /\ spec \in Counts \cup {0} /\ info \subseteq Ids /\ out \subseteq info /\ maxId \in -1..MaxMonID
    /\ timer \in [Ids -> {"none", "set", "expired"}] /\ retries \in 0..1 /\ moving \subseteq Ids
    /\ qmap \subseteq Ids /\ quo \subseteq qmap /\ todo \subseteq qmap
    /\ planned \subseteq Ids /\ listed \subseteq Ids
    /\ old \in Ids \cup {NoMon} /\ new \in Ids \cup {NoMon} /\ doomed \in Ids \cup {NoMon}
    /\ events \in 0..MaxEvents

Serving == running \cap (dep \ stopped)

\* The status the check works with is still true, but for the mon being failed over and its
\* replacement: nobody left the quorum, nobody joined the monmap, and the replacement is a new mon.
StatusHolds == /\ quo \cap monmap \subseteq Serving \cup {old}
               /\ monmap \subseteq qmap \cup {new} /\ new \notin qmap

\* checkHealth takes a mon away that was out of quorum, or any one when all mons were in it
\* (health.go:279-365).  A mon of the failover list it takes whatever the others do, and it does not
\* ask for three mons: of two, one may go while the other one is down.
Spared == {old, doomed} \cap quo = {} \/ (qmap = quo /\ Cardinality(qmap) > 2)

\* No mon has joined the monmap after `ceph mon remove`, nor was it kept in it because that failed:
\* removeMon deletes the deployment last, and a slow mon may start until then.
NoLateJoin == pc \in {"forget", "delete"} => doomed \notin monmap

\* As long as nothing else fails meanwhile, no step of a failover or removal (failoverMon, removeMon)
\* takes the quorum away: after it more than half of the monmap still runs.
FailoverKeepsQuorum ==
    [][Failover /\ StatusHolds /\ Majority(Serving) => Majority(Serving)']_vars

\* The replacement, with a deployment left over from an earlier failover, has not joined before the
\* old mon is stopped.
NoEarlyJoin == pc = "stop" => new \notin monmap

\* A failover in a cluster of one mon may find deployments of other mons, of which
\* checkForExtraMonResources deletes one: it compares them with the replacement alone.
NotAlone == pc = "joinNew" => spec > 1

\* No step of a failover or removal takes the quorum away as long as nothing else fails meanwhile, in
\* the cases in which the code looks after that; the four others are the conditions above.
KeepsQuorum ==
    [][/\ Failover /\ StatusHolds /\ Majority(Serving)
       /\ Spared /\ NoLateJoin /\ NoEarlyJoin /\ NotAlone
       => Majority(Serving)']_vars

\* The budget a health check writes (reconcileMonPDB) never allows evictions that would end the
\* quorum it has just seen, once the cluster has all the mons the CR asks for.
BudgetLeavesQuorum ==
    [][checkHealth /\ events' = events /\ spec > 2 /\ Cardinality(monmap) >= spec
         => 2 * (Cardinality(Quorum) - pdb') > Cardinality(monmap)]_vars

\* `ceph mon remove` takes a mon of the checked status out of the monmap only if enough mons remain:
\* as many as the CR asks for, or as many as there were, its replacement having joined.
RemovesOnlySpares ==
    [][\A m \in qmap \cap (monmap \ monmap') :
           \/ new \in qmap \/ Cardinality(monmap') >= spec
           \/ Cardinality(monmap') >= Cardinality(qmap)]_vars

\* A failover starts a mon whose id is above those of all mons expected, whatever was reverted,
\* interrupted or reloaded before (maxMonID in memory and in the configmap).
NewIdUnused == new # NoMon /\ pc \in {"stop", "place"} => \A m \in info : m < new

Recovered == Quorum = monmap /\ info \subseteq monmap /\ Cardinality(monmap) = count

\* More than half of the monmap can run: the mons have deployments and nodes, and those scaled to
\* zero are expected, so that Start scales them up.  Three things end that: nodes are lost; removeMon
\* gives up a mon that joined late or that `ceph mon remove` left in the monmap; and
\* checkForExtraMonResources deletes the deployment of a mon in quorum which the operator does not
\* expect (mon.go:1201, "not needed and not in quorum").
Viable == monmap # {} => Majority(dep \ (lost \cup (stopped \ cmMons)))

\* When failures stop, the cluster ends up with all its mons in quorum, as many as the CR asks for
\* and all of them expected by the operator, provided that it was viable throughout: without a
\* quorum the health check does nothing.
Recovers == []Viable => <>[]Recovered
=============================================================================
