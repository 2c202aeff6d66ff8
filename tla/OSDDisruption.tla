--------------------------- MODULE OSDDisruption ---------------------------
(***************************************************************************)
(* The OSD part of the disruption controller                               *)
(* (pkg/operator/ceph/disruption/clusterdisruption): one reconcile after   *)
(* another, each a sequence of reads and writes of the Kubernetes API and  *)
(* of Ceph, interleaved with node drains, OSD crashes, PG recovery, pool   *)
(* changes and a failure or restart of the operator between any two calls. *)
(*                                                                         *)
(* What is not Rook is modelled from how the controller uses it: the       *)
(* eviction API (a pod may be evicted iff at most one budget selects it    *)
(* and that budget has a disruption left), the OSD pods, and the PG        *)
(* summary of `ceph status`, which lags behind the PGs.                    *)
(***************************************************************************)
EXTENDS Integers, FiniteSets

CONSTANTS
    OSDs,        \* OSD ids that may ever have a deployment
    Steady,      \* the OSDs that are deployed throughout, have booted once and are never replaced
    Nodes,       \* Kubernetes nodes
    NodeOf,      \* NodeOf[o]: the hostname `ceph osd metadata` reports for o
    Levels,      \* CRUSH levels in the order of CRUSHMapLevelsOrdered; 0 is "host"
    Domains,     \* names of failure domains; sets.List sorts them, hence numbers
    Location,    \* Location[l][o]: the topology-location-<l> label of o's deployment
    PoolChoices, \* the sets of failure-domain levels the pools may have between them
    Cordonable,  \* nodes an admin may drain
    Crashable,   \* OSDs that may go down by themselves
    Expiring,    \* failure domains whose maintenance may outlast OSDMaintenanceTimeout
    MaxAborts    \* how many reconciles may fail or be cut short by a restart

ASSUME OSDAssumption == Steady \subseteq OSDs /\ NodeOf \in [OSDs -> Nodes]
ASSUME LevelAssumption == Levels \subseteq Nat /\ 0 \in Levels
ASSUME DomainAssumption == Domains \subseteq Nat \ {0}
ASSUME LocationAssumption == Location \in [Levels -> [OSDs -> Domains]]
ASSUME ChoiceAssumption ==
    /\ PoolChoices \subseteq SUBSET Nat
    /\ Cordonable \subseteq Nodes
    /\ Crashable \subseteq OSDs /\ Expiring \subseteq Domains
    /\ MaxAborts \in Nat

NoDomain == 0
Ages == {"none", "recent", "old"}
OSDStates == {"absent", "new", "up", "down", "parked"}

VARIABLES
    osd,       \* deployment and pod of each OSD; "new" has never booted, "parked" is at replicas 0
    replacing, \* OSDs whose deployment carries the replace-in-progress annotation
    cordoned,  \* nodes that are unschedulable (or gone: the controller treats both alike)
    pools,     \* the failure-domain levels of the pools there are
    degraded,  \* OSDs whose loss the PGs have not recovered from
    pgClean,   \* what `ceph status` reports of the PGs
    noout,     \* failure domains that carry the noout flag
    default,   \* the PDB rook-ceph-osd: whether it exists and the OSDs its selector excludes
    blocking,  \* the PDBs rook-ceph-osd-<level>-<domain>
    cm,        \* the configmap rook-ceph-pdbstatemap
    pc,        \* the next call of the running reconcile
    snap,      \* the reconcile's view of level, failure domains and down OSDs
    mem,       \* the reconcile's copy of the configmap
    exclude,   \* excludeOSDs
    todo,      \* failure domains the current loop has still to visit
    failed,    \* updateNoout returned an error
    queued,    \* a request is in the work queue
    aborts,    \* reconciles cut short so far
    exposed    \* history: domains opened for draining since the budgets last covered every OSD

world == <<osd, replacing, cordoned, pools, degraded, pgClean>>
budgets == <<default, blocking, exposed>>
run == <<snap, mem, exclude, todo, failed>>
\* What only the controller writes; time also passes for the timestamps in cm and mem.
controller == <<noout, budgets, cm, pc, run, aborts>>
vars == <<world, controller, queued>>

NoState == [draining |-> NoDomain, setNoOut |-> FALSE, since |-> "none",
            nooutSince |-> [d \in Domains |-> "none"]]
NoSnap == [level |-> 0, all |-> {}, down |-> {}, drained |-> {}, downOSDs |-> {}]

StateMaps == [draining : Domains \cup {NoDomain}, setNoOut : BOOLEAN, since : Ages,
              nooutSince : [Domains -> Ages]]
Snapshots == [level : Levels, all : SUBSET Domains, down : SUBSET Domains,
              drained : SUBSET Domains, downOSDs : SUBSET OSDs]
Steps == {"idle", "list", "nodes", "health", "block", "default", "unblock", "noout",
          "requeue"}

Init ==
    /\ osd = [o \in OSDs |-> IF o \in Steady THEN "up" ELSE "absent"]
    /\ replacing = {} /\ cordoned = {} /\ degraded = {} /\ pgClean = TRUE
    /\ pools \in PoolChoices
    /\ noout = {} /\ blocking = {} /\ cm = NoState
    /\ default \in [on : BOOLEAN, excluded : {{}}]
    /\ pc = "idle" /\ snap = NoSnap /\ mem = NoState /\ exclude = {} /\ todo = {}
    /\ failed = FALSE /\ queued = TRUE /\ aborts = 0
    /\ exposed = IF default.on THEN {} ELSE Domains

-----------------------------------------------------------------------------
(* What surrounds the controller.                                          *)

DomainsOf(l, S) == {Location[l][o] : o \in S}
Deployed == {o \in OSDs : osd[o] # "absent"}

\* The blocking budgets whose selector matches the pod of o.
BlockingOn(o) == {b \in blocking : Location[b[1]][o] = b[2]}

\* The default budget selects the pod of o.
DefaultOn(o) == default.on /\ o \notin default.excluded

\* status.disruptionsAllowed of the default budget is 0: a pod it selects is not ready.
NoDisruptionLeft(states) ==
    LET selected == {o \in OSDs : states[o] \in {"new", "up", "down"} /\ DefaultOn(o)}
    IN  selected = {} \/ \E o \in selected : states[o] # "up"

Uncovered(o) == BlockingOn(o) = {} /\ ~DefaultOn(o)

MayEvict(o) == Uncovered(o) \/ (BlockingOn(o) = {} /\ ~NoDisruptionLeft(osd))

\* An update event of the default budget with no disruption left is queued (pdbPredicate).
Notify == queued' = (queued \/ (default.on /\ NoDisruptionLeft(osd')))

Cordon(n) ==
    /\ n \in Cordonable \ cordoned
    /\ cordoned' = cordoned \cup {n}
    /\ UNCHANGED <<osd, replacing, pools, degraded, pgClean, controller, queued>>

Uncordon(n) ==
    /\ n \in cordoned
    /\ cordoned' = cordoned \ {n}
    /\ UNCHANGED <<osd, replacing, pools, degraded, pgClean, controller, queued>>

GoDown(o) ==
    /\ osd[o] = "up"
    /\ osd' = [osd EXCEPT ![o] = "down"]
    /\ degraded' = degraded \cup {o}
    /\ Notify
    /\ UNCHANGED <<replacing, cordoned, pools, pgClean, controller>>

\* A drain evicts the pod of an OSD from its cordoned node.
Evict(o) == NodeOf[o] \in cordoned /\ MayEvict(o) /\ GoDown(o)

Crash(o) == o \in Crashable /\ GoDown(o)

\* The deployment and pod of o change without harm to the PGs.
Become(o, state) ==
    /\ osd' = [osd EXCEPT ![o] = state]
    /\ Notify
    /\ UNCHANGED <<cordoned, pools, degraded, pgClean, controller>>

Boot(o) ==
    /\ osd[o] \in {"new", "down"} /\ NodeOf[o] \notin cordoned
    /\ Become(o, "up")
    /\ UNCHANGED replacing

\* The operator deploys a new OSD, and removes one that is down.
Add(o) == osd[o] = "absent" /\ Become(o, "new") /\ UNCHANGED replacing

Remove(o) ==
    /\ osd[o] = "down" /\ o \notin Steady \cup replacing
    /\ Become(o, "absent")
    /\ UNCHANGED replacing

\* A replacement marks the deployment, scales it to 0 once the data has moved away, and in the
\* end recreates it.
MarkReplacing(o) ==
    /\ osd[o] \in {"up", "down"} /\ o \notin Steady \cup replacing
    /\ replacing' = replacing \cup {o}
    /\ UNCHANGED <<osd, cordoned, pools, degraded, pgClean, controller, queued>>

Park(o) ==
    /\ o \in replacing \ degraded /\ osd[o] \in {"up", "down"}
    /\ Become(o, "parked")
    /\ UNCHANGED replacing

Recreate(o) ==
    /\ o \in replacing /\ osd[o] = "parked"
    /\ Become(o, "new")
    /\ replacing' = replacing \ {o}

\* The PGs recover from the loss of o: it is back, or (unless noout holds it in) its data has
\* been rebuilt elsewhere.
Recover(o) ==
    /\ o \in degraded
    /\ osd[o] = "up" \/ \A l \in Levels : Location[l][o] \notin noout
    /\ degraded' = degraded \ {o}
    /\ UNCHANGED <<osd, replacing, cordoned, pools, pgClean, controller, queued>>

\* `ceph status` catches up with the PGs.
Report ==
    /\ pgClean # (degraded = {})
    /\ pgClean' = (degraded = {})
    /\ UNCHANGED <<osd, replacing, cordoned, pools, degraded, controller, queued>>

\* Pools are created and deleted; the controller watches their resources.
ChangePools(P) ==
    /\ P # pools
    /\ pools' = P
    /\ queued' = TRUE
    /\ UNCHANGED <<osd, replacing, cordoned, degraded, pgClean, controller>>

Older(age) == IF age = "recent" THEN "old" ELSE age

\* 60 seconds pass since the drain timestamp; by then `ceph status` is current.
AgeDrain ==
    /\ pgClean = (degraded = {})
    /\ "recent" \in {cm.since, mem.since}
    /\ cm' = [cm EXCEPT !.since = Older(@)]
    /\ mem' = [mem EXCEPT !.since = Older(@)]
    /\ UNCHANGED <<world, noout, budgets, pc, snap, exclude, todo, failed, queued, aborts>>

\* OSDMaintenanceTimeout passes since noout was set on d.
AgeNoout(d) ==
    /\ "recent" \in {cm.nooutSince[d], mem.nooutSince[d]}
    /\ cm' = [cm EXCEPT !.nooutSince[d] = Older(@)]
    /\ mem' = [mem EXCEPT !.nooutSince[d] = Older(@)]
    /\ UNCHANGED <<world, noout, budgets, pc, snap, exclude, todo, failed, queued, aborts>>

-----------------------------------------------------------------------------
(* The reconcile.                                                          *)

\* sets.List sorts: the first element of a list of failure domains.
IsFirst(d, S) == d \in S /\ \A e \in S : d =< e

\* No pool names a known level: DefaultFailureDomain, "host".
getMinimumFailureDomain(P, l) ==
    IF P \cap Levels = {} THEN l = 0 ELSE IsFirst(l, P \cap Levels)

Start ==
    /\ pc = "idle" /\ queued
    /\ queued' = FALSE
    /\ IF pools = {}
       THEN UNCHANGED <<pc, snap>>
       ELSE \E l \in Levels : /\ getMinimumFailureDomain(pools, l)
                              /\ snap' = [NoSnap EXCEPT !.level = l]
                              /\ pc' = "list"
    /\ UNCHANGED <<world, noout, budgets, cm, mem, exclude, todo, failed, aborts>>

\* getOSDFailureDomains lists the deployments. An OSD under replacement counts as a member of
\* its domain and never as down.
getOSDFailureDomains ==
    LET notReady == {o \in Deployed \ replacing : osd[o] # "up"}
    IN  /\ pc = "list" /\ pc' = "nodes"
        /\ snap' = [snap EXCEPT !.all = DomainsOf(snap.level, Deployed \ notReady),
                                !.down = DomainsOf(snap.level, notReady),
                                !.downOSDs = notReady]
        /\ UNCHANGED <<world, noout, budgets, cm, mem, exclude, todo, failed, queued, aborts>>

\* Variant: a domain is recorded only by its ready OSDs.
hasOSDNodeDrained_ReadyOnly ==
    /\ pc = "nodes" /\ pc' = "health"
    /\ snap' = [snap EXCEPT !.drained = DomainsOf(snap.level, {o \in snap.downOSDs :
                                        osd[o] \notin {"absent", "new"} /\ NodeOf[o] \in cordoned})]
    /\ UNCHANGED <<world, noout, budgets, cm, mem, exclude, todo, failed, queued, aborts>>

\* The rest of getOSDFailureDomains asks Ceph for the node of each OSD that is not ready, and
\* skips the OSD, before its domain is recorded, when Ceph has none.
hasOSDNodeDrained ==
    LET known == {o \in snap.downOSDs : osd[o] \notin {"absent", "new"}}
    IN  /\ pc = "nodes" /\ pc' = "health"
        /\ snap' = [snap EXCEPT
                        !.all = @ \cup DomainsOf(snap.level, known),
                        !.drained = DomainsOf(snap.level, {o \in known : NodeOf[o] \in cordoned})]
        /\ UNCHANGED <<world, noout, budgets, cm, mem, exclude, todo, failed, queued, aborts>>

\* Variants: the duration key is emptied with a stray value; the draining domain is kept.
resetPDBConfig_StrayKey(m) == [m EXCEPT !.draining = NoDomain, !.setNoOut = FALSE, !.since = ""]
resetPDBConfig_KeepsDomain(m) == [m EXCEPT !.setNoOut = FALSE, !.since = "none"]

resetPDBConfig(m) == [m EXCEPT !.draining = NoDomain, !.setNoOut = FALSE, !.since = "none"]

\* The outcomes of setPDBConfig: a domain with a drained node takes precedence over one whose
\* OSDs are just down, and a recorded domain stays as long as it is in the list that counts.
setPDBConfig(m) ==
    LET record(S, flag) == {[m EXCEPT !.draining = d, !.setNoOut = flag, !.since = "recent"] :
                                d \in {e \in S : IsFirst(e, S)}}
    IN  IF snap.drained # {} /\ m.draining \notin snap.drained THEN record(snap.drained, TRUE)
        ELSE IF snap.down # {} /\ m.draining \notin snap.down THEN record(snap.down, FALSE)
        ELSE {[m EXCEPT !.since = "recent"]}

\* The switch of reconcilePDBsForOSDs, on the state map that initializePDBState has read: only
\* this controller writes it. (The lists of down OSDs and domains are not read again after the
\* switch: like every local, they are cleared after their last use.)
decide ==
    LET osdDown == snap.downOSDs # {}
        drain == snap.drained # {}
    IN  \/ /\ pgClean /\ ~osdDown
           /\ mem' = resetPDBConfig(cm) /\ exclude' = {}
        \/ /\ pgClean /\ osdDown /\ ~drain
           /\ mem' = resetPDBConfig(cm) /\ exclude' = snap.downOSDs
        \/ /\ pgClean /\ osdDown /\ drain
           /\ mem' = [cm EXCEPT !.since = IF @ = "none" THEN "recent" ELSE @]
           /\ exclude' = IF cm.since = "old" THEN snap.downOSDs ELSE {}
        \/ /\ ~pgClean /\ osdDown
           /\ mem' \in setPDBConfig(cm) /\ exclude' = {}
        \/ /\ ~pgClean /\ ~osdDown
           /\ mem' = cm /\ exclude' = {}

reconcilePDBsForOSDs ==
    /\ pc = "health"
    /\ decide
    /\ pc' = IF mem'.draining # NoDomain THEN "block" ELSE "default"
    /\ todo' = snap.all
    /\ snap' = [NoSnap EXCEPT !.level = snap.level, !.all = snap.all]
    /\ UNCHANGED <<world, noout, budgets, cm, failed, queued, aborts>>

\* Variant: the selector is always on the host label.
createBlockingPDBForOSD_Host(d) ==
    blocking' = blocking \cup {<<0, d>>} /\ UNCHANGED exposed

createBlockingPDBForOSD(d) ==
    blocking' = blocking \cup {<<snap.level, d>>} /\ UNCHANGED exposed

deleteBlockingPDBForOSD(d) ==
    blocking' = blocking \ {<<snap.level, d>>} /\ exposed' = exposed \cup {d}

\* handleActiveDrains visits the failure domains in order ...
handleActiveDrains ==
    /\ pc = "block"
    /\ \E d \in todo :
        /\ IsFirst(d, todo)
        /\ todo' = todo \ {d}
        /\ IF d # mem.draining THEN createBlockingPDBForOSD(d) ELSE deleteBlockingPDBForOSD(d)
    /\ UNCHANGED <<world, noout, default, cm, pc, snap, mem, exclude, failed, queued, aborts>>

\* ... and deletes the default PDB after the last one.
deleteDefaultPDBforOSD ==
    /\ pc = "block" /\ todo = {}
    /\ pc' = "noout" /\ todo' = snap.all
    /\ default' = [on |-> FALSE, excluded |-> {}]
    /\ exposed' = {mem.draining}
    /\ UNCHANGED <<world, noout, blocking, cm, snap, mem, exclude, failed, queued, aborts>>

\* handleInactiveDrains creates or updates the default PDB ...
createDefaultPDBforOSD ==
    /\ pc = "default" /\ pc' = "unblock"
    /\ default' = [on |-> TRUE, excluded |-> exclude]
    /\ exposed' = {} /\ exclude' = {}
    /\ UNCHANGED <<world, noout, blocking, cm, snap, mem, todo, failed, queued, aborts>>

\* ... and then deletes the blocking PDB of every failure domain.
handleInactiveDrains ==
    /\ pc = "unblock"
    /\ \/ \E d \in todo :
            /\ IsFirst(d, todo)
            /\ todo' = todo \ {d}
            /\ blocking' = blocking \ {<<snap.level, d>>}
            /\ UNCHANGED pc
       \/ todo = {} /\ pc' = "noout" /\ todo' = snap.all /\ UNCHANGED blocking
    /\ UNCHANGED <<world, noout, default, exposed, cm, snap, mem, exclude, failed, queued, aborts>>

\* The timestamp <domain>-noout-last-set-at, initialised when noout is wanted.
stamped(d) == IF d = mem.draining /\ mem.setNoOut /\ mem.nooutSince[d] = "none"
              THEN [mem EXCEPT !.nooutSince[d] = "recent"] ELSE mem

updateNoout ==
    /\ pc = "noout"
    /\ \E d \in todo :
        /\ IsFirst(d, todo)
        /\ todo' = todo \ {d}
        /\ IF d = mem.draining /\ mem.setNoOut
           THEN /\ mem' = stamped(d)
                /\ noout' = IF mem.nooutSince[d] = "old" THEN noout \ {d} ELSE noout \cup {d}
           ELSE /\ mem' = [mem EXCEPT !.nooutSince[d] = "none"]
                /\ noout' = noout \ {d}
    /\ UNCHANGED <<world, budgets, cm, pc, snap, exclude, failed, queued, aborts>>

\* `ceph osd dump` or a flag update fails; the error is returned after the configmap is saved.
updateNooutFails ==
    /\ pc = "noout" /\ ~failed /\ todo # {} /\ aborts < MaxAborts
    /\ failed' = TRUE /\ todo' = {} /\ aborts' = aborts + 1
    /\ mem' \in {mem} \cup {stamped(d) : d \in {e \in todo : IsFirst(e, todo)}}
    /\ UNCHANGED <<world, noout, budgets, cm, pc, snap, exclude, queued>>

savePDBState ==
    /\ pc = "noout" /\ todo = {}
    /\ cm' = mem /\ pc' = "requeue"
    /\ mem' = NoState /\ snap' = NoSnap
    /\ UNCHANGED <<world, noout, budgets, exclude, todo, failed, queued, aborts>>

\* The reconcile returns; what it held in memory is gone.
Return(requeue) ==
    /\ pc' = "idle" /\ queued' = (queued \/ requeue)
    /\ snap' = NoSnap /\ mem' = NoState /\ exclude' = {} /\ todo' = {} /\ failed' = FALSE
    /\ UNCHANGED <<world, noout, budgets, cm>>

\* Variants: the missing default PDB, or its exclusions are forgotten.
requeuePDBController_NoDefault ==
    /\ pc = "requeue"
    /\ Return(failed \/ (default.on /\ (NoDisruptionLeft(osd) \/ default.excluded # {})))
    /\ UNCHANGED aborts

requeuePDBController_Excludes ==
    /\ pc = "requeue"
    /\ Return(failed \/ ~default.on \/ NoDisruptionLeft(osd))
    /\ UNCHANGED aborts

requeuePDBController ==
    /\ pc = "requeue"
    /\ Return(failed \/ ~default.on \/ NoDisruptionLeft(osd) \/ default.excluded # {})
    /\ UNCHANGED aborts

\* A call fails and its error is returned, or the operator restarts: either way the reconcile
\* starts again from the beginning.
Abort ==
    /\ pc # "idle" /\ aborts < MaxAborts
    /\ aborts' = aborts + 1
    /\ Return(TRUE)

Controller ==
    \/ Start \/ getOSDFailureDomains \/ hasOSDNodeDrained
    \/ reconcilePDBsForOSDs \/ handleActiveDrains \/ deleteDefaultPDBforOSD
    \/ createDefaultPDBforOSD \/ handleInactiveDrains \/ updateNoout \/ savePDBState
    \/ requeuePDBController

Environment ==
    \/ \E n \in Nodes : Cordon(n) \/ Uncordon(n)
    \/ \E o \in OSDs : \/ Evict(o) \/ Crash(o) \/ Boot(o) \/ Add(o) \/ Remove(o)
                       \/ MarkReplacing(o) \/ Park(o) \/ Recreate(o) \/ Recover(o)
    \/ \E P \in PoolChoices : ChangePools(P)
    \/ \E d \in Expiring : AgeNoout(d)
    \/ Report \/ AgeDrain

Next == Controller \/ updateNooutFails \/ Abort \/ Environment

Spec == Init /\ [][Next]_vars

\* The operator starts on a cluster whose default PDB exists.
RunningSpec == Init /\ default.on /\ [][Next]_vars

\* The work queue runs a queued reconcile to its end, and `ceph status` catches up.
FairSpec == Spec /\ WF_vars(Controller) /\ WF_vars(Report)

-----------------------------------------------------------------------------
(* Properties.                                                             *)

\* Types of the controller's variables and of its surroundings.
TypeOK ==
    /\ osd \in [OSDs -> OSDStates] /\ replacing \subseteq OSDs /\ cordoned \subseteq Nodes
    /\ pools \in PoolChoices /\ degraded \subseteq OSDs /\ pgClean \in BOOLEAN
    /\ noout \subseteq Domains
    /\ default \in [on : BOOLEAN, excluded : SUBSET OSDs]
    /\ blocking \subseteq Levels \X Domains
    /\ cm \in StateMaps /\ mem \in StateMaps /\ snap \in Snapshots
    /\ pc \in Steps /\ exclude \subseteq OSDs /\ todo \subseteq Domains
    /\ failed \in BOOLEAN /\ queued \in BOOLEAN /\ aborts \in 0..MaxAborts
    /\ exposed \subseteq Domains \cup {NoDomain}

\* The failure domains in which some OSD exists for good, at every level.
InSteadyDomain(o) == \A l \in Levels : \E s \in Steady : Location[l][s] = Location[l][o]

\* Whatever call fails and wherever the operator restarts, the pod of an OSD is without a budget
\* only if the default budget leaves that OSD out or the controller itself chose a failure
\* domain of that OSD as the draining one since the default budget last existed.
OnlyDrainedDomainsExposed ==
    \A o \in OSDs : InSteadyDomain(o) /\ ~default.on /\ Uncovered(o)
                    => \E l \in Levels : Location[l][o] \in exposed

Current(l) == getMinimumFailureDomain(pools, l)

\* The controller stops requeueing itself only when the drain is over in every respect: the
\* default budget is back and leaves no OSD out, no blocking budget of the pools' failure domain
\* type is left on a domain that has OSDs, nor noout, and no draining domain is on record.
SleepsOnlyWhenRestored ==
    pc = "idle" /\ ~queued /\ pools # {} =>
        /\ default = [on |-> TRUE, excluded |-> {}]
        /\ cm.draining = NoDomain
        /\ \A l \in Levels : Current(l) =>
            /\ \A d \in DomainsOf(l, Steady) : <<l, d>> \notin blocking
            /\ noout \cap DomainsOf(l, Steady) = {}

\* When the drain is over no blocking budget is left: "delete all blocking OSD pdb and restore
\* the default OSD pdb" (osd.go, reconcilePDBsForOSDs).
AllBlockingBudgetsDeleted ==
    pc = "idle" /\ ~queued /\ pools # {} => blocking = {}

\* Draining nodes never has OSDs of two failure domains down at once: "This blocks OSDs from
\* going down in multiple failure domains simultaneously" (the design of the managed budgets).
DrainsStayInOneDomain ==
    \A o, p \in {q \in degraded : osd[q] = "down"} :
        \E l \in Levels : Location[l][o] = Location[l][p]

\* All OSDs are running again and the PGs have recovered.
Healed == degraded = {} /\ pgClean /\ \A o \in OSDs : osd[o] \in {"absent", "up"}

Restored == default = [on |-> TRUE, excluded |-> {}] /\ blocking = {} /\ noout = {}

\* Once the cluster has healed for good, drains are allowed again: the default budget is restored
\* over all OSDs, every blocking budget and every noout flag goes away, and stays away.
HealedClusterIsRestored == <>[]Healed => <>[]Restored
=============================================================================
