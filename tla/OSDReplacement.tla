-------------------------- MODULE OSDReplacement --------------------------
(***************************************************************************)
(* Replacing the disk of a host-based OSD under the same id                *)
(* (pkg/operator/ceph/cluster/osd/replace*.go, health.go, create.go,       *)
(* update.go and the prepare job in pkg/daemon/ceph/osd/replace.go).       *)
(*                                                                         *)
(* Three programs share the OSD's deployment: the CephCluster reconcile    *)
(* validates a request and hands the OSD over, updates the deployments     *)
(* and creates those the prepare job reports; the OSD health goroutine     *)
(* drains and destroys the OSD, a step per tick; the prepare job of the    *)
(* node puts a blank disk into a destroyed slot.  They interleave with     *)
(* the user's edits of the annotation, with pods starting and stopping,    *)
(* with failing API calls and with a restart of the operator.              *)
(*                                                                         *)
(* Ceph (slot, in, safe), the pods, the dm-crypt mappings and the disks    *)
(* are external and modelled from how the code uses them.                  *)
(***************************************************************************)
EXTENDS Integers, FiniteSets

CONSTANTS
    OSDs,          \* ids of the host-based OSDs of one node
    Devices,       \* its disks; an OSD is also the name of the disk it starts on
    Encrypted,     \* OSDs on dm-crypt
    Replaceable,   \* OSDs that own their disk: validateSingleOSDPerDevice accepts them
    Requestable,   \* OSDs whose deployment a user annotates
    Meddled,       \* OSDs an admin may mark in by hand meanwhile
    Values,        \* what the users write into the annotation: "ok" or a "typo"
    RemoveOut,     \* spec.removeOSDsIfOutAndSafeToRemove
    Faulty,        \* whether calls may fail
    SkipListFails, \* whether the list behind GetDaemonsToSkipReconcile may fail
    MaxRestarts    \* how often the operator may be restarted

ASSUME DeviceAssumption == OSDs \subseteq Devices
ASSUME DomainAssumption ==
    /\ Encrypted \subseteq OSDs /\ Replaceable \subseteq OSDs /\ Requestable \subseteq OSDs
    /\ Meddled \subseteq OSDs
    /\ Values \subseteq {"ok", "typo"}
    /\ {"blank", "missing", "other"} \cap OSDs = {}
ASSUME SettingAssumption ==
    RemoveOut \in BOOLEAN /\ Faulty \in BOOLEAN /\ SkipListFails \in BOOLEAN /\ MaxRestarts \in Nat

VARIABLES
    dep,      \* the OSD deployments
    slot,     \* the id in the osdmap; "new" is claimed by a prepare job and has not booted
    in,       \* OSDs with a non-zero weight
    safe,     \* OSDs no PG depends on: `ceph osd safe-to-destroy`
    pod,      \* OSDs whose pod runs
    open,     \* OSDs with open dm-crypt mappings
    cjob,     \* the crypto-close jobs
    dying,    \* OSDs whose crypto-close job is being deleted
    outdated, \* OSDs whose deployment describes a disk that no longer backs the slot
    device,   \* the OSD whose signature a disk carries, or "blank", "missing", "other"
    cpc,      \* the reconcile: its next step
    seen,     \* the deployments processOSDReplacements listed
    todo,     \* OSDs its loop, or the loop over a status, has still to visit
    skip,     \* osdsToSkipReconcile
    existing, \* the existence list of getOSDUpdateInfo
    queue,    \* the update queue
    awaiting, \* whether the status of the node's prepare job is awaited
    jpc,      \* the prepare job: its next step
    jblank,   \* blank disks it found
    jslots,   \* destroyed slots it found
    status,   \* the status configmap of the node
    gpc,      \* the health goroutine: its next step
    mine,     \* the deployments it listed
    gtodo,    \* OSDs it has still to advance
    gseen,    \* what the osd tree and the osd dump told it
    exclude,  \* osdsUnderReplacement
    victim,   \* the OSD it found safe to destroy and has not destroyed yet
    restarts
cluster == <<slot, in, safe, pod, open, cjob, dying, outdated, device>>
control == <<cpc, seen, todo, skip, existing, queue, awaiting>>
prepare == <<jpc, jblank, jslots, status>>
monitor == <<gpc, mine, gtodo, gseen, exclude, victim>>
vars == <<dep, cluster, control, prepare, monitor, restarts>>

\* A deployment, by what it carries: the replace-osd annotation with a valid or a mistyped
\* value, the in-progress annotation, the skip-reconcile label, the ready-for-swap annotation
\* and a replica.
Marks == {"exists", "ok", "typo", "inProgress", "skip", "ready", "replica"}

\* A deployment as deploymentOnNode makes it, without any replacement marker.
Fresh == {"exists", "replica"}
Gone == {}

Exists(d) == "exists" \in d
Requested(d) == "ok" \in d \/ "typo" \in d
InProgress(d) == "inProgress" \in d
Skipped(d) == "skip" \in d
Ready(d) == "ready" \in d
Downscaled(d) == "replica" \notin d

\* What the users and the three programs write into a deployment.
Unannotated(d) == d \ {"ok", "typo"}
Annotated(d, v) == Unannotated(d) \cup {v}
Marked(d) == d \cup {"skip", "inProgress"}
Stopped(d) == d \ {"replica"}
Announced(d) == d \cup {"ready"}
Restored(d) == (d \cup {"replica"}) \ {"inProgress", "skip"}

NoDeployments == [o \in OSDs |-> Gone]
NoStatus == [state |-> "none", osds |-> {}]
NothingSeen == [destroyed |-> {}, in |-> {}]

(***************************************************************************)
(* The CephCluster reconcile: Cluster.Start                                *)
(***************************************************************************)

processOSDReplacements ==
    /\ cpc = "idle"
    /\ cpc' = "mark"
    /\ todo' \in {{o \in OSDs : Exists(dep[o])}} \cup (IF Faulty THEN {{}} ELSE {})
    /\ seen' = [o \in OSDs |-> IF o \in todo' THEN dep[o] ELSE Gone]
    /\ UNCHANGED <<dep, cluster, skip, existing, queue, awaiting, prepare, monitor, restarts>>

isMissingFromOSDDump(o) ==
    slot[o] = "purged" /\ \E p \in OSDs : slot[p] # "purged"

validateReplaceOSD(o) ==
    "ok" \in seen[o] /\ slot[o] # "purged" /\ o \in Replaceable

\* Variant: the in-progress annotation is written under another key than the one read back.
markReplacement_OtherValue(o) ==
    /\ cpc = "mark" /\ o \in todo
    /\ todo' = todo \ {o}
    /\ seen' = [seen EXCEPT ![o] = Gone]
    /\ IF ~Ready(seen[o]) /\ ~InProgress(seen[o]) /\ validateReplaceOSD(o) /\ dep[o] = seen[o]
         THEN dep' = [dep EXCEPT ![o] = @ \cup {"skip", "in-progress"}]
         ELSE UNCHANGED dep
    /\ UNCHANGED <<cluster, cpc, skip, existing, queue, awaiting, prepare, monitor, restarts>>

\* The loop body of processOSDReplacements: a deployment that waits for its disk is deleted
\* once its id is gone; one with a valid request is marked, if it has not changed since listed.
markReplacement(o) ==
    LET abandoned == Ready(seen[o]) /\ isMissingFromOSDDump(o)
        accepted  == /\ ~Ready(seen[o]) /\ ~InProgress(seen[o])
                     /\ Requested(seen[o]) /\ validateReplaceOSD(o)
    IN
    /\ cpc = "mark" /\ o \in todo
    /\ todo' = todo \ {o}
    /\ seen' = [seen EXCEPT ![o] = Gone]
    /\ \/ abandoned /\ dep' = [dep EXCEPT ![o] = Gone]
       \/ /\ accepted /\ dep[o] = seen[o]
          /\ dep' = [dep EXCEPT ![o] = Marked(dep[o])]
       \/ /\ Faulty \/ ~(abandoned \/ (accepted /\ dep[o] = seen[o]))
          /\ UNCHANGED dep
    /\ UNCHANGED <<cluster, cpc, skip, existing, queue, awaiting, prepare, monitor, restarts>>

\* GetDaemonsToSkipReconcile, whose error is only logged, then getOSDUpdateInfo.
getOSDUpdateInfo ==
    /\ cpc = "mark" /\ todo = {}
    /\ cpc' = "provision"
    /\ skip' \in {{o \in OSDs : Exists(dep[o]) /\ Skipped(dep[o])}}
                 \cup (IF SkipListFails THEN {{}} ELSE {})
    /\ existing' = {o \in OSDs : Exists(dep[o])}
    /\ queue' = existing'
    /\ UNCHANGED <<dep, cluster, seen, todo, awaiting, prepare, monitor, restarts>>

\* RunReplaceableJob lets a job that still runs continue.
startProvisioningOverNodes ==
    /\ cpc = "provision"
    /\ cpc' = "loop"
    /\ \/ /\ awaiting' = TRUE
          /\ jpc' = IF jpc = "none" THEN "start" ELSE jpc
          /\ status' = [state |-> "starting", osds |-> {}]
       \/ /\ Faulty
          /\ status' = NoStatus
          /\ UNCHANGED <<awaiting, jpc>>
    /\ UNCHANGED <<dep, cluster, seen, todo, skip, existing, queue, jblank, jslots, monitor, restarts>>

\* Variant: the updater does not look at osdsToSkipReconcile.
updateExistingOSDs_NoFence(o) ==
    /\ cpc = "loop" /\ o \in queue
    /\ queue' = queue \ {o}
    /\ \/ UNCHANGED dep
       \/ Exists(dep[o]) /\ dep' = [dep EXCEPT ![o] = Fresh]
    /\ UNCHANGED <<cluster, cpc, seen, todo, skip, existing, awaiting, prepare, monitor, restarts>>

\* The generated deployment carries no resource version: if it differs in anything Rook sets,
\* it replaces the deployment and whatever others have written into its metadata.
updateExistingOSDs(o) ==
    /\ cpc = "loop" /\ o \in queue
    /\ queue' = queue \ {o}
    /\ \/ UNCHANGED dep
       \/ /\ Exists(dep[o]) /\ o \notin skip
          /\ dep' = [dep EXCEPT ![o] = Fresh]
    /\ UNCHANGED <<cluster, cpc, seen, todo, skip, existing, awaiting, prepare, monitor, restarts>>

createOSDsForStatusMap ==
    /\ cpc = "loop" /\ awaiting
    /\ \/ /\ status.state = "completed"
          /\ cpc' = "create" /\ todo' = status.osds
          /\ UNCHANGED <<awaiting, status>>
       \/ /\ status.state = "failed"
          /\ awaiting' = FALSE /\ status' = NoStatus
          /\ UNCHANGED <<cpc, todo>>
    /\ UNCHANGED <<dep, cluster, seen, skip, existing, queue, jpc, jblank, jslots, monitor, restarts>>

replacementReadyForSwap(o) == Exists(dep[o]) /\ Ready(dep[o])

\* createNewOSDsFromStatus, o in the existence list: skipped, or its marker is deleted first.
deleteOSDDeployment(o) ==
    /\ cpc = "create" /\ o \in todo /\ o \in existing
    /\ \/ /\ replacementReadyForSwap(o)
          /\ dep' = [dep EXCEPT ![o] = Gone]
          /\ existing' = existing \ {o}
          /\ UNCHANGED todo
       \/ /\ Faulty \/ ~replacementReadyForSwap(o)
          /\ todo' = todo \ {o}
          /\ UNCHANGED <<dep, existing>>
    /\ UNCHANGED <<cluster, cpc, seen, skip, queue, awaiting, prepare, monitor, restarts>>

createDaemonOnNode(o) ==
    /\ cpc = "create" /\ o \in todo \ existing
    /\ todo' = todo \ {o}
    /\ \/ /\ ~Exists(dep[o])
          /\ dep' = [dep EXCEPT ![o] = Fresh]
          /\ outdated' = outdated \ {o}
       \/ (Faulty \/ Exists(dep[o])) /\ UNCHANGED <<dep, outdated>>
    /\ UNCHANGED <<slot, in, safe, pod, open, cjob, dying, device, cpc, seen, skip, existing, queue, awaiting, prepare, monitor, restarts>>

doneWithStatus ==
    /\ cpc = "create" /\ todo = {}
    /\ cpc' = "loop"
    /\ awaiting' = FALSE
    /\ status' = NoStatus
    /\ UNCHANGED <<dep, cluster, seen, todo, skip, existing, queue, jpc, jblank, jslots, monitor, restarts>>

StopReconcile ==
    /\ cpc' = "idle" /\ seen' = NoDeployments /\ todo' = {}
    /\ skip' = {} /\ existing' = {} /\ queue' = {} /\ awaiting' = FALSE

\* Start returns: all updated and created (dangling statuses are removed), or some call failed.
Return ==
    /\ \/ cpc = "loop" /\ queue = {} /\ ~awaiting /\ status' = NoStatus
       \/ Faulty /\ cpc # "idle" /\ UNCHANGED status
    /\ StopReconcile
    /\ UNCHANGED <<dep, cluster, jpc, jblank, jslots, monitor, restarts>>

(***************************************************************************)
(* The prepare job of the node: daemon/ceph/osd Provision                  *)
(***************************************************************************)

\* getAvailableDevices offers a disk once it is empty; preProvisionReplacedOSDs reads the tree.
preProvisionReplacedOSDs ==
    /\ jpc = "start"
    /\ jpc' = "claim"
    /\ jblank' = {d \in Devices : device[d] = "blank"}
    /\ jslots' = {o \in OSDs : slot[o] = "destroyed"}
    /\ UNCHANGED <<dep, cluster, control, status, monitor, restarts>>

\* The device classes decide which slot goes with which disk: any pairing.  ceph-volume
\* claims the id first; it may fail before that, or after it and then purge the id.
provisionReplacedOSD(o, d) ==
    /\ jpc = "claim" /\ o \in jslots /\ d \in jblank
    /\ jslots' = jslots \ {o} /\ jblank' = jblank \ {d}
    /\ \/ /\ slot' = [slot EXCEPT ![o] = "new"]
          /\ device' = [device EXCEPT ![d] = o]
          /\ safe' = safe \cup {o}
          /\ outdated' = outdated \cup {o}
       \/ /\ Faulty
          /\ slot' \in {slot, [slot EXCEPT ![o] = "purged"]}
          /\ UNCHANGED <<device, safe, outdated>>
    /\ UNCHANGED <<dep, in, pod, open, cjob, dying, control, jpc, status, monitor, restarts>>

\* Disks left over become OSDs with new ids, outside this model.  The report lists every OSD
\* ceph-volume finds on the disks, except the destroyed.
configureCVDevices ==
    /\ jpc = "claim" /\ (jslots = {} \/ jblank = {})
    /\ jpc' = "none" /\ jblank' = {} /\ jslots' = {}
    /\ device' = [d \in Devices |-> IF d \in jblank THEN "other" ELSE device[d]]
    /\ status' = [state |-> "completed",
                  osds  |-> {o \in OSDs : (\E d \in Devices : device[d] = o) /\ slot[o] # "destroyed"}]
    /\ UNCHANGED <<dep, slot, in, safe, pod, open, cjob, dying, outdated, control, monitor, restarts>>

ProvisionFails ==
    /\ Faulty /\ jpc # "none"
    /\ jpc' = "none" /\ jblank' = {} /\ jslots' = {}
    /\ status' = [state |-> "failed", osds |-> {}]
    /\ UNCHANGED <<dep, cluster, control, monitor, restarts>>

(***************************************************************************)
(* The OSD health goroutine: checkOSDHealth                                *)
(***************************************************************************)

\* The deployments, then the osd tree and the osd dump; the list may fail, leaving nothing
\* to do and nothing excluded.
processOSDsDestroyForReplacement ==
    LET owned == {o \in OSDs : Exists(dep[o]) /\ InProgress(dep[o])}
        work  == {o \in owned : ~Ready(dep[o])}
    IN
    /\ gpc = "idle"
    /\ gpc' = "work"
    /\ \/ /\ exclude' = owned
          /\ gtodo' = work
          /\ mine' = [o \in OSDs |-> IF o \in work THEN dep[o] ELSE Gone]
          /\ gseen' = IF work = {} THEN NothingSeen
                      ELSE [destroyed |-> {o \in OSDs : slot[o] = "destroyed"},
                            in        |-> {o \in OSDs : o \in in \/ slot[o] = "purged"}]
       \/ /\ Faulty
          /\ exclude' = {} /\ gtodo' = {} /\ mine' = NoDeployments /\ gseen' = NothingSeen
    /\ UNCHANGED <<dep, cluster, control, prepare, victim, restarts>>

\* The part of processOSDReplacementDestroy every branch shares: o is done for this tick.
Advance(o) ==
    /\ gpc = "work" /\ o \in gtodo /\ victim = {}
    /\ gtodo' = gtodo \ {o}
    /\ mine' = [mine EXCEPT ![o] = Gone]
    /\ UNCHANGED <<gpc, gseen, exclude, control, prepare, restarts>>

\* Update of the listed object: a conflict if the deployment has changed since.
Write(o, new) ==
    \/ dep[o] = mine[o] /\ dep' = [dep EXCEPT ![o] = new]
    \/ (Faulty \/ dep[o] # mine[o]) /\ UNCHANGED dep

\* Variant: a scaled-down OSD counts as destroyed.
Destroyed_Downscaled(o) == o \in gseen.destroyed \/ Downscaled(mine[o])
Destroyed(o) == o \in gseen.destroyed

\* Variant: the fence is cleared without waiting for the crypto-close job to be gone.
cancelReplaceOSD_NoWait(o) ==
    /\ Advance(o)
    /\ ~Requested(mine[o]) /\ ~Destroyed(o)
    /\ in' = in \cup {o}
    /\ dying' = IF cjob[o] = "none" THEN dying ELSE dying \cup {o}
    /\ Write(o, Restored(mine[o]))
    /\ UNCHANGED <<slot, safe, pod, open, cjob, outdated, device, victim>>

\* Variant: the job is waited for but not deleted.
cancelReplaceOSD_NoDelete(o) ==
    /\ Advance(o)
    /\ ~Requested(mine[o]) /\ ~Destroyed(o)
    /\ in' = in \cup {o}
    /\ IF cjob[o] = "none"
         THEN Write(o, Restored(mine[o]))
         ELSE UNCHANGED dep
    /\ UNCHANGED <<slot, safe, pod, open, cjob, dying, outdated, device, victim>>

cancelReplaceOSD(o) ==
    /\ Advance(o)
    /\ ~Requested(mine[o]) /\ ~Destroyed(o)
    /\ in' = IF slot[o] = "purged" THEN in ELSE in \cup {o}
    /\ dying' = IF cjob[o] = "none" THEN dying ELSE dying \cup {o}
    /\ IF cjob[o] = "none"
         THEN Write(o, Restored(mine[o]))
         ELSE UNCHANGED dep
    /\ UNCHANGED <<slot, safe, pod, open, cjob, outdated, device, victim>>

annotateReadyForSwap(o) ==
    /\ Advance(o)
    /\ Destroyed(o)
    /\ Write(o, Announced(mine[o]))
    /\ UNCHANGED <<cluster, victim>>

isOSDPodGone(o) == o \notin pod

\* Variant: a failed job is not run again.
runCryptCloseJobForOSD_NoRetry(o) ==
    /\ Advance(o)
    /\ Requested(mine[o]) /\ ~Destroyed(o) /\ Downscaled(mine[o]) /\ isOSDPodGone(o)
    /\ o \in Encrypted /\ cjob[o] = "none"
    /\ cjob' = [cjob EXCEPT ![o] = "running"]
    /\ UNCHANGED <<dep, slot, in, safe, pod, open, dying, outdated, device, victim>>

runCryptCloseJobForOSD(o) ==
    /\ Advance(o)
    /\ Requested(mine[o]) /\ ~Destroyed(o) /\ Downscaled(mine[o]) /\ isOSDPodGone(o)
    /\ o \in Encrypted /\ cjob[o] \in {"none", "failed"}
    /\ cjob' = [cjob EXCEPT ![o] = "running"]
    /\ dying' = dying \ {o}
    /\ UNCHANGED <<dep, slot, in, safe, pod, open, outdated, device, victim>>

\* Variant: what was safe to destroy before the scale-down is taken to be so still.
checkSafeToDestroy_Once(o) ==
    /\ Advance(o)
    /\ Requested(mine[o]) /\ ~Destroyed(o) /\ Downscaled(mine[o]) /\ isOSDPodGone(o)
    /\ o \in Encrypted => cjob[o] = "succeeded"
    /\ dying' = IF o \in Encrypted THEN dying \cup {o} ELSE dying
    /\ victim' = {o}
    /\ UNCHANGED <<dep, slot, in, safe, pod, open, cjob, outdated, device>>

\* The finished job is deleted, whether or not the OSD then proves safe to destroy.
checkSafeToDestroy(o) ==
    /\ Advance(o)
    /\ Requested(mine[o]) /\ ~Destroyed(o) /\ Downscaled(mine[o]) /\ isOSDPodGone(o)
    /\ o \in Encrypted => cjob[o] = "succeeded"
    /\ dying' = IF o \in Encrypted THEN dying \cup {o} ELSE dying
    /\ victim' = IF o \in safe THEN {o} ELSE {}
    /\ UNCHANGED <<dep, slot, in, safe, pod, open, cjob, outdated, device>>

\* `ceph osd down` and `ceph osd destroy`; an id that is gone makes them fail.
OSDDestroy(o) ==
    /\ gpc = "work" /\ o \in victim
    /\ victim' = {}
    /\ \/ slot[o] # "purged" /\ slot' = [slot EXCEPT ![o] = "destroyed"]
       \/ (Faulty \/ slot[o] = "purged") /\ UNCHANGED slot
    /\ UNCHANGED <<dep, in, safe, pod, open, cjob, dying, outdated, device, gpc, mine, gtodo, gseen, exclude,
                   control, prepare, restarts>>

OSDOut(o) ==
    /\ Advance(o)
    /\ Requested(mine[o]) /\ ~Destroyed(o) /\ ~Downscaled(mine[o])
    /\ o \in gseen.in /\ slot[o] # "purged"
    /\ in' = in \ {o}
    /\ UNCHANGED <<dep, slot, safe, pod, open, cjob, dying, outdated, device, victim>>

scaleDownOSDDeployment(o) ==
    /\ Advance(o)
    /\ Requested(mine[o]) /\ ~Destroyed(o) /\ ~Downscaled(mine[o])
    /\ o \notin gseen.in /\ o \in safe
    /\ Write(o, Stopped(mine[o]))
    /\ UNCHANGED <<cluster, victim>>

\* Nothing to do for o in this tick: its pod or its job still runs, it is not drained, its id
\* is gone, or a call fails.
WaitForNextTick(o) ==
    /\ Advance(o)
    /\ \/ Faulty \/ slot[o] = "purged"
       \/ /\ Requested(mine[o]) /\ ~Destroyed(o)
          /\ \/ Downscaled(mine[o]) /\ ~isOSDPodGone(o)
             \/ Downscaled(mine[o]) /\ o \in Encrypted /\ cjob[o] = "running"
             \/ ~Downscaled(mine[o]) /\ o \notin gseen.in /\ o \notin safe
    /\ UNCHANGED <<dep, cluster, victim>>

\* Variant: the OSDs under replacement are not excluded.
checkOSDDump_NoExclude ==
    /\ gpc = "work" /\ gtodo = {} /\ victim = {}
    /\ gpc' = "idle" /\ gseen' = NothingSeen /\ exclude' = {}
    /\ \E gone \in SUBSET {o \in OSDs : /\ RemoveOut /\ Exists(dep[o])
                                        /\ slot[o] # "purged" /\ o \in safe \ (pod \cup in)} :
         dep' = [o \in OSDs |-> IF o \in gone THEN Gone ELSE dep[o]]
    /\ UNCHANGED <<cluster, control, prepare, mine, gtodo, victim, restarts>>

\* With removeOSDsIfOutAndSafeToRemove, deployments of OSDs down, out and safe to destroy
\* are deleted once older than graceTime.
checkOSDDump ==
    /\ gpc = "work" /\ gtodo = {} /\ victim = {}
    /\ gpc' = "idle" /\ gseen' = NothingSeen /\ exclude' = {}
    /\ \E gone \in SUBSET {o \in OSDs \ exclude : /\ RemoveOut /\ Exists(dep[o])
                                                  /\ slot[o] # "purged" /\ o \in safe \ (pod \cup in)} :
         dep' = [o \in OSDs |-> IF o \in gone THEN Gone ELSE dep[o]]
    /\ UNCHANGED <<cluster, control, prepare, mine, gtodo, victim, restarts>>

\* The operator is restarted: reconcile and goroutine are cut short, the jobs run on.
Restart ==
    /\ restarts < MaxRestarts
    /\ restarts' = restarts + 1
    /\ StopReconcile
    /\ gpc' = "idle" /\ mine' = NoDeployments /\ gtodo' = {} /\ gseen' = NothingSeen
    /\ exclude' = {} /\ victim' = {}
    /\ UNCHANGED <<dep, cluster, prepare>>

(***************************************************************************)
(* The user, the pods, the jobs and Ceph                                   *)
(***************************************************************************)

Annotate(o) ==
    /\ o \in Requestable /\ Exists(dep[o])
    /\ \E v \in Values : dep' = [dep EXCEPT ![o] = Annotated(dep[o], v)]
    /\ UNCHANGED <<cluster, control, prepare, monitor, restarts>>

RemoveAnnotation(o) ==
    /\ o \in Requestable /\ Exists(dep[o])
    /\ dep' = [dep EXCEPT ![o] = Unannotated(dep[o])]
    /\ UNCHANGED <<cluster, control, prepare, monitor, restarts>>

\* The user swaps a disk once its OSD is announced ready for it, by when the deletion of the
\* finished crypto-close job is through; an empty bay may be filled any time.
SwapDisk(d) ==
    /\ \/ device[d] = "missing"
       \/ \E o \in OSDs : /\ device[d] = o /\ slot[o] # "new" /\ o \notin dying
                          /\ Exists(dep[o]) /\ Ready(dep[o])
    /\ device' = [device EXCEPT ![d] = "blank"]
    /\ UNCHANGED <<dep, slot, in, safe, pod, open, cjob, dying, outdated, control, prepare, monitor, restarts>>

\* A daemon starts if its deployment describes the disk that backs the slot; a new OSD is marked in.
StartPod(o) ==
    /\ Exists(dep[o]) /\ ~Downscaled(dep[o]) /\ o \notin pod \cup outdated
    /\ slot[o] \in {"live", "new"}
    /\ pod' = pod \cup {o}
    /\ open' = open \cup ({o} \cap Encrypted)
    /\ slot' = [slot EXCEPT ![o] = "live"]
    /\ in' = IF slot[o] = "new" THEN in \cup {o} ELSE in
    /\ UNCHANGED <<dep, safe, cjob, dying, outdated, device, control, prepare, monitor, restarts>>

\* A pod ends because its deployment wants none, or fails.
StopPod(o) ==
    /\ o \in pod
    /\ pod' = pod \ {o}
    /\ UNCHANGED <<dep, slot, in, safe, open, cjob, dying, outdated, device, control, prepare, monitor, restarts>>

\* PGs leave an OSD that is out or down, and come to one that is in and up.
Drain(o) ==
    /\ o \notin safe /\ (o \notin in \/ o \notin pod)
    /\ safe' = safe \cup {o}
    /\ UNCHANGED <<dep, slot, in, pod, open, cjob, dying, outdated, device, control, prepare, monitor, restarts>>

Fill(o) ==
    /\ o \in safe \cap in \cap pod
    /\ safe' = safe \ {o}
    /\ UNCHANGED <<dep, slot, in, pod, open, cjob, dying, outdated, device, control, prepare, monitor, restarts>>

\* An admin runs `ceph osd in`.
MarkIn(o) ==
    /\ o \in Meddled /\ slot[o] = "live" /\ o \notin in
    /\ in' = in \cup {o}
    /\ UNCHANGED <<dep, slot, safe, pod, open, cjob, dying, outdated, device, control, prepare, monitor, restarts>>

CryptCloseJobSucceeds(o) ==
    /\ cjob[o] = "running"
    /\ cjob' = [cjob EXCEPT ![o] = "succeeded"]
    /\ open' = open \ {o}
    /\ UNCHANGED <<dep, slot, in, safe, pod, dying, outdated, device, control, prepare, monitor, restarts>>

CryptCloseJobFails(o) ==
    /\ cjob[o] = "running"
    /\ cjob' = [cjob EXCEPT ![o] = "failed"]
    /\ UNCHANGED <<dep, slot, in, safe, pod, open, dying, outdated, device, control, prepare, monitor, restarts>>

CryptCloseJobDeleted(o) ==
    /\ o \in dying
    /\ dying' = dying \ {o}
    /\ cjob' = [cjob EXCEPT ![o] = "none"]
    /\ UNCHANGED <<dep, slot, in, safe, pod, open, outdated, device, control, prepare, monitor, restarts>>

-----------------------------------------------------------------------------

Init ==
    /\ dep = [o \in OSDs |-> Fresh]
    /\ slot = [o \in OSDs |-> "live"]
    /\ in = OSDs /\ safe = {} /\ pod = OSDs /\ open = Encrypted
    /\ cjob = [o \in OSDs |-> "none"] /\ dying = {}
    /\ outdated = {}
    /\ device = [d \in Devices |-> IF d \in OSDs THEN d ELSE "missing"]
    /\ cpc = "idle" /\ seen = NoDeployments /\ todo = {}
    /\ skip = {} /\ existing = {} /\ queue = {} /\ awaiting = FALSE
    /\ jpc = "none" /\ jblank = {} /\ jslots = {} /\ status = NoStatus
    /\ gpc = "idle" /\ mine = NoDeployments /\ gtodo = {} /\ gseen = NothingSeen
    /\ exclude = {} /\ victim = {}
    /\ restarts = 0

Reconcile ==
    \/ processOSDReplacements \/ getOSDUpdateInfo \/ startProvisioningOverNodes
    \/ createOSDsForStatusMap \/ doneWithStatus \/ Return
    \/ \E o \in OSDs : \/ markReplacement(o) \/ updateExistingOSDs(o)
                       \/ deleteOSDDeployment(o) \/ createDaemonOnNode(o)
Prepare ==
    \/ preProvisionReplacedOSDs \/ configureCVDevices \/ ProvisionFails
    \/ \E o \in OSDs, d \in Devices : provisionReplacedOSD(o, d)
HealthCheck ==
    \/ processOSDsDestroyForReplacement \/ checkOSDDump
    \/ \E o \in OSDs : \/ cancelReplaceOSD(o) \/ annotateReadyForSwap(o) \/ runCryptCloseJobForOSD(o)
                       \/ checkSafeToDestroy(o) \/ OSDDestroy(o) \/ OSDOut(o)
                       \/ scaleDownOSDDeployment(o) \/ WaitForNextTick(o)
Environment ==
    \/ \E o \in OSDs : \/ Annotate(o) \/ RemoveAnnotation(o) \/ StartPod(o) \/ StopPod(o)
                       \/ Drain(o) \/ Fill(o) \/ MarkIn(o)
                       \/ CryptCloseJobSucceeds(o) \/ CryptCloseJobFails(o) \/ CryptCloseJobDeleted(o)
    \/ \E d \in Devices : SwapDisk(d)

Next == Reconcile \/ Prepare \/ HealthCheck \/ Restart \/ Environment

Spec == Init /\ [][Next]_vars

\* The three programs make progress, the pod of a scaled-down deployment ends, a job that is run
\* again and again eventually succeeds; PGs leave an OSD that is out, or stays down: Ceph marks
\* that one out by itself (mon_osd_down_out_interval).
FairSpec ==
    /\ Spec
    /\ WF_vars(Reconcile) /\ WF_vars(Prepare) /\ WF_vars(HealthCheck)
    /\ \A o \in OSDs :
         /\ WF_vars(Drain(o))
         /\ WF_vars(Downscaled(dep[o]) /\ StopPod(o))
         /\ SF_vars(CryptCloseJobSucceeds(o)) /\ WF_vars(CryptCloseJobDeleted(o))

-----------------------------------------------------------------------------

TypeOK ==
    /\ dep \in [OSDs -> SUBSET Marks]
    /\ slot \in [OSDs -> {"live", "destroyed", "new", "purged"}]
    /\ in \subseteq OSDs /\ safe \subseteq OSDs /\ pod \subseteq OSDs /\ open \subseteq OSDs
    /\ cjob \in [OSDs -> {"none", "running", "succeeded", "failed"}] /\ dying \subseteq OSDs
    /\ outdated \subseteq OSDs
    /\ device \in [Devices -> OSDs \cup {"blank", "missing", "other"}]
    /\ cpc \in {"idle", "mark", "provision", "loop", "create"} /\ seen \in [OSDs -> SUBSET Marks]
    /\ todo \subseteq OSDs /\ skip \subseteq OSDs /\ existing \subseteq OSDs /\ queue \subseteq OSDs
    /\ awaiting \in BOOLEAN
    /\ jpc \in {"none", "start", "claim"} /\ jblank \subseteq Devices /\ jslots \subseteq OSDs
    /\ status \in [state : {"none", "starting", "completed", "failed"}, osds : SUBSET OSDs]
    /\ gpc \in {"idle", "work"} /\ mine \in [OSDs -> SUBSET Marks] /\ gtodo \subseteq OSDs
    /\ gseen \in [destroyed : SUBSET OSDs, in : SUBSET OSDs]
    /\ exclude \subseteq OSDs /\ victim \subseteq OSDs
    /\ restarts \in 0..MaxRestarts

\* `cryptsetup close` never runs under a live daemon: the job is started only after the pod is
\* gone and the deployment comes back only after the job is (replace_destroy.go:309).
NoCloseUnderDaemon == \A o \in OSDs : cjob[o] = "running" => o \notin pod

\* While an OSD is announced ready for swap, its disk may be pulled: no daemon runs on it and the
\* slot is not a live OSD's (annotateReadyForSwap, createNewOSDsFromStatus).
SwapIsSafe ==
    \A o \in OSDs : Exists(dep[o]) /\ Ready(dep[o]) => o \notin pod /\ slot[o] # "live"

\* Only an OSD that is drained, stopped and whose mappings are closed is destroyed
\* (processOSDReplacementDestroy).  A spare disk may rebuild the OSD while its finished crypto-close
\* job is still being deleted; a second replacement then takes the old result for its own.
DestroyOnlyDrained ==
    [][\A o \in OSDs : slot[o] = "live" /\ slot'[o] = "destroyed"
                         => o \in safe /\ o \notin pod \cup open]_vars

\* A deployment the goroutine has scaled to zero is scaled up again only after the request
\* was withdrawn: the updater is fenced off it (osd.go:287-290, update.go:156).
NeverRevived ==
    [][\A o \in OSDs : Exists(dep[o]) /\ InProgress(dep[o]) /\ Downscaled(dep[o])
                       /\ Exists(dep'[o]) /\ ~Downscaled(dep'[o])
                         => ~Requested(dep[o])]_vars

\* A deployment scaled to zero for a replacement is kept until it is announced ready for
\* swap: the health check does not take it for a dead OSD's (health.go:171, create.go:97).
TeardownNotForgotten ==
    [][\A o \in OSDs : Exists(dep[o]) /\ InProgress(dep[o]) /\ Downscaled(dep[o]) /\ ~Exists(dep'[o])
                         => Ready(dep[o])]_vars

\* A disk that was just put into a slot is not destroyed again: the slot's "destroyed" state
\* stops a second destroy (design/ceph/osd-replacement.md:186).
NewDiskNotDestroyed ==
    [][\A o \in OSDs : slot[o] = "new" => slot'[o] # "destroyed"]_vars

\* An OSD whose request is withdrawn before it is destroyed is given back to the reconcile.
CancelRestores ==
    \A o \in OSDs : (Exists(dep[o]) /\ InProgress(dep[o]) /\ ~Requested(dep[o]) /\ slot[o] = "live")
                      ~> (~InProgress(dep[o]) \/ Requested(dep[o]) \/ slot[o] # "live")

\* An accepted request that is not withdrawn leads to a disk that is ready to be swapped.
ReplacementAdvances ==
    \A o \in OSDs : (Exists(dep[o]) /\ InProgress(dep[o]) /\ Requested(dep[o]))
                      ~> (Ready(dep[o]) \/ ~Requested(dep[o]) \/ ~Exists(dep[o]))
=============================================================================
