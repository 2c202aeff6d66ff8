-------------------------- MODULE OSDProvisioning --------------------------
(***************************************************************************)
(* Cluster.Start of pkg/operator/ceph/cluster/osd: migrating one OSD to    *)
(* new settings, starting the prepare jobs of the PVCs and nodes, and the  *)
(* loop that creates Deployments from the results of the jobs while it     *)
(* updates the existing ones as `ceph osd ok-to-stop` allows.  The         *)
(* operator may restart at any point; a reconcile always starts over.      *)
(***************************************************************************)
EXTENDS OSDPrepareJob, Functions

CONSTANTS OSDMaxUpdatesInParallel,
          Scenarios,  \* what the CephCluster asks for: [spec, requested, labelled]
          UpgradeOSDRequiresHealthyPGs,
          ContinueUpgradeAfterChecks,
          SkipUpgradeChecks,
          PromptStop  \* replaced pods stop before the operator acts again

ASSUME SettingsAssumption ==
    /\ UpgradeOSDRequiresHealthyPGs \in BOOLEAN /\ ContinueUpgradeAfterChecks \in BOOLEAN
    /\ SkipUpgradeChecks \in BOOLEAN /\ PromptStop \in BOOLEAN
ASSUME ScenarioAssumption ==
    \A s \in Scenarios : s.spec \in Seq(Target) /\ s.requested \in BOOLEAN /\ s.labelled \subseteq Osd

VARIABLES spec,       \* the sequence of PVCs and nodes to use, PVCs first
          requested,  \* spec.storage.migration is confirmed
          labelled,   \* OSDs labelled do-not-reconcile
          valid,      \* the nodes that GetValidNodes accepts
          wake,       \* the CephCluster is in the work queue
          record,     \* ConfigMap osd-migration-config
          pc,         \* where Start is
          migrate,    \* c.migrateOSD
          pend,       \* migrationConfig.osds
          queue,      \* updateQueue
          exist,      \* existenceList, the Deployments seen by getOSDUpdateInfo
          nodes,      \* c.ValidStorage
          todo,       \* targets whose prepare job is still to be started
          await,      \* awaitingStatusConfigMaps
          finished,   \* finishedStatusConfigMaps
          batch,      \* Deployments being waited for
          errs        \* provisionErrors is not empty

locals  == <<migrate, pend, queue, exist, nodes, todo, await, finished, batch, errs>>
given   == <<spec, requested, labelled>>
vars    == <<baseVars, given, valid, wake, record, pc, locals>>

Nothing == <<>>

Forget == /\ migrate' = NoOsd /\ pend' = {} /\ queue' = Nothing /\ exist' = {}
          /\ nodes' = {} /\ todo' = Nothing /\ await' = {} /\ finished' = {}
          /\ batch' = {} /\ errs' = FALSE

\* Start returns.  After an error the CephCluster is queued again, after a
\* success it is not ("Return and do not requeue").
Return == pc' = "idle" /\ Forget
Requeue == wake' = TRUE

Init ==
    /\ disk = InitDisk
    /\ store = [t \in Target |-> "old"]
    /\ home = [o \in Osd |-> IF \E t \in Target : InitDisk[t] = o
                             THEN CHOOSE t \in Target : InitDisk[t] = o
                             ELSE CHOOSE t \in Target : TRUE]
    /\ osdmap = [o \in Osd |-> IF \E t \in Target : InitDisk[t] = o
                               THEN "exists" ELSE "absent"]
    /\ in = {o \in Osd : osdmap[o] = "exists"}
    /\ up = in /\ lost = {} /\ stopping = {}
    /\ dep = [o \in Osd |-> IF o \in in THEN "old" ELSE "none"]
    /\ label = [o \in Osd |-> "old"]
    /\ job = [t \in Target |-> Ended]
    /\ cm = [t \in Target |-> Status("none")]
    /\ \E s \in Scenarios : /\ spec = s.spec /\ requested = s.requested
                           /\ labelled = s.labelled
    /\ valid = Node
    /\ wake = TRUE
    /\ record = NoOsd
    /\ pc = "idle"
    /\ migrate = NoOsd /\ pend = {} /\ queue = Nothing /\ exist = {}
    /\ nodes = {} /\ todo = Nothing /\ await = {} /\ finished = {}
    /\ batch = {} /\ errs = FALSE
    /\ events = 0

-----------------------------------------------------------------------------
(* Migration: osd.go startOSDMigration, migrate.go *)

\* A queued CephCluster is reconciled.  PromptStop: a restarted operator needs
\* longer than the kubelet to stop a replaced pod.
Starts == pc = "idle" /\ wake /\ (PromptStop => stopping = {})
Dequeue == wake' = FALSE

NoMigration ==
    /\ Starts /\ ~requested
    /\ Dequeue
    /\ pc' = "list"
    /\ UNCHANGED <<baseVars, given, valid, record, locals>>

\* waitForHealthyPGs gives up, and Start with it.
UnhealthyPGs ==
    /\ Starts /\ requested /\ ~Clean
    /\ Return /\ Requeue
    /\ UNCHANGED <<baseVars, given, valid, record>>

\* newMigrationConfig without the OSDs labelled do-not-reconcile.
NeedMigration == {o \in Osd : dep[o] # "none" /\ label[o] = "old"} \ labelled

isLastOSDMigrationComplete == record # NoOsd => dep[record] # "none"

DeferMigration ==
    /\ Starts /\ requested /\ Clean
    /\ ~isLastOSDMigrationComplete
    /\ pend' = NeedMigration
    /\ Dequeue
    /\ pc' = "list"
    /\ UNCHANGED <<baseVars, given, valid, record, migrate, queue, exist, nodes, todo,
                   await, finished, batch, errs>>

NothingToMigrate ==
    /\ Starts /\ requested /\ Clean
    /\ isLastOSDMigrationComplete /\ NeedMigration = {}
    /\ Dequeue
    /\ pc' = "list"
    /\ UNCHANGED <<baseVars, given, valid, record, locals>>

\* The Deployment of the next OSD is deleted, which queues the CephCluster that
\* owns it for the reconcile after this one.  If the last migration cannot be
\* read, or any error but NotFound comes from the Get of its Deployment, it
\* counts as complete.
MigrateNext(o) ==
    /\ Starts /\ requested /\ Clean
    /\ IF isLastOSDMigrationComplete THEN UNCHANGED events ELSE Fault
    /\ o \in NeedMigration
    /\ dep' = [dep EXCEPT ![o] = "none"] /\ label' = [label EXCEPT ![o] = "old"]
    /\ up' = up \ {o} /\ stopping' = stopping \ {o}
    /\ pend' = NeedMigration \ {o}
    /\ migrate' = o
    /\ Requeue
    /\ pc' = "save"
    /\ UNCHANGED <<jobVars, in, given, valid, record, queue, exist, nodes, todo,
                   await, finished, batch, errs>>

saveMigrationConfig ==
    /\ pc = "save"
    /\ record' = migrate
    /\ pc' = "list"
    /\ UNCHANGED <<baseVars, given, valid, wake, locals>>

-----------------------------------------------------------------------------
(* Prepare jobs: update.go getOSDUpdateInfo; create.go *)

Deployed == {o \in Osd : dep[o] # "none"}

\* Variant: a PVC that already carries an OSD is not prepared again.
NeedsPrepare_Once(t) == IF t \in PVC THEN disk[t] = NoOsd ELSE t \in valid
NeedsPrepare(t) == IF t \in PVC THEN ~\E o \in Deployed : home[o] = t ELSE t \in valid

\* The Deployments in the order the list has them: the k-th has k - 1 before it.
InOrder(S) == [k \in 1..Cardinality(S) |->
                 CHOOSE x \in S : Cardinality({y \in S : y < x}) = k - 1]

\* The elements of s that are in T, in their order.
Only(s, T) == LET I == {i \in DOMAIN s : s[i] \in T} IN
              [k \in 1..Cardinality(I) |-> s[InOrder(I)[k]]]

Phase(s) == IF s = Nothing THEN "loop" ELSE "prepare"

getOSDUpdateInfo ==
    /\ pc = "list"
    /\ exist' = Deployed
    /\ queue' = InOrder(Deployed \ pend)
    /\ nodes' = valid
    /\ todo' = Only(spec, {t \in Target : NeedsPrepare(t)})
    /\ pc' = Phase(todo') /\ pend' = {}
    /\ UNCHANGED <<baseVars, given, valid, wake, record, migrate, await, finished, batch, errs>>

\* The job of a target, with the OSD to migrate if it is on that target.
NewJob(t) ==
    [migrate |-> IF migrate # NoOsd /\ home[migrate] = t THEN migrate ELSE NoOsd,
     step |-> "pending"]

Awaits(t) ==
    /\ await' = await \cup {t}
    /\ todo' = Tail(todo) /\ pc' = Phase(todo')
    /\ UNCHANGED <<disk, store, osdmap, home, lost, podVars, given, valid, wake, record,
                   migrate, pend, queue, exist, nodes, finished, batch, errs>>

\* The status ConfigMap is set to "starting", then the job is started unless
\* the previous one is still active.
runPrepareJob ==
    LET t == Head(todo) IN
    /\ pc = "prepare"
    /\ cm' = [cm EXCEPT ![t] = Status("starting")]
    /\ job' = IF Active(t) THEN job ELSE [job EXCEPT ![t] = NewJob(t)]
    /\ Awaits(t) /\ UNCHANGED events

\* The previous job has reported, but its pod has not ended: no job is started.
runPrepareJobFindsOld ==
    LET t == Head(todo) IN
    /\ pc = "prepare" /\ ~Active(t) /\ cm[t].status = "completed"
    /\ cm' = [cm EXCEPT ![t] = Status("starting")]
    /\ Awaits(t) /\ UNCHANGED <<job, events>>

\* The previous job reports between the two calls.
runPrepareJobLosesRace ==
    LET t == Head(todo) IN
    /\ pc = "prepare" /\ Active(t) /\ job[t].migrate = NoOsd /\ disk[t] # NoOsd
    /\ cm' = [cm EXCEPT ![t] = [status |-> "completed", osd |-> ListedOSD(t, disk[t]),
                               store |-> store[t]]]
    /\ job' = [job EXCEPT ![t] = NewJob(t)]
    /\ Awaits(t) /\ UNCHANGED events

\* handleOrchestrationFailure: the ConfigMap is not waited for.
runPrepareJobFails ==
    /\ pc = "prepare" /\ Fault
    /\ cm' = [cm EXCEPT ![Head(todo)] = Status("none")]
    /\ errs' = TRUE
    /\ todo' = Tail(todo) /\ pc' = Phase(todo')
    /\ UNCHANGED <<disk, store, osdmap, home, lost, job, podVars, given, valid, wake, record,
                   migrate, pend, queue, exist, nodes, await, finished, batch>>

-----------------------------------------------------------------------------
(* The loop: status.go updateAndCreateOSDsLoop *)

\* createOSDsForStatusMap of a failed job, awaited or not.
FailedStatus(t) ==
    /\ pc = "loop" /\ cm[t].status = "failed"
    /\ finished' = finished \cup {t}
    /\ errs' = TRUE
    /\ cm' = [cm EXCEPT ![t] = Status("none")]
    /\ UNCHANGED <<disk, store, osdmap, home, lost, job, podVars, events, given, valid, wake, record,
                   pc, migrate, pend, queue, exist, nodes, todo, await, batch>>

\* createNewOSDsFromStatus: a result that is not awaited, or was processed, only
\* loses its ConfigMap; otherwise the OSD gets a Deployment unless it has one
\* (the marker Deployment of a replaced OSD is the subject of OSDReplacement).
IgnoredStatus(t) ==
    /\ pc = "loop" /\ cm[t].status = "completed" /\ t \notin await \ finished
    /\ cm' = [cm EXCEPT ![t] = Status("none")]
    /\ UNCHANGED <<disk, store, osdmap, home, lost, job, podVars, events, given, valid, wake, record,
                   pc, locals>>

createNewOSDsFromStatus(t) ==
    /\ pc = "loop" /\ cm[t].status = "completed" /\ t \in await \ finished
    /\ IF cm[t].osd \in exist \cup {NoOsd} THEN UNCHANGED <<dep, label, errs, events>>
       ELSE \/ /\ dep' = [dep EXCEPT ![cm[t].osd] = "new"]
               /\ label' = [label EXCEPT ![cm[t].osd] = cm[t].store]
               /\ UNCHANGED <<errs, events>>
            \/ Fault /\ errs' = TRUE /\ UNCHANGED <<dep, label>>
    /\ finished' = finished \cup {t}
    /\ cm' = [cm EXCEPT ![t] = Status("none")]
    /\ UNCHANGED <<disk, store, osdmap, home, lost, job, in, up, stopping, given, valid, wake, record,
                   pc, migrate, pend, queue, exist, nodes, todo, await, batch>>

\* `ceph osd ok-to-stop`: the data stays available without these OSDs.
OkToStop(S) == Cardinality(DomainsOf(Unavailable \cup S)) <= 1

\* The OSDs that may be stopped with q, or q alone if checks are overridden.
OSDOkToStop(q) ==
    LET near == {o \in up : Domain[home[o]] = Domain[home[q]]} IN
    IF OkToStop({q})
    THEN {S \cup {q} : S \in {T \in SUBSET near : Cardinality(T \cup {q}) <= OSDMaxUpdatesInParallel}}
    ELSE IF ContinueUpgradeAfterChecks THEN {{q}} ELSE {}

\* `ceph osd ls` counts the OSDs of the map.
Known == {o \in Osd : osdmap[o] # "absent"}

\* With SkipUpgradeChecks, or with fewer than three OSDs, ok-to-stop is not
\* asked and the OSDs are updated one by one.  (When `osd ls` fails it is asked.)
SkipsCheck == SkipUpgradeChecks \/ Cardinality(Known) < 3

\* Variant: the OSDs are updated one by one without asking.
Stoppable_Unchecked(q) == {{q}}

Stoppable(q) == IF SkipsCheck THEN {{q}} ELSE OSDOkToStop(q)

MayUpdate == UpgradeOSDRequiresHealthyPGs /\ ~SkipUpgradeChecks => Clean

\* Variant: the OSD is pushed back without having been popped.
UpdateLater_Twice ==
    /\ pc = "loop" /\ queue # Nothing /\ MayUpdate
    /\ Stoppable(Head(queue)) = {}
    /\ queue' = Append(queue, Head(queue))
    /\ UNCHANGED <<baseVars, given, valid, wake, record, pc, migrate, pend, exist, nodes, todo,
                   await, finished, batch, errs>>

\* updateExistingOSDs: not ok to stop, the OSD goes to the end of the queue.
UpdateLater ==
    /\ pc = "loop" /\ queue # Nothing /\ MayUpdate
    /\ Stoppable(Head(queue)) = {}
    /\ queue' = Append(Tail(queue), Head(queue))
    /\ UNCHANGED <<baseVars, given, valid, wake, record, pc, migrate, pend, exist, nodes, todo,
                   await, finished, batch, errs>>

\* The ones among S that are reconciled here.
ToUpdate(S) == {o \in S \cap exist : /\ o \in Range(queue) /\ o \notin labelled
                                     /\ home[o] \in PVC \cup nodes}

updateExistingOSDs ==
    /\ pc = "loop" /\ queue # Nothing /\ MayUpdate
    /\ \E S \in Stoppable(Head(queue)) :
        LET changed == {o \in ToUpdate(S) : dep[o] = "old"} IN
        /\ \/ batch' = changed /\ UNCHANGED <<errs, events>>
           \/ Fault /\ errs' = TRUE /\ batch' \in {changed \ {o} : o \in changed}
        /\ dep' = [o \in Osd |-> IF o \in batch' THEN "new" ELSE dep[o]]
        /\ stopping' = stopping \cup (batch' \cap up)
        /\ queue' = Only(queue, Osd \ S)
    /\ pc' = "wait"
    /\ UNCHANGED <<jobVars, in, label, up, given, valid, wake, record, migrate, pend, exist, nodes, todo,
                   await, finished>>

\* WaitForDeploymentsToUpdate: all pods are replaced, or the deadline passes.
WaitForDeploymentsToUpdate ==
    /\ pc = "wait" /\ (PromptStop => batch \cap stopping = {})
    /\ errs' = (errs \/ ~(batch \subseteq up \ stopping))
    /\ batch' = {}
    /\ pc' = "loop"
    /\ UNCHANGED <<baseVars, given, valid, wake, record, migrate, pend, queue, exist, nodes, todo,
                   await, finished>>

doneUpdating == queue = Nothing

\* Variant: the first result counts for all.
doneCreating_Any == await # {} => finished # {}
doneCreating == Cardinality(await) = Cardinality(finished)

\* The loop ends; with errors Start fails before it cleans up.
EndLoop ==
    /\ pc = "loop" /\ doneUpdating /\ doneCreating
    /\ IF errs THEN Return /\ Requeue
       ELSE pc' = "finish" /\ UNCHANGED <<wake, locals>>
    /\ UNCHANGED <<baseVars, given, valid, record>>

\* deleteAllStatusConfigMaps
Finish ==
    /\ pc = "finish"
    /\ cm' = [t \in Target |-> Status("none")]
    /\ Return
    /\ UNCHANGED <<disk, store, osdmap, home, lost, job, podVars, events, given, valid, wake, record>>

\* No progress for 20 minutes: no status to process, no job that could report,
\* no OSD that could be updated.  A slow job or a cancelled context is a fault.
NoProgress ==
    /\ \A t \in Target : cm[t].status \notin {"completed", "failed"}
    /\ \A t \in await : ~Active(t)
    /\ ~doneUpdating => Stoppable(Head(queue)) = {}

Abort ==
    /\ pc = "loop" /\ ~(doneUpdating /\ doneCreating)
    /\ IF NoProgress THEN UNCHANGED events ELSE Fault
    /\ Return /\ Requeue
    /\ UNCHANGED <<jobVars, podVars, given, valid, record>>

-----------------------------------------------------------------------------
(* Faults *)

OperatorRestarts ==
    /\ pc # "idle" /\ Fault
    /\ Return /\ Requeue
    /\ UNCHANGED <<jobVars, podVars, given, valid, record>>

\* A node is cordoned ...
Cordon(n) ==
    /\ n \in valid /\ Fault
    /\ valid' = valid \ {n}
    /\ UNCHANGED <<jobVars, podVars, given, wake, record, pc, locals>>

\* ... and schedulable again.  onK8sNode skips a node that has OSDs.
Uncordon(n) ==
    /\ n \in Node \ valid
    /\ valid' = valid \cup {n}
    /\ UNCHANGED <<baseVars, given, wake, record, pc, locals>>

\* Something else the controller watches queues the CephCluster: an object it
\* owns is deleted, devices are plugged, a node without OSDs joins, the user
\* edits it.
WatchEvent ==
    /\ ~wake /\ Requeue
    /\ UNCHANGED <<baseVars, given, valid, record, pc, locals>>

-----------------------------------------------------------------------------
Operator ==
    \/ NoMigration \/ UnhealthyPGs \/ DeferMigration \/ NothingToMigrate
    \/ \E o \in Osd : MigrateNext(o)
    \/ saveMigrationConfig \/ getOSDUpdateInfo
    \/ runPrepareJob \/ runPrepareJobFindsOld \/ runPrepareJobLosesRace \/ runPrepareJobFails
    \/ \E t \in Target : FailedStatus(t) \/ IgnoredStatus(t) \/ createNewOSDsFromStatus(t)
    \/ UpdateLater \/ updateExistingOSDs \/ WaitForDeploymentsToUpdate
    \/ EndLoop \/ Finish \/ Abort

unchangedByOthers == <<given, valid, wake, record, pc, locals>>
Jobs(t) == JobStep(t) /\ UNCHANGED unchangedByOthers
JobFaults(t) == JobFault(t) /\ UNCHANGED unchangedByOthers
Ceph == (\E o \in Osd : CephStep(o)) /\ UNCHANGED unchangedByOthers

Next ==
    \/ Operator
    \/ \E t \in Target : Jobs(t) \/ JobFaults(t)
    \/ Ceph
    \/ OperatorRestarts
    \/ \E n \in Node : Cordon(n) \/ Uncordon(n)
    \/ WatchEvent

Spec == Init /\ [][Next]_vars
FairSpec == Spec /\ WF_vars(Operator) /\ WF_vars(Ceph)
                 /\ \A t \in Target : WF_vars(Jobs(t))
                 /\ \A n \in Node : WF_vars(Uncordon(n))

-----------------------------------------------------------------------------
(* Properties *)

\* Type invariant; the update queue never holds an OSD twice, and only OSDs
\* that getOSDUpdateInfo found a Deployment for.
TypeOK ==
    /\ disk \in [Target -> Osd \cup {NoOsd}] /\ store \in [Target -> {"old", "new"}]
    /\ osdmap \in [Osd -> {"absent", "exists", "destroyed"}] /\ home \in [Osd -> Target]
    /\ in \subseteq Osd /\ lost \subseteq Osd /\ up \subseteq Osd /\ stopping \subseteq up
    /\ dep \in [Osd -> {"none", "old", "new"}]
    /\ job \in [Target -> [migrate : Osd \cup {NoOsd},
                           step : {"pending", "zapped", "ended"}]]
    /\ label \in [Osd -> {"old", "new"}]
    /\ cm \in [Target -> [status : {"none", "starting", "completed", "failed"},
                          osd : Osd \cup {NoOsd}, store : {"old", "new"}]]
    /\ spec \in Seq(Target) /\ requested \in BOOLEAN /\ labelled \subseteq Osd /\ valid \subseteq Node
    /\ wake \in BOOLEAN
    /\ record \in Osd \cup {NoOsd} /\ migrate \in Osd \cup {NoOsd}
    /\ pc \in {"idle", "save", "list", "prepare", "loop", "wait", "finish"}
    /\ pend \subseteq Osd /\ exist \subseteq Osd /\ batch \subseteq Osd
    /\ Range(queue) \subseteq exist /\ IsInjective(queue)
    /\ nodes \subseteq Node /\ Range(todo) \subseteq Target
    /\ await \subseteq Target /\ finished \subseteq Target
    /\ errs \in BOOLEAN /\ events \in 0..MaxEvents

\* Migration destroys one OSD at a time: its data is on other OSDs again before
\* the next one is destroyed.  The wait for clean PGs in startOSDMigration
\* ensures this, whatever was interrupted, jobs of earlier reconciles still run,
\* and even if the check of the last migration always answers "complete".
OneOSDAtATime == \A o, p \in lost : o = p

\* Updates (ok-to-stop and the wait for the new pods) and migrations together
\* never leave two failure domains unavailable, across operator restarts: where
\* ok-to-stop is asked and obeyed (SkipsCheck, ContinueUpgradeAfterChecks) and
\* replaced pods stop before a restarted operator acts (PromptStop).
DataAvailable == Cardinality(DomainsOf(Unavailable)) <= 1

\* An OSD of a node that its prepare job did not list: destroyed, or prepared
\* anew for the migrated id (Listed).  Only the next reconcile deploys it.
Unlisted(t) ==
    /\ t \in Node
    /\ osdmap[disk[t]] = "destroyed" \/ (disk[t] = InitDisk[t] /\ store[t] = "new")

\* When Start goes on to clean up and reports success, every prepare job it
\* waited for has its OSD deployed and every OSD it had to update is updated,
\* although the loop only compares the sizes of the two sets of ConfigMaps.
\* The exception is an OSD that is destroyed, or that a migration prepared anew,
\* on a node: its job leaves it out of the status (GetDestroyedIDs).
SuccessMeansDone ==
    pc = "finish" =>
        /\ \A t \in await : disk[t] # NoOsd => dep[disk[t]] # "none" \/ Unlisted(t)
        /\ \A o \in exist \ labelled :
            home[o] \in PVC \cup nodes /\ (requested => label[o] = "new") => dep[o] = "new"

\* A prepare job that was interrupted after the zap leaves the migrated id
\* without a disk; on a PVC the disk is later prepared for another id, and
\* isLastOSDMigrationComplete stays false.
Orphaned == record # NoOsd /\ \A t \in Target : disk[t] # record

\* The target has a running, updated (and migrated, if requested) OSD.
Settled(t) ==
    /\ disk[t] \in up
    /\ disk[t] \notin labelled => dep[disk[t]] = "new" /\ (requested => store[t] = "new")

\* A reconcile that migrates no OSD but first gives an interrupted one its
\* Deployment back.  It ends in success, so nothing in the operator brings about
\* the next one, which would go on with the migration.
CatchesUp ==
    /\ pc = "list" /\ requested /\ migrate = NoOsd
    /\ \/ ~isLastOSDMigrationComplete
       \/ \E t \in Target : disk[t] # NoOsd /\ dep[disk[t]] = "none"

\* Where the cluster has room to rebuild an OSD, reconciling ends with every
\* target settled, whichever step of the operator or of a job was interrupted:
\* by the requeues of the operator alone, or, after a reconcile that only caught
\* up (there is one for every OSD on a node) or found a node unschedulable, if
\* something queues the CephCluster again and again.  The exception is an
\* orphaned migration.
Converges ==
    []<>wake \/ [](~CatchesUp /\ valid = Node) =>
        <>[](Orphaned \/ \A t \in Range(spec) : Settled(t))

\* An interrupted migration resumes: the OSD recorded in osd-migration-config
\* gets its Deployment back, as the comment in startOSDMigration has it "on a
\* later reconcile", if there is always a later reconcile.
MigrationResumes ==
    []<>wake => \A o \in Osd : (record = o /\ dep[o] = "none") ~> (dep[o] # "none")

=============================================================================
