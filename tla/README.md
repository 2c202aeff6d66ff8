# Verification of the Rook operator for Ceph

TLA+ specifications of the parts of Rook in which several actors share state, kept beside the code
under `src/`. Line numbers in module comments and in `PROJECT.json` refer to that tree.

## The system

Rook is a Kubernetes operator. Its controllers run *reconciles*: sequences of reads and writes of the
Kubernetes API and of Ceph, started by events or timers, which may fail or be cut short by a restart
after any call and then start again from what is persisted. Nothing is transactional across two calls.
Around them run Ceph daemons (pods), jobs, goroutines of the operator, node drains and users editing
resources.

| Component | State | What is hard | Module |
|---|---|---|---|
| OSD disruption controller (`pkg/operator/ceph/disruption/clusterdisruption`) | PodDisruptionBudgets, the configmap `rook-ceph-pdbstatemap`, noout flags | evictions between any two writes, lagging PG status, restarts, changing failure domain type | `OSDDisruption` |
| OSD replacement and health goroutine (`cluster/osd/replace*.go`, `health.go`, `daemon/ceph/osd/replace.go`) | marks on the OSD deployment, `destroyed` slots of the osdmap, crypto-close jobs, disks | three programs on one deployment, stale reads, cancellation at any time | `OSDReplacement` |
| OSD reconcile, migration and prepare jobs (`cluster/osd/osd.go`, `update.go`, `create.go`, `status.go`, `migrate.go`, `cmd/rook/ceph/osd.go`, `daemon/ceph/osd`) | OSD deployments, status configmaps, update queue, `osd-migration-config`, disks | reports of jobs in any order and from earlier reconciles, ok-to-stop asked before it is used, a deployment deleted before that is recorded | `OSDPrepareJob`, `OSDProvisioning` |
| Mon cluster (`cluster/mon`) | mon deployments and services, the endpoints configmap, the monmap | a dozen writes per failover, loss of quorum | `MonCluster` |
| CephX keys of admin and mons (`cluster/cephx.go`, `cluster.go`, `mon/mon.go`, `pkg/operator/k8sutil`) | two Secrets, the users of Ceph, the keyring file, the status of the CephCluster | the credential needed to change a credential; crashes in between; a rotation that outlives its manager | `AdminAccess`, `AdminKeyRotation` |
| Resource controllers (pool, RADOS namespace, filesystem, subvolume group, client, NFS, NVMe-oF, mirrors, realm, zone group, zone, object store, user, account, topic) and the deletion of the CephCluster | the CRs with their finalizers and status, what they stand for in Ceph, mirror checkers | sixteen controllers that wait for one another, each retried and restarted anywhere; errors that are only logged | `Resources`, `StorageLifecycle`, `ObjectLifecycle`, `Lifecycle` |
| Mgr, node daemons, CSI, bucket provisioner, clients | deployments, API calls | little that is shared | not modelled |

The parts meet in three places: the OSD deployments (`OSDReplacement` has the reconcile's part in a
replacement, `OSDProvisioning` everything else of it), the rook-ceph-mon Secret (written by both key
rotations), and the CephCluster, whose deletion waits for all other CRs and whose state is the gate
each of their reconciles passes (`Resources!IsReadyToReconcile`).

## Modules

### OSDDisruption

One reconcile of the OSD budgets at a time, one action per API or Ceph call that matters to the
outcome: `Start`, `getOSDFailureDomains` (the deployments are listed), `hasOSDNodeDrained` (the nodes
of OSDs that are not ready), `reconcilePDBsForOSDs` (PG status, configmap and the decision),
`handleActiveDrains` and `deleteDefaultPDBforOSD`, or `createDefaultPDBforOSD` and
`handleInactiveDrains`, then `updateNoout` domain by domain, `savePDBState` and
`requeuePDBController`. `Abort` is an error return or a restart after any of them; `updateNooutFails`
is the one error the code holds back until the configmap is saved. Locals of the reconcile (`snap`,
`mem`, `exclude`, `todo`, `failed`) are variables that `Return` clears.

Failure domains are numbers, because the code sorts their names and takes the first. A CRUSH level is
a number in the order of `CRUSHMapLevelsOrdered`. Timestamps are `"none"`, `"recent"` or `"old"`
with respect to the one threshold each is compared with; `AgeDrain` and `AgeNoout` let time pass. The
60-second wait exists so that the PG status can catch up, and `AgeDrain` assumes that it does.

External: the eviction API (a pod selected by no budget, or by the default budget alone with a
disruption left, can be evicted), cordons, OSD pods, PG recovery and its delayed report. `exposed` is
a history variable: the domains opened since the budgets last covered every OSD.

### OSDReplacement

Three programs and their surroundings.

* The reconcile (`Cluster.Start`): `processOSDReplacements` lists, `markReplacement` is its loop body,
  `getOSDUpdateInfo` takes the skip set and the existence list, `startProvisioningOverNodes` starts the
  prepare job, `updateExistingOSDs` regenerates a deployment, `createOSDsForStatusMap`,
  `deleteOSDDeployment`, `createDaemonOnNode` and `doneWithStatus` consume the report, `Return` ends it.
* The prepare job of the node: `preProvisionReplacedOSDs`, `provisionReplacedOSD`,
  `configureCVDevices`, `ProvisionFails`.
* The health goroutine: `processOSDsDestroyForReplacement` reads deployments, tree and dump;
  then each OSD takes one of the branches of `processOSDReplacementDestroy` (`cancelReplaceOSD`,
  `annotateReadyForSwap`, `runCryptCloseJobForOSD`, `checkSafeToDestroy` and `OSDDestroy`, `OSDOut`,
  `scaleDownOSDDeployment`, `WaitForNextTick`); `checkOSDDump` ends the tick.

A deployment is the set of marks it carries: that it exists, the replace annotation with a valid
(`"ok"`) or a mistyped value, the in-progress annotation, the skip-reconcile label, the ready-for-swap
annotation, a replica. Updates of an object that was listed are conflicts when it has changed
(`Write`, `markReplacement`); generated deployments overwrite it (`updateExistingOSDs`). A slot is
`"live"`, `"destroyed"`, `"new"` (claimed by the prepare job, not booted) or `"purged"`. Which blank
disk goes into which slot depends on device classes; the model allows any pairing.

`Faulty` lets every call fail; `SkipListFails` is separate because that error is not returned.
The operator restarts up to `MaxRestarts` times; jobs and pods live on.

### MonCluster

The mons of a cluster, run by two programs under one lock, hence one sequence of calls (`pc`).

* The CephCluster reconcile: `Start` loads and saves the endpoints configmap and numbers the missing
  mons, `ensureMonsRunning` expects one more and saves that, `startDeployments` (or `startSome`, where
  the quorum is missing half-way) creates and updates deployments, `waitForMonsToJoin` waits for the
  quorum and deletes an extra deployment, `refreshMonPDB` ends it, and the mgr follows if that succeeds.
* The health check: `checkHealth` reads the quorum status and writes the budget; the mons of the
  status are visited in any order (`removeUnknown`, `foundInQuorum`, `waitForTimeout`,
  `retryUnscheduled`, `failOutOfQuorum`, `trackFails`); if none was dealt with, one of `failNotFound`,
  `addMons`, `removeExtra`, `failListed`, `healthy` follows. A failover is `stopOldMon`,
  `placeNewMon`, `startNewMon`, then `newMonJoined` or `newMonNotInQuorum` and `revertFailover`; a
  removal `removeMonitorFromQuorum`, `forgetMon`, `removeMonResources`; a revert ends with
  `revertMaxMonID`.

A mon is its number (`IndexToName` makes the letters). `info`, `out` and `maxId` are the operator's
memory, `cmMons`, `cmOut` and `cmMax` the configmap; a save that fails may have written it.
A timer of `monTimeoutList` is not set, set or expired. The health check runs once the mgr
deployment exists (`cluster.go:252`). External: daemons that start, crash or end, lost nodes, the
monmap, the quorum (more than half of the monmap runs), `ceph mon remove`, which needs a quorum and may
fail with one; `removeMon` logs that and goes on.
A mon with an empty store joins the monmap when it starts, and founds it if it is the first.

Everything that goes wrong is counted by `Event`: failing calls, restarts, crashes, lost nodes, a
changed count, and a time limit that passes although the mon could have started (`TimedOut`).

Not in the module: host networking, stretch clusters and zones, external and floating mons, the
multi-cluster service, the skip-reconcile label, two mons on one node, the version check of upgrades,
orphaned volumes, a `MonOutTimeout` of 0.

### AdminAccess and AdminKeyRotation

`AdminAccess` is what the rotation promises: two places hold a credential, and neither is given up
unless the other one works. `AdminKeyRotation` is how Rook does it, and `KeepsAccess` says that it
implements the promise (`primary` is "the rook-ceph-mon Secret has the key of client.admin", `backup`
is "the admin-rotator Secret has the key of an existing client.admin-rotator").

A reconcile of the CephCluster is a `pc`: `LoadClusterInfo`; recovery of an unfinished rotation
(`recoverNothing`, `recoverReadRotator`, `recoverPriorAdminCephxKeyRotation`, `recoverFrom`);
`validateCephVersion`, `initClusterInfo` and `startMons`, each of which reads the Secret or writes the
keyring file anew; `readCephCluster`; `rotateAdminCephxKey` with `GenerateKey`, `CreateOrUpdate`,
`AuthRotate`, `WriteConnectionConfig`, `storeAdminKey`, `AuthDelete`, `deleteRotatorSecret` and
`finalizeAdminKeyRotation`; then `RotateMonCephxKeys` with `rotateMonKey`, `storeMonKey` and
`UpdateMonCephxStatus`; `finishReconcile`. Keys are numbered in the order Ceph makes them. `CallFails`
is an error without effect, `Answered` an effect whose answer may be lost, `Crash` a restart of the
operator that may lose its keyring file.

`runCRDManager` replaces the manager after a SIGHUP: the reconcile's context is cancelled, but a
rotation runs on `context.Background()` and goes on (routine `"old"`) beside the next reconcile
(`"cur"`). `settings` says whether Ceph can rotate the mon key (`"aes256k"`) and whether reloads spare
a rotation (`"quiet"`).

### Resources, StorageLifecycle, ObjectLifecycle, Lifecycle

`Resources` is what all controllers have in common: a CR is created by the user, gets its finalizer in
a first reconcile, becomes Ready, is marked for deletion and goes when the finalizer is removed; one
worker per kind; the gate on the CephCluster; mirror checkers; failing reconciles, lost health and
restarts. `StorageLifecycle` and `ObjectLifecycle` add each kind's reconcile, cut where it reads
what the decision depends on (`...Start`), where it changes Ceph, and where it removes the finalizer;
and the deletion of the CephCluster (`DeleteClusterStart`, `RemoveFinalizers`). `Lifecycle`
composes them with user and faults and states the properties.

What lies in what (`ProviderAssumption`) and which names coincide (`NamesAssumption`) is assumed of the
constants. What a resource is in Ceph is a name (`Backing`); two subvolume group CRs of the model name the same
group. `data` is what holds user data; `Pools[o]` is where the data stored through `o` lies.
Errors that the code returns are `ReconcileFails`; which of them the status shows is `FailureShows`.
Errors the code takes for an answer are named in `Failing`, so that a configuration says which of them
may happen.

NFS servers and gateways wait for their pool and do not keep it: the pool asks for RADOS namespaces
only. An account is looked up (`CreateAccountStart`), then modified if the status has its ID
(`ModifyAccount`), or its ID is written to the status (`PersistAccountID`) and it is created
(`CreateAccount`, which fails if someone else did so meanwhile, `OtherAccount`). `CleanUp` is the wipe of
the hosts under a cleanup policy: a goroutine of `reconcileDelete` waits for the daemons to go and then
starts the jobs, and it survives the reconcile that set it off (`cluster/cleanup.go:62`). The model lets it
happen with the release of the CR, or not at all; it spares what is counted as a volume in the deletion
(`Volumes`), so that data lost there shows.

Not in these modules: external clusters, peers and periods of a multisite, MDS and RGW deployments,
quotas and capabilities, updates of a resource's specification (but for a topic's).

### OSDPrepareJob and OSDProvisioning

`OSDPrepareJob` is the job of one PVC or node: `DestroyOSD` (or `DestroyFails`) when the job was given
an OSD to migrate, then `Provision`, which prepares a blank disk and reports the OSD on the disk;
its pod may be restarted before and after the zap and before the report. Beside it are the OSD pods and
Ceph (external): `PodStops`, `Boot`, `Backfill`, `MarkOut`. `lost` holds the OSDs whose share of the
replicas is missing. `Spare` says whether the other OSDs can take that share.

`OSDProvisioning` is `Cluster.Start`: `UnhealthyPGs`, `DeferMigration`, `NothingToMigrate` or
`MigrateNext` and `saveMigrationConfig`; `getOSDUpdateInfo`; `runPrepareJob` for each target, with the
races with the job of an earlier reconcile (`runPrepareJobFindsOld`, `runPrepareJobLosesRace`); the loop
of `FailedStatus`, `IgnoredStatus`, `createNewOSDsFromStatus`, `UpdateLater`, `updateExistingOSDs`,
`WaitForDeploymentsToUpdate`, until `EndLoop` and `Finish`, or `Abort` after 20 minutes without
progress. The settings of a store ("old", "new") stand for its type and encryption. `wake` is the
work queue: a reconcile that fails queues the CephCluster again, one that succeeds does not; the deletion
of a Deployment and other events do (`WatchEvent`). `ok-to-stop` is not asked with
`SkipUpgradeChecks` or below three OSDs (`SkipsCheck`).

Assumptions of this model: OSDs stop only when their deployment is changed or deleted. With the constant
`PromptStop` a replaced pod stops before the wait for it times out and before a restarted operator gets to
the OSDs. Left out: key rotation of an updated OSD, KMS, changes of the do-not-reconcile label.

### Variants

Definitions with an underscore in their name, commented "Variant" or "bug" or listed under
"Plausible bugs", are plausible mistakes in the code. They are not used by any specification;
`PROJECT.json` says which definition each would replace and which property then fails.

## Runs

| Run | Question | Result |
|---|---|---|
| `osd_topology` | pools switch the failure domain between host and zone, or vanish, during a drain | types hold, no OSD of an unopened domain is without a budget, the controller sleeps only when all is restored |
| `osd_membership` | an OSD is added, removed or replaced during a drain while another crashes | the controller sleeps only when all is restored |
| `osd_liveness` | drain, crash, expired maintenance, failed reconcile | a cluster that heals for good gets its default budget back for good |
| `replace_safety` | replacement of an encrypted OSD, request withdrawn, repeated or mistyped any time, any call failing, one restart, an admin marking the OSD in | no close under a daemon, no unsafe swap, only drained and closed OSDs destroyed, fence holds |
| `replace_liveness` | the same beside the removal of dead OSDs: does a request advance, does a withdrawal restore? | yes, and the OSD under replacement is not taken for dead |
| `mon_failover` | three mons or none yet, one to move, one crashing, one losing its node, counts 1, 3 and 5, two failures of any kind | ids are new, no failover or removal ends the quorum (with the exceptions below), only spare mons are removed, the budget leaves a quorum |
| `mon_recovery` | a crash, a mon on a volume lost for good, failing calls, restarts, creation of a cluster, three of these | ends with all mons in quorum, expected and as many as asked for, provided more than half of the monmap could run throughout (`Viable`) |
| `key_recovery` | two rotations asked for, two crashes, failed calls or lost answers anywhere; with the mon key and undisturbed, or without the mon key and with reloads | never locked out, implements `AdminAccess`, a generation is published only when its key is stored, undisturbed rotations settle |
| `life_teardown` | ten sets of resources created and deleted in any order together with the CephCluster, one failure, restart, health loss or overlooked error | data is kept, providers and the cluster go last, no checker and nothing in Ceph outlives its CR, accounts that others had created are left alone, set-up and teardown complete |
| `provision_converges` | migration, update and creation of OSDs, one fault of the operator, a job or a call | one OSD destroyed at a time, one failure domain down at a time, success means done, everything converges if there is room to rebuild an OSD (with the exceptions below) |
| `life_dataloss` | is a CephFilesystem with subvolumes always kept? | no: when `fs get` fails the list of dependents is empty (finding) |
| `migrate_interrupted` | does an interrupted migration resume? | not without room to rebuild the OSD: `waitForHealthyPGs` comes first (finding) |

What the mon properties exclude is what the code does not prevent. `NoLateJoin`: `removeMon` takes a
mon out of the monmap first and deletes its deployment last, so that a mon which starts in between
(or one that `ceph mon remove` failed to remove) stays in the monmap without a deployment.
`StatusHolds`: another mon fails during the failover, or a reverted failover left its mon in the monmap
and the next one takes the same id. `KeepsQuorum` also leaves out clusters of two mons and moves from
the failover list while another mon is out (`Spared`), a replacement that joins before the old mon is
stopped (`NoEarlyJoin`: its deployment was left over from an earlier failover), and the failover of a
cluster of one mon, which compares the deployments it finds with the replacement alone (`NotAlone`).
`BudgetLeavesQuorum` starts when there are as many mons as the CR asks for, because the budget is computed
from the latter. `Recovers` starts from `Viable`, as a cluster without a quorum is left alone: apart from
lost nodes, the operator itself may end that. `removeMon` gives up a mon that is still in the monmap, or a
removal cut short leaves a mon that joins later and is in quorum but not expected, and
`checkForExtraMonResources` deletes its deployment without asking for the quorum (`mon.go:1201`). Without
the exception `Recovers` fails with three events; with it, it holds with three and with four.

What the others exclude, likewise. `Settles` is about rotations without a reload in between.
`DataKept` leaves out a store whose zone group or realm CR went first, `ProvidersLast` the kinds
without a finalizer, the pools of NFS servers and gateways, the topics and accounts of a store and the users of a multisite store that lost its
zone group or realm CR (it does not look for them), `CheckersEnd` a RADOS namespace named by several CRs
(one that is not the last in the list does not stop the checker, the last may have no finalizer yet), `NothingLeft` the kinds whose removal in
Ceph is best effort (filesystem, store, zone, NFS, NVMe-oF: failures are only logged),
`TeardownCompletes` a topic deleted before it has a status (`deleteTopic` dereferences it,
`topic/provisioner.go:246`), `SetupCompletes` an account that the controller refuses because it is
someone else's (`Refused`). `ForeignKept` is about accounts that were there when the controller looked. One
that is created between that and `CreateAccount` is not kept: the ID is in the status by then, and the next
reconcile takes the account for the CR's own. `Converges` leaves out a migration whose job was
interrupted after the zap (`Orphaned`: the disk no longer names the OSD), and asks for something that queues
the CephCluster again after a reconcile that only gave an interrupted OSD its Deployment back (`CatchesUp`;
every migration on a node comes to that) or that found a node unschedulable: both end in success.
`SuccessMeansDone` leaves out the OSD of a node that is destroyed or prepared anew for migration: its
job does not list it (`Unlisted`), so that only the next reconcile deploys it. `DataAvailable` is checked with
the upgrade checks on and three OSDs or more.

### Bounds

Budgets and domains matter through "the draining domain" and "another one": two domains show
every order of the writes. A second level (zone over host) and three sets of pools (none, zone, both)
are all a change of type needs. One aborted reconcile per behaviour lets any step start from any
half-written state; the proofs cover any number. The replacement handles OSDs independently of each
other, so one OSD is model-checked in all interleavings of the three programs; the proofs hold for any
number. `Requestable`, `Meddled`, `Crashable`, `Cordonable` and `Expiring` switch parts of the
environment on where a run is about them. Three mons are the smallest cluster that survives a failure;
the count goes to five and down to one. Two events are a mon out of quorum and one more failure at any
point of its failover; the third of `mon_recovery` meets what that left. `MaxMonID` leaves room for the
failovers these events can cause; the model stops where ids run out, so deadlock is not checked in the mon runs.

Key rotation: three generations are two rotations, the second of which meets what the first left; two
events are a crash in a rotation and another one in its recovery. The proofs cover any number of both.
All may be at rest in the end, so deadlock is not checked.

Lifecycle: a behaviour has one of ten sets of CRs (`MCScenarios`). Controllers affect one another only
through provider, client and CephCluster, so each chain (pool and namespace; filesystem with two CRs for
one group; store and user; realm to store; store with topic; store with account; pool with NFS server;
pool with gateway) is taken as a whole and unrelated chains are not mixed; of kinds without providers two
go together. Each CR is created and deleted once.
One event is enough to cut any reconcile short at any point. Everything may be gone in the end, so
deadlock is not checked.

Provisioning: two PVCs in one failure domain, a third PVC and a node in others, so that a batch of
two can be updated together while a third OSD must wait; ids 0 to 4 leave room for the OSD created on
the third PVC and for one orphaned id. Three OSDs are migrated (with or without one labelled
do-not-reconcile), or three are updated while a fourth is created. One fault at any point; the
safety invariants also hold with two.

### Fairness

`OSDDisruption!FairSpec`: the work queue runs queued reconciles (controller-runtime
retries with back-off) and `ceph status` catches up. Nothing else is assumed: OSDs need not come back;
`HealedClusterIsRestored` starts from "healed for good". `OSDReplacement!FairSpec`: reconcile,
prepare job and health goroutine keep running (timers and job controller), pods of deployments
scaled to zero end, deletions finish, PGs leave an OSD that is out or stays down, and a crypto-close
job that is started again and again once succeeds (strong fairness; the code retries for ever,
`replace_destroy.go:265`). That PGs leave a down OSD which is still "in" rests on Ceph marking it out
after `mon_osd_down_out_interval`: the goroutine itself does not mark it out a second time.
`MonCluster!FairSpec`: the operator finishes what it has begun, the health check gets the lock again
and again whenever the mons answer (it runs every 45 seconds, while reconciles come with events; hence
strong fairness), pods of deployments start and end, and time-outs pass. Where `startDeployments` waits
after each mon and gives up, it begins with another mon the next time, as Go's map order is random: a mon
that is scaled to zero is not passed over for ever (strong fairness of `startSome`).
`AdminKeyRotation!FairSpec`: requeued requests are retried, commands of a rotation end, a signal is
delivered. `Lifecycle!FairSpec`: weak fairness of all controllers together, because a reconcile that is
waiting takes no step and the work queues retry the rest; Ceph becomes healthy again. Neither users nor
removal of data are fair: `TeardownCompletes` starts when the data is removed.
`OSDProvisioning!FairSpec`: the operator, the job of each target and Ceph go on, and a cordoned node is
uncordoned.

## Deviations

Where the code does not do what a document or a comment says, or where a property holds only without
something that can happen. Two of them are runs of their own; the others can be seen with the
configuration named.

* `life_dataloss`: `file/dependent.go:79` returns an empty list and no error when the query for the
  filesystem fails, where the comment at :49 promises the subvolume groups "that should block deletion".
* `migrate_interrupted`: `osd.go:428` says that "the reconcile continues on to recreate the interrupted
  OSD so the migration can resume", but `waitForHealthyPGs` (:399) has returned an error before that
  as long as the missing OSD keeps the PGs from becoming clean.
* `OSDDisruption_overlap.cfg`, `DrainsStayInOneDomain`: the design
  (`design/ceph/ceph-managed-disruptionbudgets.md:32`) says that blocking budgets keep OSDs of several
  failure domains from going down; while the PG status lags behind, a second domain is opened.
* `OSDDisruption_leftover.cfg`, `AllBlockingBudgetsDeleted`: a blocking budget of the former failure
  domain type stays for good when pools change the type during a drain (`osd.go:320`, :381).
* `OSDReplacement_second_destroy.cfg`, `NewDiskNotDestroyed`: with a spare disk in the slot the
  `destroyed` state does not stop a second destroy (`design/ceph/osd-replacement.md:186`,
  `replace_destroy.go:120`).
* `OSDReplacement_stale_job.cfg`, `DestroyOnlyDrained` with a spare disk: a finished crypto-close job that
  is still being deleted when the rebuilt OSD is replaced again counts as the job of the second
  replacement (`cryptCloseJobStatusForOSD`, `replace_job.go:74`, does not look at the deletion), and the
  OSD is destroyed with its mappings open. With one disk the swap comes after the deletion.
* `MonCluster_moves.cfg`, `FailoverKeepsQuorum`: a mon of the failover list is stopped while another one
  is out (`health.go:397`; the guard at :382 is for another branch); `ceph-mon-health.md:59` asks for
  the quorum to be kept by the other mons.
* `AdminKeyRotation_overlap.cfg`, `NeverLockedOut` where the mon key can be rotated and a reload comes
  during a rotation: the next reconcile's `storeMonKey` (`mon.go:1934`) writes the whole Secret from a
  cluster info read before the rotation stored the new admin key
  (`design/ceph/cephx-keyring-rotation.md:465`). `Supported` excludes this cluster in the proofs.
* `AdminKeyRotation_blocked.cfg`, `NotBlocked`: the answer to `auth rm` is lost, which leaves the Secret
  of a rotator that is gone; the reconcile beside it then creates another rotator, and the operator
  crashes before its keyring is stored. Every later reconcile finds a rotator in Ceph, goes on with the
  keyring of the former one and fails (`cephx.go:385-398`; the design at :513 asks for recovery from any
  interrupted rotation). The admin key works all the while.
* A failed deletion of the rotator Secret is a warning only; the next reconcile finalizes the rotation
  again and publishes a generation it did not rotate for (`cephx.go:518`).
* With `SkipListFails` `NeverRevived` fails: an error of `GetDaemonsToSkipReconcile` (`osd.go:295`) is
  only logged, the skip set is empty and the updater scales the OSD under replacement up. And a status
  configmap written before an OSD was destroyed may be consumed after it was announced ready for swap
  (`create.go:94`): the controller then makes a deployment for the destroyed slot.
* With two CRs for one RADOS namespace, one gives up its finalizer because of the other, and the other
  goes because it has no finalizer yet, or gives up its own because the cache still lists the first.
  The namespace and its images stay, and go with the pool (`DataKept` with a second CR for `rns` in
  `MCLifecycle`). Data is also lost when the zone group or realm CR is deleted before the store
  (`NoDataLost` in place of `DataKept`), the admin ops API is unreachable or the list of pools fails
  (`Failing`).
* With `"mon secret"` in `Failing` `DataKept` fails: `reconcileDelete` of a cluster with a cleanup policy
  takes a failure to read the mon secret for "skip cluster cleanup" (`cluster/controller.go:430`) and skips
  the check for volumes with it. The cleanup goroutine of an earlier reconcile, which found volumes, is still
  waiting for the daemons to go, and wipes the hosts once they do.
* An account that someone else creates between `GetAccount` and `CreateAccount` is adopted by the next
  reconcile and deleted with the CR, although `account/controller.go:361` means to refuse foreign accounts:
  the status, which has the ID before the account is created (:378), is the proof of ownership.
* A reconcile that gives an interrupted OSD its Deployment back and migrates none ends in success, and is
  not queued again (`Converges` without `CatchesUp`).
* `design/ceph/osd-migration.md:121` ("Once the destroyed OSD pod is recreated, delete the configmap")
  is not done; the record of the last migration stays, and after an `Orphaned` migration blocks later
  ones.

## Proofs

For every value of the constants, hence any number of OSDs, nodes, targets, generations, failures and
restarts:

* `OSDDisruptionProofs`: `TypeCorrect` (`[]TypeOK`) and `Coverage` (`[]OnlyDrainedDomainsExposed`). The
  latter is not inductive alone. The proof strengthens it with: steady OSDs stay deployed
  (`SteadyDeployed`); the listing misses no domain of a steady OSD, counting those held back until
  their node is known (`ListingComplete`); `handleActiveDrains` has blocked every domain it has visited
  but the draining one (`VisitedBlocked`); and blocking budgets are deleted wholesale only while the
  default budget exists (`UnblockUnderDefault`). Only then may the default budget be deleted.
  `SleepTheorem` (`[]SleepsOnlyWhenRestored`) adds `EndInv`: a reconcile works at the current level
  (`CurrentLevel`), has removed blocking budgets and noout from the domains it has visited (`Reopens`),
  and reaches the requeue decision with the default budget only when nothing is left (`Finished`).
* `OSDReplacementProofs`: `TypeCorrect` (`[]TypeOK`), `CloseIsSafe` (`[]NoCloseUnderDaemon`),
  `SwapTheorem` (`[]SwapIsSafe`) and `FenceHolds` (`NeverRevived`), assuming `Supported`:
  `removeOSDsIfOutAndSafeToRemove` is off, as the design requires, and the list behind the skip set does
  not fail. The inductive invariant `Shared` says what each program may rely on about the others:
  marked deployments carry the label and whatever of them is still queued for update is skipped
  (`Fence`); a deployment seen waiting for its disk still waits (`Listed`); what the goroutine read holds
  for the OSDs it has not visited (`Ticking`); the OSD about to be destroyed stays stopped (`Doomed`); a
  running job belongs to a stopped encrypted OSD the goroutine owns (`Closing`); ready for swap means a
  vacant slot (`Waiting`). `DestroyTheorem` (`DestroyOnlyDrained`) adds `Drained` (a successful job has
  closed the mappings, and nothing opens them again before the destroy) and needs a premise on the
  behaviour, `[]ResultsDeleted`: a finished job is gone when the next daemon runs in its slot. Without it
  the statement is false (`OSDReplacement_stale_job.cfg`). `TeardownTheorem` (`TeardownNotForgotten`)
  holds with `removeOSDsIfOutAndSafeToRemove` too, as long as the list of deployments does not fail in the
  tick that removes dead OSDs (`Excluding`); its invariant `Kept`: what is stopped or ready carries the
  mark of the goroutine, and a tick excludes it before it stops or announces it.
* `AdminKeyRotationProofs`: `NeverLockedOutTheorem`, `KeepsAccessTheorem` (the refinement of
  `AdminAccess`, step by step) and `PublishedTheorem` (`PublishedWhenSafe`: about the generation in the
  status, not about the order of the writes to the Secrets, which is `KeepsAccess`), assuming `Supported`: the
  mon key cannot be rotated, or no reload comes during a rotation. The inductive invariant: one routine holds the
  rotation lock (`OneRotation`); keys in Secrets, users and memory are keys Ceph has made (`KnownKeys`),
  so that a new one differs from all of them; what a rotation knows at each step (`Progress`: the
  rotator it goes on with is the stored one, the backup works while the key changes hands, the primary
  works before the rotator is removed); and the mon key rotation, which writes the admin key too, has
  the current one (`MonKeySafe`). `MonKeyStoredTheorem` (`MonKeyStored`) follows from the same invariant;
  `TypeTheorem` (`[]TypeOK`) needs no assumption.
* `MonClusterProofs`: `TypeTheorem` (`[]TypeOK`) and `NewIdUnusedTheorem` (`[]NewIdUnused`) from `IdInv`:
  expected mons have ids up to the stored maximum, but for the replacement of the failover under way,
  which has the next one (`IdsGiven`). `RemovesOnlySparesTheorem`, `BudgetTheorem` and
  `KeepsQuorumTheorem` (the three action properties) add `StatusInv`: until `ceph mon remove` the mons of
  the status are in the monmap, more than half of them were in quorum, and the mon to remove is one too
  many or its replacement has joined. The cases `KeepsQuorum` excludes (above) are excluded from its theorem
  too. They are about cardinalities of arbitrary finite sets of mons; no
  assumption but that counts are positive.
* `OSDProvisioningTypes`: `TypeTheorem` (`[]TypeOK`; the update queue holds no OSD twice) and the
  invariant `HomeInv`: an id Ceph has not given appears nowhere, and a job migrates an OSD of its own
  target. `OSDProvisioningProofs`: `OneOSDAtATimeTheorem` (`[]OneOSDAtATime`), with no assumption but that
  OSD ids are numbers. A prepare job of an earlier reconcile may still be about to destroy its OSD when
  another migration starts, so the invariant is about every OSD that is or can be lost (`Exposed`: lost,
  or down with no deployment or with a job for it): there is at most one (`AtMostOne`). It needs that
  updates never touch an OSD some job or the operator migrates (`Apart`) and that nothing recreates the
  migrated deployment before the jobs are started (`Deleted`). The wait for clean PGs is what makes
  `Exposed` empty before the next one is added; the check of the last migration is not needed.
  `DataAvailableTheorem` (`[]DataAvailable`), assuming `~ContinueUpgradeAfterChecks`, `~SkipUpgradeChecks`
  and at least three OSDs at the start (otherwise ok-to-stop is not asked or not obeyed) and `PromptStop`: what
  is unavailable, and what the update is about to stop, lies in one failure domain (`AvailInv`).
  `SuccessTheorem` (`[]SuccessMeansDone`), without assumptions, from `DoneInv`: the
  loop ends when the numbers of awaited and finished ConfigMaps agree, so finished ones must be awaited
  ones (`Phases`), an awaited result must be of the OSD that is on the disk or will be again, whatever job
  is still running (`Reported`, `Processed`), and what is to be updated is updated or queued (`QueueInv`).
  Which OSDs a job leaves out needs `Origin`: what has the old settings was there at the start.
* `LifecycleProofs` sums up what a step may do to a CR, a reconcile, Ceph and the data
  (`ControllerCases` for the sixteen controllers, `NextSteps` for every step). From that: `TypeTheorem`
  (`[]TypeOK`), `ClusterLastTheorem` (`[]ClusterLast`; `ClusterInv`: once the dependents check has passed, no CR of a
  listed kind is there, and none is created), `ForeignKeptTheorem` (`[]ForeignKept`; `AccountInv`: an
  account that was there first is neither noted nor worked on) and `NothingLeftTheorem` (`[]NothingLeft`, if the list of CephClusters
  can be read; `RemovalInv`: a CR without a finalizer has no reconcile under way and nothing in Ceph) and
  `CheckersEndTheorem` (`[]CheckersEnd`, no assumption; `CheckerInv`: what a checker watches has a CR with
  a finalizer that no reconcile is about to take off).
  `LifecycleDataProofs`: `DataKeptTheorem` (`[]DataKept`), assuming `Heard` (the calls whose failure
  passes for an answer do not fail) and `OwnNamespaces` (no two CRs name one RADOS namespace). What a
  dependents check saw must still hold when Ceph is changed, one or two steps and any number of other
  actors' steps later: what is being deleted gets no new CR inside (`Childless`) and no data (`Empty`,
  `ZoneEmpty`). That a pool may rely on its namespace CRs alone needs `RemovalInv`; that the zone may
  rely on its store CRs needs that a store with data and a realm is not released (`ZoneData`), which in
  turn needs that the zone CR outlives it (`ZoneKept`); and that the cleanup of the hosts finds no volumes
  is `VolumesInv`. `ProvidersLastTheorem` (`[]ProvidersLast`),
  assuming `Heard`, from `ProviderInv`: as long as a CR lies in a pool, filesystem or zone, its deletion
  has not been decided (`Attended`); the store of a Ready user exists in Ceph, which is what makes the
  store ask for users (`UsersKept`), and so do its pools, without which it would not be deleted the usual
  way (`PoolsKept`).

The assumptions on constants (named `...Assumption` in the modules) say that sets are subsets of what
they should be and, for the resources, which kind lies in which, that only pools, namespaces and
filesystems are mirrored, and that names in Ceph are distinct but for namespaces and groups. TLC evaluates them in every run.

Every safety invariant and every action property of the passing runs is proved, under the assumptions
named. Only model-checked: the liveness properties `HealedClusterIsRestored`, `CancelRestores`,
`ReplacementAdvances`, `Recovers`, `Settles`, `TeardownCompletes`, `SetupCompletes` and `Converges`, as
liveness under fairness is out of the prover's reach; and what the two violation runs refute.

Proving made some statements more precise. `KeepsQuorum`, `ProvidersLast` and `CheckersEnd` were false in
clusters larger than the checked ones and name these exceptions now; `DestroyOnlyDrained` is false with a
spare disk (above). `InOrder` and `Only` of `OSDProvisioning` are functions on an index set, because what
a recursive definition computes cannot be proved here.

## Not modelled

* Pod, service and PVC specifications, configuration text, TLS, device discovery, arguments of
  ceph-volume and of the RGW admin API: data or I/O, no state of the operator's own.
* The order in which the CephCluster reconcile creates and upgrades the daemons, version detection,
  status conditions: a sequence without feedback, or polling.
* Mgr (the active mgr is read and written to a label), node daemons (a function of the list of pods),
  CSI (templates), bucket notifications and the bucket provisioner (calls per object; the library is
  outside the repository), static budgets of stores and filesystems (created once, never changed).
* MDS scaling and its upgrade sequence, stretch and external clusters, multisite peers, mirroring
  bootstrap, KMS, the removal job `rook ceph osd remove`: state machines of their own that could be added.
* Generated clients and API types have no behaviour; they and the specifications above are most of the
  source.

`PROJECT.json` lists every component with its status.
