--------------------------- MODULE OSDPrepareJob ---------------------------
(***************************************************************************)
(* The OSD prepare jobs (the daemon side of provisioning,                  *)
(* cmd/rook/ceph/osd.go and pkg/daemon/ceph/osd) and what they act on: the *)
(* disks, the OSD map, the pods of the OSD Deployments and the replicas of *)
(* the data that the OSDs hold.  OSDProvisioning adds the operator.        *)
(*                                                                         *)
(* A target is a PVC or a node with one disk.  An OSD holds a share of the *)
(* replicas; the share is lost when the OSD is destroyed and is backfilled *)
(* when the OSD boots again, or rebuilt on the other OSDs once Ceph marks  *)
(* the OSD out, if the cluster has the room for it (Spare).                *)
(***************************************************************************)
EXTENDS Integers, FiniteSets, FiniteSetsExt, Sequences

CONSTANTS Osd,        \* OSD ids, a finite set of natural numbers
          PVC, Node,  \* the targets: PVCs and storage nodes
          Domain,     \* failure domain of each target
          InitDisk,   \* the OSD on each disk at the beginning
          Spare,      \* whether the other OSDs have room for a missing one
          MaxEvents   \* bound on faults

ASSUME OsdAssumption == Osd \subseteq Nat /\ IsFiniteSet(Osd)
ASSUME BoundAssumption == MaxEvents \in Nat

VARIABLES disk,       \* target -> the OSD that ceph-volume lists on its disk
          store,      \* target -> "old" or "new" store/encryption settings
          osdmap,     \* OSD -> "absent", "exists" or "destroyed"
          home,       \* OSD -> the target it was created on
          in,         \* the OSDs that CRUSH maps data to
          lost,       \* the OSDs whose share of the replicas is missing
          dep,        \* OSD -> revision of its Deployment: "none", "old", "new"
          label,      \* OSD -> the store settings its Deployment was made for
          up,         \* the OSDs whose daemon is up
          stopping,   \* updated Deployments whose old pod still runs
          job,        \* target -> its prepare job
          cm,         \* target -> its status ConfigMap
          events      \* faults so far

jobVars  == <<disk, store, osdmap, home, lost, job, cm>>
podVars  == <<in, dep, label, up, stopping>>
baseVars == <<disk, store, osdmap, home, in, lost, dep, label, up, stopping, job, cm, events>>

Target == PVC \cup Node
NoOsd  == -1

\* There is storage, a disk carries at most one OSD and an OSD is on one disk.
ASSUME TargetAssumption ==
    /\ IsFiniteSet(Target) /\ Target # {}
    /\ InitDisk \in [Target -> Osd \cup {NoOsd}]
    /\ \A t, u \in Target : InitDisk[t] = InitDisk[u] => t = u \/ InitDisk[t] = NoOsd

Status(s) == [status |-> s, osd |-> NoOsd, store |-> "old"]
Fault  == events < MaxEvents /\ events' = events + 1
Ended  == [migrate |-> NoOsd, step |-> "ended"]
Active(t) == job[t].step # "ended"
DomainsOf(S) == {Domain[home[o]] : o \in S}

\* Variant: backfilling PGs pass for clean.
Clean_Active == in \subseteq up

\* PGs are active+clean.
Clean == in \subseteq up /\ lost = {}

\* The OSDs whose share of the data cannot be served now.
Unavailable == lost \cup (in \ up)

-----------------------------------------------------------------------------
(* The prepare job of a target *)

\* cmd/rook/ceph/osd.go: with --migrate-osd the OSD is first destroyed and its
\* device zapped.
Destroy(o) ==
    /\ osdmap' = [osdmap EXCEPT ![o] = "destroyed"]
    /\ lost' = lost \cup ({o} \cap in)

CanDestroy(t) == LET o == job[t].migrate IN
    job[t].step = "pending" /\ o # NoOsd /\ disk[t] = o /\ o \notin up

DestroyOSD(t) ==
    /\ CanDestroy(t)
    /\ Destroy(job[t].migrate)
    /\ disk' = [disk EXCEPT ![t] = NoOsd]
    /\ job' = [job EXCEPT ![t].step = "zapped"]
    /\ UNCHANGED <<store, home, cm, podVars, events>>

\* GetOSDInfoById finds no such OSD on the disk, or `osd destroy` finds it up:
\* the pod exits without a status.  The kubelet restarts it, which changes
\* nothing while the cause lasts (the job stays active and pending, and may
\* still destroy the OSD if it goes down); this is the job giving up at its
\* backoff limit.
DestroyFails(t) ==
    /\ job[t].step = "pending" /\ job[t].migrate # NoOsd /\ ~CanDestroy(t)
    /\ job' = [job EXCEPT ![t] = Ended]
    /\ UNCHANGED <<disk, store, osdmap, home, lost, cm, podVars, events>>

\* The id that ceph-volume prepares a blank disk for: the migrated OSD, on a
\* node a destroyed slot of that node (preProvisionReplacedOSDs), or a new one.
Slots(t) == {o \in Osd : osdmap[o] = "destroyed" /\ home[o] = t}
Absent == {o \in Osd : osdmap[o] = "absent"}
IdFor(t) ==
    IF job[t].migrate # NoOsd THEN job[t].migrate
    ELSE IF t \notin PVC /\ Slots(t) # {} THEN Min(Slots(t))
    ELSE Min(Absent)

\* Osd bounds the ids: without one left no disk is prepared.
HasId(t) == job[t].migrate # NoOsd \/ (t \notin PVC /\ Slots(t) # {}) \/ Absent # {}

ReadyToProvision(t) == job[t].step = IF job[t].migrate = NoOsd THEN "pending" ELSE "zapped"

\* configureCVDevices: prepare the disk if it is blank.
PrepareDisk(t) ==
    IF disk[t] # NoOsd THEN UNCHANGED <<disk, store, osdmap, home>>
    ELSE /\ HasId(t)
         /\ disk' = [disk EXCEPT ![t] = IdFor(t)]
         /\ store' = [store EXCEPT ![t] = "new"]
         /\ osdmap' = [osdmap EXCEPT ![IdFor(t)] = "exists"]
         /\ home' = [home EXCEPT ![IdFor(t)] = t]

\* What the job of t lists for a disk with OSD o.  On a node, OSDs that were
\* destroyed when the job read the OSD tree are left out (GetDestroyedIDs), and
\* the tree is read before a migrated OSD is prepared; only the slots that
\* preProvisionReplacedOSDs fills are filled before that.
ListedOSD(t, o) ==
    IF /\ t \notin PVC /\ osdmap[o] = "destroyed"
       /\ disk[t] # NoOsd \/ job[t].migrate # NoOsd
    THEN NoOsd ELSE o

\* Provision: the OSD on the disk is reported in the status ConfigMap.
Provision(t) ==
    /\ ReadyToProvision(t)
    /\ PrepareDisk(t)
    /\ cm' = [cm EXCEPT ![t] = [status |-> "completed", osd |-> ListedOSD(t, disk'[t]),
                               store |-> store'[t]]]
    /\ job' = [job EXCEPT ![t] = Ended]
    /\ UNCHANGED <<lost, podVars, events>>

JobStep(t) == DestroyOSD(t) \/ DestroyFails(t) \/ Provision(t)

\* Any error of Provision is reported in the status ConfigMap; the pod restarts.
ProvisionFails(t) ==
    /\ ReadyToProvision(t) /\ Fault
    /\ cm' = [cm EXCEPT ![t] = Status("failed")]
    /\ job' = [job EXCEPT ![t].step = "pending"]
    /\ UNCHANGED <<disk, store, osdmap, home, lost, podVars>>

\* The pod is lost and started again: before the zap, after it, or before it
\* reports what it prepared.
RestartBeforeZap(t) ==
    /\ CanDestroy(t) /\ Fault
    /\ Destroy(job[t].migrate)
    /\ UNCHANGED <<disk, store, home, job, cm, podVars>>

RestartAfterZap(t) ==
    /\ job[t].step = "zapped" /\ Fault
    /\ job' = [job EXCEPT ![t].step = "pending"]
    /\ UNCHANGED <<disk, store, osdmap, home, lost, cm, podVars>>

RestartBeforeReport(t) ==
    /\ ReadyToProvision(t) /\ disk[t] = NoOsd /\ Fault
    /\ PrepareDisk(t)
    /\ job' = [job EXCEPT ![t].step = "pending"]
    /\ UNCHANGED <<lost, cm, podVars>>

JobFault(t) == ProvisionFails(t) \/ RestartBeforeZap(t) \/ RestartAfterZap(t)
               \/ RestartBeforeReport(t)

-----------------------------------------------------------------------------
(* The OSD pods and Ceph *)

\* Kubernetes stops the old pod of an updated Deployment (strategy Recreate).
PodStops(o) ==
    /\ o \in stopping
    /\ stopping' = stopping \ {o} /\ up' = up \ {o}
    /\ UNCHANGED <<jobVars, in, dep, label, events>>

\* The Deployment is for the OSD that is on the disk.
Bootable(o) == /\ dep[o] # "none" /\ osdmap[o] = "exists"
               /\ disk[home[o]] = o /\ label[o] = store[home[o]]

\* The pod of a Deployment starts and the OSD boots.
Boot(o) ==
    /\ o \notin up \cup stopping /\ Bootable(o)
    /\ up' = up \cup {o} /\ in' = in \cup {o}
    /\ UNCHANGED <<jobVars, dep, label, stopping, events>>

\* The share of a recreated OSD is backfilled.
Backfill(o) ==
    /\ o \in lost \cap up
    /\ lost' = lost \ {o}
    /\ UNCHANGED <<disk, store, osdmap, home, job, cm, podVars, events>>

\* An OSD that stays down is marked out; its share is rebuilt elsewhere.
MarkOut(o) ==
    /\ Spare /\ o \in in \ up /\ ~Bootable(o)
    /\ in' = in \ {o} /\ lost' = lost \ {o}
    /\ UNCHANGED <<disk, store, osdmap, home, job, cm, dep, label, up, stopping, events>>

CephStep(o) == PodStops(o) \/ Boot(o) \/ Backfill(o) \/ MarkOut(o)

=============================================================================
