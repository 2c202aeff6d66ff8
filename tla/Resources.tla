------------------------------ MODULE Resources ------------------------------
(***************************************************************************)
(* What the controllers of the Rook custom resources share: the life of a  *)
(* resource from the user's create to the removal of its finalizer, the    *)
(* gate on the CephCluster every reconcile passes, the retry of a failed   *)
(* reconcile, and a restart of the operator.  The operations of the kinds  *)
(* are in StorageLifecycle and ObjectLifecycle.                            *)
(*                                                                         *)
(* Each controller has one worker, so a resource is reconciled from start  *)
(* to end before the next one of its kind; controllers of different kinds  *)
(* interleave.  task[o] is how far the reconcile of o has come.            *)
(***************************************************************************)
EXTENDS Naturals

CONSTANTS
  Objects,      \* the custom resources besides the CephCluster
  Kind,         \* Kind[o]: the kind of o
  Provider,     \* Provider[o]: the resource o is created in, or NoObject
  Backing,      \* Backing[o]: what o stands for in Ceph
  Pools,        \* Pools[o]: where the data stored through o lies
  Mirrored,     \* the pools, namespaces and filesystems that are mirrored
  Scenarios,    \* the sets of resources a behaviour may be about
  MaxEvents,    \* bound on failures, health losses and restarts
  Failing,      \* failing calls whose error the code does not return
  NoObject

\* What the kinds lie in.  A store lies in a zone or is on its own; NFS
\* servers and NVMe-oF gateways keep their state in the pool .nfs or .nvmeof,
\* which has a CephBlockPool CR.
Lies == {<<"rns", "pool">>, <<"svg", "fs">>, <<"user", "store">>,
         <<"topic", "store">>, <<"account", "store">>, <<"store", "zone">>,
         <<"zone", "zonegroup">>, <<"zonegroup", "realm">>,
         <<"nfs", "pool">>, <<"nvmeof", "pool">>}
ASSUME ProviderAssumption ==
  /\ NoObject \notin Objects
  /\ \A o \in Objects :
       IF Provider[o] = NoObject
         THEN Kind[o] = "store" \/ \A k \in Lies : k[1] # Kind[o]
         ELSE Provider[o] \in Objects /\ <<Kind[o], Kind[Provider[o]]>> \in Lies

\* Several CRs may name one RADOS namespace or subvolume group; other CRs have
\* a name of their own.  The stores of a zone share the pools of the zone.
ASSUME NamesAssumption ==
  \A o, p \in Objects :
    /\ Backing[o] = Backing[p] =>
         \/ o = p
         \/ /\ Kind[o] \in {"rns", "svg"}
            /\ Kind[p] = Kind[o] /\ Provider[p] = Provider[o]
    /\ Kind[o] = "zone" =>
         /\ Pools[o] # Backing[p]
         /\ Kind[p] = "zone" /\ Pools[p] = Pools[o] => p = o
    /\ Kind[o] # "zone" =>
         Pools[o] = IF Kind[o] = "store" /\ Provider[o] # NoObject
                      THEN Pools[Provider[o]] ELSE Backing[o]
ASSUME MirroredAssumption ==
  \A o \in Mirrored : o \in Objects /\ Kind[o] \in {"pool", "rns", "fs"}
ASSUME EventsAssumption == MaxEvents \in Nat

VARIABLES
  cluster,      \* the CephCluster CR: "held", "going" or "gone"
  protected,    \* mon Secret and ConfigMap that keep their finalizer
  healthy,      \* Ceph health in the CephCluster status allows commands
  cleanup,      \* the CephCluster has a destructive cleanup policy
  cr,           \* cr[o]: the CR of o as the API server has it
  ready,        \* the CRs whose status phase is Ready
  lag,          \* removed CRs that the operator's cache still lists
  task,         \* task[o]: how far the reconcile of o has come
  clusterTask,  \* the same for the CephCluster
  ceph,         \* what exists in Ceph
  data,         \* what holds data the user has stored and not removed
  checkers,     \* running mirror checkers: Ceph resource and CR reported to
  noted,        \* topic CRs with a status; account CRs with the ID in theirs
  foreign,      \* accounts that were there before the controller looked
  events        \* failures, health losses and restarts so far

vars == <<cluster, protected, healthy, cleanup, cr, ready, lag, task,
          clusterTask, ceph, data, checkers, noted, foreign, events>>

\* Written only for topics and accounts.
notes == <<noted, foreign>>

Alive(o) == cr[o] \in {"new", "held", "going"}
SameKind == [o \in Objects |-> {p \in Objects : Kind[p] = Kind[o]}]
Clients == [p \in Objects |-> {o \in Objects : Provider[o] = p}]
DependentsOf(p) == {o \in Clients[p] : Alive(o)}
\* What lies inside the Ceph resource of p: namespaces and the grace database
\* in a pool, subvolume groups in a filesystem, users in a store.  Gateways
\* are registered with the mons.
Inside(p) == {Backing[o] : o \in {c \in Clients[p] : Kind[c] # "nvmeof"}}

\* Kinds whose controller sets no finalizer: the API server removes them at
\* once, whatever depends on them.
Unfinalized == {"realm", "zonegroup", "rbdmirror", "fsmirror"}
\* Kinds a user's data lives in.
DataKinds == {"pool", "rns", "fs", "svg", "store"}

InCeph == {Backing[o] : o \in Objects} \union {Pools[o] : o \in Objects}

\* Every variable stays within its type: among others, a checker is a pair of
\* what it watches in Ceph and the CR it reports to.
TypeOK ==
  /\ cluster \in {"held", "going", "gone"}
  /\ protected \subseteq {"secret", "configmap"}
  /\ healthy \in BOOLEAN
  /\ cleanup \in BOOLEAN
  /\ cr \in [Objects -> {"none", "unborn", "new", "held", "going", "gone"}]
  /\ ready \subseteq Objects
  /\ lag \subseteq Objects
  /\ task \in [Objects -> {"idle", "note", "create", "modify", "destroy",
                           "zone", "release"}]
  /\ clusterTask \in {"idle", "secret", "configmap", "release"}
  /\ ceph \subseteq InCeph
  /\ data \subseteq InCeph
  /\ checkers \subseteq InCeph \X Objects
  /\ noted \subseteq Objects
  /\ foreign \subseteq ceph
  /\ events \in 0..MaxEvents

Init ==
  /\ cluster = "held"
  /\ protected = {"secret", "configmap"}
  /\ healthy = TRUE
  /\ cleanup \in BOOLEAN
  /\ \E S \in Scenarios :
       cr = [o \in Objects |-> IF o \in S THEN "unborn" ELSE "none"]
  /\ ready = {}
  /\ lag = {}
  /\ task = [o \in Objects |-> "idle"]
  /\ clusterTask = "idle"
  /\ ceph = {}
  /\ data = {}
  /\ checkers = {}
  /\ noted = {}
  /\ foreign = {}
  /\ events = 0

-----------------------------------------------------------------------------
(* The steps every controller takes.                                        *)

\* IsReadyToReconcile: a CephCluster that is being deleted with a
\* destructive cleanup policy counts as gone.
ClusterExists == cluster # "gone" /\ ~(cleanup /\ cluster = "going")
IsReadyToReconcile == ClusterExists /\ healthy

WorkerFree(o) == \A p \in SameKind[o] : task[p] = "idle"
Goto(o, t) == task' = [task EXCEPT ![o] = t]

Event == events < MaxEvents /\ events' = events + 1
\* A failing call whose error the code takes for an answer.
Overlooked(calls) ==
  IF calls \intersect Failing # {} /\ events < MaxEvents
    THEN {events + 1} ELSE {}

\* Stop the checker of a resource; a no-op when none runs.
Unmonitored(r) == {c \in checkers : c[1] # r}

\* The first reconcile of a CR sets the finalizer and returns.
AddFinalizerIfNotPresent(o) ==
  /\ WorkerFree(o)
  /\ Kind[o] \notin Unfinalized
  /\ cr[o] = "new"
  /\ cr' = [cr EXCEPT ![o] = "held"]
  /\ UNCHANGED <<cluster, protected, healthy, cleanup, ready, lag, task,
                 clusterTask, ceph, data, checkers, events, notes>>

ReleaseWithoutCluster_NotReady(o) ==
  /\ WorkerFree(o)
  /\ cr[o] = "going"
  /\ ~IsReadyToReconcile
  /\ Goto(o, "release")
  /\ checkers' = Unmonitored(Backing[o])
  /\ UNCHANGED <<cluster, protected, healthy, cleanup, cr, ready, lag,
                 clusterTask, ceph, data, notes, events>>

\* The CR is being deleted and there is no CephCluster (any more), or the list
\* of CephClusters cannot be read: nothing is deleted in Ceph, the checker
\* stops and the finalizer goes.
ReleaseWithoutCluster(o) ==
  /\ WorkerFree(o)
  /\ cr[o] = "going"
  /\ events' \in IF ClusterExists THEN Overlooked({"cluster list"})
                                   ELSE {events}
  /\ Goto(o, "release")
  /\ checkers' = Unmonitored(Backing[o])
  /\ UNCHANGED <<cluster, protected, healthy, cleanup, cr, ready, lag,
                 clusterTask, ceph, data, notes>>

RemoveFinalizer(o) ==
  /\ task[o] = "release"
  /\ Goto(o, "idle")
  /\ cr' = [cr EXCEPT ![o] = "gone"]
  /\ ready' = ready \ {o}
  /\ lag' = IF Kind[o] \in {"rns", "svg"} THEN lag \union {o} ELSE lag
  /\ UNCHANGED <<cluster, protected, healthy, cleanup, clusterTask, ceph, data,
                 checkers, events, notes>>

\* A reconcile may go on to Ceph: the gate is open and the worker free.
MayStart(o) == WorkerFree(o) /\ IsReadyToReconcile
StartDelete(o, k) == Kind[o] = k /\ cr[o] = "going" /\ MayStart(o)
StartCreate(o, k) ==
  /\ Kind[o] = k
  /\ cr[o] = IF k \in Unfinalized THEN "new" ELSE "held"
  /\ \/ o \notin ready
     \/ o \in Mirrored /\ Unmonitored(Backing[o]) = checkers
  /\ MayStart(o)

\* The rest of a reconcile that creates, up to its calls in Ceph.
BeginCreate(o) ==
  /\ Goto(o, "create")
  /\ UNCHANGED <<cluster, protected, healthy, cleanup, cr, ready, lag,
                 clusterTask, ceph, data, checkers, notes, events>>

CreateInCeph_SwapsChecker(o) ==
  /\ task[o] = "create"
  /\ Goto(o, "idle")
  /\ ceph' = ceph \union {Backing[o]}
  /\ ready' = ready \union {o}
  /\ checkers' = checkers \union
                   (IF o \in Mirrored THEN {<<o, Backing[o]>>} ELSE {})
  /\ UNCHANGED <<cluster, protected, healthy, cleanup, cr, lag, clusterTask,
                 data, notes, events>>

\* The calls succeed: what they act in is there.  Deployments of gateways are
\* created whatever has become of the pool; an account must not exist.
Creatable(o) ==
  /\ Provider[o] # NoObject /\ Kind[o] # "nvmeof" =>
       Backing[Provider[o]] \in ceph
  /\ Kind[o] = "topic" => Alive(Provider[o])
  /\ Kind[o] = "account" => Backing[o] \notin ceph
Created(o) ==
  ceph \union {Backing[o]} \union (IF Kind[o] = "zone" THEN {Pools[o]} ELSE {})

\* The mirror checker starts, unless one runs for the resource.
Monitored(o) ==
  IF o \in Mirrored /\ Unmonitored(Backing[o]) = checkers
    THEN checkers \union {<<Backing[o], o>>} ELSE checkers

\* The call in Ceph.  It is idempotent but for an account.  A zone comes with
\* its pools.  Then the status becomes Ready and mirroring is monitored; when
\* the call fails, the status says so.
CreateInCeph(o) ==
  /\ task[o] = "create"
  /\ Goto(o, "idle")
  /\ IF Creatable(o)
       THEN /\ ceph' = Created(o)
            /\ ready' = IF Alive(o) THEN ready \union {o} ELSE ready
            /\ checkers' = Monitored(o)
       ELSE /\ ready' = ready \ {o}
            /\ UNCHANGED <<ceph, checkers>>
  /\ UNCHANGED <<cluster, protected, healthy, cleanup, cr, lag, clusterTask,
                 data, notes, events>>

-----------------------------------------------------------------------------
(* The user, the API server and the faults.                                 *)

\* Users create a resource after the one it lies in, and nothing in a cluster
\* or in a resource that is being deleted.
UserCreate(o) ==
  /\ cr[o] = "unborn"
  /\ cluster = "held"
  /\ Provider[o] # NoObject => cr[Provider[o]] \in {"new", "held"}
  /\ cr' = [cr EXCEPT ![o] = "new"]
  /\ UNCHANGED <<cluster, protected, healthy, cleanup, ready, lag, task,
                 clusterTask, ceph, data, checkers, events, notes>>

\* Without a finalizer the CR is removed at once.
UserDelete(o) ==
  /\ cr[o] \in {"new", "held"}
  /\ cr' = [cr EXCEPT ![o] = IF @ = "new" THEN "gone" ELSE "going"]
  /\ ready' = IF cr[o] = "new" THEN ready \ {o} ELSE ready
  /\ UNCHANGED <<cluster, protected, healthy, cleanup, lag, task, clusterTask,
                 ceph, data, checkers, events, notes>>

UserDeleteCluster ==
  /\ cluster = "held"
  /\ cluster' = "going"
  /\ UNCHANGED <<protected, healthy, cleanup, cr, ready, lag, task,
                 clusterTask, ceph, data, checkers, events, notes>>

\* Applications store data in what is ready for use.
WriteData(o) ==
  /\ Kind[o] \in DataKinds
  /\ cluster = "held"
  /\ o \in ready
  /\ cr[o] = "held"
  /\ Pools[o] \in ceph \ data
  /\ data' = data \union {Pools[o]}
  /\ UNCHANGED <<cluster, protected, healthy, cleanup, cr, ready, lag, task,
                 clusterTask, ceph, checkers, events, notes>>

\* The user removes data, or agreed to its removal with the force-deletion
\* annotation: then the cleanup job that a blocked deletion starts does it.
RemoveData(r) ==
  /\ r \in data
  /\ data' = data \ {r}
  /\ UNCHANGED <<cluster, protected, healthy, cleanup, cr, ready, lag, task,
                 clusterTask, ceph, checkers, events, notes>>

CacheSync(o) ==
  /\ o \in lag
  /\ lag' = lag \ {o}
  /\ UNCHANGED <<cluster, protected, healthy, cleanup, cr, ready, task,
                 clusterTask, ceph, data, checkers, events, notes>>

\* A failed reconcile is written to the status: of users, accounts and topics,
\* which lose their ARN with it, always; of NFS servers and gateways never; of
\* the others when it was to create.
FailureShows(o) ==
  \/ Kind[o] \in {"user", "account", "topic"}
  \/ Kind[o] \notin {"nfs", "nvmeof"} /\ task[o] = "create"

\* A call fails and the reconcile returns its error: it is queued again.  A
\* creation may fail before or after it created in Ceph.
ReconcileFails(o) ==
  /\ Event
  /\ task[o] # "idle"
  /\ Goto(o, "idle")
  /\ \/ ceph' = ceph
     \/ task[o] = "create" /\ Creatable(o) /\ ceph' = Created(o)
  /\ ready' = IF FailureShows(o) THEN ready \ {o} ELSE ready
  /\ UNCHANGED <<cluster, protected, healthy, cleanup, cr, lag, clusterTask,
                 data, checkers, notes>>

HealthLost ==
  /\ Event
  /\ healthy
  /\ healthy' = FALSE
  /\ UNCHANGED <<cluster, protected, cleanup, cr, ready, lag, task,
                 clusterTask, ceph, data, checkers, notes>>
HealthRestored ==
  /\ ~healthy
  /\ healthy' = TRUE
  /\ UNCHANGED <<cluster, protected, cleanup, cr, ready, lag, task,
                 clusterTask, ceph, data, checkers, events, notes>>

\* The operator restarts: reconciles and checkers end, the cache is fresh.
OperatorRestart ==
  /\ Event
  /\ task' = [o \in Objects |-> "idle"]
  /\ clusterTask' = "idle"
  /\ checkers' = {}
  /\ lag' = {}
  /\ UNCHANGED <<cluster, protected, healthy, cleanup, cr, ready, ceph, data,
                 notes>>
=============================================================================
