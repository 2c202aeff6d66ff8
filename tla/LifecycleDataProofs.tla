------------------------- MODULE LifecycleDataProofs -------------------------
(***************************************************************************)
(* No data is lost, and what a resource lies in outlives it, for any       *)
(* number of resources, failures and restarts.  The inductive invariants   *)
(* say what the dependents checks have seen and that it stays so until the *)
(* deletion in Ceph; the steps are those that Steps of LifecycleProofs     *)
(* lists.                                                                  *)
(***************************************************************************)
EXTENDS LifecycleProofs

USE DEF Fixed, Unfinalized, notes, Goto

-----------------------------------------------------------------------------
(* The inductive invariant.                                                 *)

\* What a resource lies in is created before it.
Ancestors ==
  \A o \in Objects :
    Provider[o] # NoObject /\ cr[o] \notin {"none", "unborn"} =>
      cr[Provider[o]] \notin {"none", "unborn"}

\* The CRs whose resources in a pool, a filesystem or a zone hold data.
Tenants(o) == {c \in Clients[o] : Kind[c] \notin {"nfs", "nvmeof"}}

\* While a pool, a filesystem or a zone is deleted, no CR that has data in it is
\* left; the namespaces of the pool are gone.
Childless ==
  \A o \in Objects :
    task[o] \in {"destroy", "zone"} /\ Kind[o] \in {"pool", "fs", "zone"} =>
      \A c \in Tenants(o) :
        /\ ~Alive(c)
        /\ Kind[o] = "pool" => task[c] = "idle" /\ Backing[c] \notin ceph

\* While a filesystem or a store is deleted, there is no data in it.
Empty ==
  \A o \in Objects :
    task[o] \in {"destroy", "zone"} /\ Kind[o] \in {"fs", "store"} =>
      ({Backing[o]} \union Inside(o)) \intersect data = {}

\* Subvolume groups exist in filesystems that exist.
Nested ==
  \A c \in Objects :
    Kind[c] = "svg" /\ Backing[c] \in ceph => Backing[Provider[c]] \in ceph

\* A zone has pools only after its CR got the finalizer.
Fresh ==
  \A z \in Objects :
    Kind[z] = "zone" /\ cr[z] \in {"none", "unborn", "new"} =>
      task[z] = "idle" /\ Pools[z] \notin ceph \union data

\* The zone group and the realm of a zone are there.
RealmAlive(z) == Alive(Provider[z]) /\ Alive(Provider[Provider[z]])

\* Nothing is released because the cluster is being deleted.
Reconciling == cleanup => cluster = "held"

\* With its zone group there, a zone that has pools is not deleted before its
\* stores.
ZoneKept ==
  Reconciling =>
    \A z \in Objects :
      /\ Kind[z] = "zone" /\ Alive(Provider[z])
      /\ DependentsOf(z) # {} /\ Pools[z] \in ceph
      => Alive(z) /\ task[z] \notin {"destroy", "zone", "release"}

\* With zone group and realm there, the data of a zone is held by the CR of a
\* store whose deletion has not been decided.
ZoneData ==
  Reconciling =>
    \A z \in Objects :
      Kind[z] = "zone" /\ RealmAlive(z) /\ Pools[z] \in data =>
        \E p \in Clients[z] :
          /\ cr[p] \in {"held", "going"}
          /\ task[p] \notin {"destroy", "zone", "release"}

\* The pools of a zone are deleted without data, or without its realm.
ZoneEmpty ==
  \A z \in Objects :
    Kind[z] = "zone" /\ task[z] = "destroy" /\ RealmAlive(z) => Pools[z] \notin data

\* Data was stored through a CR, and is lost only with the realm of a zone.
Stored ==
  \A r \in data :
    /\ \E p \in Objects :
         Kind[p] \in DataKinds /\ cr[p] \notin {"none", "unborn"} /\ Pools[p] = r
    /\ r \notin ceph =>
         \E z \in Objects : Kind[z] = "zone" /\ Pools[z] = r /\ ~RealmAlive(z)

DataInv ==
  /\ Going /\ Ancestors /\ Childless /\ Empty /\ Nested /\ Fresh
  /\ ZoneKept /\ ZoneData /\ ZoneEmpty /\ Stored

\* The calls whose failure the controllers take for an answer do not fail.
Heard ==
  Failing \intersect {"cluster list", "fs get", "pool ls", "admin ops", "mon secret"} = {}

\* No two CRs name one RADOS namespace.
OwnNamespaces == \A o \in Objects : Kind[o] = "rns" => o \in Unshared

-----------------------------------------------------------------------------
(* Names.                                                                   *)

\* Data in a filesystem or in a store is stored through its CR, or through the
\* CR of a group in it.
LEMMA DataNames ==
  ASSUME NEW o \in Objects, Kind[o] \in {"fs", "store"},
         NEW p \in Objects, Kind[p] \in DataKinds,
         Pools[p] \in {Backing[o]} \union Inside(o)
  PROVE  \/ p = o /\ Pools[o] = Backing[o]
         \/ Kind[o] = "fs" /\ p \in Clients[o]
  <1>1. Pools[p] = Backing[p]
    <2>1. CASE Kind[p] = "store" /\ Provider[p] # NoObject
      <3>1. Provider[p] \in Objects /\ Kind[Provider[p]] = "zone"
        BY <2>1, ProviderAssumption DEF Lies
      <3>2. Pools[p] = Pools[Provider[p]]
        BY <2>1, NamesAssumption
      <3>3. \A q \in Objects : Pools[Provider[p]] # Backing[q]
        BY <3>1, NamesAssumption
      <3> QED
        BY <3>2, <3>3 DEF Inside, Clients
    <2> QED
      BY <2>1, NamesAssumption DEF DataKinds
  <1>2. CASE Backing[p] = Backing[o]
    BY <1>1, <1>2, NamesAssumption
  <1>3. ASSUME NEW c \in Objects, Provider[c] = o, Backing[p] = Backing[c]
        PROVE  Kind[o] = "fs" /\ p \in Clients[o]
    <2>1. <<Kind[c], Kind[o]>> \in Lies
      BY <1>3, ProviderAssumption
    <2>2. p = c \/ (Kind[p] = Kind[c] /\ Provider[p] = Provider[c])
      BY <1>3, NamesAssumption
    <2> QED
      BY <2>1, <2>2, <1>3 DEF Lies, Clients, DataKinds
  <1> QED
    BY <1>1, <1>2, <1>3 DEF Inside, Clients

\* The zone group and the realm of a zone are resources, and its clients are
\* stores.
LEMMA ZoneProviders ==
  ASSUME NEW z \in Objects, Kind[z] = "zone"
  PROVE  /\ Provider[z] \in Objects /\ Provider[z] # NoObject
         /\ Provider[Provider[z]] \in Objects /\ Provider[Provider[z]] # NoObject
         /\ \A p \in Clients[z] : p \in Objects /\ Kind[p] = "store" /\ Provider[p] = z
                                  /\ Pools[p] = Pools[z] /\ z # NoObject
  <1>1. Provider[z] \in Objects /\ Kind[Provider[z]] = "zonegroup"
    BY ProviderAssumption DEF Lies
  <1>2. Provider[Provider[z]] \in Objects
    BY <1>1, ProviderAssumption DEF Lies
  <1>3. ASSUME NEW p \in Clients[z]
        PROVE  p \in Objects /\ Kind[p] = "store" /\ Provider[p] = z
    <2>1. p \in Objects /\ Provider[p] = z /\ z # NoObject
      BY ProviderAssumption DEF Clients
    <2> QED
      BY <2>1, ProviderAssumption DEF Lies
  <1> QED
    BY <1>1, <1>2, <1>3, ProviderAssumption, NamesAssumption

\* Data in the pools of a zone is stored through a store in the zone.
LEMMA ZoneNames ==
  ASSUME NEW z \in Objects, Kind[z] = "zone",
         NEW p \in Objects, Kind[p] \in DataKinds, Pools[p] = Pools[z]
  PROVE  p \in Clients[z]
  <1>1. Kind[p] = "store" /\ Provider[p] # NoObject
    BY NamesAssumption DEF DataKinds
  <1>2. Provider[p] \in Objects /\ Kind[Provider[p]] = "zone"
    BY <1>1, ProviderAssumption DEF Lies
  <1>3. Pools[Provider[p]] = Pools[z]
    BY <1>1, NamesAssumption
  <1> QED
    BY <1>2, <1>3, NamesAssumption DEF Clients

\* What stands for a resource of another kind holds no data.
LEMMA NoData ==
  ASSUME NEW o \in Objects, Kind[o] \notin DataKinds,
         NEW p \in Objects, Kind[p] \in DataKinds
  PROVE  Pools[p] # Backing[o]
  <1>1. CASE Kind[p] = "store" /\ Provider[p] # NoObject
    <2>1. Provider[p] \in Objects /\ Kind[Provider[p]] = "zone"
      BY <1>1, ProviderAssumption DEF Lies
    <2>2. Pools[p] = Pools[Provider[p]]
      BY <1>1, NamesAssumption
    <2>3. Pools[Provider[p]] # Backing[o]
      BY <2>1, NamesAssumption
    <2> QED
      BY <2>2, <2>3
  <1>2. CASE ~(Kind[p] = "store" /\ Provider[p] # NoObject)
    <2>1. Pools[p] = Backing[p]
      BY <1>2, NamesAssumption DEF DataKinds
    <2>2. Backing[p] = Backing[o] => Kind[p] = Kind[o]
      BY NamesAssumption, Zenon
    <2> QED
      BY <2>1, <2>2
  <1> QED
    BY <1>1, <1>2

-----------------------------------------------------------------------------
(* Every step keeps the invariant.                                          *)

\* Once the deletion of the CephCluster has looked for volumes, there are none.
VolumesInv == clusterTask # "idle" => Volumes \intersect data = {}

\* Every step keeps VolumesInv: nothing is written to a cluster that is being
\* deleted.
LEMMA VolumesInvStep ==
  ASSUME ClusterInv, VolumesInv, [Next]_vars, Types, Heard
  PROVE  VolumesInv'
  <1> USE DEF VolumesInv
  <1>1. ASSUME NEW o \in Objects, ControllerStep(o)
        PROVE  clusterTask' = clusterTask /\ data' = data
    BY <1>1, ControllerCases, Zenon DEF AddFinalizerIfNotPresent, ReleaseWithoutCluster,
         RemoveFinalizer, Begins, Accounts, CreateInCeph, Decides, Destroys
  <1>2. CASE DeleteClusterStart
    BY <1>2, Zenon DEF DeleteClusterStart, Overlooked, Heard
  <1>3. CASE RemoveFinalizers
    <2>1. data' = data \/ data' = data \intersect Volumes
      BY <1>3, Zenon DEF RemoveFinalizers, CleanUp
    <2>2. clusterTask # "idle"
      BY <1>3, Zenon DEF RemoveFinalizers
    <2> QED
      BY <2>1, <2>2
  <1>4. ASSUME NEW o \in Objects, UserCreate(o) \/ UserDelete(o) \/ WriteData(o)
        PROVE  VolumesInv'
    <2>1. CASE WriteData(o)
      BY <2>1, Zenon DEF WriteData, ClusterInv
    <2> QED
      BY <2>1, <1>4, Zenon DEF UserCreate, UserDelete
  <1>5. CASE UserDeleteCluster \/ \E r \in data : RemoveData(r)
    BY <1>5, Zenon DEF UserDeleteCluster, RemoveData
  <1>6. CASE FaultStep \/ HealthRestored \/ UNCHANGED vars
    BY <1>6, Zenon DEF FaultStep, ReconcileFails, CacheSync, OtherAccount, Same, HealthLost,
         OperatorRestart, ClusterReconcileFails, HealthRestored, vars
  <1> QED
    BY <1>1, <1>2, <1>3, <1>4, <1>5, <1>6, Zenon DEF Next, Present, ClusterStep, UserStep

\* A deletion is decided only while the cluster is kept.
LEMMA DecidesReconciling ==
  ASSUME Types, NEW o \in Objects, Decides(o)
  PROVE  Reconciling
  BY Zenon DEF Types, Decides, IsReadyToReconcile, ClusterExists, Reconciling

\* Once the cluster is being deleted with a cleanup policy, it remains so.
LEMMA ReconcilingBefore ==
  ASSUME Steps, Reconciling'
  PROVE  Reconciling
  <1>1. cleanup' = cleanup /\ (cluster' = "held" => cluster = "held")
    BY DEF Steps
  <1>2. cleanup => cleanup'
    BY <1>1, Zenon
  <1> QED
    BY <1>1, <1>2 DEF Reconciling

\* While CRs of listed kinds are left and the cluster is kept, no CR is
\* released for want of a cluster.
LEMMA NotWithoutCluster ==
  ASSUME Types, ClusterInv, Heard, Reconciling,
         NEW o \in Objects, NEW p \in Objects, Alive(p), Kind[p] \notin Unlisted
  PROVE  ~ReleaseWithoutCluster(o)
  <1>1. cluster # "gone"
    BY DEF ClusterInv, ClusterDependents
  <1>2. ClusterExists
    BY <1>1 DEF Reconciling, ClusterExists
  <1> QED
    BY <1>2, Zenon DEF ReleaseWithoutCluster, Overlooked, Heard

\* A reconcile that has been released or failed, or has begun, works on.
LEMMA TaskCases ==
  ASSUME Types, Steps, NEW o \in Objects
  PROVE  /\ task[o] \in {"create", "release"} => task'[o] \in {task[o], "idle"}
         /\ task[o] # "idle" /\ task'[o] \in {"destroy", "zone"} =>
              task[o] \in {"destroy", "zone"}
         /\ task[o] = "idle" /\ task'[o] \in {"destroy", "zone"} =>
              Decides(o) /\ task'[o] = "destroy"
         /\ cr[o] \in {"none", "unborn", "new", "gone"} /\ Kind[o] \notin Unfinalized
              /\ task[o] = "idle" => task'[o] = "idle"
  <1>1. TaskStep(o)
    BY DEF Steps
  <1>2. WorkerFree(o) => task[o] = "idle"
    BY DEF WorkerFree, SameKind
  <1>3. CASE task'[o] \in {task[o], "idle"}
    BY <1>3
  <1>4. CASE Begins(o)
    BY <1>4 DEF Begins, Types
  <1>5. CASE Decides(o)
    BY <1>5, Zenon DEF Decides, Types
  <1>6. CASE ReleaseWithoutCluster(o)
    BY <1>6, <1>2, Zenon DEF ReleaseWithoutCluster, Types
  <1>7. CASE Destroys(o)
    BY <1>7 DEF Destroys, Types
  <1>8. CASE Accounts(o)
    BY <1>8 DEF Accounts, Types
  <1> QED
    BY <1>1, <1>3, <1>4, <1>5, <1>6, <1>7, <1>8 DEF TaskStep

\* Every step keeps Going.
LEMMA GoingStep ==
  ASSUME Types, Going, Steps
  PROVE  Going'
  <1> SUFFICES ASSUME NEW o \in Objects
               PROVE  /\ task'[o] \in {"destroy", "zone", "release"} => cr'[o] = "going"
                      /\ Kind[o] = "zone" /\ task'[o] = "create" => cr'[o] \in {"held", "going"}
    BY DEF Going
  <1>1. TaskStep(o) /\ CrStep(o)
    BY DEF Steps
  <1>2. CASE task'[o] \in {task[o], "idle"}
    BY <1>1, <1>2 DEF CrStep, Going
  <1>3. CASE Begins(o)
    BY <1>3 DEF Begins, Types
  <1>4. CASE Decides(o)
    BY <1>4, Zenon DEF Decides, Types
  <1>5. CASE ReleaseWithoutCluster(o)
    BY <1>5, Zenon DEF ReleaseWithoutCluster, Types
  <1>6. CASE Destroys(o)
    BY <1>6 DEF Destroys, Types, Going
  <1>7. CASE Accounts(o)
    BY <1>7 DEF Accounts, Types
  <1> QED
    BY <1>1, <1>2, <1>3, <1>4, <1>5, <1>6, <1>7 DEF TaskStep

\* Every step keeps Ancestors.
LEMMA AncestorsStep ==
  ASSUME Types, Ancestors, Steps
  PROVE  Ancestors'
  <1> SUFFICES ASSUME NEW o \in Objects, Provider[o] # NoObject,
                      cr'[o] \notin {"none", "unborn"}
               PROVE  cr'[Provider[o]] \notin {"none", "unborn"}
    BY DEF Ancestors
  <1>1. Provider[o] \in Objects
    BY ProviderAssumption, Zenon
  <1>2. CrStep(o) /\ CrStep(Provider[o])
    BY <1>1 DEF Steps
  <1>3. cr[Provider[o]] \notin {"none", "unborn"}
    BY <1>2 DEF CrStep, Ancestors
  <1> QED
    BY <1>2, <1>3 DEF CrStep

\* Every step keeps Childless.
LEMMA ChildlessStep ==
  ASSUME Types, Going, Childless, RemovalInv, Steps, Heard, OwnNamespaces
  PROVE  Childless'
  <1> SUFFICES ASSUME NEW o \in Objects, task'[o] \in {"destroy", "zone"},
                      Kind[o] \in {"pool", "fs", "zone"}, NEW c \in Tenants(o)
               PROVE  /\ ~Alive(c)'
                      /\ Kind[o] = "pool" => task'[c] = "idle" /\ Backing[c] \notin ceph'
    BY DEF Childless, Tenants, Clients
  <1>1. c \in Objects /\ Provider[c] = o /\ o # NoObject /\ c \in Clients[o]
    BY ProviderAssumption DEF Tenants, Clients
  <1>2. CrStep(c) /\ CephStep
    BY <1>1 DEF Steps
  <1>3. Kind[o] = "pool" => c \in Thorough
    <2>1. <<Kind[c], Kind[o]>> \in Lies
      BY <1>1, ProviderAssumption
    <2> QED
      BY <2>1, <1>1 DEF Lies, OwnNamespaces, Thorough, Tenants
  <1>4. CASE task[o] \in {"destroy", "zone"}
    <2>1. ~Alive(c) /\ (Kind[o] = "pool" => task[c] = "idle" /\ Backing[c] \notin ceph)
      BY <1>4 DEF Childless
    <2>2. cr[o] = "going"
      BY <1>4 DEF Going
    <2>3. ~Alive(c)'
      BY <2>1, <2>2, <1>1, <1>2 DEF CrStep, Alive
    <2>4. ASSUME Kind[o] = "pool"
          PROVE  task'[c] = "idle"
      <3>1. cr[c] \in {"none", "unborn", "gone"} /\ Kind[c] \notin Unfinalized
        BY <2>1, <2>4, <1>1, <1>3 DEF Types, Alive, Thorough
      <3> QED
        BY <3>1, <2>1, <2>4, <1>1, TaskCases
    <2>5. ASSUME Kind[o] = "pool"
          PROVE  Backing[c] \notin ceph'
      <3>1. ASSUME NEW p \in Objects, Creates(p)
            PROVE  Backing[c] \notin ceph'
        <4>1. CASE p = c
          BY <4>1, <3>1, <2>1, <2>5, <1>3 DEF Creates, Thorough
        <4>2. CASE p # c
          BY <4>2, <3>1, <2>1, <2>5, <1>3, CreatedElsewhere DEF Creates, Created
        <4> QED
          BY <4>1, <4>2
      <3>2. ASSUME NEW p \in Objects, Destroys(p)
            PROVE  Backing[c] \notin ceph'
        BY <3>2, <2>1, <2>5 DEF Destroys
      <3> QED
        BY <3>1, <3>2, <2>1, <2>5, <1>2 DEF CephStep, Wipes
    <2> QED
      BY <2>3, <2>4, <2>5
  <1>5. CASE task[o] \notin {"destroy", "zone"}
    <2>1. Decides(o) /\ task'[o] = "destroy"
      BY <1>5, TaskCases
    <2>2. /\ DependentsOf(o) = {} \/ (Kind[o] = "pool" /\ \A n \in DependentsOf(o) : Kind[n] # "rns")
          /\ UNCHANGED <<cr, ceph>> /\ (c # o => task'[c] = task[c])
      BY <2>1, <1>1, Zenon DEF Decides, Heard, FilesystemDependents, Types
    <2>7. Kind[o] = "pool" => Kind[c] = "rns"
      <3>1. <<Kind[c], Kind[o]>> \in Lies
        BY <1>1, ProviderAssumption
      <3> QED
        BY <3>1 DEF Lies, Tenants
    <2>3. ~Alive(c)
      BY <2>2, <2>7, <1>1 DEF DependentsOf
    <2>4. c # o
      BY <2>1, <2>3, Zenon DEF Decides, Alive
    <2>5. Reconciling
      BY <2>1, DecidesReconciling
    <2>6. Kind[o] = "pool" => task[c] = "idle" /\ Backing[c] \notin ceph
      BY <2>3, <2>5, <1>1, <1>3 DEF RemovalInv, Reconciling, Alive, Types
    <2> QED
      BY <2>2, <2>3, <2>4, <2>6 DEF Alive
  <1> QED
    BY <1>4, <1>5

\* Every step keeps Empty: what is deleted is written to no more, and the
\* dependents checks have seen what is in it.
LEMMA EmptyStep ==
  ASSUME Types, Going, Childless, Empty, Nested, Stored, Steps, Heard
  PROVE  Empty'
  <1> SUFFICES ASSUME NEW o \in Objects, task'[o] \in {"destroy", "zone"},
                      Kind[o] \in {"fs", "store"},
                      NEW r \in {Backing[o]} \union Inside(o), r \in data'
               PROVE  FALSE
    BY DEF Empty, Inside, Clients
  <1>1. CASE task[o] \in {"destroy", "zone"}
    <2>1. r \notin data
      BY <1>1 DEF Empty
    <2>2. PICK p \in Objects : WriteData(p)
      BY <2>1 DEF Steps, DataStep
    <2>3. Pools[p] = r /\ cr[p] = "held" /\ Kind[p] \in DataKinds
      BY <2>1, <2>2 DEF WriteData
    <2>4. p = o \/ (Kind[o] = "fs" /\ p \in Clients[o])
      BY <2>3, DataNames
    <2>5. cr[o] = "going"
      BY <1>1 DEF Going
    <2>6. Kind[o] = "fs" => p \notin Clients[o]
      <3>1. Alive(p)
        BY <2>3 DEF Alive
      <3> QED
        BY <3>1, <2>3, <1>1 DEF Childless, Tenants, DataKinds
    <2> QED
      BY <2>3, <2>4, <2>5, <2>6
  <1>2. CASE task[o] \notin {"destroy", "zone"}
    <2>1. Decides(o)
      BY <1>2, TaskCases
    <2>2. Kind[o] = "fs" => r \in data /\ ~FilesystemDependents(o)
      BY <2>1, Zenon DEF Decides, Heard
    <2>3. Kind[o] = "store" => r \in data /\ ~StoreDependents(o)
      BY <2>1, Zenon DEF Decides, Heard
    <2>4. r \in data
      BY <2>2, <2>3
    <2>5. PICK p \in Objects : Kind[p] \in DataKinds /\ Pools[p] = r
      BY <2>4 DEF Stored
    <2>6. \E q \in Objects : r = Backing[q]
      BY DEF Inside, Clients
    <2>7. r \in ceph
      BY <2>4, <2>6, NamesAssumption DEF Stored
    <2>8. CASE Kind[o] = "fs"
      <3>1. Backing[o] \in ceph
        <4>1. ASSUME NEW c \in Objects, Provider[c] = o, r = Backing[c]
              PROVE  Backing[o] \in ceph
          <5>1. Kind[c] = "svg"
            BY <4>1, <2>8, ProviderAssumption DEF Lies
          <5> QED
            BY <5>1, <4>1, <2>7 DEF Nested
        <4> QED
          BY <4>1, <2>7 DEF Inside, Clients
      <3> QED
        BY <3>1, <2>2, <2>4, <2>7, <2>8 DEF FilesystemDependents
    <2>9. CASE Kind[o] = "store"
      <3>1. p = o /\ Pools[o] = Backing[o]
        BY <2>5, <2>9, DataNames
      <3>2. Provider[o] = NoObject
        <4> SUFFICES ASSUME Provider[o] # NoObject
                     PROVE  FALSE
          OBVIOUS
        <4>1. Provider[o] \in Objects /\ Kind[Provider[o]] = "zone"
          BY <2>9, ProviderAssumption DEF Lies
        <4>2. Pools[o] = Pools[Provider[o]]
          BY <2>9, NamesAssumption
        <4>3. Pools[Provider[o]] # Backing[o]
          BY <4>1, NamesAssumption
        <4> QED
          BY <3>1, <4>2, <4>3
      <3>3. MultisiteContext(o)
        BY <3>2 DEF MultisiteContext, IsMultisite
      <3> QED
        BY <3>1, <3>3, <2>3, <2>4, <2>5, <2>7, <2>9 DEF StoreDependents
    <2> QED
      BY <2>8, <2>9
  <1> QED
    BY <1>1, <1>2

\* Every step keeps Nested: a filesystem goes with its groups.
LEMMA NestedStep ==
  ASSUME Types, Nested, Steps
  PROVE  Nested'
  <1> SUFFICES ASSUME NEW c \in Objects, Kind[c] = "svg", Backing[c] \in ceph'
               PROVE  Backing[Provider[c]] \in ceph'
    BY DEF Nested
  <1> DEFINE f == Provider[c]
  <1>1. f \in Objects /\ Kind[f] = "fs" /\ f # NoObject
    BY ProviderAssumption DEF Lies
  <1>2. Backing[c] \in ceph => Backing[f] \in ceph
    BY DEF Nested
  <1>3. ASSUME NEW p \in Objects, Creates(p)
        PROVE  Backing[f] \in ceph'
    <2>1. ceph \subseteq ceph'
      BY <1>3 DEF Creates, Created
    <2>2. CASE Backing[c] \notin ceph
      <3>1. Backing[c] = Backing[p]
        BY <2>2, <1>3, NamesAssumption DEF Creates, Created
      <3>2. Kind[p] = "svg" /\ Provider[p] = f
        BY <3>1, NamesAssumption
      <3> QED
        BY <3>2, <2>1, <1>1, <1>3 DEF Creates, Creatable
    <2> QED
      BY <2>1, <2>2, <1>2
  <1>4. ASSUME NEW p \in Objects, Destroys(p)
        PROVE  Backing[f] \in ceph'
    <2> SUFFICES ASSUME Backing[f] \notin ceph'
                 PROVE  FALSE
      OBVIOUS
    <2>1. Backing[f] \in ceph /\ Backing[f] \in Removed(p)
      BY <1>2, <1>4 DEF Destroys
    <2>2. Backing[f] \notin Inside(p)
      BY <1>1, NamesAssumption, ProviderAssumption DEF Inside, Clients, Lies
    <2>3. Backing[f] = Backing[p]
      BY <2>1, <2>2, <1>1, NamesAssumption DEF Removed
    <2>4. p = f
      BY <2>3, <1>1, NamesAssumption
    <2>5. ceph' = ceph \ Removed(f)
      BY <2>1, <2>4, <1>1, <1>4 DEF Destroys
    <2>6. Backing[c] \in Removed(f)
      BY <1>1 DEF Removed, Inside, Clients
    <2> QED
      BY <2>5, <2>6
  <1> QED
    BY <1>2, <1>3, <1>4 DEF Steps, CephStep, Wipes

\* Every step keeps Fresh.
LEMMA FreshStep ==
  ASSUME Types, Fresh, Steps
  PROVE  Fresh'
  <1> SUFFICES ASSUME NEW z \in Objects, Kind[z] = "zone", cr'[z] \in {"none", "unborn", "new"}
               PROVE  task'[z] = "idle" /\ Pools[z] \notin ceph' \union data'
    BY DEF Fresh
  <1>1. cr[z] \in {"none", "unborn", "new"}
    BY DEF Steps, CrStep
  <1>2. task[z] = "idle" /\ Pools[z] \notin ceph \union data
    BY <1>1 DEF Fresh
  <1>3. task'[z] = "idle"
    BY <1>1, <1>2, TaskCases
  <1>4. Pools[z] \notin ceph'
    <2>1. ASSUME NEW p \in Objects, Creates(p)
          PROVE  Pools[z] \notin ceph'
      BY <2>1, <1>2, NamesAssumption DEF Creates, Created
    <2>2. ASSUME NEW p \in Objects, Destroys(p)
          PROVE  Pools[z] \notin ceph'
      BY <2>2, <1>2 DEF Destroys
    <2> QED
      BY <2>1, <2>2, <1>2 DEF Steps, CephStep, Wipes
  <1>5. Pools[z] \notin data'
    BY <1>2 DEF Steps, DataStep, WriteData
  <1> QED
    BY <1>3, <1>4, <1>5

\* The zone group and the realm of a zone whose CR has been created do not come
\* to life any more.
LEMMA RealmBefore ==
  ASSUME Types, Ancestors, Steps, NEW z \in Objects, Kind[z] = "zone",
         cr[z] \notin {"none", "unborn"}
  PROVE  /\ Alive(Provider[z])' => Alive(Provider[z])
         /\ RealmAlive(z)' => RealmAlive(z)
  <1>1. /\ Provider[z] \in Objects /\ Provider[z] # NoObject
        /\ Provider[Provider[z]] \in Objects /\ Provider[Provider[z]] # NoObject
    BY ZoneProviders
  <1>2. cr[Provider[z]] \notin {"none", "unborn"}
    BY <1>1 DEF Ancestors
  <1>3. cr[Provider[Provider[z]]] \notin {"none", "unborn"}
    BY <1>1, <1>2 DEF Ancestors
  <1>4. CrStep(Provider[z]) /\ CrStep(Provider[Provider[z]])
    BY <1>1 DEF Steps
  <1>5. Alive(Provider[z])' => Alive(Provider[z])
    BY <1>1, <1>2, <1>4 DEF CrStep, Alive, Types
  <1>6. Alive(Provider[Provider[z]])' => Alive(Provider[Provider[z]])
    BY <1>1, <1>3, <1>4 DEF CrStep, Alive, Types
  <1> QED
    BY <1>5, <1>6 DEF RealmAlive

\* Every step keeps ZoneKept.
LEMMA ZoneKeptStep ==
  ASSUME Types, ClusterInv, Going, Ancestors, Childless, Fresh, ZoneKept, Steps, Heard
  PROVE  ZoneKept'
  <1> SUFFICES ASSUME Reconciling', NEW z \in Objects, Kind[z] = "zone",
                      Alive(Provider[z])', NEW p \in Clients[z], Alive(p)',
                      Pools[z] \in ceph'
               PROVE  Alive(z)' /\ task'[z] \notin {"destroy", "zone", "release"}
    BY DEF ZoneKept, DependentsOf, Clients
  <1>1. p \in Objects /\ Provider[p] = z /\ z # NoObject /\ Kind[p] = "store"
    BY ZoneProviders
  <1>2. CrStep(z) /\ CrStep(p) /\ TaskStep(z) /\ CephStep /\ OneCr
    BY <1>1 DEF Steps
  <1>3. CASE Pools[z] \notin ceph
    <2>1. PICK q \in Objects : Creates(q)
      BY <1>2, <1>3 DEF CephStep, Destroys, Wipes
    <2>2. q = z /\ task[z] = "create"
      BY <2>1, <1>3, NamesAssumption DEF Creates, Created
    <2>3. cr[z] \in {"held", "going"} /\ cr' = cr
      BY <2>1, <2>2 DEF Going, Creates
    <2> QED
      BY <2>2, <2>3, TaskCases DEF Alive
  <1>4. CASE Pools[z] \in ceph /\ cr[p] = "unborn"
    <2>1. cr[z] \in {"new", "held"} /\ task' = task /\ cr'[p] # cr[p]
      BY <1>1, <1>2, <1>4 DEF CrStep, Alive
    <2>2. cr'[z] = cr[z]
      <3>1. p # z
        BY <2>1, <1>4
      <3> QED
        BY <2>1, <3>1, <1>1, <1>2 DEF OneCr
    <2> QED
      BY <2>1, <2>2 DEF Going, Alive
  <1>5. CASE Pools[z] \in ceph /\ cr[p] # "unborn"
    <2>1. Alive(p)
      BY <1>1, <1>2, <1>5 DEF CrStep, Alive
    <2>2. cr[z] \notin {"none", "unborn", "new"}
      BY <1>5 DEF Fresh
    <2>3. Alive(Provider[z])
      BY <2>2, RealmBefore
    <2>4. Reconciling
      BY ReconcilingBefore
    <2>5. p \in DependentsOf(z)
      BY <2>1 DEF DependentsOf
    <2>6. Alive(z) /\ task[z] \notin {"destroy", "zone", "release"}
      BY <2>3, <2>4, <2>5, <1>5 DEF ZoneKept
    <2>7. Alive(z)'
      BY <2>2, <2>6, <1>2 DEF CrStep, Alive
    <2>8. ~ReleaseWithoutCluster(z)
      BY <2>1, <2>4, <1>1, NotWithoutCluster DEF Unlisted
    <2>9. ~Decides(z) /\ ~Destroys(z)
      BY <2>3, <2>5, <2>6 DEF Decides, Destroys, Types
    <2>10. Begins(z) => task'[z] = "create"
      BY Zenon DEF Begins, Types
    <2>11. ~Accounts(z)
      BY DEF Accounts
    <2> QED
      BY <2>6, <2>7, <2>8, <2>9, <2>10, <2>11, <1>2 DEF TaskStep
  <1> QED
    BY <1>3, <1>4, <1>5

\* Every step keeps ZoneData.
LEMMA ZoneDataStep ==
  ASSUME Types, ClusterInv, Going, Ancestors, Fresh, ZoneKept, ZoneData, Stored, Steps, Heard
  PROVE  ZoneData'
  <1> SUFFICES ASSUME Reconciling', NEW z \in Objects, Kind[z] = "zone",
                      RealmAlive(z)', Pools[z] \in data'
               PROVE  \E p \in Clients[z] :
                        /\ cr'[p] \in {"held", "going"}
                        /\ task'[p] \notin {"destroy", "zone", "release"}
    BY DEF ZoneData, Clients
  <1>1. CASE Pools[z] \notin data
    <2>1. PICK p \in Objects : WriteData(p)
      BY <1>1 DEF Steps, DataStep
    <2>2. Pools[p] = Pools[z] /\ Kind[p] \in DataKinds
      BY <2>1, <1>1 DEF WriteData
    <2>3. p \in Clients[z]
      BY <2>2, ZoneNames
    <2>4. cr[p] = "held" /\ cr' = cr /\ task' = task
      BY <2>1 DEF WriteData
    <2> QED
      BY <2>3, <2>4 DEF Going
  <1>2. CASE Pools[z] \in data
    <2>1. cr[z] \notin {"none", "unborn", "new"}
      BY <1>2 DEF Fresh
    <2>2. RealmAlive(z) /\ Reconciling
      BY <2>1, RealmBefore, ReconcilingBefore
    <2>3. PICK p \in Clients[z] : /\ cr[p] \in {"held", "going"}
                                  /\ task[p] \notin {"destroy", "zone", "release"}
      BY <2>2, <1>2 DEF ZoneData
    <2>4. /\ p \in Objects /\ Kind[p] = "store" /\ Provider[p] = z
          /\ Pools[p] = Pools[z] /\ z # NoObject
      BY ZoneProviders
    <2>5. Alive(p)
      BY <2>3 DEF Alive
    <2>6. CrStep(p) /\ TaskStep(p)
      BY <2>4 DEF Steps
    <2>7. cr'[p] \in {"held", "going"}
      BY <2>3, <2>6 DEF CrStep
    <2>8. ~ReleaseWithoutCluster(p)
      BY <2>2, <2>4, <2>5, NotWithoutCluster DEF Unlisted
    <2>9. ~Decides(p)
      <3>1. Pools[z] \in ceph
        <4>1. SUFFICES ASSUME Pools[z] \notin ceph
                       PROVE  FALSE
          OBVIOUS
        <4>2. PICK y \in Objects : Kind[y] = "zone" /\ Pools[y] = Pools[z] /\ ~RealmAlive(y)
          BY <4>1, <1>2 DEF Stored
        <4>3. y = z
          BY <4>2, NamesAssumption
        <4> QED
          BY <4>2, <4>3, <2>2
      <3>2. Alive(z)
        <4>1. p \in DependentsOf(z)
          BY <2>5 DEF DependentsOf
        <4> QED
          BY <4>1, <3>1, <2>2 DEF ZoneKept, RealmAlive
      <3>3. MultisiteContext(p)
        BY <3>2, <2>2, <2>4 DEF MultisiteContext, RealmAlive
      <3>4. StoreDependents(p)
        BY <3>1, <3>3, <2>4, <1>2 DEF StoreDependents
      <3> QED
        BY <3>4, <2>4, Zenon DEF Decides, Heard
    <2>10. ~Destroys(p)
      BY <2>3 DEF Destroys
    <2>11. Begins(p) => task'[p] = "create"
      BY <2>4 DEF Begins, Types
    <2> QED
      BY <2>3, <2>4, <2>6, <2>7, <2>8, <2>9, <2>10, <2>11 DEF TaskStep, Accounts
  <1> QED
    BY <1>1, <1>2

\* Every step keeps ZoneEmpty.
LEMMA ZoneEmptyStep ==
  ASSUME Types, Going, Ancestors, Childless, ZoneData, ZoneEmpty, Steps
  PROVE  ZoneEmpty'
  <1> SUFFICES ASSUME NEW z \in Objects, Kind[z] = "zone", task'[z] = "destroy",
                      RealmAlive(z)', Pools[z] \in data'
               PROVE  FALSE
    BY DEF ZoneEmpty
  <1>1. CASE task[z] # "idle"
    <2>1. task[z] = "destroy"
      <3>1. task[z] \in {"destroy", "zone"}
        BY <1>1, TaskCases
      <3>2. TaskStep(z)
        BY DEF Steps
      <3> QED
        BY <3>1, <3>2, Zenon DEF TaskStep, Begins, Accounts, Decides, ReleaseWithoutCluster,
                                 Destroys, Types
    <2>2. cr[z] = "going"
      BY <2>1 DEF Going
    <2>3. Pools[z] \notin data
      BY <2>1, <2>2, RealmBefore DEF ZoneEmpty
    <2>4. PICK p \in Objects : WriteData(p)
      BY <2>3 DEF Steps, DataStep
    <2>5. Pools[p] = Pools[z] /\ Kind[p] \in DataKinds /\ Alive(p)
      BY <2>3, <2>4 DEF WriteData, Alive
    <2>6. p \in Clients[z]
      BY <2>5, ZoneNames
    <2> QED
      BY <2>1, <2>5, <2>6 DEF Childless, Tenants, DataKinds
  <1>2. CASE task[z] = "idle"
    <2>1. Decides(z)
      BY <1>2, TaskCases
    <2>2. DependentsOf(z) = {} /\ UNCHANGED <<cr, data>>
      BY <2>1 DEF Decides
    <2>3. RealmAlive(z) /\ Reconciling
      BY <2>1, <2>2, DecidesReconciling DEF RealmAlive, Alive
    <2>4. \E p \in Clients[z] : cr[p] \in {"held", "going"}
      BY <2>2, <2>3 DEF ZoneData
    <2> QED
      BY <2>2, <2>4 DEF DependentsOf, Alive
  <1> QED
    BY <1>1, <1>2

\* Every step keeps Stored: no deletion removes what holds data, but for the
\* pools of a zone without its realm.
LEMMA StoredStep ==
  ASSUME Types, VolumesInv, Ancestors, Childless, Empty, ZoneEmpty, Stored, Steps
  PROVE  Stored'
  <1> SUFFICES ASSUME NEW r \in data'
               PROVE  /\ \E p \in Objects : /\ Kind[p] \in DataKinds /\ Pools[p] = r
                                            /\ cr'[p] \notin {"none", "unborn"}
                      /\ r \notin ceph' => \E z \in Objects :
                           Kind[z] = "zone" /\ Pools[z] = r /\ ~RealmAlive(z)'
    BY DEF Stored
  <1>1. CASE r \notin data
    <2>1. PICK p \in Objects : WriteData(p)
      BY <1>1 DEF Steps, DataStep
    <2> QED
      BY <2>1, <1>1 DEF WriteData
  <1>2. CASE r \in data
    <2>1. PICK p \in Objects : /\ Kind[p] \in DataKinds /\ Pools[p] = r
                               /\ cr[p] \notin {"none", "unborn"}
      BY <1>2 DEF Stored
    <2>2. cr'[p] \notin {"none", "unborn"}
      BY <2>1 DEF Steps, CrStep
    <2>3. ASSUME r \notin ceph
          PROVE  \E z \in Objects : Kind[z] = "zone" /\ Pools[z] = r /\ ~RealmAlive(z)'
      <3>1. PICK z \in Objects : Kind[z] = "zone" /\ Pools[z] = r /\ ~RealmAlive(z)
        BY <2>3, <1>2 DEF Stored
      <3>2. p \in Clients[z]
        BY <3>1, <2>1, ZoneNames
      <3>3. Provider[p] = z /\ z # NoObject
        BY <3>1, <3>2, ZoneProviders
      <3>4. cr[z] \notin {"none", "unborn"}
        BY <3>3, <2>1 DEF Ancestors
      <3> QED
        BY <3>1, <3>4, RealmBefore
    <2>4. ASSUME r \in ceph, r \notin ceph'
          PROVE  \E z \in Objects : Kind[z] = "zone" /\ Pools[z] = r /\ ~RealmAlive(z)'
      <3>0. ~Wipes
        BY <1>2 DEF Wipes, VolumesInv
      <3>1. PICK o \in Objects : Destroys(o)
        BY <2>4, <3>0 DEF Steps, CephStep, Creates, Created
      <3>2. r \in Removed(o) /\ cr' = cr /\ task[o] \in {"destroy", "zone"}
        BY <2>4, <3>1 DEF Destroys
      <3>3. CASE Kind[o] = "zone" /\ task[o] = "destroy"
        <4>1. Pools[o] = r
          BY <3>2, <3>3 DEF Removed
        <4>2. ~RealmAlive(o)
          BY <4>1, <3>3, <1>2 DEF ZoneEmpty
        <4> QED
          BY <4>1, <4>2, <3>2, <3>3 DEF RealmAlive, Alive
      <3>4. CASE Kind[o] \in {"fs", "store"}
        BY <3>2, <3>4, <1>2 DEF Empty, Removed
      <3>5. CASE Kind[o] = "pool" /\ r # Backing[o]
        <4>1. PICK c \in Clients[o] : Backing[c] = r
          BY <3>2, <3>5 DEF Removed, Inside
        <4>2. c \notin Tenants(o)
          BY <4>1, <3>2, <3>5, <2>4 DEF Childless
        <4>3. c \in Objects /\ Kind[c] \notin DataKinds
          BY <4>2 DEF Tenants, Clients, DataKinds
        <4> QED
          BY <4>1, <4>3, <2>1, NoData
      <3>6. CASE Kind[o] \in {"pool", "rns", "svg"} /\ r = Backing[o]
        BY <3>1, <3>6, <2>4, <1>2 DEF Destroys
      <3>7. CASE Kind[o] \notin DataKinds /\ r = Backing[o]
        BY <3>7, <2>1, NoData
      <3> QED
        BY <3>2, <3>3, <3>4, <3>5, <3>6, <3>7 DEF Removed, DataKinds
    <2> QED
      BY <2>1, <2>2, <2>3, <2>4
  <1> QED
    BY <1>1, <1>2

\* Every step keeps the whole invariant.
LEMMA DataInvStep ==
  ASSUME Types, ClusterInv, VolumesInv, RemovalInv, DataInv, [Next]_vars, Heard,
         OwnNamespaces
  PROVE  DataInv'
  <1> USE DEF DataInv
  <1>1. Steps
    BY NextSteps
  <1>2. Going' /\ Ancestors' /\ Childless'
    BY <1>1, GoingStep, AncestorsStep, ChildlessStep
  <1>3. Empty' /\ Nested' /\ Fresh'
    BY <1>1, EmptyStep, NestedStep, FreshStep
  <1>4. ZoneKept' /\ ZoneData'
    BY <1>1, ZoneKeptStep, ZoneDataStep
  <1>5. ZoneEmpty' /\ Stored'
    BY <1>1, ZoneEmptyStep, StoredStep
  <1> QED
    BY <1>2, <1>3, <1>4, <1>5

-----------------------------------------------------------------------------
\* If the calls that the checks for dependents and volumes rest on do not fail and no two CRs
\* name one RADOS namespace, data is never destroyed, in whatever order
\* resources and the CephCluster are created and deleted, reconciles fail and
\* the operator restarts; but for a zone whose store lost the CRs of its zone
\* group or realm.
THEOREM DataKeptTheorem ==
  ASSUME Heard, OwnNamespaces
  PROVE  Spec => []DataKept
  <1> DEFINE Inv == VolumesInv /\ RemovalInv /\ DataInv
  <1>1. Init => Inv
    <2> SUFFICES ASSUME Init
                 PROVE  Inv
      OBVIOUS
    <2> USE DEF Init
    <2>1. VolumesInv /\ RemovalInv
      BY Zenon DEF VolumesInv, RemovalInv, Thorough, Unshared
    <2>2. Going /\ Childless /\ Empty /\ Nested
      BY DEF Going, Childless, Empty, Nested
    <2>3. Ancestors /\ Fresh
      BY DEF Ancestors, Fresh
    <2>4. ZoneKept /\ ZoneData /\ ZoneEmpty /\ Stored
      BY DEF ZoneKept, ZoneData, ZoneEmpty, Stored
    <2> QED
      BY <2>1, <2>2, <2>3, <2>4 DEF DataInv
  <1>2. Types /\ ClusterInv /\ Inv /\ [Next]_vars => Inv'
    <2> SUFFICES ASSUME Types, ClusterInv, Inv, [Next]_vars
                 PROVE  Inv'
      OBVIOUS
    <2>1. "cluster list" \notin Failing
      BY Zenon DEF Heard
    <2> QED
      BY <2>1, VolumesInvStep, RemovalInvStep, DataInvStep, Zenon
  <1>3. DataInv => DataKept
    <2> SUFFICES ASSUME DataInv, NEW r \in data \ ceph
                 PROVE  \E o \in Stores : Pools[o] = r /\ IsMultisite(o) /\ ~RealmKept(o)
      BY DEF DataKept
    <2>1. PICK p \in Objects : Kind[p] \in DataKinds /\ Pools[p] = r
      BY DEF DataInv, Stored
    <2>2. PICK z \in Objects : Kind[z] = "zone" /\ Pools[z] = r /\ ~RealmAlive(z)
      BY DEF DataInv, Stored
    <2>3. p \in Clients[z]
      BY <2>1, <2>2, ZoneNames
    <2>4. Kind[p] = "store" /\ Provider[p] = z /\ z # NoObject
      BY <2>2, <2>3, ZoneProviders
    <2> QED
      BY <2>1, <2>2, <2>4 DEF Stores, IsMultisite, RealmKept, RealmAlive
  <1> QED
    BY <1>1, <1>2, <1>3, TypesInvariant, ClusterInvariant, PTL DEF Spec

-----------------------------------------------------------------------------
(* What a Ready resource lies in.                                           *)

\* A controller that sets a finalizer works only for CRs that have it, and only
\* a CR that is there is Ready.
Started ==
  \A o \in Objects :
    /\ task[o] # "idle" /\ Kind[o] \notin Unfinalized => cr[o] \in {"held", "going"}
    /\ o \in ready =>
         Alive(o) /\ (Kind[o] \notin Unfinalized => cr[o] \in {"held", "going"})
    /\ Kind[o] = "store" /\ cr[o] \in {"none", "unborn", "new"} => Backing[o] \notin ceph

\* While a CR lies in a pool, a filesystem or a zone that has its zone group,
\* no deletion of that has been decided, and the CR of what a Ready one lies in
\* is there.
Unending(p) == task[p] \notin {"destroy", "zone", "release"}
Attended ==
  ClusterExists =>
    \A o \in Objects :
      /\ Kind[o] \in {"rns", "svg"} \/ (Kind[o] = "store" /\ IsMultisite(o)
                                        /\ Alive(Provider[Provider[o]]))
      /\ Alive(o)
      => /\ Unending(Provider[o])
         /\ o \in ready \/ task[o] = "create" => cr[Provider[o]] \in {"held", "going"}

\* The pools of a Ready zone exist as long as stores lie in it, and those of a
\* store in a zone as long as the store has anything in Ceph.
PoolsKept ==
  ClusterExists =>
    \A o \in Objects :
      /\ /\ Kind[o] = "zone" /\ o \in ready
         /\ cr[o] = "held" \/ DependentsOf(o) # {}
         => Pools[o] \in ceph
      /\ /\ Kind[o] = "store" /\ IsMultisite(o) /\ Alive(o)
         /\ task[o] = "create" \/ Backing[o] \in ceph
         => Pools[o] \in ceph

\* While a user lies in a store that exists in Ceph and has its multisite CRs,
\* no deletion of the store has been decided; the store of a Ready user exists.
UsersKept ==
  ClusterExists =>
    \A o \in Objects :
      Kind[o] = "user" /\ Alive(o) /\ MultisiteContext(Provider[o]) =>
        /\ Backing[Provider[o]] \in ceph =>
             Unending(Provider[o]) /\ cr[Provider[o]] \in {"held", "going"}
        /\ o \in ready => Backing[Provider[o]] \in ceph

\* Zones are deleted without a store CR in them.
StoresGone ==
  \A z \in Objects :
    Kind[z] = "zone" /\ task[z] \in {"destroy", "zone"} => DependentsOf(z) = {}

ProviderInv == Started /\ StoresGone /\ Attended /\ PoolsKept /\ UsersKept

-----------------------------------------------------------------------------
(* Every step keeps it.                                                     *)

\* A resource becomes Ready when it is created in Ceph for a CR that is there,
\* and is not Ready any more when the CR is gone.
Readies(o) ==
  /\ task[o] = "create" /\ Alive(o) /\ Creatable(o)
  /\ ceph' = Created(o) /\ UNCHANGED <<cr, data>>
ReadyStep(o) ==
  o \in ready' => /\ o \in ready \/ Readies(o) \/ (Accounts(o) /\ task[o] = "modify")
                  /\ cr'[o] = "gone" => cr[o] = "gone"

\* Every step is of this form for every resource.
LEMMA ReadySteps ==
  ASSUME Types, [Next]_vars
  PROVE  \A o \in Objects : ReadyStep(o)
  <1> USE DEF Types, ReadyStep
  <1>1. ASSUME NEW p \in Objects, ControllerStep(p)
        PROVE  \A o \in Objects : ReadyStep(o)
    <2>1. CASE AddFinalizerIfNotPresent(p) \/ RemoveFinalizer(p)
      BY <2>1 DEF AddFinalizerIfNotPresent, RemoveFinalizer
    <2>2. CASE ReleaseWithoutCluster(p) \/ Decides(p)
      BY <2>2, Zenon DEF ReleaseWithoutCluster, Decides
    <2>3. CASE Begins(p) \/ Destroys(p)
      BY <2>3, Zenon DEF Begins, Destroys
    <2>4. CASE CreateInCeph(p)
      BY <2>4, Zenon DEF CreateInCeph, Readies
    <2>5. CASE Accounts(p)
      BY <2>5, Zenon DEF Accounts
    <2> QED
      BY <1>1, <2>1, <2>2, <2>3, <2>4, <2>5, ControllerCases, Zenon
  <1>2. CASE ClusterStep \/ ClusterReconcileFails
    BY <1>2, Zenon DEF ClusterStep, ClusterReconcileFails, DeleteClusterStart, RemoveFinalizers, Kept
  <1>3. CASE UserStep
    <2>1. ASSUME NEW p \in Objects, UserCreate(p) \/ UserDelete(p) \/ WriteData(p)
          PROVE  \A o \in Objects : ReadyStep(o)
      BY <2>1 DEF UserCreate, UserDelete, WriteData
    <2>2. CASE UserDeleteCluster \/ \E r \in data : RemoveData(r)
      BY <2>2, Zenon DEF UserDeleteCluster, RemoveData
    <2> QED
      BY <1>3, <2>1, <2>2, Zenon DEF UserStep, Present
  <1>4. ASSUME NEW p \in Objects, ReconcileFails(p) \/ CacheSync(p) \/ OtherAccount(p)
        PROVE  \A o \in Objects : ReadyStep(o)
    BY <1>4, Zenon DEF ReconcileFails, CacheSync, OtherAccount, Same
  <1>5. CASE HealthLost \/ HealthRestored \/ OperatorRestart \/ UNCHANGED vars
    BY <1>5, Zenon DEF HealthLost, HealthRestored, OperatorRestart, vars
  <1> QED
    BY <1>1, <1>2, <1>3, <1>4, <1>5, Zenon DEF Next, FaultStep, Present

\* The steps of the account controller are for accounts.
LEMMA NotAccount ==
  ASSUME NEW o \in Objects, Kind[o] \in {"rns", "svg", "user", "store", "pool", "fs", "zone"}
  PROVE  ~Accounts(o)
  BY Zenon DEF Accounts

\* A cluster that counts as existing did so before, and was not wiped.
LEMMA ClusterBefore ==
  ASSUME Types, Types', Steps, ClusterExists'
  PROVE  ClusterExists /\ ~Wipes
  <1>1. /\ cleanup' = cleanup /\ (cluster' = "held" => cluster = "held")
        /\ (cluster = "gone" => cluster' = "gone")
    BY Zenon DEF Steps
  <1>2. cluster' # "gone" /\ ~(cleanup /\ cluster' = "going")
    BY <1>1, Zenon DEF ClusterExists
  <1>3. cluster \in {"held", "going", "gone"} /\ cluster # "gone"
    BY <1>1, <1>2, Zenon DEF Types
  <1>4. cluster = "going" => cluster' # "held"
    BY <1>1
  <1>5. ClusterExists
    BY <1>2, <1>3, <1>4, Zenon DEF ClusterExists, Types
  <1> QED
    BY <1>2, <1>5, Zenon DEF Wipes

\* With a cluster whose list can be read, no CR is released for want of one.
LEMMA NoRelease ==
  ASSUME Heard, ClusterExists, NEW o \in Objects
  PROVE  ~ReleaseWithoutCluster(o)
  BY Zenon DEF ReleaseWithoutCluster, Overlooked, Heard

\* A store is created in Ceph by its own reconcile, and removed by it.
LEMMA StoreInCeph ==
  ASSUME Steps, NEW s \in Objects, Kind[s] = "store", ~Wipes
  PROVE  /\ Backing[s] \notin ceph /\ Backing[s] \in ceph' => task[s] = "create" /\ Creates(s)
         /\ Backing[s] \in ceph /\ Backing[s] \notin ceph' => Destroys(s)
  <1>1. CephStep
    BY Zenon DEF Steps
  <1>2. ASSUME NEW p \in Objects, Creates(p)
        PROVE  /\ ceph \subseteq ceph'
               /\ Backing[s] \notin ceph /\ Backing[s] \in ceph' => p = s /\ task[s] = "create"
    BY <1>2, NamesAssumption DEF Creates, Created
  <1>3. ASSUME NEW p \in Objects, Destroys(p), Backing[s] \notin ceph', Backing[s] \in ceph
        PROVE  p = s
    <2>1. Backing[s] \in Removed(p)
      BY <1>3, Zenon DEF Destroys
    <2>2. Kind[p] \in {"pool", "fs", "store"} => Backing[s] \notin Inside(p)
      BY ProviderAssumption, NamesAssumption DEF Inside, Clients, Lies
    <2> QED
      BY <2>1, <2>2, NamesAssumption DEF Removed
  <1>4. ASSUME NEW p \in Objects, Destroys(p)
        PROVE  ceph' \subseteq ceph
    BY <1>4, Zenon DEF Destroys
  <1> QED
    BY <1>1, <1>2, <1>3, <1>4, Zenon DEF CephStep

\* The pools of a zone are removed by the deletion of the zone only.
LEMMA PoolsInCeph ==
  ASSUME Steps, NEW z \in Objects, Kind[z] = "zone", ~Wipes,
         Pools[z] \in ceph, Pools[z] \notin ceph'
  PROVE  task[z] = "destroy" /\ Destroys(z)
  <1>1. CephStep
    BY Zenon DEF Steps
  <1>2. ASSUME NEW p \in Objects
        PROVE  ~Creates(p)
    BY <1>2 DEF Creates, Created
  <1>3. ASSUME NEW p \in Objects, Destroys(p)
        PROVE  p = z /\ task[z] = "destroy"
    <2>1. Pools[z] \in Removed(p)
      BY <1>3, Zenon DEF Destroys
    <2>2. Pools[z] \notin {Backing[p]} \union Inside(p)
      BY NamesAssumption DEF Inside, Clients
    <2> QED
      BY <2>1, <2>2, NamesAssumption DEF Removed
  <1> QED
    BY <1>1, <1>2, <1>3, Zenon DEF CephStep

\* Every step keeps Started.
LEMMA StartedStep ==
  ASSUME Types, Started, Steps, \A o \in Objects : ReadyStep(o)
  PROVE  Started'
  <1> SUFFICES ASSUME NEW o \in Objects
               PROVE  /\ task'[o] # "idle" /\ Kind[o] \notin Unfinalized =>
                           cr'[o] \in {"held", "going"}
                      /\ o \in ready' =>
                           /\ Alive(o)'
                           /\ Kind[o] \notin Unfinalized => cr'[o] \in {"held", "going"}
                      /\ Kind[o] = "store" /\ cr'[o] \in {"none", "unborn", "new"} =>
                           Backing[o] \notin ceph'
    BY Zenon DEF Started
  <1>1. TaskStep(o) /\ CrStep(o) /\ ReadyStep(o)
    BY Zenon DEF Steps
  <1>2. /\ task[o] # "idle" /\ Kind[o] \notin Unfinalized => cr[o] \in {"held", "going"}
        /\ o \in ready => Alive(o) /\ (Kind[o] \notin Unfinalized => cr[o] \in {"held", "going"})
        /\ Kind[o] = "store" /\ cr[o] \in {"none", "unborn", "new"} => Backing[o] \notin ceph
    BY Zenon DEF Started
  <1>3. task'[o] # "idle" /\ Kind[o] \notin Unfinalized => cr'[o] \in {"held", "going"}
    <2>1. CASE task'[o] \in {task[o], "idle"}
      BY <2>1, <1>1, <1>2, Zenon DEF CrStep
    <2>2. CASE Begins(o) \/ Accounts(o) \/ Destroys(o)
      BY <2>2, <1>2, Zenon DEF Begins, Accounts, Destroys
    <2>3. CASE Decides(o) \/ ReleaseWithoutCluster(o)
      BY <2>3, Zenon DEF Decides, ReleaseWithoutCluster
    <2> QED
      BY <1>1, <2>1, <2>2, <2>3, Zenon DEF TaskStep
  <1>4. ASSUME o \in ready'
        PROVE  Alive(o)' /\ (Kind[o] \notin Unfinalized => cr'[o] \in {"held", "going"})
    <2>1. CASE Readies(o)
      BY <2>1, <1>2, Zenon DEF Readies, Alive
    <2>2. CASE o \in ready
      <3>1. cr'[o] # "gone"
        BY <1>1, <1>2, <1>4, <2>2, Zenon DEF ReadyStep, Alive
      <3> QED
        BY <1>1, <1>2, <2>2, <3>1, Zenon DEF CrStep, Alive
    <2>3. CASE Accounts(o) /\ task[o] = "modify"
      BY <2>3, <1>2, Zenon DEF Accounts, Alive
    <2> QED
      BY <1>1, <1>4, <2>1, <2>2, <2>3, Zenon DEF ReadyStep
  <1>5. ASSUME Kind[o] = "store", cr'[o] \in {"none", "unborn", "new"}
        PROVE  Backing[o] \notin ceph'
    <2>1. Backing[o] \notin ceph /\ task[o] = "idle"
      BY <1>1, <1>2, <1>5, Zenon DEF CrStep
    <2>2. CASE Wipes
      BY <2>2, Zenon DEF Wipes
    <2> QED
      BY <1>5, <2>1, <2>2, StoreInCeph, Zenon
  <1> QED
    BY <1>3, <1>4, <1>5, Zenon

\* Every step keeps StoresGone.
LEMMA StoresGoneStep ==
  ASSUME Types, Going, StoresGone, Steps
  PROVE  StoresGone'
  <1> SUFFICES ASSUME NEW z \in Objects, Kind[z] = "zone", task'[z] \in {"destroy", "zone"},
                      NEW c \in Clients[z]
               PROVE  ~Alive(c)'
    BY Zenon DEF StoresGone, DependentsOf, Clients
  <1>1. c \in Objects /\ Provider[c] = z /\ z # NoObject
    BY ZoneProviders, Zenon
  <1>2. CrStep(c)
    BY <1>1, Zenon DEF Steps
  <1>3. CASE task[z] \in {"destroy", "zone"}
    <2>1. ~Alive(c)
      BY <1>3 DEF StoresGone, DependentsOf
    <2>2. cr[z] = "going"
      BY <1>3 DEF Going
    <2> QED
      BY <2>1, <2>2, <1>1, <1>2 DEF CrStep, Alive
  <1>4. CASE task[z] \notin {"destroy", "zone"}
    <2>1. Decides(z) /\ task'[z] = "destroy"
      BY <1>4, TaskCases
    <2>2. DependentsOf(z) = {} /\ cr' = cr
      BY <2>1, Zenon DEF Decides
    <2> QED
      BY <2>2 DEF DependentsOf, Alive
  <1> QED
    BY <1>3, <1>4

\* Every step keeps Attended: the dependents checks see the CRs that lie in a
\* pool, a filesystem or a zone.
LEMMA AttendedStep ==
  ASSUME Types, Types', Going, Ancestors, Started, Attended, Steps, Heard,
         \A o \in Objects : ReadyStep(o)
  PROVE  Attended'
  <1> SUFFICES ASSUME ClusterExists', NEW o \in Objects, Alive(o)',
                      \/ Kind[o] \in {"rns", "svg"}
                      \/ /\ Kind[o] = "store" /\ IsMultisite(o)
                         /\ Alive(Provider[Provider[o]])'
               PROVE  /\ Unending(Provider[o])'
                      /\ o \in ready' \/ task'[o] = "create" =>
                           cr'[Provider[o]] \in {"held", "going"}
    BY Zenon DEF Attended, IsMultisite
  <1> DEFINE p == Provider[o]
  <1>1. /\ p \in Objects /\ p # NoObject /\ <<Kind[o], Kind[p]>> \in Lies
        /\ Kind[p] \in {"pool", "fs", "zone"} /\ (Kind[o] = "store" => Kind[p] = "zone")
        /\ o \in Clients[p]
    BY ProviderAssumption DEF Lies, IsMultisite, Clients
  <1>2. ClusterExists
    BY ClusterBefore
  <1>3. TaskStep(o) /\ CrStep(o) /\ ReadyStep(o) /\ TaskStep(p) /\ CrStep(p) /\ OneCr
    BY <1>1, Zenon DEF Steps
  <1>4. CASE ~Alive(o)
    <2>1. cr[o] = "unborn" /\ cr'[o] = "new" /\ cr[p] \in {"new", "held"} /\ task' = task
      BY <1>1, <1>3, <1>4 DEF CrStep, Alive
    <2>2. Unending(p)'
      BY <2>1, <1>1, Zenon DEF Going, Unending
    <2>3. task'[o] = "idle"
      BY <2>1, <1>1, Zenon DEF Started
    <2>4. o \notin ready'
      <3>1. ~Accounts(o)
        BY NotAccount, Zenon
      <3> QED
        BY <3>1, <1>3, <1>4, Zenon DEF ReadyStep, Readies, Started
    <2> QED
      BY <2>2, <2>3, <2>4
  <1>5. CASE Alive(o)
    <2>1. Kind[o] = "store" => Alive(Provider[p])
      <3>1. cr[p] \notin {"none", "unborn"}
        BY <1>1, <1>5, Zenon DEF Ancestors, Alive
      <3> QED
        BY <3>1, <1>1, RealmBefore, Zenon
    <2>2. Unending(p) /\ (o \in ready \/ task[o] = "create" => cr[p] \in {"held", "going"})
      BY <2>1, <1>2, <1>5, Zenon DEF Attended
    <2>3. o \in DependentsOf(p)
      BY <1>1, <1>5, Zenon DEF DependentsOf
    <2>4. ~Decides(p)
      <3>1. Kind[p] \in {"pool", "fs"} => ~Decides(p)
        <4>1. Kind[p] = "pool" => Kind[o] = "rns"
          BY <1>1 DEF Lies
        <4>2. Kind[p] = "pool" => ~Decides(p)
          BY <4>1, <2>3, Zenon DEF Decides
        <4>3. Kind[p] = "fs" => ~Decides(p)
          BY <2>3, Zenon DEF Decides, Heard, FilesystemDependents
        <4> QED
          BY <4>2, <4>3, Zenon
      <3>2. Kind[p] = "zone" => Kind[o] = "store"
        BY <1>1 DEF Lies
      <3>3. Kind[p] = "zone" => ~Decides(p)
        BY <2>1, <2>3, <3>2, Zenon DEF Decides
      <3> QED
        BY <1>1, <3>1, <3>3, Zenon
    <2>5. Unending(p)'
      <3>1. ~ReleaseWithoutCluster(p)
        BY <1>1, <1>2, NoRelease, Zenon
      <3>2. ~Destroys(p)
        BY <2>2, Zenon DEF Destroys, Unending
      <3>3. Begins(p) => task'[p] = "create"
        BY <1>1, Zenon DEF Begins, Types
      <3> QED
        BY <1>1, <1>3, <2>2, <2>4, <3>1, <3>2, <3>3, NotAccount, Zenon DEF TaskStep, Unending
    <2>6. ASSUME o \in ready' \/ task'[o] = "create"
          PROVE  cr'[p] \in {"held", "going"}
      <3>1. CASE o \in ready \/ task[o] = "create"
        BY <3>1, <2>2, <1>3, Zenon DEF CrStep, Unending
      <3>2. CASE ~(o \in ready \/ task[o] = "create")
        <4>0. ~Accounts(o)
          BY NotAccount, Zenon
        <4>1. task'[o] = "create"
          BY <4>0, <3>2, <2>6, <1>3, Zenon DEF ReadyStep, Readies
        <4>2. Begins(o)
          BY <4>1, <4>0, <3>2, <1>3, Zenon DEF TaskStep, Decides, ReleaseWithoutCluster, Destroys, Types
        <4>3. p \in ready /\ cr' = cr
          BY <4>2, <1>1, Zenon DEF Begins
        <4> QED
          BY <4>3, <1>1, Zenon DEF Started
      <3> QED
        BY <3>1, <3>2
    <2> QED
      BY <2>5, <2>6, Zenon
  <1> QED
    BY <1>4, <1>5

\* Every step keeps PoolsKept.
LEMMA PoolsKeptStep ==
  ASSUME Types, Types', Going, Started, StoresGone, PoolsKept, Steps,
         \A o \in Objects : ReadyStep(o)
  PROVE  PoolsKept'
  <1> SUFFICES ASSUME ClusterExists', NEW o \in Objects
               PROVE  /\ /\ Kind[o] = "zone" /\ o \in ready'
                         /\ cr'[o] = "held" \/ DependentsOf(o)' # {}
                         => Pools[o] \in ceph'
                      /\ /\ Kind[o] = "store" /\ IsMultisite(o) /\ Alive(o)'
                         /\ task'[o] = "create" \/ Backing[o] \in ceph'
                         => Pools[o] \in ceph'
    BY Zenon DEF PoolsKept, IsMultisite
  <1>1. ClusterExists /\ ~Wipes
    BY ClusterBefore
  <1>2. TaskStep(o) /\ CrStep(o) /\ ReadyStep(o)
    BY Zenon DEF Steps
  <1>3. ASSUME Kind[o] = "zone", o \in ready', cr'[o] = "held" \/ DependentsOf(o)' # {}
        PROVE  Pools[o] \in ceph'
    <2>1. CASE Readies(o)
      BY <1>3, <2>1, Zenon DEF Readies, Created
    <2>2. CASE o \in ready
      <3>1. cr[o] \in {"held", "going"}
        BY <2>2, <1>3 DEF Started
      <3>2. cr[o] = "held" \/ DependentsOf(o) # {}
        <4>1. CASE cr'[o] = "held"
          BY <4>1, <3>1, <1>2 DEF CrStep
        <4>2. ASSUME NEW c \in Clients[o], Alive(c)'
              PROVE  cr[o] = "held" \/ Alive(c)
          <5>1. c \in Objects /\ Provider[c] = o /\ o # NoObject
            BY <1>3, <4>2, ZoneProviders, Zenon
          <5>2. CrStep(c)
            BY <5>1, Zenon DEF Steps
          <5> QED
            BY <5>1, <5>2, <4>2, <3>1 DEF CrStep, Alive
        <4> QED
          BY <4>1, <4>2, <1>3 DEF DependentsOf
      <3>3. Pools[o] \in ceph
        BY <3>2, <2>2, <1>1, <1>3, Zenon DEF PoolsKept
      <3>4. task[o] # "destroy"
        BY <3>2, <1>3 DEF StoresGone, Going
      <3> QED
        BY <3>3, <3>4, <1>1, <1>3, PoolsInCeph
    <2> QED
      BY <1>2, <1>3, <2>1, <2>2, NotAccount, Zenon DEF ReadyStep
  <1>4. ASSUME Kind[o] = "store", IsMultisite(o), Alive(o)',
               task'[o] = "create" \/ Backing[o] \in ceph'
        PROVE  Pools[o] \in ceph'
    <2> DEFINE z == Provider[o]
    <2>1. /\ z \in Objects /\ Kind[z] = "zone" /\ Pools[o] = Pools[z]
          /\ z # NoObject /\ o \in Clients[z]
      BY <1>4, ProviderAssumption, NamesAssumption, Zenon DEF Lies, IsMultisite, Clients
    <2>2. Backing[o] \notin ceph /\ Backing[o] \in ceph' => task[o] = "create"
      BY <1>1, <1>4, StoreInCeph, Zenon
    <2>3. Alive(o)
      <3> SUFFICES ASSUME ~Alive(o)
                   PROVE  FALSE
        OBVIOUS
      <3>1. cr[o] = "unborn" /\ task' = task
        BY <1>2, <1>4, Zenon DEF CrStep, Alive
      <3>2. task[o] = "idle" /\ Backing[o] \notin ceph
        BY <3>1, <1>4 DEF Started
      <3> QED
        BY <3>1, <3>2, <2>2, <1>4, Zenon
    <2>4. Pools[z] \in ceph
      <3>1. CASE task[o] = "create" \/ Backing[o] \in ceph
        BY <3>1, <2>1, <2>3, <1>1, <1>4, Zenon DEF PoolsKept
      <3>2. CASE ~(task[o] = "create" \/ Backing[o] \in ceph)
        <4>0. ~Accounts(o)
          BY <1>4, NotAccount, Zenon
        <4>1. task'[o] = "create"
          BY <3>2, <2>2, <1>4
        <4>2. Begins(o)
          BY <4>1, <4>0, <3>2, <1>2, Zenon DEF TaskStep, Decides, ReleaseWithoutCluster, Destroys, Types
        <4>3. z \in ready
          BY <4>2, <2>1, <1>4, Zenon DEF Begins
        <4>4. DependentsOf(z) # {}
          BY <2>1, <2>3, Zenon DEF DependentsOf
        <4> QED
          BY <4>3, <4>4, <2>1, <1>1, Zenon DEF PoolsKept
      <3> QED
        BY <3>1, <3>2
    <2>5. task[z] # "destroy"
      BY <2>1, <2>3 DEF StoresGone, DependentsOf
    <2> QED
      BY <2>1, <2>4, <2>5, <1>1, PoolsInCeph, Zenon
  <1> QED
    BY <1>3, <1>4, Zenon

\* The multisite CRs of a store whose CR has been created do not come to life
\* any more.
LEMMA ContextBefore ==
  ASSUME Types, Ancestors, Steps, NEW s \in Objects, Kind[s] = "store",
         cr[s] \notin {"none", "unborn"}, MultisiteContext(s)'
  PROVE  MultisiteContext(s)
  <1> SUFFICES ASSUME IsMultisite(s)
               PROVE  MultisiteContext(s)
    BY DEF MultisiteContext
  <1> DEFINE z == Provider[s]
  <1>1. z \in Objects /\ Kind[z] = "zone" /\ z # NoObject
    BY ProviderAssumption DEF Lies, IsMultisite
  <1>2. cr[z] \notin {"none", "unborn"} /\ CrStep(z)
    BY <1>1 DEF Ancestors, Steps
  <1>3. Alive(z)' /\ RealmAlive(z)'
    BY DEF MultisiteContext, RealmAlive, IsMultisite
  <1>4. Alive(z)
    BY <1>1, <1>2, <1>3, Zenon DEF CrStep, Alive, Types
  <1>5. RealmAlive(z)
    BY <1>1, <1>2, <1>3, RealmBefore, Zenon
  <1> QED
    BY <1>4, <1>5 DEF MultisiteContext, RealmAlive

\* Every step keeps UsersKept: the dependents check of a store that exists in
\* Ceph sees its users.
LEMMA UsersKeptStep ==
  ASSUME Types, Types', Going, Ancestors, Started, PoolsKept, UsersKept, Steps, Heard,
         \A o \in Objects : ReadyStep(o)
  PROVE  UsersKept'
  <1> SUFFICES ASSUME ClusterExists', NEW o \in Objects, Kind[o] = "user", Alive(o)',
                      MultisiteContext(Provider[o])'
               PROVE  /\ Backing[Provider[o]] \in ceph' =>
                           /\ Unending(Provider[o])'
                           /\ cr'[Provider[o]] \in {"held", "going"}
                      /\ o \in ready' => Backing[Provider[o]] \in ceph'
    BY Zenon DEF UsersKept
  <1> DEFINE s == Provider[o]
  <1>1. s \in Objects /\ Kind[s] = "store" /\ s # NoObject /\ o \in Clients[s]
    BY ProviderAssumption DEF Lies, Clients
  <1>2. ClusterExists /\ ~Wipes
    BY ClusterBefore
  <1>3. CrStep(o) /\ ReadyStep(o) /\ TaskStep(s) /\ CrStep(s) /\ OneCr
    BY <1>1, Zenon DEF Steps
  <1>4. CASE ~Alive(o)
    <2>1. /\ cr[o] = "unborn" /\ cr'[o] = "new" /\ cr[s] \in {"new", "held"}
          /\ task' = task /\ ceph' = ceph
      BY <1>1, <1>3, <1>4, Zenon DEF CrStep, Alive
    <2>2. cr'[s] = cr[s]
      <3>1. o # s
        BY <1>1
      <3> QED
        BY <2>1, <3>1, <1>1, <1>3 DEF OneCr
    <2>3. Backing[s] \in ceph => cr[s] # "new"
      BY <1>1 DEF Started
    <2>4. Unending(s)'
      BY <2>1, <1>1 DEF Going, Unending
    <2>5. o \notin ready'
      <3>1. ~Accounts(o)
        BY NotAccount, Zenon
      <3> QED
        BY <3>1, <1>3, <1>4, Zenon DEF ReadyStep, Readies, Started
    <2> QED
      BY <2>1, <2>2, <2>3, <2>4, <2>5
  <1>5. CASE Alive(o)
    <2>1. MultisiteContext(s)
      <3>1. cr[s] \notin {"none", "unborn"}
        BY <1>1, <1>5 DEF Ancestors, Alive
      <3> QED
        BY <3>1, <1>1, ContextBefore
    <2>2. /\ Backing[s] \in ceph => Unending(s) /\ cr[s] \in {"held", "going"}
          /\ o \in ready => Backing[s] \in ceph
      BY <2>1, <1>2, <1>5, Zenon DEF UsersKept
    <2>3. ASSUME Backing[s] \in ceph
          PROVE  Unending(s)' /\ cr'[s] \in {"held", "going"}
      <3>1. Pools[s] \in ceph
        <4>1. Alive(s)
          BY <2>2, <2>3 DEF Alive
        <4>2. CASE IsMultisite(s)
          BY <4>1, <4>2, <2>3, <1>1, <1>2, Zenon DEF PoolsKept
        <4>3. CASE ~IsMultisite(s)
          BY <4>3, <2>3, <1>1, NamesAssumption DEF IsMultisite
        <4> QED
          BY <4>2, <4>3
      <3>2. o \in DependentsOf(s)
        BY <1>1, <1>5, Zenon DEF DependentsOf
      <3>3. StoreDependents(s)
        BY <2>1, <3>1, <3>2, Zenon DEF StoreDependents
      <3>4. ~Decides(s)
        BY <3>3, <1>1, Zenon DEF Decides, Heard
      <3>5. ~ReleaseWithoutCluster(s)
        BY <1>1, <1>2, NoRelease
      <3>6. ~Destroys(s)
        BY <2>2, <2>3, Zenon DEF Destroys, Unending
      <3>7. Begins(s) => task'[s] = "create"
        BY <1>1 DEF Begins, Types
      <3>8. Unending(s)'
        BY <1>1, <1>3, <2>2, <2>3, <3>4, <3>5, <3>6, <3>7, NotAccount, Zenon
           DEF TaskStep, Unending
      <3> QED
        BY <3>8, <1>3, <2>2, <2>3, Zenon DEF CrStep, Unending
    <2>4. ASSUME Backing[s] \notin ceph, Backing[s] \in ceph'
          PROVE  Unending(s)' /\ cr'[s] \in {"held", "going"}
      <3>1. task[s] = "create" /\ Creates(s)
        BY <2>4, <1>1, <1>2, StoreInCeph, Zenon
      <3>2. cr[s] \in {"held", "going"} /\ cr' = cr
        BY <3>1, <1>1 DEF Started, Creates
      <3>3. task'[s] \in {"create", "idle"}
        BY <3>1, <1>1, TaskCases, Zenon
      <3> QED
        BY <3>2, <3>3 DEF Unending
    <2>5. ASSUME o \in ready'
          PROVE  Backing[s] \in ceph'
      <3>1. CASE Readies(o)
        BY <3>1, <1>1 DEF Readies, Creatable, Created
      <3>2. CASE o \in ready
        <4>1. ~Destroys(s)
          BY <3>2, <2>2, Zenon DEF Destroys, Unending
        <4> QED
          BY <4>1, <3>2, <2>2, <1>1, <1>2, StoreInCeph, Zenon
      <3> QED
        BY <2>5, <1>3, <3>1, <3>2, NotAccount, Zenon DEF ReadyStep
    <2> QED
      BY <2>3, <2>4, <2>5, Zenon
  <1> QED
    BY <1>4, <1>5, Zenon

\* If the calls that the dependents checks rest on do not fail, then as long as
\* there is a CephCluster what a Ready resource lies in outlives it, in
\* whatever order the CRs are deleted, reconciles fail and the operator
\* restarts; with the exceptions that ProvidersLast lists.
THEOREM ProvidersLastTheorem ==
  ASSUME Heard
  PROVE  Spec => []ProvidersLast
  <1> DEFINE Inv == Going /\ Ancestors /\ ProviderInv
  <1>1. Init => Inv
    <2> SUFFICES ASSUME Init
                 PROVE  Inv
      OBVIOUS
    <2>1. Going /\ Ancestors /\ StoresGone
      BY DEF Init, Going, Ancestors, StoresGone
    <2>2. Started
      BY Zenon DEF Init, Started
    <2>3. \A o \in Objects : ~Alive(o)
      BY Zenon DEF Init, Alive
    <2>4. Attended /\ UsersKept
      BY <2>3, Zenon DEF Attended, UsersKept
    <2>5. PoolsKept
      BY <2>3, Zenon DEF PoolsKept, Init
    <2> QED
      BY <2>1, <2>2, <2>4, <2>5 DEF ProviderInv
  <1>2. Types /\ Inv /\ [Next]_vars => Inv'
    <2> SUFFICES ASSUME Types, Inv, [Next]_vars
                 PROVE  Inv'
      OBVIOUS
    <2>1. Types' /\ Steps /\ \A o \in Objects : ReadyStep(o)
      BY TypesStep, NextSteps, ReadySteps, Zenon
    <2>2. Going' /\ Ancestors'
      BY <2>1, GoingStep, AncestorsStep, Zenon
    <2>3. Started' /\ StoresGone' /\ Attended'
      BY <2>1, StartedStep, StoresGoneStep, AttendedStep, Zenon DEF ProviderInv
    <2>4. PoolsKept' /\ UsersKept'
      BY <2>1, PoolsKeptStep, UsersKeptStep, Zenon DEF ProviderInv
    <2> QED
      BY <2>2, <2>3, <2>4, Zenon DEF ProviderInv
  <1>3. SetTypes /\ Inv => ProvidersLast
    <2> SUFFICES ASSUME SetTypes, Inv, ClusterExists, NEW o \in ready,
                        Provider[o] # NoObject, Kind[Provider[o]] \notin Unfinalized,
                        Kind[o] \notin {"topic", "account", "nfs", "nvmeof"},
                        Kind[o] = "store" => Alive(Provider[Provider[o]]),
                        Kind[o] = "user" => MultisiteContext(Provider[o])
                 PROVE  Alive(Provider[o])
      BY Zenon DEF ProvidersLast
    <2>1. o \in Objects /\ Alive(o)
      BY Zenon DEF SetTypes, ProviderInv, Started
    <2>2. Kind[o] \in {"rns", "svg", "store", "user"}
      BY <2>1, ProviderAssumption DEF Lies
    <2>3. CASE Kind[o] = "user"
      <3>1. Backing[Provider[o]] \in ceph
        BY <2>1, <2>3, Zenon DEF ProviderInv, UsersKept
      <3> QED
        BY <3>1, <2>1, <2>3, Zenon DEF ProviderInv, UsersKept, Alive
    <2>4. CASE Kind[o] \in {"rns", "svg", "store"}
      <3>1. cr[Provider[o]] \in {"held", "going"}
        BY <2>1, <2>4, Zenon DEF ProviderInv, Attended, IsMultisite
      <3> QED
        BY <3>1 DEF Alive
    <2> QED
      BY <2>2, <2>3, <2>4, Zenon
  <1>4. Spec => []SetTypes
    BY TypeTheorem, PTL DEF TypeOK, SetTypes
  <1> QED
    BY <1>1, <1>2, <1>3, <1>4, TypesInvariant, PTL DEF Spec

=============================================================================
