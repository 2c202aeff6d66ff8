--------------------------- MODULE LifecycleProofs ---------------------------
(***************************************************************************)
(* What the steps of the sixteen controllers do to CRs, tasks and Ceph, in *)
(* a few forms that the proofs distinguish, and from them, for any number  *)
(* of resources of any kinds, of failures and of restarts: the protection  *)
(* of the mon Secret goes last, accounts of others are left alone, a       *)
(* removed CR leaves nothing behind, and no mirror checker outlives it.    *)
(***************************************************************************)
EXTENDS Lifecycle, TLAPS

Types ==
  /\ cluster \in {"held", "going", "gone"}
  /\ cr \in [Objects -> {"none", "unborn", "new", "held", "going", "gone"}]
  /\ task \in [Objects -> {"idle", "note", "create", "modify", "destroy", "zone",
                           "release"}]

\* What no controller of a resource touches.
Fixed == UNCHANGED <<cluster, protected, healthy, cleanup, lag, clusterTask, data>>

\* A reconcile is about to create.
Begins(o) ==
  /\ task[o] = "idle" /\ task' = [task EXCEPT ![o] = "create"]
  /\ cr[o] = IF Kind[o] \in Unfinalized THEN "new" ELSE "held"
  /\ Fixed /\ UNCHANGED <<cr, ceph, checkers, foreign>> /\ (events' = events \/ Event)
  /\ ready' \subseteq ready /\ noted' \in {noted, noted \union {o}}
  /\ Kind[o] # "account"
  /\ Kind[o] \in {"rns", "svg", "user", "store"} =>
       Provider[o] = NoObject \/ Provider[o] \in ready

\* An account is looked for; its ID is noted; it is modified.
Accounts(o) ==
  /\ Kind[o] = "account" /\ Fixed /\ UNCHANGED <<cr, ceph, checkers, foreign, events>>
  /\ \E l \in {"idle", "note", "create", "modify"} : task' = [task EXCEPT ![o] = l]
  /\ \/ /\ task[o] = "idle" /\ cr[o] = "held" /\ UNCHANGED <<ready, noted>>
        /\ IF Backing[o] \in ceph THEN o \in noted /\ task'[o] = "modify"
                                  ELSE task'[o] = "note"
     \/ /\ task[o] = "note" /\ task'[o] = "create"
        /\ ready' = ready /\ noted' = noted \union {o}
     \/ /\ task[o] = "modify" /\ task'[o] = "idle"
        /\ noted' = noted /\ ready' \in {ready \union {o}, ready \ {o}}

\* A reconcile has decided to delete, or to give up the finalizer.
Decides(o) ==
  /\ task[o] = "idle" /\ cr[o] = "going" /\ IsReadyToReconcile
  /\ Fixed /\ UNCHANGED <<cr, ceph, foreign, ready, noted>> /\ (events' = events \/ Event)
  /\ checkers' = IF Kind[o] = "pool" THEN Unmonitored(Backing[o]) ELSE checkers
  /\ \/ task' = [task EXCEPT ![o] = "destroy"]
     \/ /\ task' = [task EXCEPT ![o] = "release"]
        /\ Kind[o] \in {"rns", "svg", "user", "account", "topic", "zone"}
  /\ Kind[o] = "pool" => \A n \in DependentsOf(o) : Kind[n] # "rns"
  /\ Kind[o] = "fs" /\ FilesystemDependents(o) => "fs get" \in Failing
  /\ Kind[o] = "store" /\ StoreDependents(o) =>
       Failing \intersect {"pool ls", "admin ops"} # {}
  /\ Kind[o] \in {"rns", "svg"} /\ task'[o] = "release" =>
       ~(SameName(o) \subseteq {o})
  /\ Kind[o] = "account" /\ task'[o] = "destroy" => o \in noted
  /\ Kind[o] = "zone" =>
       IF task'[o] = "destroy" THEN DependentsOf(o) = {} ELSE ~Alive(Provider[o])

\* What the deletion of a resource may remove in Ceph.
Removed(o) ==
  IF Kind[o] = "zone" /\ task[o] = "destroy" THEN {Pools[o]}
  ELSE IF Kind[o] \in {"pool", "fs", "store"} THEN {Backing[o]} \union Inside(o)
  ELSE {Backing[o]}

Destroys(o) ==
  /\ task[o] \in {"destroy", "zone"}
  /\ \E l \in {"idle", "zone", "release"} : task' = [task EXCEPT ![o] = l]
  /\ Fixed /\ UNCHANGED <<cr, noted>> /\ ready' \subseteq ready
  /\ (events' = events \/ Event)
  /\ \/ checkers' = checkers
     \/ Kind[o] \in {"rns", "fs"} /\ checkers' = Unmonitored(Backing[o])
  /\ Kind[o] \in {"rns", "fs"} /\ task'[o] = "release" =>
       checkers' = Unmonitored(Backing[o])
  /\ ceph' \subseteq ceph /\ ceph \ ceph' \subseteq Removed(o)
  /\ \/ foreign' = foreign /\ Kind[o] \notin {"store", "account"}
     \/ foreign' = foreign \intersect ceph' /\ Kind[o] = "store"
     \/ foreign' = foreign \ {Backing[o]} /\ Kind[o] = "account"
  /\ Kind[o] \in {"pool", "rns", "svg"} /\ Backing[o] \in ceph \intersect data =>
       ceph' = ceph
  /\ Kind[o] = "fs" => ceph' = ceph \/ ceph' = ceph \ Removed(o)
  /\ Kind[o] \in {"pool", "rns", "svg", "client"} /\ task'[o] = "release" =>
       Backing[o] \notin ceph'

USE DEF Fixed, Unfinalized, notes, Goto

\* The steps of all controllers are of these forms.
LEMMA ControllerCases ==
  ASSUME Types, NEW o \in Objects, ControllerStep(o)
  PROVE  \/ AddFinalizerIfNotPresent(o) \/ ReleaseWithoutCluster(o) \/ RemoveFinalizer(o)
         \/ Begins(o) \/ Accounts(o) \/ CreateInCeph(o) \/ Decides(o) \/ Destroys(o)
  <1>1. WorkerFree(o) => task[o] = "idle"
    BY DEF WorkerFree, SameKind
  <1> USE <1>1 DEF Types, Rest, Same, StartCreate, StartDelete, MayStart, BeginCreate, Begins
  <1>2. CASE PoolController(o)
    <2>1. CASE CreatePoolStart(o) \/ CreatePool(o)
      BY <2>1, <1>2 DEF CreatePoolStart, CreatePool, PoolController
    <2>2. CASE DeletePoolStart(o)
      BY <2>2, <1>2 DEF DeletePoolStart, PoolController, Decides
    <2>3. CASE DeletePool(o)
      BY <2>3, <1>2 DEF DeletePool, PoolController, Destroys, Removed
    <2> QED
      BY <1>2, <2>1, <2>2, <2>3 DEF PoolController
  <1>3. CASE NamespaceController(o)
    <2>1. CASE CreateNamespaceStart(o) \/ CreateNamespace(o)
      BY <2>1, <1>3 DEF CreateNamespaceStart, CreateNamespace, NamespaceController
    <2>2. CASE DeleteNamespaceStart(o)
      BY <2>2, <1>3 DEF DeleteNamespaceStart, LastOneDeletes, NamespaceController, Decides
    <2>3. CASE DeleteNamespace(o)
      BY <2>3, <1>3 DEF DeleteNamespace, DeleteEmpty, NamespaceController, Destroys, Removed
    <2> QED
      BY <1>3, <2>1, <2>2, <2>3 DEF NamespaceController
  <1>4. CASE FilesystemController(o)
    <2>1. CASE CreateFilesystemStart(o) \/ CreateFilesystem(o)
      BY <2>1, <1>4 DEF CreateFilesystemStart, CreateFilesystem, FilesystemController
    <2>2. CASE DeleteFilesystemStart(o)
      <3>1. events' = events \/ Event
        BY <2>2, Zenon DEF DeleteFilesystemStart, Overlooked, Event
      <3> QED
        BY <2>2, <3>1, <1>4, Zenon DEF DeleteFilesystemStart, Overlooked, FilesystemController, Decides
    <2>3. CASE DeleteFilesystem(o)
      BY <2>3, <1>4, Zenon DEF DeleteFilesystem, FilesystemController, Destroys, Removed
    <2> QED
      BY <1>4, <2>1, <2>2, <2>3 DEF FilesystemController
  <1>5. CASE GroupController(o)
    <2>1. CASE CreateGroupStart(o) \/ CreateGroup(o)
      BY <2>1, <1>5 DEF CreateGroupStart, CreateGroup, GroupController
    <2>2. CASE DeleteGroupStart(o)
      BY <2>2, <1>5 DEF DeleteGroupStart, LastOneDeletes, GroupController, Decides
    <2>3. CASE DeleteGroup(o)
      BY <2>3, <1>5 DEF DeleteGroup, DeleteEmpty, GroupController, Destroys, Removed
    <2> QED
      BY <1>5, <2>1, <2>2, <2>3 DEF GroupController
  <1>6. CASE ClientController(o)
    <2>1. CASE CreateClientStart(o) \/ CreateClient(o)
      BY <2>1, <1>6 DEF CreateClientStart, CreateClient, ClientController
    <2>2. CASE DeleteClientStart(o)
      BY <2>2, <1>6 DEF DeleteClientStart, BeginDelete, ClientController, Decides
    <2>3. CASE DeleteClient(o)
      BY <2>3, <1>6 DEF DeleteClient, Deleted, ClientController, Destroys, Removed
    <2> QED
      BY <1>6, <2>1, <2>2, <2>3 DEF ClientController
  <1>7. CASE NFSController(o)
    <2>1. CASE CreateNFSStart(o) \/ CreateNFS(o)
      BY <2>1, <1>7 DEF CreateNFSStart, CreateNFS, NFSController
    <2>2. CASE DeleteNFSStart(o)
      BY <2>2, <1>7 DEF DeleteNFSStart, BeginDelete, NFSController, Decides
    <2>3. CASE DeleteNFS(o)
      BY <2>3, <1>7, Zenon DEF DeleteNFS, Deleted, NotDeleted, NFSController, Destroys, Removed
    <2> QED
      BY <1>7, <2>1, <2>2, <2>3 DEF NFSController
  <1>8. CASE GatewayController(o)
    <2>1. CASE CreateGatewayStart(o) \/ CreateGateway(o)
      BY <2>1, <1>8 DEF CreateGatewayStart, CreateGateway, GatewayController
    <2>2. CASE DeleteGatewayStart(o)
      BY <2>2, <1>8 DEF DeleteGatewayStart, BeginDelete, GatewayController, Decides
    <2>3. CASE DeleteGateway(o)
      BY <2>3, <1>8, Zenon DEF DeleteGateway, Deleted, NotDeleted, GatewayController, Destroys, Removed
    <2> QED
      BY <1>8, <2>1, <2>2, <2>3 DEF GatewayController
  <1>9. CASE RBDMirrorController(o)
    <2>1. CASE CreateRBDMirrorStart(o) \/ CreateRBDMirror(o)
      BY <2>1, <1>9 DEF CreateRBDMirrorStart, CreateRBDMirror, RBDMirrorController
    <2> QED
      BY <1>9, <2>1 DEF RBDMirrorController
  <1>10. CASE FSMirrorController(o)
    <2>1. CASE CreateFSMirrorStart(o) \/ CreateFSMirror(o)
      BY <2>1, <1>10 DEF CreateFSMirrorStart, CreateFSMirror, FSMirrorController
    <2> QED
      BY <1>10, <2>1 DEF FSMirrorController
  <1>11. CASE RealmController(o)
    <2>1. CASE CreateRealmStart(o) \/ CreateRealm(o)
      BY <2>1, <1>11 DEF CreateRealmStart, CreateRealm, RealmController
    <2> QED
      BY <1>11, <2>1 DEF RealmController
  <1>12. CASE ZoneGroupController(o)
    <2>1. CASE CreateZoneGroupStart(o) \/ CreateZoneGroup(o)
      BY <2>1, <1>12 DEF CreateZoneGroupStart, CreateZoneGroup, ZoneGroupController
    <2> QED
      BY <1>12, <2>1 DEF ZoneGroupController
  <1>13. CASE ZoneController(o)
    <2>1. CASE CreateZoneStart(o) \/ CreateZone(o)
      BY <2>1, <1>13 DEF CreateZoneStart, CreateZone, ZoneController
    <2>2. CASE DeleteZoneStart(o)
      BY <2>2, <1>13 DEF DeleteZoneStart, ZoneController, Decides
    <2>3. CASE DeleteZonePools(o)
      BY <2>3, <1>13, Zenon DEF DeleteZonePools, ZoneController, Destroys, Removed
    <2>4. CASE DeleteZone(o)
      BY <2>4, <1>13 DEF DeleteZone, ZoneController, Destroys, Removed
    <2> QED
      BY <1>13, <2>1, <2>2, <2>3, <2>4 DEF ZoneController
  <1>14. CASE StoreController(o)
    <2>1. CASE CreateStoreStart(o) \/ CreateStore(o)
      BY <2>1, <1>14 DEF CreateStoreStart, CreateStore, StoreController, IsMultisite
    <2>2. CASE DeleteStoreStart(o)
      <3>1. events' = events \/ Event
        BY <2>2, Zenon DEF DeleteStoreStart, Overlooked, Event
      <3> QED
        BY <2>2, <3>1, <1>14, Zenon DEF DeleteStoreStart, Overlooked, StoreController, Decides
    <2>3. CASE DeleteStore(o)
      BY <2>3, <1>14, Zenon DEF DeleteStore, StoreController, Destroys, Removed
    <2> QED
      BY <1>14, <2>1, <2>2, <2>3 DEF StoreController
  <1>15. CASE UserController(o)
    <2>1. CASE CreateUserStart(o) \/ CreateUser(o)
      BY <2>1, <1>15 DEF CreateUserStart, CreateUser, UserController, StoreReady
    <2>2. CASE DeleteUserStart(o)
      BY <2>2, <1>15, Zenon DEF DeleteUserStart, UserController, Decides
    <2>3. CASE DeleteUser(o)
      BY <2>3, <1>15 DEF DeleteUser, UserController, Destroys, Removed
    <2> QED
      BY <1>15, <2>1, <2>2, <2>3 DEF UserController
  <1>16. CASE AccountController(o)
    <2>0. CASE CreateAccountStart(o)
      BY <2>0, <1>16 DEF CreateAccountStart, AccountController, Accounts
    <2>1. CASE ModifyAccount(o) \/ PersistAccountID(o) \/ CreateAccount(o)
      BY <2>1, <1>16 DEF ModifyAccount, PersistAccountID, CreateAccount, AccountController,
                         Accounts
    <2>2. CASE DeleteAccountStart(o)
      BY <2>2, <1>16, Zenon DEF DeleteAccountStart, AccountController, Decides
    <2>3. CASE DeleteAccount(o)
      BY <2>3, <1>16 DEF DeleteAccount, AccountController, Destroys, Removed
    <2> QED
      BY <1>16, <2>0, <2>1, <2>2, <2>3 DEF AccountController
  <1>17. CASE TopicController(o)
    <2>1. CASE CreateTopicStart(o) \/ CreateTopic(o)
      BY <2>1, <1>17 DEF CreateTopicStart, CreateTopic, TopicController
    <2>2. CASE DeleteTopicStart(o)
      BY <2>2, <1>17, Zenon DEF DeleteTopicStart, TopicController, Decides
    <2>3. CASE DeleteTopic(o)
      BY <2>3, <1>17 DEF DeleteTopic, TopicController, Destroys, Removed
    <2> QED
      BY <1>17, <2>1, <2>2, <2>3 DEF TopicController
  <1> QED
    BY <1>2, <1>3, <1>4, <1>5, <1>6, <1>7, <1>8, <1>9, <1>10, <1>11, <1>12, <1>13,
       <1>14, <1>15, <1>16, <1>17, Zenon DEF ControllerStep, StorageStep, ObjectStep

-----------------------------------------------------------------------------
(* CRs and tasks stay within their types.                                   *)

\* A step of the operator, the user or the faults keeps CRs and tasks in their
\* types.
LEMMA TypesStep ==
  ASSUME Types, [Next]_vars
  PROVE  Types'
  <1>1. ASSUME NEW o \in Objects, ControllerStep(o)
        PROVE  Types'
    <2>1. CASE AddFinalizerIfNotPresent(o)
      BY <2>1 DEF AddFinalizerIfNotPresent, Types
    <2>2. CASE ReleaseWithoutCluster(o)
      BY <2>2, Zenon DEF ReleaseWithoutCluster, Types
    <2>3. CASE RemoveFinalizer(o)
      BY <2>3 DEF RemoveFinalizer, Types
    <2>4. CASE Begins(o) \/ Accounts(o) \/ Destroys(o)
      BY <2>4 DEF Begins, Accounts, Destroys, Types
    <2>5. CASE CreateInCeph(o) \/ Decides(o)
      BY <2>5, Zenon DEF CreateInCeph, Decides, Types
    <2> QED
      BY <1>1, <2>1, <2>2, <2>3, <2>4, <2>5, ControllerCases
  <1>2. CASE ClusterStep \/ ClusterReconcileFails
    BY <1>2, Zenon DEF ClusterStep, ClusterReconcileFails, DeleteClusterStart,
                RemoveFinalizers, Kept, Types
  <1>3. CASE UserStep
    <2>1. ASSUME NEW o \in Objects, UserCreate(o) \/ UserDelete(o) \/ WriteData(o)
          PROVE  Types'
      BY <2>1 DEF UserCreate, UserDelete, WriteData, Types
    <2>2. CASE UserDeleteCluster \/ \E r \in data : RemoveData(r)
      BY <2>2 DEF UserDeleteCluster, RemoveData, Types
    <2> QED
      BY <1>3, <2>1, <2>2 DEF UserStep, Present
  <1>4. ASSUME NEW o \in Objects, ReconcileFails(o) \/ CacheSync(o) \/ OtherAccount(o)
        PROVE  Types'
    BY <1>4 DEF ReconcileFails, CacheSync, OtherAccount, Same, Types
  <1>5. CASE HealthLost \/ HealthRestored \/ OperatorRestart \/ UNCHANGED vars
    BY <1>5 DEF HealthLost, HealthRestored, OperatorRestart, vars, Types
  <1> QED
    BY <1>1, <1>2, <1>3, <1>4, <1>5 DEF Next, FaultStep, Present

\* CRs and tasks have their types in every state.
LEMMA TypesInvariant == Spec => []Types
  <1>1. Init => Types
    BY DEF Init, Types
  <1> QED
    BY <1>1, TypesStep, PTL DEF Spec

-----------------------------------------------------------------------------
(* What a step may do.                                                      *)

CrStep(o) ==
  \/ cr'[o] = cr[o]
  \/ /\ cr[o] = "unborn" /\ cr'[o] = "new" /\ cluster = "held"
     /\ Provider[o] # NoObject => cr[Provider[o]] \in {"new", "held"}
     /\ UNCHANGED <<task, ceph, data, cluster, cleanup>>
  \/ cr[o] = "new" /\ cr'[o] \in {"held", "gone"} /\ UNCHANGED <<task, ceph, data>>
  \/ cr[o] = "held" /\ cr'[o] = "going" /\ UNCHANGED <<task, ceph, data>>
  \/ /\ cr[o] = "going" /\ task[o] = "release" /\ cr'[o] = "gone" /\ task'[o] = "idle"
     /\ UNCHANGED <<ceph, data>>

OneCr == \A o, p \in Objects : cr'[o] # cr[o] /\ cr'[p] # cr[p] => o = p

TaskStep(o) ==
  \/ task'[o] \in {task[o], "idle"}
  \/ Begins(o) \/ Accounts(o) \/ Decides(o) \/ ReleaseWithoutCluster(o) \/ Destroys(o)

\* o is created in Ceph, by its controller or by others.
Creates(o) ==
  /\ \/ task[o] = "create" /\ Creatable(o) /\ ceph' = Created(o)
     \/ Kind[o] = "account" /\ ceph' = ceph \union {Backing[o]}
  /\ UNCHANGED <<cr, data>>

\* The hosts are wiped.
Wipes ==
  /\ ceph' = {} /\ data' = data \intersect Volumes
  /\ clusterTask # "idle" /\ cluster' = "gone" /\ UNCHANGED <<cr, task>>

CephStep ==
  \/ ceph' = ceph
  \/ \E o \in Objects : Creates(o) \/ Destroys(o)
  \/ Wipes

DataStep == data' \subseteq data \/ \E o \in Objects : WriteData(o)

Steps ==
  /\ \A o \in Objects : CrStep(o) /\ TaskStep(o)
  /\ OneCr /\ CephStep /\ DataStep
  /\ cleanup' = cleanup
  /\ (cluster' = "held" => cluster = "held") /\ (cluster = "gone" => cluster' = "gone")

\* A reconcile that deletes works for a CR that is being deleted; one that
\* creates a zone for a CR with a finalizer.
Going ==
  \A o \in Objects :
    /\ task[o] \in {"destroy", "zone", "release"} => cr[o] = "going"
    /\ Kind[o] = "zone" /\ task[o] = "create" => cr[o] \in {"held", "going"}

\* Every step is of these forms.
LEMMA NextSteps ==
  ASSUME Types, Going, [Next]_vars
  PROVE  Steps
  <1> USE DEF Types, CrStep, TaskStep, OneCr, CephStep, DataStep
  <1>1. ASSUME NEW p \in Objects, ControllerStep(p)
        PROVE  Steps
    <2>1. CASE AddFinalizerIfNotPresent(p)
      BY <2>1 DEF Steps, AddFinalizerIfNotPresent
    <2>2. CASE ReleaseWithoutCluster(p)
      <3>1. \A o \in Objects : TaskStep(o)
        BY <2>2, Zenon DEF ReleaseWithoutCluster
      <3> QED
        BY <2>2, <3>1, Zenon DEF Steps, ReleaseWithoutCluster
    <2>3. CASE RemoveFinalizer(p)
      BY <2>3, Zenon DEF Steps, RemoveFinalizer, Going
    <2>4. CASE Begins(p)
      <3>1. \A o \in Objects : TaskStep(o)
        BY <2>4, Zenon DEF Begins
      <3> QED
        BY <2>4, <3>1, Zenon DEF Steps, Begins
    <2>8. CASE Accounts(p)
      <3>1. \A o \in Objects : TaskStep(o)
        BY <2>8, Zenon DEF Accounts
      <3> QED
        BY <2>8, <3>1, Zenon DEF Steps, Accounts
    <2>5. CASE CreateInCeph(p)
      <3>1. CephStep
        BY <2>5 DEF CreateInCeph, Creates
      <3> QED
        BY <2>5, <3>1 DEF Steps, CreateInCeph
    <2>6. CASE Decides(p)
      <3>1. \A o \in Objects : TaskStep(o)
        BY <2>6, Zenon DEF Decides
      <3> QED
        BY <2>6, <3>1, Zenon DEF Steps, Decides
    <2>7. CASE Destroys(p)
      <3>1. \A o \in Objects : TaskStep(o)
        BY <2>7, Zenon DEF Destroys
      <3> QED
        BY <2>7, <3>1, Zenon DEF Steps, Destroys
    <2> QED
      BY <1>1, <2>1, <2>2, <2>3, <2>4, <2>5, <2>6, <2>7, <2>8, ControllerCases
  <1>2. CASE ClusterStep \/ ClusterReconcileFails
    <2>1. cr' = cr /\ task' = task /\ cleanup' = cleanup
      BY <1>2, Zenon DEF ClusterStep, ClusterReconcileFails, DeleteClusterStart,
                         RemoveFinalizers, Kept
    <2>2. cluster' \in {cluster, "gone"}
      BY <1>2, Zenon DEF ClusterStep, ClusterReconcileFails, DeleteClusterStart,
                         RemoveFinalizers
    <2>3. CephStep /\ DataStep
      <3>1. \/ ceph' = ceph /\ data' = data
            \/ clusterTask = "release" /\ cluster' = "gone" /\ CleanUp
        BY <1>2, Zenon DEF ClusterStep, ClusterReconcileFails, DeleteClusterStart,
                           RemoveFinalizers
      <3>2. CASE clusterTask = "release" /\ cluster' = "gone" /\ CleanUp
        BY <3>2, <2>1 DEF CleanUp, Wipes
      <3> QED
        BY <3>1, <3>2
    <2> QED
      BY <2>1, <2>2, <2>3 DEF Steps
  <1>3. CASE UserStep
    <2>1. ASSUME NEW p \in Objects, UserCreate(p) \/ UserDelete(p)
          PROVE  Steps
      BY <2>1 DEF Steps, UserCreate, UserDelete
    <2>2. ASSUME NEW p \in Objects, WriteData(p)
          PROVE  Steps
      <3>1. DataStep
        BY <2>2
      <3> QED
        BY <2>2, <3>1 DEF Steps, WriteData
    <2>3. CASE UserDeleteCluster \/ \E r \in data : RemoveData(r)
      BY <2>3 DEF Steps, UserDeleteCluster, RemoveData
    <2> QED
      BY <1>3, <2>1, <2>2, <2>3 DEF UserStep, Present
  <1>4. ASSUME NEW p \in Objects, ReconcileFails(p) \/ CacheSync(p)
        PROVE  Steps
    BY <1>4 DEF Steps, ReconcileFails, CacheSync, Creates
  <1>5. ASSUME NEW p \in Objects, OtherAccount(p)
        PROVE  Steps
    BY <1>5 DEF Steps, OtherAccount, Same, Creates
  <1>6. CASE HealthLost \/ HealthRestored \/ OperatorRestart \/ UNCHANGED vars
    BY <1>6, Zenon DEF Steps, HealthLost, HealthRestored, OperatorRestart, vars
  <1> QED
    BY <1>1, <1>2, <1>3, <1>4, <1>5, <1>6 DEF Next, FaultStep, Present

-----------------------------------------------------------------------------
(* The CephCluster goes last.                                               *)

\* Once the deletion of the CephCluster has passed its dependents check, no CR
\* of a listed kind is left and none is created.
ClusterInv ==
  clusterTask # "idle" \/ protected # {"secret", "configmap"} \/ cluster = "gone" =>
    cluster # "held" /\ ClusterDependents = {}

\* Every step keeps ClusterInv: while the cluster is deleted no CR comes to
\* life.
LEMMA ClusterInvStep ==
  ASSUME Types, ClusterInv, [Next]_vars
  PROVE  ClusterInv'
  <1> USE DEF ClusterInv, ClusterDependents, Alive
  <1>1. ASSUME NEW o \in Objects, ControllerStep(o)
        PROVE  ClusterInv'
    <2>1. CASE AddFinalizerIfNotPresent(o)
      BY <2>1 DEF AddFinalizerIfNotPresent, Types
    <2>2. CASE ReleaseWithoutCluster(o)
      BY <2>2, Zenon DEF ReleaseWithoutCluster
    <2>3. CASE RemoveFinalizer(o)
      BY <2>3 DEF RemoveFinalizer, Types
    <2>4. CASE Begins(o) \/ Accounts(o) \/ Destroys(o)
      BY <2>4 DEF Begins, Accounts, Destroys
    <2>5. CASE CreateInCeph(o) \/ Decides(o)
      BY <2>5, Zenon DEF CreateInCeph, Decides
    <2> QED
      BY <1>1, <2>1, <2>2, <2>3, <2>4, <2>5, ControllerCases
  <1>2. CASE ClusterStep \/ ClusterReconcileFails
    BY <1>2, Zenon DEF ClusterStep, ClusterReconcileFails, DeleteClusterStart, RemoveFinalizers, Kept
  <1>3. CASE UserStep
    <2>1. ASSUME NEW o \in Objects, UserCreate(o) \/ UserDelete(o) \/ WriteData(o)
          PROVE  ClusterInv'
      BY <2>1 DEF UserCreate, UserDelete, WriteData, Types
    <2>2. CASE UserDeleteCluster \/ \E r \in data : RemoveData(r)
      BY <2>2 DEF UserDeleteCluster, RemoveData
    <2> QED
      BY <1>3, <2>1, <2>2 DEF UserStep, Present
  <1>4. ASSUME NEW o \in Objects, ReconcileFails(o) \/ CacheSync(o) \/ OtherAccount(o)
        PROVE  ClusterInv'
    BY <1>4 DEF ReconcileFails, CacheSync, OtherAccount, Same
  <1>5. CASE HealthLost \/ HealthRestored \/ OperatorRestart \/ UNCHANGED vars
    BY <1>5 DEF HealthLost, HealthRestored, OperatorRestart, vars
  <1> QED
    BY <1>1, <1>2, <1>3, <1>4, <1>5 DEF Next, FaultStep, Present

\* ClusterInv holds in every state.
LEMMA ClusterInvariant == Spec => []ClusterInv
  <1>1. Init => ClusterInv
    BY DEF Init, ClusterInv
  <1> QED
    BY <1>1, ClusterInvStep, TypesInvariant, PTL DEF Spec

\* The mon Secret and ConfigMap keep their finalizers until the CephCluster is
\* being deleted and no CR of a kind in cephClusterDependentListKinds is left,
\* however removeFinalizers is interrupted and repeated.
THEOREM ClusterLastTheorem == Spec => []ClusterLast
  <1>1. ClusterInv => ClusterLast
    BY DEF ClusterInv, ClusterLast, ClusterDependents
  <1> QED
    BY <1>1, ClusterInvariant, PTL

-----------------------------------------------------------------------------
(* Accounts of others.                                                      *)

\* The ID is in the status of an account CR before anything is done with the
\* account; what others created before the controller looked is never noted.
AccountInv ==
  /\ foreign \subseteq ceph
  /\ \A r \in foreign : \E o \in Objects : r = Backing[o]
  /\ \A o \in Objects : Kind[o] = "account" /\ o \notin noted =>
       o \notin ready /\ task[o] \notin {"create", "modify", "destroy"}
  /\ \A o \in Objects : Backing[o] \in foreign => Kind[o] = "account" /\ ~FoundNone(o)

\* Every step keeps AccountInv: of the deletions only those of stores and of
\* noted accounts remove accounts.
LEMMA AccountInvStep ==
  ASSUME Types, AccountInv, [Next]_vars
  PROVE  AccountInv'
  <1> USE DEF AccountInv, FoundNone
  <1>1. ASSUME NEW o \in Objects, ControllerStep(o)
        PROVE  AccountInv'
    <2>1. CASE AddFinalizerIfNotPresent(o)
      BY <2>1 DEF AddFinalizerIfNotPresent
    <2>2. CASE ReleaseWithoutCluster(o)
      BY <2>2, Zenon DEF ReleaseWithoutCluster, Types
    <2>3. CASE RemoveFinalizer(o)
      BY <2>3 DEF RemoveFinalizer, Types
    <2>4. CASE Begins(o)
      BY <2>4 DEF Begins, Types
    <2>8. CASE Accounts(o)
      BY <2>8 DEF Accounts, Types
    <2>5. CASE CreateInCeph(o)
      BY <2>5 DEF CreateInCeph, Created, Types
    <2>6. CASE Decides(o)
      BY <2>6, Zenon DEF Decides, Types
    <2>7. CASE Destroys(o)
      <3>1. foreign' \subseteq foreign /\ noted' = noted /\ ready' \subseteq ready
        BY <2>7 DEF Destroys
      <3>2. \A p \in Objects : task'[p] \in {"note", "create", "modify", "destroy"} =>
                                task'[p] = task[p]
        BY <2>7 DEF Destroys, Types
      <3>3. foreign' \subseteq ceph'
        <4>1. CASE Kind[o] \in {"store", "account"}
          BY <4>1, <2>7 DEF Destroys, Removed
        <4>2. CASE Kind[o] = "zone"
          BY <4>2, <2>7, NamesAssumption DEF Destroys, Removed
        <4>3. CASE Kind[o] \in {"pool", "fs"}
          <5>1. Inside(o) \intersect foreign = {}
            BY <4>3, ProviderAssumption DEF Inside, Clients, Lies
          <5> QED
            BY <4>3, <5>1, <2>7 DEF Destroys, Removed
        <4> QED
          BY <4>1, <4>2, <4>3, <2>7 DEF Destroys, Removed
      <3> QED
        BY <3>1, <3>2, <3>3
    <2> QED
      BY <1>1, <2>1, <2>2, <2>3, <2>4, <2>5, <2>6, <2>7, <2>8, ControllerCases, Zenon
  <1>2. CASE ClusterStep \/ ClusterReconcileFails
    <2>1. task' = task /\ noted' = noted /\ ready' = ready
      BY <1>2, Zenon DEF ClusterStep, ClusterReconcileFails, DeleteClusterStart,
                         RemoveFinalizers, Kept
    <2>2. (ceph' = ceph /\ foreign' = foreign) \/ foreign' = {}
      BY <1>2, Zenon DEF ClusterStep, ClusterReconcileFails, DeleteClusterStart,
                         RemoveFinalizers, CleanUp
    <2> QED
      BY <2>1, <2>2
  <1>3. CASE UserStep
    BY <1>3 DEF UserStep, UserCreate, UserDelete, WriteData, UserDeleteCluster, RemoveData
  <1>4. ASSUME NEW o \in Objects, ReconcileFails(o) \/ CacheSync(o)
        PROVE  AccountInv'
    BY <1>4, Zenon DEF ReconcileFails, CacheSync, Created, Types
  <1>5. ASSUME NEW o \in Objects, OtherAccount(o)
        PROVE  AccountInv'
    <2>1. /\ Kind[o] = "account" /\ ceph' = ceph \union {Backing[o]}
          /\ foreign' = IF FoundNone(o) THEN foreign ELSE foreign \union {Backing[o]}
          /\ UNCHANGED <<noted, ready, task>>
      BY <1>5, Zenon DEF OtherAccount, Same
    <2>2. \A p \in Objects : Backing[p] = Backing[o] => p = o
      BY <2>1, NamesAssumption
    <2> QED
      BY <2>1, <2>2
  <1>6. CASE HealthLost \/ HealthRestored \/ OperatorRestart \/ UNCHANGED vars
    BY <1>6, Zenon DEF HealthLost, HealthRestored, OperatorRestart, vars
  <1> QED
    BY <1>1, <1>2, <1>3, <1>4, <1>5, <1>6 DEF Next, FaultStep, Present

\* An account that others created before the controller looked for it is
\* neither adopted nor deleted with the CR, although the controller may be
\* interrupted, and others may create the account, between GetAccount, the
\* note of the ID, CreateAccount and the status.
THEOREM ForeignKeptTheorem == Spec => []ForeignKept
  <1>1. Init => AccountInv
    BY DEF Init, AccountInv
  <1>2. AccountInv => ForeignKept
    BY DEF AccountInv, ForeignKept, FoundNone
  <1> QED
    BY <1>1, <1>2, AccountInvStep, TypesInvariant, PTL DEF Spec

-----------------------------------------------------------------------------
(* Nothing is left behind.                                                  *)

\* The resources NothingLeft is about: whose removal in Ceph is not best effort
\* and whose name in Ceph no other CR has.
Thorough == {o \in Unshared : Kind[o] \in {"pool", "rns", "svg", "client"}}

\* A CR without a finalizer has nothing in Ceph and no reconcile under way; one
\* that is about to lose its finalizer has nothing in Ceph any more.
RemovalInv ==
  (cleanup => cluster = "held") =>
    \A o \in Thorough :
      /\ cr[o] \in {"none", "unborn", "new", "gone"} =>
           task[o] = "idle" /\ Backing[o] \notin ceph
      /\ task[o] = "release" => Backing[o] \notin ceph

\* Only the CR that a name belongs to creates it in Ceph.
LEMMA CreatedElsewhere ==
  ASSUME NEW o \in Thorough, NEW p \in Objects, p # o
  PROVE  Backing[o] \in Created(p) => Backing[o] \in ceph
  BY NamesAssumption DEF Created, Thorough, Unshared

\* Every step keeps RemovalInv.
LEMMA RemovalInvStep ==
  ASSUME Types, ClusterInv, RemovalInv, [Next]_vars, "cluster list" \notin Failing
  PROVE  RemovalInv'
  <1> SUFFICES ASSUME cleanup' => cluster' = "held", NEW o \in Thorough
               PROVE  /\ cr'[o] \in {"none", "unborn", "new", "gone"} =>
                           task'[o] = "idle" /\ Backing[o] \notin ceph'
                      /\ task'[o] = "release" => Backing[o] \notin ceph'
    BY Zenon DEF RemovalInv
  <1> DEFINE Inv == /\ cr[o] \in {"none", "unborn", "new", "gone"} =>
                         task[o] = "idle" /\ Backing[o] \notin ceph
                    /\ task[o] = "release" => Backing[o] \notin ceph
  <1>0. ASSUME cleanup' = cleanup, cluster' = "held" => cluster = "held"
        PROVE  Inv
    <2>1. cleanup => cleanup'
      BY <1>0, Zenon
    <2> QED
      BY <1>0, <2>1, Zenon DEF RemovalInv
  <1>o. o \in Objects /\ o \in Unshared /\ Kind[o] \in {"pool", "rns", "svg", "client"}
    BY Zenon DEF Thorough, Unshared
  <1>1. ASSUME NEW p \in Objects, ControllerStep(p)
        PROVE  Inv'
    <2>1. CASE AddFinalizerIfNotPresent(p)
      BY <2>1, <1>0, <1>o, Zenon DEF AddFinalizerIfNotPresent, Types
    <2>2. CASE ReleaseWithoutCluster(p)
      <3>1. CASE p = o
        <4>1. ~ClusterExists
          BY <2>2, Zenon DEF ReleaseWithoutCluster, Overlooked
        <4>2. cluster = "gone" /\ o \in ClusterDependents
          BY <4>1, <3>1, <2>2, <1>o, Zenon DEF ReleaseWithoutCluster, ClusterExists,
                                       ClusterDependents, Alive, Unlisted
        <4> QED
          BY <4>2, Zenon DEF ClusterInv
      <3> QED
        BY <3>1, <2>2, <1>0, <1>o, Zenon DEF ReleaseWithoutCluster, Types
    <2>3. CASE RemoveFinalizer(p)
      BY <2>3, <1>0, <1>o, Zenon DEF RemoveFinalizer, Types
    <2>4. CASE Begins(p)
      BY <2>4, <1>0, <1>o, Zenon DEF Begins, Types
    <2>8. CASE Accounts(p)
      BY <2>8, <1>0, <1>o, Zenon DEF Accounts, Types
    <2>5. CASE CreateInCeph(p)
      BY <2>5, <1>0, <1>o, CreatedElsewhere, Zenon DEF CreateInCeph, Types
    <2>6. CASE Decides(p)
      <3>1. SameName(o) \subseteq {o}
        BY <1>o, Zenon DEF SameName, SameKind, Unshared
      <3> QED
        BY <3>1, <2>6, <1>0, <1>o, Zenon DEF Decides, Types
    <2>7. CASE Destroys(p)
      BY <2>7, <1>0, <1>o, Zenon DEF Destroys, Types
    <2> QED
      BY <1>1, <2>1, <2>2, <2>3, <2>4, <2>5, <2>6, <2>7, <2>8, ControllerCases, Zenon
  <1>2. CASE ClusterStep \/ ClusterReconcileFails
    BY <1>2, <1>0, <1>o, Zenon DEF ClusterStep, ClusterReconcileFails, DeleteClusterStart,
                            RemoveFinalizers, CleanUp, Kept
  <1>3. CASE UserStep
    <2>1. ASSUME NEW p \in Objects, UserCreate(p) \/ UserDelete(p) \/ WriteData(p)
          PROVE  Inv'
      BY <2>1, <1>0, <1>o, Zenon DEF UserCreate, UserDelete, WriteData, Types
    <2>2. CASE UserDeleteCluster \/ \E r \in data : RemoveData(r)
      BY <2>2, <1>0, <1>o, Zenon DEF UserDeleteCluster, RemoveData
    <2> QED
      BY <1>3, <2>1, <2>2, Zenon DEF UserStep, Present
  <1>4. ASSUME NEW p \in Objects, ReconcileFails(p) \/ CacheSync(p)
        PROVE  Inv'
    BY <1>4, <1>0, <1>o, CreatedElsewhere, Zenon DEF ReconcileFails, CacheSync, Types
  <1>5. ASSUME NEW p \in Objects, OtherAccount(p)
        PROVE  Inv'
    BY <1>5, <1>0, <1>o, Zenon DEF OtherAccount, Same, Unshared
  <1>6. CASE HealthLost \/ HealthRestored \/ OperatorRestart \/ UNCHANGED vars
    BY <1>6, <1>0, <1>o, Zenon DEF HealthLost, HealthRestored, OperatorRestart, vars
  <1> QED
    BY <1>1, <1>2, <1>3, <1>4, <1>5, <1>6, Zenon DEF Next, FaultStep, Present

\* If the list of CephClusters can always be read, the finalizer of a pool,
\* namespace, group or client goes only after its removal in Ceph, unless the
\* cluster is being deleted with a cleanup policy; at every interleaving of
\* the creation and the deletion with failures and restarts.
THEOREM NothingLeftTheorem ==
  ASSUME "cluster list" \notin Failing
  PROVE  Spec => []NothingLeft
  <1>1. Init => RemovalInv
    BY Zenon DEF Init, RemovalInv, Thorough, Unshared
  <1>2. Types /\ ClusterInv /\ RemovalInv /\ [Next]_vars => RemovalInv'
    BY RemovalInvStep, Zenon
  <1>3. RemovalInv => NothingLeft
    BY Zenon DEF RemovalInv, NothingLeft, Thorough
  <1> QED
    BY <1>1, <1>2, <1>3, TypesInvariant, ClusterInvariant, PTL DEF Spec

-----------------------------------------------------------------------------
(* Mirror checkers.                                                         *)

\* What a checker watches is that of a CR which, if no other CR names it, has a
\* finalizer and is not about to lose it; a reconcile is of a CR with a
\* finalizer.
CheckerInv ==
  /\ \A c \in checkers : \E p \in Mirrored :
       /\ c[1] = Backing[p]
       /\ p \in Unshared =>
            /\ cr[p] \in {"held", "going"} /\ task[p] # "release"
            /\ Kind[p] = "pool" => task[p] \notin {"destroy", "zone"}
  /\ \A o \in Mirrored : task[o] # "idle" => cr[o] \in {"held", "going"}

\* Every step keeps CheckerInv.
LEMMA CheckerInvStep ==
  ASSUME Types, CheckerInv, [Next]_vars
  PROVE  CheckerInv'
  <1> USE DEF Types, CheckerInv
  <1>m. \A p \in Mirrored : p \in Objects /\ Kind[p] \in {"pool", "rns", "fs"}
    BY MirroredAssumption, Zenon
  <1>1. ASSUME NEW o \in Objects, ControllerStep(o)
        PROVE  CheckerInv'
    <2>1. CASE AddFinalizerIfNotPresent(o)
      BY <2>1, <1>m DEF AddFinalizerIfNotPresent
    <2>2. CASE ReleaseWithoutCluster(o)
      <3>1. cr[o] = "going" /\ cr' = cr /\ task' = [task EXCEPT ![o] = "release"]
        BY <2>2, Zenon DEF ReleaseWithoutCluster
      <3>2. \A c \in checkers' : c \in checkers /\ c[1] # Backing[o]
        BY <2>2, Zenon DEF ReleaseWithoutCluster, Unmonitored
      <3> QED
        BY <3>1, <3>2, <1>m
    <2>3. CASE RemoveFinalizer(o)
      BY <2>3, <1>m DEF RemoveFinalizer
    <2>4. CASE Begins(o)
      BY <2>4, <1>m DEF Begins
    <2>8. CASE Accounts(o)
      BY <2>8, <1>m DEF Accounts
    <2>5. CASE CreateInCeph(o)
      BY <2>5, <1>m DEF CreateInCeph, Monitored
    <2>6. CASE Decides(o)
      <3>1. o \in Unshared => SameName(o) \subseteq {o}
        BY Zenon DEF SameName, SameKind, Unshared
      <3>2. \A c \in checkers' : c \in checkers /\ (Kind[o] = "pool" => c[1] # Backing[o])
        BY <2>6, Zenon DEF Decides, Unmonitored
      <3>3. /\ cr[o] = "going" /\ cr' = cr
            /\ \A p \in Objects : p # o => task'[p] = task[p]
            /\ task'[o] = "destroy" \/ (task'[o] = "release" /\ Kind[o] \notin {"pool", "fs"})
        BY <2>6, Zenon DEF Decides
      <3>4. Kind[o] = "rns" /\ task'[o] = "release" => o \notin Unshared
        BY <2>6, <3>1, Zenon DEF Decides
      <3> QED
        BY <3>2, <3>3, <3>4, <1>m
    <2>7. CASE Destroys(o)
      <3>1. \A c \in checkers' : c \in checkers
        BY <2>7, Zenon DEF Destroys, Unmonitored
      <3>2. Kind[o] \in {"rns", "fs"} /\ task'[o] = "release" =>
              \A c \in checkers' : c[1] # Backing[o]
        BY <2>7, Zenon DEF Destroys, Unmonitored
      <3>3. /\ task[o] \in {"destroy", "zone"} /\ cr' = cr
            /\ task'[o] \in {"idle", "zone", "release"}
            /\ \A p \in Objects : p # o => task'[p] = task[p]
        BY <2>7, Zenon DEF Destroys
      <3> QED
        BY <3>1, <3>2, <3>3, <1>m
    <2> QED
      BY <1>1, <2>1, <2>2, <2>3, <2>4, <2>5, <2>6, <2>7, <2>8, ControllerCases, Zenon
  <1>2. CASE ClusterStep \/ ClusterReconcileFails
    BY <1>2, Zenon DEF ClusterStep, ClusterReconcileFails, DeleteClusterStart, RemoveFinalizers, Kept
  <1>3. CASE UserStep
    <2>1. ASSUME NEW o \in Objects, UserCreate(o) \/ UserDelete(o) \/ WriteData(o)
          PROVE  CheckerInv'
      BY <2>1, <1>m DEF UserCreate, UserDelete, WriteData
    <2>2. CASE UserDeleteCluster \/ \E r \in data : RemoveData(r)
      BY <2>2 DEF UserDeleteCluster, RemoveData
    <2> QED
      BY <1>3, <2>1, <2>2, Zenon DEF UserStep, Present
  <1>4. ASSUME NEW o \in Objects, ReconcileFails(o) \/ CacheSync(o) \/ OtherAccount(o)
        PROVE  CheckerInv'
    BY <1>4, <1>m DEF ReconcileFails, CacheSync, OtherAccount, Same
  <1>5. CASE HealthLost \/ HealthRestored \/ OperatorRestart \/ UNCHANGED vars
    BY <1>5, <1>m, Zenon DEF HealthLost, HealthRestored, OperatorRestart, vars
  <1> QED
    BY <1>1, <1>2, <1>3, <1>4, <1>5, Zenon DEF Next, FaultStep, Present

\* No mirror checker outlives the CR of the pool, namespace or filesystem it
\* watches, whether the CR is deleted in Ceph, released for want of a cluster
\* or deleted while its creation is under way; two CRs of one namespace
\* excepted.
THEOREM CheckersEndTheorem == Spec => []CheckersEnd
  <1>1. Init => CheckerInv
    BY MirroredAssumption, Zenon DEF Init, CheckerInv
  <1>2. CheckerInv => CheckersEnd
    BY MirroredAssumption DEF CheckerInv, CheckersEnd, Alive
  <1> QED
    BY <1>1, <1>2, CheckerInvStep, TypesInvariant, PTL DEF Spec

-----------------------------------------------------------------------------
(* Types.                                                                   *)

\* The types of the sets.
SetTypes ==
  /\ ready \subseteq Objects /\ lag \subseteq Objects /\ noted \subseteq Objects
  /\ ceph \subseteq InCeph /\ data \subseteq InCeph
  /\ checkers \subseteq InCeph \X Objects
  /\ protected \subseteq {"secret", "configmap"}

\* The types of the rest.
FlagTypes ==
  /\ healthy \in BOOLEAN /\ cleanup \in BOOLEAN
  /\ clusterTask \in {"idle", "secret", "configmap", "release"}

\* Every step keeps the sets in their types.
LEMMA SetTypesStep ==
  ASSUME SetTypes, [Next]_vars, Types
  PROVE  SetTypes'
  <1> USE DEF SetTypes
  <1>c. \A o \in Objects : Backing[o] \in InCeph /\ Pools[o] \in InCeph
    BY Zenon DEF InCeph
  <1>d. \A o \in Objects : Created(o) \subseteq InCeph
    BY <1>c DEF Created
  <1>1. ASSUME NEW o \in Objects, ControllerStep(o)
        PROVE  SetTypes'
    <2>1. CASE AddFinalizerIfNotPresent(o) \/ RemoveFinalizer(o)
      BY <2>1, Zenon DEF AddFinalizerIfNotPresent, RemoveFinalizer
    <2>2. CASE ReleaseWithoutCluster(o)
      BY <2>2, Zenon DEF ReleaseWithoutCluster, Unmonitored
    <2>3. CASE Begins(o) \/ Accounts(o)
      BY <2>3, Zenon DEF Begins, Accounts
    <2>4. CASE CreateInCeph(o)
      <3>1. Monitored(o) \subseteq InCeph \X Objects
        BY <1>c DEF Monitored
      <3> QED
        BY <2>4, <3>1, <1>d DEF CreateInCeph
    <2>5. CASE Decides(o) \/ Destroys(o)
      <3>1. checkers' \subseteq checkers
        BY <2>5, Zenon DEF Decides, Destroys, Unmonitored
      <3> QED
        BY <2>5, <3>1, Zenon DEF Decides, Destroys
    <2> QED
      BY <1>1, <2>1, <2>2, <2>3, <2>4, <2>5, ControllerCases, Zenon
  <1>2. CASE ClusterStep \/ ClusterReconcileFails
    BY <1>2, Zenon DEF ClusterStep, ClusterReconcileFails, DeleteClusterStart, RemoveFinalizers,
                       CleanUp, Kept
  <1>3. CASE UserStep
    <2>1. ASSUME NEW o \in Objects, UserCreate(o) \/ UserDelete(o) \/ WriteData(o)
          PROVE  SetTypes'
      BY <2>1, <1>c, Zenon DEF UserCreate, UserDelete, WriteData
    <2>2. CASE UserDeleteCluster \/ \E r \in data : RemoveData(r)
      BY <2>2, Zenon DEF UserDeleteCluster, RemoveData
    <2> QED
      BY <1>3, <2>1, <2>2, Zenon DEF UserStep, Present
  <1>4. ASSUME NEW o \in Objects, ReconcileFails(o) \/ CacheSync(o) \/ OtherAccount(o)
        PROVE  SetTypes'
    BY <1>4, <1>c, <1>d, Zenon DEF ReconcileFails, CacheSync, OtherAccount, Same
  <1>5. CASE HealthLost \/ HealthRestored \/ OperatorRestart \/ UNCHANGED vars
    BY <1>5, Zenon DEF HealthLost, HealthRestored, OperatorRestart, vars
  <1> QED
    BY <1>1, <1>2, <1>3, <1>4, <1>5, Zenon DEF Next, FaultStep, Present

\* Every step keeps the flags in their types.
LEMMA FlagTypesStep ==
  ASSUME FlagTypes, [Next]_vars, Types
  PROVE  FlagTypes'
  <1> USE DEF FlagTypes
  <1>1. ASSUME NEW o \in Objects, ControllerStep(o)
        PROVE  FlagTypes'
    BY <1>1, ControllerCases, Zenon DEF AddFinalizerIfNotPresent, ReleaseWithoutCluster,
         RemoveFinalizer, Begins, Accounts, CreateInCeph, Decides, Destroys
  <1>2. CASE ClusterStep \/ ClusterReconcileFails
    BY <1>2, Zenon DEF ClusterStep, ClusterReconcileFails, DeleteClusterStart, RemoveFinalizers, Kept
  <1>3. CASE UserStep
    BY <1>3, Zenon DEF UserStep, Present, UserCreate, UserDelete, WriteData, UserDeleteCluster,
         RemoveData
  <1>4. ASSUME NEW o \in Objects, ReconcileFails(o) \/ CacheSync(o) \/ OtherAccount(o)
        PROVE  FlagTypes'
    BY <1>4, Zenon DEF ReconcileFails, CacheSync, OtherAccount, Same
  <1>5. CASE HealthLost \/ HealthRestored \/ OperatorRestart \/ UNCHANGED vars
    BY <1>5, Zenon DEF HealthLost, HealthRestored, OperatorRestart, vars
  <1> QED
    BY <1>1, <1>2, <1>3, <1>4, <1>5, Zenon DEF Next, FaultStep, Present

\* The faults stay within their bound.
LEMMA EventsStep ==
  ASSUME events \in 0..MaxEvents, [Next]_vars, Types
  PROVE  events' \in 0..MaxEvents
  <1>1. events' = events \/ Event
    <2>1. ASSUME NEW o \in Objects, ControllerStep(o)
          PROVE  events' = events \/ Event
      <3>1. CASE ReleaseWithoutCluster(o)
        BY <3>1, Zenon DEF ReleaseWithoutCluster, Overlooked, Event
      <3> QED
        BY <2>1, <3>1, ControllerCases, Zenon DEF AddFinalizerIfNotPresent, RemoveFinalizer,
             Begins, Accounts, CreateInCeph, Decides, Destroys
    <2>4. CASE DeleteClusterStart
      BY <2>4, Zenon DEF DeleteClusterStart, Overlooked, Event
    <2>2. CASE RemoveFinalizers \/ UserStep \/ HealthRestored \/ UNCHANGED vars
      BY <2>2, Zenon DEF RemoveFinalizers, UserStep, UserCreate,
           UserDelete, WriteData, UserDeleteCluster, RemoveData, HealthRestored, vars
    <2>3. CASE FaultStep
      BY <2>3, Zenon DEF FaultStep, ReconcileFails, CacheSync, OtherAccount, ClusterReconcileFails,
           HealthLost, OperatorRestart
    <2> QED
      BY <2>1, <2>2, <2>3, <2>4, Zenon DEF Next, Present, ClusterStep
  <1> QED
    BY <1>1, EventsAssumption DEF Event

\* Every variable keeps its type: a foreign account exists in Ceph, and a
\* checker pairs what it watches with the CR it reports to.
THEOREM TypeTheorem == Spec => []TypeOK
  <1> DEFINE Inv == /\ Types /\ SetTypes /\ FlagTypes /\ AccountInv
                    /\ events \in 0..MaxEvents
  <1>1. Init => Inv
    <2> SUFFICES ASSUME Init
                 PROVE  Inv
      OBVIOUS
    <2>1. Types /\ SetTypes /\ AccountInv
      BY DEF Init, Types, SetTypes, AccountInv
    <2>2. FlagTypes
      BY Zenon DEF Init, FlagTypes
    <2>3. events \in 0..MaxEvents
      BY EventsAssumption DEF Init
    <2> QED
      BY <2>1, <2>2, <2>3
  <1>2. Inv /\ [Next]_vars => Inv'
    BY TypesStep, SetTypesStep, FlagTypesStep, AccountInvStep, EventsStep, Zenon
  <1>3. Inv => TypeOK
    BY Zenon DEF Types, SetTypes, FlagTypes, AccountInv, TypeOK
  <1> QED
    BY <1>1, <1>2, <1>3, PTL DEF Spec

=============================================================================
