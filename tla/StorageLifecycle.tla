-------------------------- MODULE StorageLifecycle --------------------------
(***************************************************************************)
(* The controllers of block and file storage: CephBlockPool,               *)
(* CephBlockPoolRadosNamespace, CephFilesystem,                            *)
(* CephFilesystemSubVolumeGroup, CephClient, CephNFS, CephNVMeOFGateway    *)
(* and the mirror daemons, and the deletion of the CephCluster.  A         *)
(* reconcile that deletes reads what depends on its resource, removes the  *)
(* resource in Ceph and removes the finalizer, one step each; one that     *)
(* creates reads what it needs, then creates in Ceph and sets the status.  *)
(***************************************************************************)
EXTENDS Resources

Rest == <<cluster, protected, healthy, cleanup, cr, lag, clusterTask, notes,
          events>>

-----------------------------------------------------------------------------
(* Plausible bugs, for the mutation tests.                                  *)

CreateNamespaceStart_SkipsExisting(o) ==
  /\ StartCreate(o, "rns")
  /\ Alive(Provider[o]) /\ Provider[o] \in ready
  /\ Backing[o] \notin ceph
  /\ BeginCreate(o)

DeletePoolStart_NoDependents(o) ==
  /\ StartDelete(o, "pool")
  /\ Backing[o] \notin ceph \intersect data
  /\ Goto(o, "destroy")
  /\ checkers' = Unmonitored(Backing[o])
  /\ UNCHANGED <<Rest, ready, ceph, data>>

DeleteNamespace_KeepsChecker(o) ==
  /\ task[o] = "destroy"
  /\ Kind[o] = "rns"
  /\ Goto(o, "release")
  /\ ceph' = ceph \ {Backing[o]}
  /\ UNCHANGED <<Rest, ready, data, checkers>>

FilesystemDependents_CROnly(o) == DependentsOf(o) # {}

DeleteClusterStart_NoDependents ==
  /\ cluster = "going"
  /\ clusterTask = "idle"
  /\ clusterTask' = "secret"
  /\ UNCHANGED <<healthy, cleanup, cr, ready, lag, task, checkers, cluster,
                 protected, ceph, data, notes, events>>

-----------------------------------------------------------------------------
(* Creation.                                                                *)

\* A pool needs nothing but the cluster; a namespace its pool CR Ready.
CreatePoolStart(o) == StartCreate(o, "pool") /\ BeginCreate(o)
CreatePool(o) == Kind[o] = "pool" /\ CreateInCeph(o)
CreateNamespaceStart(o) ==
  /\ StartCreate(o, "rns")
  /\ Alive(Provider[o]) /\ Provider[o] \in ready
  /\ BeginCreate(o)
CreateNamespace(o) == Kind[o] = "rns" /\ CreateInCeph(o)

\* A filesystem comes with its pools; a subvolume group needs its filesystem
\* CR Ready.
CreateFilesystemStart(o) == StartCreate(o, "fs") /\ BeginCreate(o)
CreateFilesystem(o) == Kind[o] = "fs" /\ CreateInCeph(o)
CreateGroupStart(o) ==
  /\ StartCreate(o, "svg")
  /\ Alive(Provider[o]) /\ Provider[o] \in ready
  /\ BeginCreate(o)
CreateGroup(o) == Kind[o] = "svg" /\ CreateInCeph(o)

CreateClientStart(o) == StartCreate(o, "client") /\ BeginCreate(o)
CreateClient(o) == Kind[o] = "client" /\ CreateInCeph(o)
\* NFS servers and gateways wait for their pool in Ceph, not for its CR.
CreateNFSStart(o) ==
  StartCreate(o, "nfs") /\ Backing[Provider[o]] \in ceph /\ BeginCreate(o)
CreateNFS(o) == Kind[o] = "nfs" /\ CreateInCeph(o)
CreateGatewayStart(o) ==
  StartCreate(o, "nvmeof") /\ Backing[Provider[o]] \in ceph /\ BeginCreate(o)
CreateGateway(o) == Kind[o] = "nvmeof" /\ CreateInCeph(o)
CreateRBDMirrorStart(o) == StartCreate(o, "rbdmirror") /\ BeginCreate(o)
CreateRBDMirror(o) == Kind[o] = "rbdmirror" /\ CreateInCeph(o)
CreateFSMirrorStart(o) == StartCreate(o, "fsmirror") /\ BeginCreate(o)
CreateFSMirror(o) == Kind[o] = "fsmirror" /\ CreateInCeph(o)

-----------------------------------------------------------------------------
(* Pools and RADOS namespaces.                                              *)

\* Deletion is blocked by namespace CRs, and by images in the pool itself;
\* images in a namespace count only for namespaces that have a CR, and NFS and
\* gateway CRs not at all.  The
\* mirror checker stops before the pool is touched.
DeletePoolStart(o) ==
  /\ StartDelete(o, "pool")
  /\ \A n \in DependentsOf(o) : Kind[n] # "rns"
  /\ Backing[o] \notin ceph \intersect data
  /\ Goto(o, "destroy")
  /\ checkers' = Unmonitored(Backing[o])
  /\ UNCHANGED <<Rest, ready, ceph, data>>

\* DeletePool looks for images once more.  What lies in the pool goes with it.
DeletePool(o) ==
  /\ task[o] = "destroy"
  /\ Kind[o] = "pool"
  /\ IF Backing[o] \in ceph \intersect data
       THEN Goto(o, "idle") /\ ceph' = ceph
       ELSE Goto(o, "release") /\ ceph' = ceph \ ({Backing[o]} \union Inside(o))
  /\ UNCHANGED <<Rest, ready, data, checkers>>

\* The CRs the operator's cache lists for the same namespace or group.
SameName(o) ==
  {p \in SameKind[o] : Backing[p] = Backing[o] /\ (Alive(p) \/ p \in lag)}

\* Only the last CR that names a namespace or group, the only one in the list,
\* deletes it; another one just gives up its finalizer.
LastOneDeletes(o) ==
  /\ IF SameName(o) \subseteq {o}
       THEN Backing[o] \notin ceph \intersect data /\ Goto(o, "destroy")
       ELSE Goto(o, "release")
  /\ UNCHANGED <<Rest, ready, ceph, data, checkers>>
DeleteNamespaceStart(o) == StartDelete(o, "rns") /\ LastOneDeletes(o)
DeleteGroupStart(o) == StartDelete(o, "svg") /\ LastOneDeletes(o)

\* Images or subvolumes inside make the removal fail; a namespace or group
\* that is not there is fine.  The checker of a namespace then stops.
DeleteEmpty(o) ==
  /\ task[o] = "destroy"
  /\ IF Backing[o] \in ceph \intersect data
       THEN Goto(o, "idle") /\ ceph' = ceph
       ELSE Goto(o, "release") /\ ceph' = ceph \ {Backing[o]}
  /\ UNCHANGED <<Rest, ready, data>>
DeleteNamespace(o) ==
  /\ Kind[o] = "rns"
  /\ DeleteEmpty(o)
  /\ checkers' = IF Backing[o] \in ceph \intersect data
                   THEN checkers ELSE Unmonitored(Backing[o])
DeleteGroup(o) == Kind[o] = "svg" /\ DeleteEmpty(o) /\ checkers' = checkers

-----------------------------------------------------------------------------
(* Filesystems.                                                             *)

\* Deletion is blocked by subvolumes in the filesystem, in a group or not,
\* and by subvolume group CRs.
FilesystemDependents(o) ==
  \/ DependentsOf(o) # {}
  \/ /\ Backing[o] \in ceph
     /\ ({Backing[o]} \union Inside(o)) \intersect ceph \intersect data # {}

\* When the query whether the filesystem exists fails, the list of dependents
\* is empty.
DeleteFilesystemStart(o) ==
  /\ StartDelete(o, "fs")
  /\ events' \in IF FilesystemDependents(o) THEN Overlooked({"fs get"})
                                            ELSE {events}
  /\ Goto(o, "destroy")
  /\ UNCHANGED <<cluster, protected, healthy, cleanup, cr, lag, clusterTask,
                 ready, ceph, data, checkers, notes>>

\* Failures to take the filesystem down and to remove it are only logged.
DeleteFilesystem(o) ==
  /\ task[o] = "destroy"
  /\ Kind[o] = "fs"
  /\ Goto(o, "release")
  /\ \/ ceph' = ceph \ ({Backing[o]} \union Inside(o)) /\ events' = events
     \/ "fs rm" \in Failing /\ Event /\ ceph' = ceph
  /\ checkers' = Unmonitored(Backing[o])
  /\ UNCHANGED <<cluster, protected, healthy, cleanup, cr, lag, clusterTask,
                 ready, data, notes>>

-----------------------------------------------------------------------------
(* Clients, NFS servers and NVMe-oF gateways have no dependents.            *)

BeginDelete(o) == Goto(o, "destroy") /\ UNCHANGED <<Rest, ready, ceph, data,
                                                     checkers>>
DeleteClientStart(o) == StartDelete(o, "client") /\ BeginDelete(o)
DeleteNFSStart(o) == StartDelete(o, "nfs") /\ BeginDelete(o)
DeleteGatewayStart(o) == StartDelete(o, "nvmeof") /\ BeginDelete(o)

Deleted(o) ==
  /\ task[o] = "destroy"
  /\ Goto(o, "release")
  /\ ceph' = ceph \ {Backing[o]}
  /\ UNCHANGED <<Rest, ready, data, checkers>>
DeleteClient(o) == Kind[o] = "client" /\ Deleted(o)

\* A failure to remove an NFS server from the grace database, or a gateway,
\* is only logged.
NotDeleted(o, call) ==
  /\ call \in Failing
  /\ Event
  /\ task[o] = "destroy"
  /\ Goto(o, "release")
  /\ UNCHANGED <<cluster, protected, healthy, cleanup, cr, lag, clusterTask,
                 ready, ceph, data, checkers, notes>>
DeleteNFS(o) ==
  Kind[o] = "nfs" /\ (Deleted(o) \/ NotDeleted(o, "grace remove"))
DeleteGateway(o) ==
  Kind[o] = "nvmeof" /\ (Deleted(o) \/ NotDeleted(o, "nvme-gw delete"))

-----------------------------------------------------------------------------
(* The CephCluster.                                                         *)

Kept == <<healthy, cleanup, cr, ready, lag, task, checkers, noted>>

\* Blocked while any other CR exists, except of the kinds that are not in
\* cephClusterDependentListKinds; then, since the cleanup policy does not
\* allow uninstalling with volumes, while there are volumes.  With a cleanup
\* policy the mon secret is read first; when that fails, the volumes are not
\* looked for.
Unlisted == {"nvmeof", "account"}
ClusterDependents == {o \in Objects : Alive(o) /\ Kind[o] \notin Unlisted}
Volumes == {Backing[o] : o \in {x \in Objects : Kind[x] \in {"pool", "fs"}}}

DeleteClusterStart ==
  /\ cluster = "going"
  /\ clusterTask = "idle"
  /\ ClusterDependents = {}
  /\ events' \in IF Volumes \intersect data = {} THEN {events}
                 ELSE IF cleanup THEN Overlooked({"mon secret"}) ELSE {}
  /\ clusterTask' = "secret"
  /\ UNCHANGED <<Kept, cluster, protected, ceph, data, foreign>>

\* Once the daemons are gone, the cleanup jobs that this reconcile or an
\* earlier one set off wipe the hosts, if no restart or failure ended them.
\* The policy is the user's consent to the loss of all but volumes.
CleanUp ==
  \/ cleanup /\ ceph' = {} /\ data' = data \intersect Volumes /\ foreign' = {}
  \/ UNCHANGED <<ceph, data, foreign>>

\* removeFinalizers: the mon Secret, the mon endpoints ConfigMap, the CR.
RemoveFinalizers ==
  \/ /\ clusterTask = "secret"
     /\ clusterTask' = "configmap"
     /\ protected' = protected \ {"secret"}
     /\ UNCHANGED <<Kept, cluster, ceph, data, foreign, events>>
  \/ /\ clusterTask = "configmap"
     /\ clusterTask' = "release"
     /\ protected' = protected \ {"configmap"}
     /\ UNCHANGED <<Kept, cluster, ceph, data, foreign, events>>
  \/ /\ clusterTask = "release"
     /\ clusterTask' = "idle"
     /\ cluster' = "gone"
     /\ CleanUp
     /\ UNCHANGED <<Kept, protected, events>>

ClusterReconcileFails ==
  /\ Event
  /\ clusterTask # "idle"
  /\ clusterTask' = "idle"
  /\ UNCHANGED <<Kept, cluster, protected, ceph, data, foreign>>

\* One controller per kind.
PoolController(o) ==
  /\ Kind[o] = "pool"
  /\ CreatePoolStart(o) \/ CreatePool(o)
     \/ DeletePoolStart(o) \/ DeletePool(o)
NamespaceController(o) ==
  /\ Kind[o] = "rns"
  /\ CreateNamespaceStart(o) \/ CreateNamespace(o)
     \/ DeleteNamespaceStart(o) \/ DeleteNamespace(o)
FilesystemController(o) ==
  /\ Kind[o] = "fs"
  /\ CreateFilesystemStart(o) \/ CreateFilesystem(o)
     \/ DeleteFilesystemStart(o) \/ DeleteFilesystem(o)
GroupController(o) ==
  /\ Kind[o] = "svg"
  /\ CreateGroupStart(o) \/ CreateGroup(o)
     \/ DeleteGroupStart(o) \/ DeleteGroup(o)
ClientController(o) ==
  /\ Kind[o] = "client"
  /\ CreateClientStart(o) \/ CreateClient(o)
     \/ DeleteClientStart(o) \/ DeleteClient(o)
NFSController(o) ==
  /\ Kind[o] = "nfs"
  /\ CreateNFSStart(o) \/ CreateNFS(o)
     \/ DeleteNFSStart(o) \/ DeleteNFS(o)
GatewayController(o) ==
  /\ Kind[o] = "nvmeof"
  /\ CreateGatewayStart(o) \/ CreateGateway(o)
     \/ DeleteGatewayStart(o) \/ DeleteGateway(o)
RBDMirrorController(o) ==
  /\ Kind[o] = "rbdmirror"
  /\ CreateRBDMirrorStart(o) \/ CreateRBDMirror(o)
FSMirrorController(o) ==
  /\ Kind[o] = "fsmirror"
  /\ CreateFSMirrorStart(o) \/ CreateFSMirror(o)

StorageStep(o) ==
  \/ PoolController(o) \/ NamespaceController(o)
  \/ FilesystemController(o) \/ GroupController(o)
  \/ ClientController(o) \/ NFSController(o) \/ GatewayController(o)
  \/ RBDMirrorController(o) \/ FSMirrorController(o)

ClusterStep == DeleteClusterStart \/ RemoveFinalizers
=============================================================================
