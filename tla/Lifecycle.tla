------------------------------ MODULE Lifecycle ------------------------------
(***************************************************************************)
(* All the resource controllers together with the deletion of the          *)
(* CephCluster, the user and the faults; and what they promise: no data is *)
(* destroyed behind the user's back, what is depended on goes last, and    *)
(* set-up and teardown complete.                                           *)
(***************************************************************************)
EXTENDS StorageLifecycle, ObjectLifecycle

Present == {o \in Objects : cr[o] # "none"}

\* What a controller does with one resource.
ControllerStep(o) ==
  \/ AddFinalizerIfNotPresent(o)
  \/ StorageStep(o)
  \/ ObjectStep(o)
  \/ ReleaseWithoutCluster(o)
  \/ RemoveFinalizer(o)

UserStep ==
  \/ \E o \in Present : UserCreate(o) \/ UserDelete(o) \/ WriteData(o)
  \/ \E r \in data : RemoveData(r)
  \/ UserDeleteCluster

FaultStep ==
  \/ \E o \in Present : ReconcileFails(o) \/ CacheSync(o)
  \/ \E o \in Present : OtherAccount(o)
  \/ ClusterReconcileFails
  \/ HealthLost
  \/ OperatorRestart

Next ==
  \/ \E o \in Present : ControllerStep(o)
  \/ ClusterStep
  \/ UserStep
  \/ FaultStep
  \/ HealthRestored

Spec == Init /\ [][Next]_vars

\* The work queues retry what is not done, and Ceph comes back.
OperatorStep ==
  \/ \E o \in Present : ControllerStep(o)
  \/ ClusterStep
  \/ HealthRestored

FairSpec == Spec /\ WF_vars(OperatorStep)

-----------------------------------------------------------------------------
Stores == {o \in Objects : Kind[o] = "store"}
RealmKept(o) ==
  Alive(Provider[Provider[o]]) /\ Alive(Provider[Provider[Provider[o]]])

\* Data the user has stored and not removed is still in Ceph: no deletion of
\* a pool, namespace, filesystem, group, store or zone, in any order, with
\* restarts and failures, destroys it; but for a zone whose store lost the
\* CRs of its zone group or realm, for which DeleteStoreStart looks for no
\* buckets.
DataKept ==
  \A r \in data \ ceph :
    \E o \in Stores : Pools[o] = r /\ IsMultisite(o) /\ ~RealmKept(o)

\* Data the user has stored and not removed is still in Ceph, without any
\* exception: what the dependents checks of the controllers are there for.
NoDataLost == data \subseteq ceph

\* While there is a CephCluster, what a Ready resource lies in outlives it:
\* pools outlive namespaces, filesystems their groups, stores their users.
\* Realms and zone groups have no finalizer, a zone without its zone group
\* does not wait for its stores, nor a store without its multisite CRs for its
\* users, stores do not wait for topics and accounts, nor pools for the NFS
\* servers and gateways that keep their state in them.
ProvidersLast ==
  ClusterExists =>
    \A o \in ready :
      \/ Provider[o] = NoObject
      \/ Alive(Provider[o])
      \/ Kind[Provider[o]] \in Unfinalized
      \/ Kind[o] \in {"topic", "account", "nfs", "nvmeof"}
      \/ Kind[o] = "store" /\ ~Alive(Provider[Provider[o]])
      \/ Kind[o] = "user" /\ ~MultisiteContext(Provider[o])

Unshared == {o \in Objects : \A p \in Objects \ {o} : Backing[p] # Backing[o]}

\* A mirror checker does not outlive the CR of what it watches:
\* cancelMirrorMonitoring precedes every removal of a finalizer.  (Several CRs
\* of one namespace may leave its checker running: one that is not the last in
\* the list does not stop it, and the last one may have no finalizer yet.)
CheckersEnd ==
  \A c \in checkers : \E o \in Objects :
    Backing[o] = c[1] /\ (Alive(o) \/ o \notin Unshared)

\* A removed CR leaves nothing behind in a cluster that is kept: whatever
\* failed or was interrupted, the finalizer of a pool, namespace, group,
\* or client went only after its removal in Ceph.  (The other kinds may leave
\* theirs: their removal is best effort.)
NothingLeft ==
  \A o \in Unshared :
    /\ cr[o] = "gone"
    /\ Kind[o] \in {"pool", "rns", "svg", "client"}
    /\ ~(cleanup /\ cluster # "held")
    => Backing[o] \notin ceph

\* The mon Secret and ConfigMap, from which the cluster could be restored,
\* lose their protection only when the CephCluster is being deleted and no
\* other CR of a listed kind is left.
ClusterLast ==
  protected # {"secret", "configmap"} =>
    cluster # "held" /\ \A o \in Objects : Alive(o) => Kind[o] \in Unlisted

\* An account that someone else created before the controller looked for it is
\* neither adopted nor deleted with the CR, whatever fails or restarts between
\* GetAccount, the note of the ID in the status and CreateAccount: only what
\* was not there is noted, and only what is noted is modified or deleted.
\* (One that someone else creates after GetAccount found none is not kept:
\* CreateAccount fails, the next reconcile finds the ID in the status, adopts
\* the account and deletes it with the CR.)
ForeignKept ==
  \A o \in Objects : Backing[o] \in foreign =>
    o \notin ready /\ task[o] \notin {"modify", "create", "destroy"}

\* Topics that are deleted before they have a status: deleteTopic panics.
Stuck ==
  {o \in Objects : Kind[o] = "topic" /\ cr[o] = "going" /\ o \notin noted}

\* Deleting the CephCluster and every CR, in any order, ends with all of them
\* gone once the data is removed: no controllers wait for one another for
\* ever, and nothing a restart or a failure leaves half done blocks, but for
\* Stuck topics.
TeardownCompletes ==
  (/\ cluster # "held"
   /\ \A o \in Present : cr[o] \notin {"new", "held"}
   /\ data = {}
   /\ Stuck = {})
  ~> (cluster = "gone" /\ \A o \in Objects : ~Alive(o))

\* Accounts that exist and whose ID is not in the status of their CR.
Refused ==
  {o \in Objects : Kind[o] = "account" /\ Backing[o] \in ceph /\ o \notin noted}

Wanted == cluster = "held" /\ \A o \in Present : cr[o] \in {"new", "held"}

\* When every CR is created and none is deleted, all become Ready, whichever
\* controller comes first and whatever fails on the way: NFS servers and
\* gateways wait for their pool, namespaces, groups and users for the Ready
\* status of theirs.  Refused accounts are the exception.
SetupCompletes ==
  Wanted ~>
    (~Wanted \/ \A o \in Present \ Refused : o \in ready)
=============================================================================
