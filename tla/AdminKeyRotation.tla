-------------------------- MODULE AdminKeyRotation --------------------------
(***************************************************************************)
(* Rotation of the Ceph admin key and of the key the mons share            *)
(* (pkg/operator/ceph/cluster/cephx.go and cluster.go, mon/mon.go).        *)
(*                                                                         *)
(* The reconcile of the CephCluster loads the admin key from the           *)
(* rook-ceph-mon Secret, recovers a rotation a former reconcile did not    *)
(* finish, starts the mons and rotates the keys the spec asks for.  A      *)
(* change of the spec cancels the reconcile and starts another one, but a  *)
(* rotation runs on a context of its own: it outlives its manager and      *)
(* overlaps with the next reconcile.  The operator may crash between any   *)
(* two steps, and any call may fail, or take effect and yet fail.          *)
(***************************************************************************)
EXTENDS Naturals

CONSTANTS
    Clusters,   \* settings a cluster may have: "aes256k", "quiet"
    MaxGen,     \* bound on the generation the user asks for
    MaxEvents   \* bound on failed calls, crashes and unrelated spec changes

ASSUME ClustersAssumption == Clusters \subseteq SUBSET {"aes256k", "quiet"}
ASSUME BoundsAssumption == MaxGen \in Nat /\ MaxEvents \in Nat

None == 0   \* keys are numbered from 1

VARIABLES
    \* Kubernetes
    settings,       \* "aes256k": the Ceph version can rotate the mon key;
                    \* "quiet": no reload happens to come during a rotation
    specGen,        \* spec.security.cephx.daemon.keyGeneration
    adminGen,       \* status.cephx.admin.keyGeneration
    monGen,         \* status.cephx.mon.keyGeneration
    accessSecret,   \* admin key in the rook-ceph-mon Secret
    monSecret,      \* mon key in the rook-ceph-mon Secret
    rotatorSecret,  \* key in the rook-ceph-admin-rotator-keyring Secret
    \* Ceph
    adminKey,       \* client.admin
    rotator,        \* client.admin-rotator
    rotators,       \* number of rotator users created so far
    monKey,         \* mon.
    \* the operator
    keyringFile,    \* admin key in the keyring file ceph commands use
    sighup,         \* a manager reload is due
    pc, key, mon, rk, \* per reconcile: position, clusterInfo, rotator keyring
    todo,           \* keys the current reconcile found due for rotation
    events

kube == <<settings, specGen, adminGen, monGen, accessSecret, monSecret, rotatorSecret>>
ceph == <<adminKey, rotator, rotators, monKey>>
vars == <<kube, ceph, keyringFile, sighup, pc, key, mon, rk, todo, events>>

(* The reconcile of the current manager, and a rotation that outlived the
   manager it was started by. *)
Routines == {"cur", "old"}

(* Positions inside the routines that hold the rotation lock and run on
   context.Background(). *)
Rotating == {"generate", "store", "rotate", "write", "access", "remove",
             "forget", "status", "list"}
Reconciling == {"load", "recover", "claim", "validate", "mons", "start", "read",
                "admin", "mon", "rotateMon", "accessMon", "statusMon", "rest", "idle"}

Keys == Nat

TypeOK ==
    /\ settings \in Clusters
    /\ specGen \in Nat /\ adminGen \in Nat /\ monGen \in Nat
    /\ accessSecret \in Keys /\ monSecret \in Keys /\ rotatorSecret \in Keys
    /\ adminKey \in Keys /\ monKey \in Keys
    /\ rotators \in Nat /\ rotator \in Keys
    /\ keyringFile \in Keys
    /\ sighup \in BOOLEAN
    /\ pc \in [Routines -> Rotating \cup Reconciling \cup {"none"}]
    /\ pc["cur"] # "none" /\ pc["old"] \notin Reconciling
    /\ key \in [Routines -> Keys]
    /\ mon \in [Routines -> Keys]
    /\ rk \in [Routines -> Keys]
    /\ todo \subseteq {"admin", "mon"}
    /\ events \in 0..MaxEvents

-----------------------------------------------------------------------------
(* How a routine goes on. *)

Goto(r, l) == pc' = [pc EXCEPT ![r] = l]

Local == <<key, mon, rk>>

(* An error is returned: the request is requeued, unless its manager is
   gone; the deferred call releases the lock. *)
Return(r) ==
    /\ Goto(r, IF r = "cur" THEN "load" ELSE "none")
    /\ key' = [key EXCEPT ![r] = None]
    /\ mon' = [mon EXCEPT ![r] = None]
    /\ rk' = [rk EXCEPT ![r] = None]

Event == events < MaxEvents /\ events' = events + 1

Error(r) == Event /\ Return(r)

(* The answer to a call that took effect: it arrives, or it is lost. *)
Answered(r, l) == \/ Goto(r, l) /\ UNCHANGED <<Local, events>>
                  \/ Error(r)

(* A ceph command run as client.admin uses the keyring file. *)
AdminWorks == keyringFile = adminKey

(* A call fails without effect. *)
CallFails(r) ==
    /\ pc[r] \notin {"none", "idle", "load"}
    /\ Error(r)
    /\ UNCHANGED <<kube, ceph, keyringFile, sighup, todo>>

-----------------------------------------------------------------------------
(* Before the mons are up. *)

LoadClusterInfo(r) ==
    /\ pc[r] = "load"
    /\ key' = [key EXCEPT ![r] = accessSecret]
    /\ mon' = [mon EXCEPT ![r] = monSecret]
    /\ Goto(r, "recover")
    /\ UNCHANGED <<kube, ceph, keyringFile, sighup, rk, todo, events>>

adminRotationInProgress == \E r \in Routines : pc[r] \in Rotating

\* bug: the lock is a flag nobody looks at
claimAdminRotationLock_Free == TRUE

claimAdminRotationLock == ~adminRotationInProgress

(* No admin-rotator Secret: nothing to recover. *)
recoverNothing(r) ==
    /\ pc[r] = "recover" /\ rotatorSecret = None
    /\ Goto(r, "validate")
    /\ UNCHANGED <<kube, ceph, keyringFile, sighup, Local, todo, events>>

recoverReadRotator(r) ==
    /\ pc[r] = "recover" /\ rotatorSecret # None
    /\ rk' = [rk EXCEPT ![r] = rotatorSecret]
    /\ Goto(r, "claim")
    /\ UNCHANGED <<kube, ceph, keyringFile, sighup, key, mon, todo, events>>

(* The connection config is written with the admin key that was loaded. *)
recoverPriorAdminCephxKeyRotation(r) ==
    /\ pc[r] = "claim"
    /\ IF claimAdminRotationLock
         THEN /\ Goto(r, "list")
              /\ keyringFile' = key[r]
              /\ UNCHANGED Local
         ELSE Return(r) /\ UNCHANGED keyringFile
    /\ UNCHANGED <<kube, ceph, sighup, todo, events>>

\* bug: the corner case of an interrupted clean-up is forgotten
recoverFrom_NoCorner(r) ==
    /\ pc[r] = "list"
    /\ Goto(r, "rotate")
    /\ UNCHANGED <<kube, ceph, keyringFile, sighup, Local, todo, events>>

\* bug: a list that fails counts as one without the rotator
recoverFrom_NoError(r) ==
    /\ pc[r] = "list"
    /\ Goto(r, IF AdminWorks /\ rotator # None THEN "rotate" ELSE "forget")
    /\ UNCHANGED <<kube, ceph, keyringFile, sighup, Local, todo, events>>

(* `ceph auth ls` as client.admin: if it works and the rotator user is gone,
   only the clean-up is left; otherwise (a failure is not looked at) the
   rotation starts again with the rotator of the Secret. *)
recoverFrom(r) ==
    /\ pc[r] = "list"
    /\ \/ AdminWorks /\ rotator = None /\ Goto(r, "forget") /\ UNCHANGED events
       \/ (AdminWorks => rotator # None) /\ Goto(r, "rotate") /\ UNCHANGED events
       \/ Event /\ Goto(r, "rotate")
    /\ UNCHANGED <<kube, ceph, keyringFile, sighup, Local, todo>>

(* Before it compares versions, the controller loads the cluster info once
   more and writes the connection config. *)
validateCephVersion(r) ==
    /\ pc[r] = "validate"
    /\ keyringFile' = accessSecret
    /\ Goto(r, "mons")
    /\ UNCHANGED <<kube, ceph, sighup, Local, todo, events>>

initClusterInfo(r) ==
    /\ pc[r] = "mons"
    /\ key' = [key EXCEPT ![r] = accessSecret]
    /\ mon' = [mon EXCEPT ![r] = monSecret]
    /\ Goto(r, "start")
    /\ UNCHANGED <<kube, ceph, keyringFile, sighup, rk, todo, events>>

(* The mons are started, which takes a while. *)
startMons(r) ==
    /\ pc[r] = "start"
    /\ keyringFile' = key[r]
    /\ Goto(r, "read")
    /\ UNCHANGED <<kube, ceph, sighup, Local, todo, events>>

-----------------------------------------------------------------------------
(* Once the mons are up. *)

(* The policy is KeyGeneration and the cluster's keys are initialised. *)
ShouldRotateCephxKeys(generation) == specGen > generation

(* The CephCluster is read once, for both rotations. *)
readCephCluster(r) ==
    /\ pc[r] = "read"
    /\ todo' = {k \in {"admin", "mon"} :
                  ShouldRotateCephxKeys(IF k = "admin" THEN adminGen ELSE monGen)}
    /\ Goto(r, "admin")
    /\ UNCHANGED <<kube, ceph, keyringFile, sighup, Local, events>>

rotateAdminCephxKey(r) ==
    /\ pc[r] = "admin"
    /\ IF "admin" \notin todo
         THEN Goto(r, "mon") /\ UNCHANGED Local
         ELSE IF claimAdminRotationLock
                THEN Goto(r, "generate") /\ UNCHANGED Local
                ELSE Return(r)
    /\ todo' = todo \ {"admin"}
    /\ UNCHANGED <<kube, ceph, keyringFile, sighup, events>>

(* `ceph auth get-or-create-key client.admin-rotator` as client.admin. *)
GenerateKey(r) ==
    /\ pc[r] = "generate"
    /\ IF AdminWorks
         THEN /\ IF rotator = None
                   THEN rotators' = rotators + 1 /\ rotator' = rotators + 1
                   ELSE UNCHANGED <<rotators, rotator>>
              /\ \/ /\ Goto(r, "store")
                    /\ rk' = [rk EXCEPT ![r] = rotator']
                    /\ UNCHANGED <<key, mon, events>>
                 \/ Error(r)
         ELSE Return(r) /\ UNCHANGED <<rotators, rotator, events>>
    /\ UNCHANGED <<kube, adminKey, monKey, keyringFile, sighup, todo>>

CreateOrUpdate(r) ==
    /\ pc[r] = "store"
    /\ rotatorSecret' = rk[r]
    /\ Answered(r, "rotate")
    /\ UNCHANGED <<settings, specGen, adminGen, monGen, accessSecret, monSecret>>
    /\ UNCHANGED <<ceph, keyringFile, sighup, todo>>

(* As client.admin-rotator: `ceph auth ls` to see that it has permissions,
   then `ceph auth rotate client.admin`. *)
AuthRotate(r) ==
    /\ pc[r] = "rotate"
    /\ IF rotator # None /\ rk[r] = rotator
         THEN /\ adminKey' = adminKey + 1
              /\ \/ /\ Goto(r, "write")
                    /\ key' = [key EXCEPT ![r] = adminKey']
                    /\ UNCHANGED <<mon, rk, events>>
                 \/ Error(r)
         ELSE Return(r) /\ UNCHANGED <<adminKey, events>>
    /\ UNCHANGED <<kube, rotator, rotators, monKey, keyringFile, sighup, todo>>

\* bug: the rotator is removed before the new key is stored
WriteConnectionConfig_RemovesFirst(r) ==
    /\ pc[r] = "write"
    /\ keyringFile' = key[r]
    /\ Goto(r, "remove")
    /\ UNCHANGED <<kube, ceph, sighup, Local, todo, events>>

(* `ceph auth ls` with the new key, which is then written to disk. *)
WriteConnectionConfig(r) ==
    /\ pc[r] = "write"
    /\ IF key[r] = adminKey
         THEN /\ keyringFile' = key[r]
              /\ Goto(r, "access") /\ UNCHANGED Local
         ELSE Return(r) /\ UNCHANGED keyringFile
    /\ UNCHANGED <<kube, ceph, sighup, todo, events>>

(* Both keys of the Secret are overwritten with those of the cluster info. *)
UpdateClusterAccessSecret(r) ==
    /\ accessSecret' = key[r]
    /\ monSecret' = mon[r]
    /\ UNCHANGED <<settings, specGen, adminGen, monGen, rotatorSecret>>

storeAdminKey(r) ==
    /\ pc[r] = "access"
    /\ UpdateClusterAccessSecret(r)
    /\ Answered(r, "remove")
    /\ UNCHANGED <<ceph, keyringFile, sighup, todo>>

(* `ceph auth rm client.admin-rotator` as client.admin. *)
AuthDelete(r) ==
    /\ pc[r] = "remove"
    /\ IF AdminWorks
         THEN rotator' = None /\ Answered(r, "forget")
         ELSE Return(r) /\ UNCHANGED <<rotator, events>>
    /\ UNCHANGED <<kube, adminKey, rotators, monKey, keyringFile, sighup, todo>>

(* The Secret is deleted; if that fails there is a warning only. *)
deleteRotatorSecret(r) ==
    /\ pc[r] = "forget"
    /\ \/ rotatorSecret' = None /\ UNCHANGED events
       \/ Event /\ UNCHANGED rotatorSecret
    /\ Goto(r, "status")
    /\ UNCHANGED <<settings, specGen, adminGen, monGen, accessSecret, monSecret>>
    /\ UNCHANGED <<ceph, keyringFile, sighup, Local, todo>>

(* The status after a rotation, from the spec as it is now. *)
UpdatedCephxStatus(generation) ==
    IF specGen > generation + 1 THEN specGen ELSE generation + 1

(* The status is published, the manager reloaded and an error returned. *)
finalizeAdminKeyRotation(r) ==
    /\ pc[r] = "status"
    /\ adminGen' = UpdatedCephxStatus(adminGen)
    /\ Return(r)
    /\ \/ sighup' = TRUE /\ UNCHANGED events
       \/ Event /\ UNCHANGED sighup
    /\ UNCHANGED <<settings, specGen, monGen, accessSecret, monSecret, rotatorSecret>>
    /\ UNCHANGED <<ceph, keyringFile, todo>>

-----------------------------------------------------------------------------
(* The key of the mons. *)

RotateMonCephxKeys(r) ==
    /\ pc[r] = "mon"
    /\ IF "mon" \in todo /\ "aes256k" \in settings
         THEN Goto(r, "rotateMon") /\ UNCHANGED Local
         ELSE Goto(r, "rest") /\ UNCHANGED Local
    /\ todo' = {}
    /\ UNCHANGED <<kube, ceph, keyringFile, sighup, events>>

rotateMonKey(r) ==
    /\ pc[r] = "rotateMon"
    /\ IF AdminWorks
         THEN /\ monKey' = monKey + 1
              /\ \/ /\ Goto(r, "accessMon")
                    /\ mon' = [mon EXCEPT ![r] = monKey']
                    /\ UNCHANGED <<key, rk, events>>
                 \/ Error(r)
         ELSE Return(r) /\ UNCHANGED <<monKey, events>>
    /\ UNCHANGED <<kube, adminKey, rotator, rotators, keyringFile, sighup, todo>>

\* bug: only the admin key of the cluster info is stored
storeMonKey_AdminOnly(r) ==
    /\ pc[r] = "accessMon"
    /\ accessSecret' = key[r]
    /\ Answered(r, "statusMon")
    /\ UNCHANGED <<settings, specGen, adminGen, monGen, monSecret, rotatorSecret>>
    /\ UNCHANGED <<ceph, keyringFile, sighup, todo>>

storeMonKey(r) ==
    /\ pc[r] = "accessMon"
    /\ UpdateClusterAccessSecret(r)
    /\ Answered(r, "statusMon")
    /\ UNCHANGED <<ceph, keyringFile, sighup, todo>>

(* The reconcile then returns an error, to be run again. *)
UpdateMonCephxStatus(r) ==
    /\ pc[r] = "statusMon"
    /\ monGen' = UpdatedCephxStatus(monGen)
    /\ Return(r)
    /\ UNCHANGED <<settings, specGen, adminGen, accessSecret, monSecret, rotatorSecret>>
    /\ UNCHANGED <<ceph, keyringFile, sighup, todo, events>>

(* The rest of the reconcile runs ceph commands as client.admin. *)
finishReconcile(r) ==
    /\ pc[r] = "rest"
    /\ IF AdminWorks
         THEN /\ Goto(r, "idle")
              /\ key' = [key EXCEPT ![r] = None]
              /\ mon' = [mon EXCEPT ![r] = None]
              /\ UNCHANGED rk
         ELSE Return(r)
    /\ UNCHANGED <<kube, ceph, keyringFile, sighup, todo, events>>

-----------------------------------------------------------------------------
(* The environment. *)

(* The user asks for another generation; the predicate of the CephCluster
   reloads the manager. *)
RaiseGeneration ==
    /\ specGen < MaxGen
    /\ specGen' = specGen + 1
    /\ sighup' = TRUE
    /\ UNCHANGED <<settings, adminGen, monGen, accessSecret, monSecret, rotatorSecret>>
    /\ UNCHANGED <<ceph, keyringFile, pc, key, mon, rk, todo, events>>

ChangeSpec ==
    /\ Event
    /\ sighup' = TRUE
    /\ UNCHANGED <<kube, ceph, keyringFile, pc, key, mon, rk, todo>>

\* bug: the whole reconcile runs on the background context
runCRDManager_KeepsAll ==
    /\ sighup
    /\ sighup' = FALSE
    /\ pc' = [cur |-> "load", old |-> pc["cur"]]
    /\ key' = [cur |-> None, old |-> key["cur"]]
    /\ mon' = [cur |-> None, old |-> mon["cur"]]
    /\ rk' = [cur |-> None, old |-> rk["cur"]]
    /\ todo' = {}
    /\ UNCHANGED <<kube, ceph, keyringFile, events>>

(* The context of the manager is cancelled: the reconcile under way ends,
   but a rotation goes on. *)
runCRDManager ==
    /\ sighup
    /\ "quiet" \in settings => ~adminRotationInProgress
    /\ sighup' = FALSE
    /\ LET kept == pc["cur"] \in Rotating
           Moved(f, start) == [r \in Routines |-> IF r = "cur" THEN start
                                                  ELSE IF kept THEN f["cur"] ELSE f["old"]]
       IN /\ pc' = Moved(pc, "load")
          /\ key' = Moved(key, None)
          /\ mon' = Moved(mon, None)
          /\ rk' = Moved(rk, None)
    /\ todo' = {}
    /\ UNCHANGED <<kube, ceph, keyringFile, events>>

(* The operator is restarted; its emptyDir may be a new one. *)
Crash ==
    /\ Event
    /\ keyringFile' \in {keyringFile, None}
    /\ pc' = [r \in Routines |-> IF r = "cur" THEN "load" ELSE "none"]
    /\ key' = [r \in Routines |-> None]
    /\ mon' = [r \in Routines |-> None]
    /\ rk' = [r \in Routines |-> None]
    /\ todo' = {}
    /\ sighup' = FALSE
    /\ UNCHANGED <<kube, ceph>>

-----------------------------------------------------------------------------
Init ==
    /\ settings \in Clusters
    /\ specGen = 1 /\ adminGen = 1 /\ monGen = 1
    /\ accessSecret = 1 /\ monSecret = 1 /\ rotatorSecret = None
    /\ adminKey = 1 /\ rotator = None /\ rotators = 0 /\ monKey = 1
    /\ keyringFile = None
    /\ sighup = FALSE
    /\ pc = [r \in Routines |-> IF r = "cur" THEN "load" ELSE "none"]
    /\ key = [r \in Routines |-> None]
    /\ mon = [r \in Routines |-> None]
    /\ rk = [r \in Routines |-> None]
    /\ todo = {}
    /\ events = 0

Reconcile(r) ==
    \/ LoadClusterInfo(r) \/ recoverNothing(r) \/ recoverReadRotator(r)
    \/ recoverPriorAdminCephxKeyRotation(r) \/ validateCephVersion(r)
    \/ initClusterInfo(r) \/ startMons(r) \/ readCephCluster(r)
    \/ rotateAdminCephxKey(r) \/ RotateMonCephxKeys(r) \/ rotateMonKey(r)
    \/ storeMonKey(r) \/ UpdateMonCephxStatus(r) \/ finishReconcile(r)

Rotation(r) ==
    \/ recoverFrom(r) \/ GenerateKey(r) \/ CreateOrUpdate(r) \/ AuthRotate(r)
    \/ WriteConnectionConfig(r) \/ storeAdminKey(r) \/ AuthDelete(r)
    \/ deleteRotatorSecret(r) \/ finalizeAdminKeyRotation(r)

Next ==
    \/ Reconcile("cur")
    \/ \E r \in Routines : Rotation(r) \/ CallFails(r)
    \/ RaiseGeneration \/ ChangeSpec \/ runCRDManager \/ Crash

Spec == Init /\ [][Next]_vars

(* Requeued requests are retried, commands end, signals are delivered. *)
FairSpec ==
    /\ Spec
    /\ WF_vars(Reconcile("cur") \/ Rotation("cur"))
    /\ WF_vars(Rotation("old"))
    /\ WF_vars(runCRDManager)

-----------------------------------------------------------------------------
PrimaryWorks == accessSecret = adminKey
BackupWorks == rotatorSecret # None /\ rotatorSecret = rotator

(* Clusters the rotation is safe in: the mon key is never rotated, or no
   reload comes during a rotation. *)
Supported == "aes256k" \notin settings \/ "quiet" \in settings

(* Whatever fails and wherever the operator crashes, one of the two Secrets
   (rook-ceph-mon, rook-ceph-admin-rotator-keyring) holds a key Ceph takes
   for an administrator's: rotateAdminCephxKey cannot lock Rook out. *)
NeverLockedOut == PrimaryWorks \/ BackupWorks

(* The rotation and its recovery implement AdminAccess: neither Secret is
   given up, overwritten or outdated unless the other one works. *)
Promise == INSTANCE AdminAccess WITH primary <- PrimaryWorks, backup <- BackupWorks
KeepsAccess == Promise!Spec

(* finalizeAdminKeyRotation publishes a generation only once the Secret has
   the key of client.admin and client.admin-rotator is gone from Ceph. *)
PublishedWhenSafe == [][adminGen' > adminGen => PrimaryWorks /\ rotator = None]_vars

(* UpdateMonCephxStatus publishes a generation only once the Secret, which
   the mons' keyring comes from, has the key of the mons. *)
MonKeyStored == [][monGen' > monGen => monSecret = monKey]_vars

(* The rotations the user asked for are done and nothing is left of them. *)
Settled ==
    /\ specGen <= adminGen
    /\ "aes256k" \in settings => specGen <= monGen
    /\ PrimaryWorks /\ AdminWorks /\ monSecret = monKey
    /\ rotator = None /\ rotatorSecret = None

(* Where no reload disturbs a rotation, reconciles finish every rotation
   that was asked for, the ones recoverPriorAdminCephxKeyRotation has to take
   up again after a crash or a failed call included, and clean up. *)
Settles == <>[]("quiet" \in settings => Settled)

(* The CephCluster is never stuck in recoverPriorAdminCephxKeyRotation: its
   reconcile always comes to an end again. *)
NotBlocked == []<>(pc["cur"] = "idle")
=============================================================================
