----------------------- MODULE AdminKeyRotationProofs -----------------------
(***************************************************************************)
(* In a supported cluster no crash, no failed call and no overlap of a     *)
(* rotation with the next reconcile locks the operator out, for every      *)
(* number of rotations and of failures: AdminKeyRotation implements        *)
(* AdminAccess.                                                            *)
(***************************************************************************)
EXTENDS AdminKeyRotation, TLAPS

(* The lock is held by one routine at a time. *)
OneRotation == ~(pc["cur"] \in Rotating /\ pc["old"] \in Rotating)

(* Keys are numbered in the order they are created in. *)
KnownKeys ==
    /\ accessSecret <= adminKey
    /\ rotator <= rotators /\ rotatorSecret <= rotators
    /\ \A r \in Routines : key[r] <= adminKey /\ rk[r] <= rotators

(* A rotator keyring Ceph takes is the one in the Secret. *)
RotatorStored(r) == rk[r] = rotator /\ rotator # None => rotatorSecret = rotator

(* What a rotation knows at each of its steps. *)
Progress(r) ==
    /\ pc[r] \in {"claim", "list", "rotate"} => RotatorStored(r)
    /\ pc[r] = "store" => rk[r] = rotator /\ rotator # None
    /\ pc[r] \in {"write", "access"} => key[r] = adminKey /\ BackupWorks
    /\ pc[r] = "remove" => PrimaryWorks
    /\ pc[r] \in {"forget", "status"} => PrimaryWorks /\ rotator = None

BeforeMonKey == {"start", "read", "admin", "mon", "rotateMon", "accessMon"}

(* What keeps storeMonKey from bringing an old admin key back. *)
MonKeySafe ==
    /\ "aes256k" \notin settings => pc["cur"] \notin {"rotateMon", "accessMon", "statusMon"}
    /\ "quiet" \in settings =>
         /\ pc["old"] = "none"
         /\ pc["cur"] \in BeforeMonKey => key["cur"] = accessSecret

IInv ==
    /\ TypeOK /\ Supported
    /\ OneRotation /\ KnownKeys
    /\ \A r \in Routines : Progress(r)
    /\ MonKeySafe
    /\ NeverLockedOut

USE BoundsAssumption
    DEF TypeOK, Keys, None, Routines, Rotating, Reconciling, kube, ceph, Local,
        Goto, Return, Event, Error, Supported, PrimaryWorks, BackupWorks

(* The types hold initially. *)
LEMMA TypeInit == Init => TypeOK
  <1> SUFFICES ASSUME Init PROVE TypeOK
    OBVIOUS
  <1>1. pc \in [Routines -> Rotating \cup Reconciling \cup {"none"}]
    BY DEF Init
  <1>2. pc["cur"] # "none" /\ pc["old"] \notin Reconciling
    BY DEF Init
  <1>3. key \in [Routines -> Keys] /\ mon \in [Routines -> Keys] /\ rk \in [Routines -> Keys]
    BY DEF Init
  <1>4. sighup \in BOOLEAN
    BY Zenon DEF Init
  <1>5. /\ settings \in Clusters /\ specGen \in Nat /\ adminGen \in Nat /\ monGen \in Nat
        /\ accessSecret \in Keys /\ monSecret \in Keys /\ rotatorSecret \in Keys
        /\ adminKey \in Keys /\ monKey \in Keys /\ rotators \in Nat /\ rotator \in Keys
        /\ keyringFile \in Keys /\ todo \subseteq {"admin", "mon"} /\ events \in 0..MaxEvents
    BY DEF Init
  <1>6. QED
    BY <1>1, <1>2, <1>3, <1>4, <1>5

(* Every step keeps the types. *)
LEMMA TypeStep == TypeOK /\ [Next]_vars => TypeOK'
  <1> SUFFICES ASSUME TypeOK, [Next]_vars PROVE TypeOK'
    OBVIOUS
  <1>1. ASSUME NEW r \in Routines, LoadClusterInfo(r) PROVE TypeOK'
    BY <1>1 DEF LoadClusterInfo
  <1>2. ASSUME NEW r \in Routines, recoverNothing(r) PROVE TypeOK'
    BY <1>2 DEF recoverNothing
  <1>3. ASSUME NEW r \in Routines, recoverReadRotator(r) PROVE TypeOK'
    BY <1>3 DEF recoverReadRotator
  <1>4. ASSUME NEW r \in Routines, recoverPriorAdminCephxKeyRotation(r) PROVE TypeOK'
    BY <1>4 DEF recoverPriorAdminCephxKeyRotation, claimAdminRotationLock, adminRotationInProgress
  <1>5. ASSUME NEW r \in Routines, validateCephVersion(r) PROVE TypeOK'
    BY <1>5 DEF validateCephVersion
  <1>6. ASSUME NEW r \in Routines, initClusterInfo(r) PROVE TypeOK'
    BY <1>6 DEF initClusterInfo
  <1>7. ASSUME NEW r \in Routines, startMons(r) PROVE TypeOK'
    BY <1>7 DEF startMons
  <1>8. ASSUME NEW r \in Routines, readCephCluster(r) PROVE TypeOK'
    BY <1>8 DEF readCephCluster
  <1>9. ASSUME NEW r \in Routines, rotateAdminCephxKey(r) PROVE TypeOK'
    BY <1>9 DEF rotateAdminCephxKey, claimAdminRotationLock, adminRotationInProgress
  <1>10. ASSUME NEW r \in Routines, RotateMonCephxKeys(r) PROVE TypeOK'
    BY <1>10 DEF RotateMonCephxKeys
  <1>11. ASSUME NEW r \in Routines, rotateMonKey(r) PROVE TypeOK'
    BY <1>11 DEF rotateMonKey
  <1>12. ASSUME NEW r \in Routines, storeMonKey(r) PROVE TypeOK'
    BY <1>12 DEF storeMonKey, Answered, UpdateClusterAccessSecret
  <1>13. ASSUME NEW r \in Routines, UpdateMonCephxStatus(r) PROVE TypeOK'
    BY <1>13 DEF UpdateMonCephxStatus, UpdatedCephxStatus
  <1>14. ASSUME NEW r \in Routines, finishReconcile(r) PROVE TypeOK'
    BY <1>14 DEF finishReconcile
  <1>15. ASSUME NEW r \in Routines, CallFails(r) PROVE TypeOK'
    BY <1>15 DEF CallFails
  <1>16. ASSUME NEW r \in Routines, recoverFrom(r) PROVE TypeOK'
    BY <1>16 DEF recoverFrom, AdminWorks
  <1>17. ASSUME NEW r \in Routines, GenerateKey(r) PROVE TypeOK'
    BY <1>17 DEF GenerateKey
  <1>18. ASSUME NEW r \in Routines, CreateOrUpdate(r) PROVE TypeOK'
    BY <1>18 DEF CreateOrUpdate, Answered
  <1>19. ASSUME NEW r \in Routines, AuthRotate(r) PROVE TypeOK'
    BY <1>19 DEF AuthRotate
  <1>20. ASSUME NEW r \in Routines, WriteConnectionConfig(r) PROVE TypeOK'
    BY <1>20 DEF WriteConnectionConfig
  <1>21. ASSUME NEW r \in Routines, storeAdminKey(r) PROVE TypeOK'
    BY <1>21 DEF storeAdminKey, Answered, UpdateClusterAccessSecret
  <1>22. ASSUME NEW r \in Routines, AuthDelete(r) PROVE TypeOK'
    BY <1>22 DEF AuthDelete, Answered
  <1>23. ASSUME NEW r \in Routines, deleteRotatorSecret(r) PROVE TypeOK'
    BY <1>23 DEF deleteRotatorSecret
  <1>24. ASSUME NEW r \in Routines, finalizeAdminKeyRotation(r) PROVE TypeOK'
    <2>1. sighup' \in BOOLEAN
      BY <1>24, Zenon DEF finalizeAdminKeyRotation
    <2>2. adminGen' \in Nat
      BY <1>24 DEF finalizeAdminKeyRotation, UpdatedCephxStatus
    <2>3. QED
      BY <1>24, <2>1, <2>2 DEF finalizeAdminKeyRotation
  <1>25. CASE RaiseGeneration
    BY <1>25 DEF RaiseGeneration
  <1>26. CASE ChangeSpec
    BY <1>26 DEF ChangeSpec
  <1>27. CASE runCRDManager
    BY <1>27, Zenon DEF runCRDManager, adminRotationInProgress
  <1>28. CASE Crash
    <2>1. pc' \in [Routines -> Rotating \cup Reconciling \cup {"none"}]
      BY <1>28 DEF Crash
    <2>2. pc'["cur"] # "none" /\ pc'["old"] \notin Reconciling
      BY <1>28 DEF Crash
    <2>3. key' \in [Routines -> Keys] /\ mon' \in [Routines -> Keys] /\ rk' \in [Routines -> Keys]
      BY <1>28 DEF Crash
    <2>4. sighup' \in BOOLEAN
      BY <1>28, Zenon DEF Crash
    <2>5. QED
      BY <1>28, <2>1, <2>2, <2>3, <2>4 DEF Crash
  <1>29. CASE UNCHANGED vars
    BY <1>29 DEF vars
  <1> QED
    BY <1>1, <1>2, <1>3, <1>4, <1>5, <1>6, <1>7, <1>8, <1>9, <1>10, <1>11, <1>12,
       <1>13, <1>14, <1>15, <1>16, <1>17, <1>18, <1>19, <1>20, <1>21, <1>22, <1>23,
       <1>24, <1>25, <1>26, <1>27, <1>28, <1>29, Zenon
    DEF Next, Reconcile, Rotation

(* Whatever overlaps, fails or crashes, in any cluster: keys are keys, a
   rotation that outlived its manager does nothing but rotate, and there is
   always a reconcile. *)
THEOREM TypeTheorem == Spec => []TypeOK
  BY TypeInit, TypeStep, PTL DEF Spec

(* The initial state is safe. *)
LEMMA InitSafe == Init /\ Supported => IInv
  <1> SUFFICES ASSUME Init, Supported PROVE IInv
    OBVIOUS
  <1>1. TypeOK
    BY TypeInit
  <1>2. OneRotation /\ KnownKeys /\ MonKeySafe /\ NeverLockedOut
    BY DEF Init, OneRotation, KnownKeys, MonKeySafe, BeforeMonKey, NeverLockedOut
  <1>3. \A r \in Routines : Progress(r)
    BY DEF Init, Progress
  <1>4. QED
    BY <1>1, <1>2, <1>3 DEF IInv

(* The keys are loaded from the Secret. *)
LEMMA LoadClusterInfoSafe ==
  ASSUME IInv, TypeOK', NEW r \in Routines, LoadClusterInfo(r) PROVE IInv'
  <1>1. Supported'
    BY DEF IInv, LoadClusterInfo
  <1>2. OneRotation' /\ KnownKeys'
    BY DEF IInv, OneRotation, KnownKeys, LoadClusterInfo
  <1>3. \A q \in Routines : Progress(q)'
    BY DEF IInv, OneRotation, KnownKeys, Progress, RotatorStored, MonKeySafe, BeforeMonKey,
           NeverLockedOut, LoadClusterInfo
  <1>4. MonKeySafe' /\ NeverLockedOut'
    BY DEF IInv, Progress, RotatorStored, MonKeySafe, BeforeMonKey, NeverLockedOut,
           LoadClusterInfo
  <1>5. QED
    BY <1>1, <1>2, <1>3, <1>4 DEF IInv

(* recoverNothing preserves the invariant. *)
LEMMA recoverNothingSafe ==
  ASSUME IInv, TypeOK', NEW r \in Routines, recoverNothing(r) PROVE IInv'
  <1>1. Supported'
    BY DEF IInv, recoverNothing
  <1>2. OneRotation' /\ KnownKeys'
    BY DEF IInv, OneRotation, KnownKeys, recoverNothing
  <1>3. \A q \in Routines : Progress(q)'
    BY DEF IInv, OneRotation, KnownKeys, Progress, RotatorStored, MonKeySafe, BeforeMonKey,
           NeverLockedOut, recoverNothing
  <1>4. MonKeySafe' /\ NeverLockedOut'
    BY DEF IInv, Progress, RotatorStored, MonKeySafe, BeforeMonKey, NeverLockedOut,
           recoverNothing
  <1>5. QED
    BY <1>1, <1>2, <1>3, <1>4 DEF IInv

(* The rotator keyring read is the stored one. *)
LEMMA recoverReadRotatorSafe ==
  ASSUME IInv, TypeOK', NEW r \in Routines, recoverReadRotator(r) PROVE IInv'
  <1>1. Supported'
    BY DEF IInv, recoverReadRotator
  <1>2. OneRotation' /\ KnownKeys'
    BY DEF IInv, OneRotation, KnownKeys, recoverReadRotator
  <1>3. \A q \in Routines : Progress(q)'
    BY DEF IInv, OneRotation, KnownKeys, Progress, RotatorStored, MonKeySafe, BeforeMonKey,
           NeverLockedOut, recoverReadRotator
  <1>4. MonKeySafe' /\ NeverLockedOut'
    BY DEF IInv, Progress, RotatorStored, MonKeySafe, BeforeMonKey, NeverLockedOut,
           recoverReadRotator
  <1>5. QED
    BY <1>1, <1>2, <1>3, <1>4 DEF IInv

(* The lock is claimed only if nobody rotates. *)
LEMMA recoverPriorAdminCephxKeyRotationSafe ==
  ASSUME IInv, TypeOK', NEW r \in Routines, recoverPriorAdminCephxKeyRotation(r) PROVE IInv'
  <1>1. Supported'
    BY DEF IInv, recoverPriorAdminCephxKeyRotation
  <1>2. OneRotation' /\ KnownKeys'
    BY DEF IInv, OneRotation, KnownKeys, recoverPriorAdminCephxKeyRotation, claimAdminRotationLock, adminRotationInProgress
  <1>3. \A q \in Routines : Progress(q)'
    BY DEF IInv, OneRotation, KnownKeys, Progress, RotatorStored, MonKeySafe, BeforeMonKey,
           NeverLockedOut, recoverPriorAdminCephxKeyRotation, claimAdminRotationLock, adminRotationInProgress
  <1>4. MonKeySafe' /\ NeverLockedOut'
    BY DEF IInv, Progress, RotatorStored, MonKeySafe, BeforeMonKey, NeverLockedOut,
           recoverPriorAdminCephxKeyRotation, claimAdminRotationLock, adminRotationInProgress
  <1>5. QED
    BY <1>1, <1>2, <1>3, <1>4 DEF IInv

(* validateCephVersion preserves the invariant. *)
LEMMA validateCephVersionSafe ==
  ASSUME IInv, TypeOK', NEW r \in Routines, validateCephVersion(r) PROVE IInv'
  <1>1. Supported'
    BY DEF IInv, validateCephVersion
  <1>2. OneRotation' /\ KnownKeys'
    BY DEF IInv, OneRotation, KnownKeys, validateCephVersion
  <1>3. \A q \in Routines : Progress(q)'
    BY DEF IInv, OneRotation, KnownKeys, Progress, RotatorStored, MonKeySafe, BeforeMonKey,
           NeverLockedOut, validateCephVersion
  <1>4. MonKeySafe' /\ NeverLockedOut'
    BY DEF IInv, Progress, RotatorStored, MonKeySafe, BeforeMonKey, NeverLockedOut,
           validateCephVersion
  <1>5. QED
    BY <1>1, <1>2, <1>3, <1>4 DEF IInv

(* initClusterInfo preserves the invariant. *)
LEMMA initClusterInfoSafe ==
  ASSUME IInv, TypeOK', NEW r \in Routines, initClusterInfo(r) PROVE IInv'
  <1>1. Supported'
    BY DEF IInv, initClusterInfo
  <1>2. OneRotation' /\ KnownKeys'
    BY DEF IInv, OneRotation, KnownKeys, initClusterInfo
  <1>3. \A q \in Routines : Progress(q)'
    BY DEF IInv, OneRotation, KnownKeys, Progress, RotatorStored, MonKeySafe, BeforeMonKey,
           NeverLockedOut, initClusterInfo
  <1>4. MonKeySafe' /\ NeverLockedOut'
    BY DEF IInv, Progress, RotatorStored, MonKeySafe, BeforeMonKey, NeverLockedOut,
           initClusterInfo
  <1>5. QED
    BY <1>1, <1>2, <1>3, <1>4 DEF IInv

(* startMons preserves the invariant. *)
LEMMA startMonsSafe ==
  ASSUME IInv, TypeOK', NEW r \in Routines, startMons(r) PROVE IInv'
  <1>1. Supported'
    BY DEF IInv, startMons
  <1>2. OneRotation' /\ KnownKeys'
    BY DEF IInv, OneRotation, KnownKeys, startMons
  <1>3. \A q \in Routines : Progress(q)'
    BY DEF IInv, OneRotation, KnownKeys, Progress, RotatorStored, MonKeySafe, BeforeMonKey,
           NeverLockedOut, startMons
  <1>4. MonKeySafe' /\ NeverLockedOut'
    BY DEF IInv, Progress, RotatorStored, MonKeySafe, BeforeMonKey, NeverLockedOut,
           startMons
  <1>5. QED
    BY <1>1, <1>2, <1>3, <1>4 DEF IInv

(* readCephCluster preserves the invariant. *)
LEMMA readCephClusterSafe ==
  ASSUME IInv, TypeOK', NEW r \in Routines, readCephCluster(r) PROVE IInv'
  <1>1. Supported'
    BY DEF IInv, readCephCluster
  <1>2. OneRotation' /\ KnownKeys'
    BY DEF IInv, OneRotation, KnownKeys, readCephCluster
  <1>3. \A q \in Routines : Progress(q)'
    BY DEF IInv, OneRotation, KnownKeys, Progress, RotatorStored, MonKeySafe, BeforeMonKey,
           NeverLockedOut, readCephCluster
  <1>4. MonKeySafe' /\ NeverLockedOut'
    BY DEF IInv, Progress, RotatorStored, MonKeySafe, BeforeMonKey, NeverLockedOut,
           readCephCluster
  <1>5. QED
    BY <1>1, <1>2, <1>3, <1>4 DEF IInv

(* rotateAdminCephxKey preserves the invariant. *)
LEMMA rotateAdminCephxKeySafe ==
  ASSUME IInv, TypeOK', NEW r \in Routines, rotateAdminCephxKey(r) PROVE IInv'
  <1>1. Supported'
    BY DEF IInv, rotateAdminCephxKey
  <1>2. OneRotation' /\ KnownKeys'
    BY DEF IInv, OneRotation, KnownKeys, rotateAdminCephxKey, claimAdminRotationLock, adminRotationInProgress
  <1>3. \A q \in Routines : Progress(q)'
    BY DEF IInv, OneRotation, KnownKeys, Progress, RotatorStored, MonKeySafe, BeforeMonKey,
           NeverLockedOut, rotateAdminCephxKey, claimAdminRotationLock, adminRotationInProgress
  <1>4. MonKeySafe' /\ NeverLockedOut'
    BY DEF IInv, Progress, RotatorStored, MonKeySafe, BeforeMonKey, NeverLockedOut,
           rotateAdminCephxKey, claimAdminRotationLock, adminRotationInProgress
  <1>5. QED
    BY <1>1, <1>2, <1>3, <1>4 DEF IInv

(* The mon key is rotated with an AES256K cluster only. *)
LEMMA RotateMonCephxKeysSafe ==
  ASSUME IInv, TypeOK', NEW r \in Routines, RotateMonCephxKeys(r) PROVE IInv'
  <1>1. Supported'
    BY DEF IInv, RotateMonCephxKeys
  <1>2. OneRotation' /\ KnownKeys'
    BY DEF IInv, OneRotation, KnownKeys, RotateMonCephxKeys
  <1>3. \A q \in Routines : Progress(q)'
    BY DEF IInv, OneRotation, KnownKeys, Progress, RotatorStored, MonKeySafe, BeforeMonKey,
           NeverLockedOut, RotateMonCephxKeys
  <1>4. MonKeySafe' /\ NeverLockedOut'
    BY DEF IInv, Progress, RotatorStored, MonKeySafe, BeforeMonKey, NeverLockedOut,
           RotateMonCephxKeys
  <1>5. QED
    BY <1>1, <1>2, <1>3, <1>4 DEF IInv

(* rotateMonKey preserves the invariant. *)
LEMMA rotateMonKeySafe ==
  ASSUME IInv, TypeOK', NEW r \in Routines, rotateMonKey(r) PROVE IInv'
  <1>1. Supported'
    BY DEF IInv, rotateMonKey
  <1>2. OneRotation' /\ KnownKeys'
    BY DEF IInv, OneRotation, KnownKeys, rotateMonKey
  <1>3. \A q \in Routines : Progress(q)'
    BY DEF IInv, OneRotation, KnownKeys, Progress, RotatorStored, MonKeySafe, BeforeMonKey,
           NeverLockedOut, rotateMonKey
  <1>4. MonKeySafe' /\ NeverLockedOut'
    BY DEF IInv, Progress, RotatorStored, MonKeySafe, BeforeMonKey, NeverLockedOut,
           rotateMonKey
  <1>5. QED
    BY <1>1, <1>2, <1>3, <1>4 DEF IInv

(* The admin key written along is the stored one. *)
LEMMA storeMonKeySafe ==
  ASSUME IInv, TypeOK', NEW r \in Routines, storeMonKey(r) PROVE IInv'
  <1>1. Supported'
    BY DEF IInv, storeMonKey, UpdateClusterAccessSecret
  <1>2. OneRotation' /\ KnownKeys'
    BY DEF IInv, OneRotation, KnownKeys, storeMonKey, Answered, UpdateClusterAccessSecret
  <1>3. \A q \in Routines : Progress(q)'
    BY DEF IInv, OneRotation, KnownKeys, Progress, RotatorStored, MonKeySafe, BeforeMonKey,
           NeverLockedOut, storeMonKey, Answered, UpdateClusterAccessSecret
  <1>4. MonKeySafe' /\ NeverLockedOut'
    BY DEF IInv, Progress, RotatorStored, MonKeySafe, BeforeMonKey, NeverLockedOut,
           storeMonKey, Answered, UpdateClusterAccessSecret
  <1>5. QED
    BY <1>1, <1>2, <1>3, <1>4 DEF IInv

(* UpdateMonCephxStatus preserves the invariant. *)
LEMMA UpdateMonCephxStatusSafe ==
  ASSUME IInv, TypeOK', NEW r \in Routines, UpdateMonCephxStatus(r) PROVE IInv'
  <1>1. Supported'
    BY DEF IInv, UpdateMonCephxStatus
  <1>2. OneRotation' /\ KnownKeys'
    BY DEF IInv, OneRotation, KnownKeys, UpdateMonCephxStatus, UpdatedCephxStatus
  <1>3. \A q \in Routines : Progress(q)'
    BY DEF IInv, OneRotation, KnownKeys, Progress, RotatorStored, MonKeySafe, BeforeMonKey,
           NeverLockedOut, UpdateMonCephxStatus, UpdatedCephxStatus
  <1>4. MonKeySafe' /\ NeverLockedOut'
    BY DEF IInv, Progress, RotatorStored, MonKeySafe, BeforeMonKey, NeverLockedOut,
           UpdateMonCephxStatus, UpdatedCephxStatus
  <1>5. QED
    BY <1>1, <1>2, <1>3, <1>4 DEF IInv

(* finishReconcile preserves the invariant. *)
LEMMA finishReconcileSafe ==
  ASSUME IInv, TypeOK', NEW r \in Routines, finishReconcile(r) PROVE IInv'
  <1>1. Supported'
    BY DEF IInv, finishReconcile
  <1>2. OneRotation' /\ KnownKeys'
    BY DEF IInv, OneRotation, KnownKeys, finishReconcile
  <1>3. \A q \in Routines : Progress(q)'
    BY DEF IInv, OneRotation, KnownKeys, Progress, RotatorStored, MonKeySafe, BeforeMonKey,
           NeverLockedOut, finishReconcile
  <1>4. MonKeySafe' /\ NeverLockedOut'
    BY DEF IInv, Progress, RotatorStored, MonKeySafe, BeforeMonKey, NeverLockedOut,
           finishReconcile
  <1>5. QED
    BY <1>1, <1>2, <1>3, <1>4 DEF IInv

(* CallFails preserves the invariant. *)
LEMMA CallFailsSafe ==
  ASSUME IInv, TypeOK', NEW r \in Routines, CallFails(r) PROVE IInv'
  <1>1. Supported'
    BY DEF IInv, CallFails
  <1>2. OneRotation' /\ KnownKeys'
    BY DEF IInv, OneRotation, KnownKeys, CallFails
  <1>3. \A q \in Routines : Progress(q)'
    BY DEF IInv, OneRotation, KnownKeys, Progress, RotatorStored, MonKeySafe, BeforeMonKey,
           NeverLockedOut, CallFails
  <1>4. MonKeySafe' /\ NeverLockedOut'
    BY DEF IInv, Progress, RotatorStored, MonKeySafe, BeforeMonKey, NeverLockedOut,
           CallFails
  <1>5. QED
    BY <1>1, <1>2, <1>3, <1>4 DEF IInv

(* If the rotator is gone, the primary key has to work. *)
LEMMA recoverFromSafe ==
  ASSUME IInv, TypeOK', NEW r \in Routines, recoverFrom(r) PROVE IInv'
  <1>1. Supported'
    BY DEF IInv, recoverFrom
  <1>2. OneRotation' /\ KnownKeys'
    BY DEF IInv, OneRotation, KnownKeys, recoverFrom, AdminWorks
  <1>3. \A q \in Routines : Progress(q)'
    BY DEF IInv, OneRotation, KnownKeys, Progress, RotatorStored, MonKeySafe, BeforeMonKey,
           NeverLockedOut, recoverFrom, AdminWorks
  <1>4. MonKeySafe' /\ NeverLockedOut'
    BY DEF IInv, Progress, RotatorStored, MonKeySafe, BeforeMonKey, NeverLockedOut,
           recoverFrom, AdminWorks
  <1>5. QED
    BY <1>1, <1>2, <1>3, <1>4 DEF IInv

(* A new rotator is in no Secret, and none was needed. *)
LEMMA GenerateKeySafe ==
  ASSUME IInv, TypeOK', NEW r \in Routines, GenerateKey(r) PROVE IInv'
  <1>1. Supported'
    BY DEF IInv, GenerateKey
  <1>2. OneRotation' /\ KnownKeys'
    BY DEF IInv, OneRotation, KnownKeys, GenerateKey
  <1>3. \A q \in Routines : Progress(q)'
    BY DEF IInv, OneRotation, KnownKeys, Progress, RotatorStored, MonKeySafe, BeforeMonKey,
           NeverLockedOut, GenerateKey
  <1>4. MonKeySafe' /\ NeverLockedOut'
    BY DEF IInv, Progress, RotatorStored, MonKeySafe, BeforeMonKey, NeverLockedOut,
           GenerateKey
  <1>5. QED
    BY <1>1, <1>2, <1>3, <1>4 DEF IInv

(* CreateOrUpdate preserves the invariant. *)
LEMMA CreateOrUpdateSafe ==
  ASSUME IInv, TypeOK', NEW r \in Routines, CreateOrUpdate(r) PROVE IInv'
  <1>1. Supported'
    BY DEF IInv, CreateOrUpdate
  <1>2. OneRotation' /\ KnownKeys'
    BY DEF IInv, OneRotation, KnownKeys, CreateOrUpdate, Answered
  <1>3. \A q \in Routines : Progress(q)'
    BY DEF IInv, OneRotation, KnownKeys, Progress, RotatorStored, MonKeySafe, BeforeMonKey,
           NeverLockedOut, CreateOrUpdate, Answered
  <1>4. MonKeySafe' /\ NeverLockedOut'
    BY DEF IInv, Progress, RotatorStored, MonKeySafe, BeforeMonKey, NeverLockedOut,
           CreateOrUpdate, Answered
  <1>5. QED
    BY <1>1, <1>2, <1>3, <1>4 DEF IInv

(* The rotator that rotates is the stored one, and nobody else rotates. *)
LEMMA AuthRotateSafe ==
  ASSUME IInv, TypeOK', NEW r \in Routines, AuthRotate(r) PROVE IInv'
  <1>1. Supported'
    BY DEF IInv, AuthRotate
  <1>2. OneRotation' /\ KnownKeys'
    BY DEF IInv, OneRotation, KnownKeys, AuthRotate
  <1>3. \A q \in Routines : Progress(q)'
    BY DEF IInv, OneRotation, KnownKeys, Progress, RotatorStored, MonKeySafe, BeforeMonKey,
           NeverLockedOut, AuthRotate
  <1>4. MonKeySafe' /\ NeverLockedOut'
    BY DEF IInv, Progress, RotatorStored, MonKeySafe, BeforeMonKey, NeverLockedOut,
           AuthRotate
  <1>5. QED
    BY <1>1, <1>2, <1>3, <1>4 DEF IInv

(* WriteConnectionConfig preserves the invariant. *)
LEMMA WriteConnectionConfigSafe ==
  ASSUME IInv, TypeOK', NEW r \in Routines, WriteConnectionConfig(r) PROVE IInv'
  <1>1. Supported'
    BY DEF IInv, WriteConnectionConfig
  <1>2. OneRotation' /\ KnownKeys'
    BY DEF IInv, OneRotation, KnownKeys, WriteConnectionConfig
  <1>3. \A q \in Routines : Progress(q)'
    BY DEF IInv, OneRotation, KnownKeys, Progress, RotatorStored, MonKeySafe, BeforeMonKey,
           NeverLockedOut, WriteConnectionConfig
  <1>4. MonKeySafe' /\ NeverLockedOut'
    BY DEF IInv, Progress, RotatorStored, MonKeySafe, BeforeMonKey, NeverLockedOut,
           WriteConnectionConfig
  <1>5. QED
    BY <1>1, <1>2, <1>3, <1>4 DEF IInv

(* storeAdminKey preserves the invariant. *)
LEMMA storeAdminKeySafe ==
  ASSUME IInv, TypeOK', NEW r \in Routines, storeAdminKey(r) PROVE IInv'
  <1>1. Supported'
    BY DEF IInv, storeAdminKey, UpdateClusterAccessSecret
  <1>2. OneRotation' /\ KnownKeys'
    BY DEF IInv, OneRotation, KnownKeys, storeAdminKey, Answered, UpdateClusterAccessSecret
  <1>3. \A q \in Routines : Progress(q)'
    BY DEF IInv, OneRotation, KnownKeys, Progress, RotatorStored, MonKeySafe, BeforeMonKey,
           NeverLockedOut, storeAdminKey, Answered, UpdateClusterAccessSecret
  <1>4. MonKeySafe' /\ NeverLockedOut'
    BY DEF IInv, Progress, RotatorStored, MonKeySafe, BeforeMonKey, NeverLockedOut,
           storeAdminKey, Answered, UpdateClusterAccessSecret
  <1>5. QED
    BY <1>1, <1>2, <1>3, <1>4 DEF IInv

(* The new key has been stored, and nobody else counts on the rotator. *)
LEMMA AuthDeleteSafe ==
  ASSUME IInv, TypeOK', NEW r \in Routines, AuthDelete(r) PROVE IInv'
  <1>1. Supported'
    BY DEF IInv, AuthDelete
  <1>2. OneRotation' /\ KnownKeys'
    BY DEF IInv, OneRotation, KnownKeys, AuthDelete, Answered
  <1>3. \A q \in Routines : Progress(q)'
    BY DEF IInv, OneRotation, KnownKeys, Progress, RotatorStored, MonKeySafe, BeforeMonKey,
           NeverLockedOut, AuthDelete, Answered
  <1>4. MonKeySafe' /\ NeverLockedOut'
    BY DEF IInv, Progress, RotatorStored, MonKeySafe, BeforeMonKey, NeverLockedOut,
           AuthDelete, Answered
  <1>5. QED
    BY <1>1, <1>2, <1>3, <1>4 DEF IInv

(* deleteRotatorSecret preserves the invariant. *)
LEMMA deleteRotatorSecretSafe ==
  ASSUME IInv, TypeOK', NEW r \in Routines, deleteRotatorSecret(r) PROVE IInv'
  <1>1. Supported'
    BY DEF IInv, deleteRotatorSecret
  <1>2. OneRotation' /\ KnownKeys'
    BY DEF IInv, OneRotation, KnownKeys, deleteRotatorSecret
  <1>3. \A q \in Routines : Progress(q)'
    BY DEF IInv, OneRotation, KnownKeys, Progress, RotatorStored, MonKeySafe, BeforeMonKey,
           NeverLockedOut, deleteRotatorSecret
  <1>4. MonKeySafe' /\ NeverLockedOut'
    BY DEF IInv, Progress, RotatorStored, MonKeySafe, BeforeMonKey, NeverLockedOut,
           deleteRotatorSecret
  <1>5. QED
    BY <1>1, <1>2, <1>3, <1>4 DEF IInv

(* finalizeAdminKeyRotation preserves the invariant. *)
LEMMA finalizeAdminKeyRotationSafe ==
  ASSUME IInv, TypeOK', NEW r \in Routines, finalizeAdminKeyRotation(r) PROVE IInv'
  <1>1. Supported'
    BY DEF IInv, finalizeAdminKeyRotation
  <1>2. OneRotation' /\ KnownKeys'
    BY DEF IInv, OneRotation, KnownKeys, finalizeAdminKeyRotation, UpdatedCephxStatus
  <1>3. \A q \in Routines : Progress(q)'
    BY DEF IInv, OneRotation, KnownKeys, Progress, RotatorStored, MonKeySafe, BeforeMonKey,
           NeverLockedOut, finalizeAdminKeyRotation, UpdatedCephxStatus
  <1>4. MonKeySafe' /\ NeverLockedOut'
    BY DEF IInv, Progress, RotatorStored, MonKeySafe, BeforeMonKey, NeverLockedOut,
           finalizeAdminKeyRotation, UpdatedCephxStatus
  <1>5. QED
    BY <1>1, <1>2, <1>3, <1>4 DEF IInv

(* RaiseGeneration preserves the invariant. *)
LEMMA RaiseGenerationSafe ==
  ASSUME IInv, TypeOK', RaiseGeneration PROVE IInv'
  <1>1. Supported'
    BY DEF IInv, RaiseGeneration
  <1>2. OneRotation' /\ KnownKeys'
    BY DEF IInv, OneRotation, KnownKeys, RaiseGeneration
  <1>3. \A q \in Routines : Progress(q)'
    BY DEF IInv, OneRotation, KnownKeys, Progress, RotatorStored, MonKeySafe, BeforeMonKey,
           NeverLockedOut, RaiseGeneration
  <1>4. MonKeySafe' /\ NeverLockedOut'
    BY DEF IInv, Progress, RotatorStored, MonKeySafe, BeforeMonKey, NeverLockedOut,
           RaiseGeneration
  <1>5. QED
    BY <1>1, <1>2, <1>3, <1>4 DEF IInv

(* ChangeSpec preserves the invariant. *)
LEMMA ChangeSpecSafe ==
  ASSUME IInv, TypeOK', ChangeSpec PROVE IInv'
  <1>1. Supported'
    BY DEF IInv, ChangeSpec
  <1>2. OneRotation' /\ KnownKeys'
    BY DEF IInv, OneRotation, KnownKeys, ChangeSpec
  <1>3. \A q \in Routines : Progress(q)'
    BY DEF IInv, OneRotation, KnownKeys, Progress, RotatorStored, MonKeySafe, BeforeMonKey,
           NeverLockedOut, ChangeSpec
  <1>4. MonKeySafe' /\ NeverLockedOut'
    BY DEF IInv, Progress, RotatorStored, MonKeySafe, BeforeMonKey, NeverLockedOut,
           ChangeSpec
  <1>5. QED
    BY <1>1, <1>2, <1>3, <1>4 DEF IInv

(* runCRDManager preserves the invariant. *)
LEMMA runCRDManagerSafe ==
  ASSUME IInv, TypeOK', runCRDManager PROVE IInv'
  <1>1. Supported'
    BY DEF IInv, runCRDManager
  <1>2. OneRotation' /\ KnownKeys'
    BY DEF IInv, OneRotation, KnownKeys, runCRDManager, adminRotationInProgress
  <1>3. \A q \in Routines : Progress(q)'
    BY DEF IInv, OneRotation, KnownKeys, Progress, RotatorStored, MonKeySafe, BeforeMonKey,
           NeverLockedOut, runCRDManager, adminRotationInProgress
  <1>4. MonKeySafe' /\ NeverLockedOut'
    BY DEF IInv, Progress, RotatorStored, MonKeySafe, BeforeMonKey, NeverLockedOut,
           runCRDManager, adminRotationInProgress
  <1>5. QED
    BY <1>1, <1>2, <1>3, <1>4 DEF IInv

(* Crash preserves the invariant. *)
LEMMA CrashSafe ==
  ASSUME IInv, TypeOK', Crash PROVE IInv'
  <1>1. Supported'
    BY DEF IInv, Crash
  <1>2. OneRotation' /\ KnownKeys'
    BY DEF IInv, OneRotation, KnownKeys, Crash
  <1>3. \A q \in Routines : Progress(q)'
    BY DEF IInv, OneRotation, KnownKeys, Progress, RotatorStored, MonKeySafe, BeforeMonKey,
           NeverLockedOut, Crash
  <1>4. MonKeySafe' /\ NeverLockedOut'
    BY DEF IInv, Progress, RotatorStored, MonKeySafe, BeforeMonKey, NeverLockedOut,
           Crash
  <1>5. QED
    BY <1>1, <1>2, <1>3, <1>4 DEF IInv

(* Every step, and every stuttering step, preserves the invariant. *)
LEMMA NextSafe == IInv /\ [Next]_vars => IInv'
  <1> SUFFICES ASSUME IInv, [Next]_vars PROVE IInv'
    OBVIOUS
  <1>0. TypeOK'
    BY TypeStep DEF IInv
  <1>1. CASE Reconcile("cur")
    BY <1>0, <1>1, LoadClusterInfoSafe, recoverNothingSafe, recoverReadRotatorSafe,
       recoverPriorAdminCephxKeyRotationSafe, validateCephVersionSafe,
       initClusterInfoSafe, startMonsSafe, readCephClusterSafe,
       rotateAdminCephxKeySafe, RotateMonCephxKeysSafe, rotateMonKeySafe,
       storeMonKeySafe, UpdateMonCephxStatusSafe, finishReconcileSafe
    DEF Reconcile
  <1>2. ASSUME NEW r \in Routines, Rotation(r) PROVE IInv'
    BY <1>0, <1>2, recoverFromSafe, GenerateKeySafe, CreateOrUpdateSafe, AuthRotateSafe,
       WriteConnectionConfigSafe, storeAdminKeySafe, AuthDeleteSafe,
       deleteRotatorSecretSafe, finalizeAdminKeyRotationSafe
    DEF Rotation
  <1>3. ASSUME NEW r \in Routines, CallFails(r) PROVE IInv'
    BY <1>0, <1>3, CallFailsSafe
  <1>4. CASE RaiseGeneration \/ ChangeSpec \/ runCRDManager \/ Crash
    BY <1>0, <1>4, RaiseGenerationSafe, ChangeSpecSafe, runCRDManagerSafe, CrashSafe
  <1>5. CASE UNCHANGED vars
    BY <1>5 DEF vars, IInv, OneRotation, KnownKeys, Progress, RotatorStored, MonKeySafe,
                BeforeMonKey, NeverLockedOut
  <1>6. QED
    BY <1>1, <1>2, <1>3, <1>4, <1>5 DEF Next

(* The invariant holds throughout in a supported cluster. *)
LEMMA Safe == Spec /\ Supported => []IInv
  BY InitSafe, NextSafe, PTL DEF Spec

(* In a cluster whose mon key is not rotated, or whose rotations no reload
   disturbs, one of the two Secrets always holds a key Ceph accepts: no
   crash or failed call in rotateAdminCephxKey or in its recovery locks the
   operator out. *)
THEOREM NeverLockedOutTheorem == Spec /\ Supported => []NeverLockedOut
  <1>1. IInv => NeverLockedOut
    BY DEF IInv
  <1>2. QED
    BY <1>1, Safe, PTL

(* A step that leaves the keys alone is a stuttering step of AdminAccess. *)
LEMMA Stutters ==
  ASSUME UNCHANGED <<accessSecret, adminKey, rotatorSecret, rotator>>
  PROVE  [Promise!Next]_(Promise!access)
  BY DEF Promise!access

(* The steps that change a key are steps of AdminAccess, or stutter. *)
LEMMA RotationRefines ==
  ASSUME IInv, NEW r \in Routines, Rotation(r)
  PROVE  [Promise!Next]_(Promise!access)
  <1>1. CASE GenerateKey(r)
    <2>1. PrimaryWorks' = PrimaryWorks /\ BackupWorks' = BackupWorks
      BY <1>1 DEF IInv, KnownKeys, GenerateKey
    <2>2. QED
      BY <2>1 DEF Promise!access
  <1>2. CASE CreateOrUpdate(r)
    <2>1. BackupWorks' /\ PrimaryWorks' = PrimaryWorks
      BY <1>2 DEF IInv, Progress, CreateOrUpdate
    <2>2. QED
      BY <2>1 DEF IInv, NeverLockedOut, Promise!Next, Promise!KeepBackup, Promise!access
  <1>3. CASE AuthRotate(r)
    <2>1. UNCHANGED <<accessSecret, adminKey, rotatorSecret, rotator>> \/ (BackupWorks /\ BackupWorks' /\ ~PrimaryWorks')
      BY <1>3 DEF IInv, Progress, RotatorStored, KnownKeys, AuthRotate
    <2>2. QED
      BY <2>1, Stutters DEF Promise!Next, Promise!ChangePrimary, Promise!access
  <1>4. CASE storeAdminKey(r)
    <2>1. PrimaryWorks' /\ BackupWorks /\ BackupWorks'
      BY <1>4 DEF IInv, Progress, storeAdminKey, UpdateClusterAccessSecret
    <2>2. QED
      BY <2>1 DEF Promise!Next, Promise!ChangePrimary, Promise!access
  <1>5. CASE AuthDelete(r)
    <2>1. UNCHANGED <<accessSecret, adminKey, rotatorSecret, rotator>> \/ (PrimaryWorks /\ PrimaryWorks' /\ ~BackupWorks')
      BY <1>5 DEF IInv, Progress, AuthDelete
    <2>2. QED
      BY <2>1, Stutters DEF Promise!Next, Promise!DropBackup, Promise!access
  <1>6. CASE deleteRotatorSecret(r)
    <2>1. PrimaryWorks' = PrimaryWorks /\ ~BackupWorks /\ ~BackupWorks'
      BY <1>6 DEF IInv, Progress, deleteRotatorSecret
    <2>2. QED
      BY <2>1 DEF Promise!access
  <1>7. CASE recoverFrom(r) \/ WriteConnectionConfig(r) \/ finalizeAdminKeyRotation(r)
    BY <1>7, Stutters DEF recoverFrom, WriteConnectionConfig, finalizeAdminKeyRotation
  <1>8. QED
    BY <1>1, <1>2, <1>3, <1>4, <1>5, <1>6, <1>7 DEF Rotation

(* Outside a rotation only storeMonKey writes a key, the one that is there. *)
LEMMA ReconcileRefines ==
  ASSUME IInv, Reconcile("cur")
  PROVE  [Promise!Next]_(Promise!access)
  <1>1. CASE storeMonKey("cur")
    <2>1. UNCHANGED <<accessSecret, adminKey, rotatorSecret, rotator>>
      BY <1>1 DEF IInv, MonKeySafe, BeforeMonKey, storeMonKey, UpdateClusterAccessSecret
    <2>2. QED
      BY <2>1, Stutters
  <1>2. CASE rotateMonKey("cur") \/ UpdateMonCephxStatus("cur") \/ finishReconcile("cur")
    BY <1>2, Stutters DEF rotateMonKey, UpdateMonCephxStatus, finishReconcile
  <1>3. CASE \/ LoadClusterInfo("cur") \/ recoverNothing("cur") \/ recoverReadRotator("cur")
             \/ recoverPriorAdminCephxKeyRotation("cur") \/ validateCephVersion("cur")
             \/ initClusterInfo("cur") \/ startMons("cur") \/ readCephCluster("cur")
             \/ rotateAdminCephxKey("cur") \/ RotateMonCephxKeys("cur")
    BY <1>3, Stutters
    DEF LoadClusterInfo, recoverNothing, recoverReadRotator, recoverPriorAdminCephxKeyRotation,
        validateCephVersion, initClusterInfo, startMons, readCephCluster, rotateAdminCephxKey,
        RotateMonCephxKeys
  <1>4. QED
    BY <1>1, <1>2, <1>3 DEF Reconcile

(* Every step of the operator and its environment is one of AdminAccess. *)
LEMMA NextRefines == IInv /\ [Next]_vars => [Promise!Next]_(Promise!access)
  <1> SUFFICES ASSUME IInv, [Next]_vars PROVE [Promise!Next]_(Promise!access)
    OBVIOUS
  <1>1. ASSUME NEW r \in Routines, CallFails(r) PROVE [Promise!Next]_(Promise!access)
    BY <1>1, Stutters DEF CallFails
  <1>2. CASE RaiseGeneration \/ ChangeSpec \/ runCRDManager \/ Crash
    BY <1>2, Stutters DEF RaiseGeneration, ChangeSpec, runCRDManager, Crash
  <1>3. CASE UNCHANGED vars
    BY <1>3, Stutters DEF vars
  <1>4. QED
    BY <1>1, <1>2, <1>3, RotationRefines, ReconcileRefines DEF Next

(* In a supported cluster the rotation of the admin key, interrupted
   anywhere and recovered by the next reconcile, implements AdminAccess: no
   step of it gives up one of the two credentials unless the other works. *)
THEOREM KeepsAccessTheorem == Spec /\ Supported => KeepsAccess
  <1>1. Init => Promise!Init
    BY DEF Init, Promise!Init
  <1>2. QED
    BY <1>1, Safe, NextRefines, PTL DEF Spec, KeepsAccess, Promise!Spec

(* finalizeAdminKeyRotation publishes a new generation only when the Secret
   has the key of client.admin and client.admin-rotator is gone. *)
THEOREM PublishedTheorem == Spec /\ Supported => PublishedWhenSafe
  <1> DEFINE Published == adminGen' > adminGen => PrimaryWorks /\ rotator = None
  <1>1. ASSUME IInv, [Next]_vars PROVE [Published]_vars
    <2>1. ASSUME NEW r \in Routines, Rotation(r) PROVE Published
      <3>1. CASE finalizeAdminKeyRotation(r)
        BY <1>1, <3>1 DEF IInv, Progress, finalizeAdminKeyRotation
      <3>2. CASE UNCHANGED adminGen
        BY <1>1, <3>2 DEF IInv
      <3>3. QED
        BY <2>1, <3>1, <3>2
        DEF Rotation, recoverFrom, GenerateKey, CreateOrUpdate, AuthRotate, WriteConnectionConfig,
            storeAdminKey, UpdateClusterAccessSecret, AuthDelete, deleteRotatorSecret
    <2>2. CASE UNCHANGED adminGen
      BY <1>1, <2>2 DEF IInv
    <2>3. CASE Reconcile("cur")
      BY <2>2, <2>3, Zenon
      DEF Reconcile, LoadClusterInfo, recoverNothing, recoverReadRotator,
          recoverPriorAdminCephxKeyRotation, validateCephVersion, initClusterInfo, startMons,
          readCephCluster, rotateAdminCephxKey, RotateMonCephxKeys, rotateMonKey, storeMonKey,
          UpdateClusterAccessSecret, UpdateMonCephxStatus, finishReconcile
    <2>4. QED
      BY <1>1, <2>1, <2>2, <2>3
      DEF Next, CallFails, RaiseGeneration, ChangeSpec, runCRDManager, Crash, vars
  <1>2. QED
    BY <1>1, Safe, PTL DEF Spec, PublishedWhenSafe

(* What the reconcile knows of the mon key between rotating it and
   publishing the generation. *)
MonKeyKnown ==
    /\ pc["cur"] = "accessMon" => mon["cur"] = monKey
    /\ pc["cur"] = "statusMon" => monSecret = monKey

(* No rotation of the admin key, which would write the mon key it loaded,
   runs meanwhile. *)
LEMMA MonKeyStep == IInv /\ MonKeyKnown /\ [Next]_vars => MonKeyKnown'
  <1> SUFFICES ASSUME IInv, MonKeyKnown, [Next]_vars PROVE MonKeyKnown'
    OBVIOUS
  <1> USE DEF MonKeyKnown
  <1>0. pc["cur"] \in {"accessMon", "statusMon"} => pc["old"] = "none"
    BY DEF IInv, MonKeySafe
  <1>1. CASE rotateMonKey("cur") \/ storeMonKey("cur")
    BY <1>1 DEF IInv, rotateMonKey, storeMonKey, UpdateClusterAccessSecret, Answered
  <1>2. CASE \/ LoadClusterInfo("cur") \/ recoverNothing("cur") \/ recoverReadRotator("cur")
             \/ recoverPriorAdminCephxKeyRotation("cur") \/ validateCephVersion("cur")
             \/ initClusterInfo("cur") \/ startMons("cur") \/ readCephCluster("cur")
    <2>1. pc'["cur"] \notin {"accessMon", "statusMon"}
      BY <1>2
      DEF IInv, LoadClusterInfo, recoverNothing, recoverReadRotator,
          recoverPriorAdminCephxKeyRotation, validateCephVersion, initClusterInfo, startMons,
          readCephCluster
    <2>2. QED
      BY <2>1
  <1>3. CASE \/ rotateAdminCephxKey("cur") \/ RotateMonCephxKeys("cur")
             \/ UpdateMonCephxStatus("cur") \/ finishReconcile("cur")
    <2>1. pc'["cur"] \notin {"accessMon", "statusMon"}
      BY <1>3
      DEF IInv, rotateAdminCephxKey, RotateMonCephxKeys, UpdateMonCephxStatus, finishReconcile
    <2>2. QED
      BY <2>1
  <1>4. ASSUME NEW r \in Routines, Rotation(r) PROVE MonKeyKnown'
    <2>1. pc[r] \in Rotating
      BY <1>4, Zenon
      DEF Rotation, recoverFrom, GenerateKey, CreateOrUpdate, AuthRotate, WriteConnectionConfig,
          storeAdminKey, AuthDelete, deleteRotatorSecret, finalizeAdminKeyRotation
    <2>2. pc["cur"] \notin {"accessMon", "statusMon"}
      BY <1>0, <2>1
    <2>3. \E l \in Rotating \cup {"load", "none"} : pc' = [pc EXCEPT ![r] = l]
      BY <1>4, Zenon
      DEF Rotation, recoverFrom, GenerateKey, CreateOrUpdate, AuthRotate, WriteConnectionConfig,
          storeAdminKey, AuthDelete, deleteRotatorSecret, finalizeAdminKeyRotation, Answered
    <2>4. pc'["cur"] \notin {"accessMon", "statusMon"}
      BY <2>2, <2>3 DEF IInv
    <2>5. QED
      BY <2>4
  <1>5. ASSUME NEW r \in Routines, CallFails(r) PROVE MonKeyKnown'
    BY <1>5 DEF IInv, CallFails
  <1>6. CASE RaiseGeneration \/ ChangeSpec \/ UNCHANGED vars
    BY <1>6 DEF RaiseGeneration, ChangeSpec, vars
  <1>7. CASE runCRDManager \/ Crash
    <2>1. pc'["cur"] = "load"
      BY <1>7 DEF runCRDManager, Crash
    <2>2. QED
      BY <2>1
  <1>8. QED
    BY <1>1, <1>2, <1>3, <1>4, <1>5, <1>6, <1>7 DEF Next, Reconcile

(* UpdateMonCephxStatus publishes a new generation of the mon key only when
   the Secret has the key, in a supported cluster. *)
THEOREM MonKeyStoredTheorem == Spec /\ Supported => MonKeyStored
  <1> DEFINE Stored == monGen' > monGen => monSecret = monKey
  <1>1. Init => MonKeyKnown
    BY DEF Init, MonKeyKnown
  <1>2. ASSUME IInv, MonKeyKnown, [Next]_vars PROVE [Stored]_vars
    <2>1. CASE UNCHANGED monGen
      BY <1>2, <2>1 DEF IInv
    <2>2. CASE UpdateMonCephxStatus("cur")
      BY <1>2, <2>2 DEF UpdateMonCephxStatus, MonKeyKnown
    <2>3. ASSUME NEW r \in Routines, Rotation(r) PROVE UNCHANGED monGen
      BY <2>3
      DEF Rotation, recoverFrom, GenerateKey, CreateOrUpdate, AuthRotate, WriteConnectionConfig,
          storeAdminKey, UpdateClusterAccessSecret, AuthDelete, deleteRotatorSecret,
          finalizeAdminKeyRotation
    <2>4. Reconcile("cur") => UpdateMonCephxStatus("cur") \/ UNCHANGED monGen
      BY Zenon DEF Reconcile, LoadClusterInfo, recoverNothing, recoverReadRotator,
          recoverPriorAdminCephxKeyRotation, validateCephVersion, initClusterInfo, startMons,
          readCephCluster, rotateAdminCephxKey, RotateMonCephxKeys, rotateMonKey, storeMonKey,
          UpdateClusterAccessSecret, finishReconcile
    <2>5. QED
      BY <1>2, <2>1, <2>2, <2>3, <2>4
      DEF Next, CallFails, RaiseGeneration, ChangeSpec, runCRDManager, Crash, vars
  <1>3. QED
    BY <1>1, <1>2, MonKeyStep, Safe, PTL DEF Spec, MonKeyStored

=============================================================================
