----------------------- MODULE OSDReplacementProofs -----------------------
(***************************************************************************)
(* Proofs about OSDReplacement, for any number of OSDs and disks.          *)
(***************************************************************************)
EXTENDS OSDReplacement, TLAPS

-----------------------------------------------------------------------------
(* Types.                                                                   *)

\* Every step keeps the types.
LEMMA TypeStep ==
    ASSUME TypeOK, [Next]_vars PROVE TypeOK'
<1> USE DEF Fresh, Gone, Marks, Exists, Requested, InProgress, Skipped, Ready, Downscaled,
            Annotated, Unannotated, Marked, Stopped, Announced, Restored, NoDeployments
<1>1. ASSUME processOSDReplacements PROVE TypeOK'
  BY <1>1, DeviceAssumption, DomainAssumption, SettingAssumption
  DEF processOSDReplacements, cluster, control, prepare, monitor, TypeOK
<1>2. ASSUME NEW o \in OSDs, markReplacement(o) PROVE TypeOK'
  BY <1>2, DeviceAssumption, DomainAssumption, SettingAssumption
  DEF markReplacement, isMissingFromOSDDump, validateReplaceOSD, cluster, control, prepare,
      monitor, TypeOK
<1>3. ASSUME getOSDUpdateInfo PROVE TypeOK'
  BY <1>3, DeviceAssumption, DomainAssumption, SettingAssumption
  DEF getOSDUpdateInfo, cluster, control, prepare, monitor, TypeOK
<1>4. ASSUME startProvisioningOverNodes PROVE TypeOK'
  <2>1. awaiting' \in BOOLEAN
    BY <1>4, Zenon DEF startProvisioningOverNodes, TypeOK
  <2>2. status' \in [state : {"none", "starting", "completed", "failed"}, osds : SUBSET OSDs]
    BY <1>4 DEF startProvisioningOverNodes, NoStatus, prepare, TypeOK
  <2>. QED
    BY <1>4, <2>1, <2>2, DeviceAssumption, DomainAssumption, SettingAssumption
    DEF startProvisioningOverNodes, NoStatus, cluster, control, prepare, monitor, TypeOK
<1>5. ASSUME NEW o \in OSDs, updateExistingOSDs(o) PROVE TypeOK'
  BY <1>5, DeviceAssumption, DomainAssumption, SettingAssumption
  DEF updateExistingOSDs, cluster, control, prepare, monitor, TypeOK
<1>6. ASSUME createOSDsForStatusMap PROVE TypeOK'
  <2>1. awaiting' \in BOOLEAN
    BY <1>6, Zenon DEF createOSDsForStatusMap, TypeOK
  <2>2. NoStatus \in [state : {"none", "starting", "completed", "failed"}, osds : SUBSET OSDs]
    BY DEF NoStatus
  <2>3. status' \in [state : {"none", "starting", "completed", "failed"}, osds : SUBSET OSDs]
    BY <1>6, <2>2, Zenon DEF createOSDsForStatusMap, TypeOK
  <2>4. todo' \subseteq OSDs
    BY <1>6, Zenon DEF createOSDsForStatusMap, TypeOK
  <2>. QED
    BY <1>6, <2>1, <2>3, <2>4, DeviceAssumption, DomainAssumption, SettingAssumption, Zenon
    DEF createOSDsForStatusMap, cluster, control, prepare, monitor, TypeOK
<1>7. ASSUME NEW o \in OSDs, deleteOSDDeployment(o) PROVE TypeOK'
  BY <1>7, DeviceAssumption, DomainAssumption, SettingAssumption
  DEF deleteOSDDeployment, replacementReadyForSwap, cluster, control, prepare, monitor, TypeOK
<1>8. ASSUME NEW o \in OSDs, createDaemonOnNode(o) PROVE TypeOK'
  BY <1>8, DeviceAssumption, DomainAssumption, SettingAssumption
  DEF createDaemonOnNode, cluster, control, prepare, monitor, TypeOK
<1>9. ASSUME doneWithStatus PROVE TypeOK'
  BY <1>9, Zenon, DeviceAssumption, DomainAssumption, SettingAssumption
  DEF doneWithStatus, NoStatus, cluster, control, prepare, monitor, TypeOK
<1>10. ASSUME Return PROVE TypeOK'
  <2>1. awaiting' \in BOOLEAN
    BY <1>10, Zenon DEF Return, StopReconcile, TypeOK
  <2>2. status' \in [state : {"none", "starting", "completed", "failed"}, osds : SUBSET OSDs]
    BY <1>10 DEF Return, StopReconcile, NoStatus, prepare, TypeOK
  <2>. QED
    BY <1>10, <2>1, <2>2, DeviceAssumption, DomainAssumption, SettingAssumption
    DEF Return, StopReconcile, NoStatus, cluster, control, prepare, monitor, TypeOK
<1>11. ASSUME preProvisionReplacedOSDs PROVE TypeOK'
  BY <1>11, DeviceAssumption, DomainAssumption, SettingAssumption
  DEF preProvisionReplacedOSDs, cluster, control, prepare, monitor, TypeOK
<1>12. ASSUME NEW o \in OSDs, NEW d \in Devices, provisionReplacedOSD(o, d) PROVE TypeOK'
  BY <1>12, DeviceAssumption, DomainAssumption, SettingAssumption
  DEF provisionReplacedOSD, cluster, control, prepare, monitor, TypeOK
<1>13. ASSUME configureCVDevices PROVE TypeOK'
  BY <1>13, DeviceAssumption, DomainAssumption, SettingAssumption
  DEF configureCVDevices, cluster, control, prepare, monitor, TypeOK
<1>14. ASSUME ProvisionFails PROVE TypeOK'
  BY <1>14, DeviceAssumption, DomainAssumption, SettingAssumption
  DEF ProvisionFails, NoStatus, cluster, control, prepare, monitor, TypeOK
<1>15. ASSUME processOSDsDestroyForReplacement PROVE TypeOK'
  BY <1>15, DeviceAssumption, DomainAssumption, SettingAssumption
  DEF processOSDsDestroyForReplacement, NothingSeen, cluster, control, prepare, monitor, TypeOK
<1>16. ASSUME checkOSDDump PROVE TypeOK'
  BY <1>16, DeviceAssumption, DomainAssumption, SettingAssumption
  DEF checkOSDDump, NothingSeen, cluster, control, prepare, monitor, TypeOK
<1>17. ASSUME NEW o \in OSDs, cancelReplaceOSD(o) PROVE TypeOK'
  BY <1>17, DeviceAssumption, DomainAssumption, SettingAssumption
  DEF cancelReplaceOSD, Advance, Write, Destroyed, cluster, control, prepare, monitor, TypeOK
<1>18. ASSUME NEW o \in OSDs, annotateReadyForSwap(o) PROVE TypeOK'
  BY <1>18, DeviceAssumption, DomainAssumption, SettingAssumption
  DEF annotateReadyForSwap, Advance, Write, Destroyed, cluster, control, prepare, monitor, TypeOK
<1>19. ASSUME NEW o \in OSDs, runCryptCloseJobForOSD(o) PROVE TypeOK'
  BY <1>19, DeviceAssumption, DomainAssumption, SettingAssumption
  DEF runCryptCloseJobForOSD, Advance, Destroyed, isOSDPodGone, cluster, control, prepare, monitor,
      TypeOK
<1>20. ASSUME NEW o \in OSDs, checkSafeToDestroy(o) PROVE TypeOK'
  BY <1>20, DeviceAssumption, DomainAssumption, SettingAssumption
  DEF checkSafeToDestroy, Advance, Destroyed, isOSDPodGone, cluster, control, prepare, monitor,
      TypeOK
<1>21. ASSUME NEW o \in OSDs, OSDDestroy(o) PROVE TypeOK'
  BY <1>21, DeviceAssumption, DomainAssumption, SettingAssumption
  DEF OSDDestroy, cluster, control, prepare, monitor, TypeOK
<1>22. ASSUME NEW o \in OSDs, OSDOut(o) PROVE TypeOK'
  BY <1>22, DeviceAssumption, DomainAssumption, SettingAssumption
  DEF OSDOut, Advance, cluster, control, prepare, monitor, TypeOK
<1>23. ASSUME NEW o \in OSDs, scaleDownOSDDeployment(o) PROVE TypeOK'
  BY <1>23, DeviceAssumption, DomainAssumption, SettingAssumption
  DEF scaleDownOSDDeployment, Advance, Write, Destroyed, cluster, control, prepare, monitor, TypeOK
<1>24. ASSUME NEW o \in OSDs, WaitForNextTick(o) PROVE TypeOK'
  BY <1>24, DeviceAssumption, DomainAssumption, SettingAssumption
  DEF WaitForNextTick, Advance, cluster, control, prepare, monitor, TypeOK
<1>25. ASSUME Restart PROVE TypeOK'
  <2>1. awaiting' \in BOOLEAN
    BY <1>25, Zenon DEF Restart, StopReconcile, TypeOK
  <2>2. status' \in [state : {"none", "starting", "completed", "failed"}, osds : SUBSET OSDs]
    BY <1>25 DEF Restart, StopReconcile, NothingSeen, prepare, TypeOK
  <2>. QED
    BY <1>25, <2>1, <2>2, DeviceAssumption, DomainAssumption, SettingAssumption
    DEF Restart, StopReconcile, NothingSeen, cluster, control, prepare, monitor, TypeOK
<1>26. ASSUME NEW o \in OSDs, Annotate(o) PROVE TypeOK'
  BY <1>26, DeviceAssumption, DomainAssumption, SettingAssumption
  DEF Annotate, cluster, control, prepare, monitor, TypeOK
<1>27. ASSUME NEW o \in OSDs, RemoveAnnotation(o) PROVE TypeOK'
  BY <1>27, DeviceAssumption, DomainAssumption, SettingAssumption
  DEF RemoveAnnotation, cluster, control, prepare, monitor, TypeOK
<1>28. ASSUME NEW o \in OSDs, StartPod(o) PROVE TypeOK'
  BY <1>28, DeviceAssumption, DomainAssumption, SettingAssumption
  DEF StartPod, cluster, control, prepare, monitor, TypeOK
<1>29. ASSUME NEW o \in OSDs, StopPod(o) PROVE TypeOK'
  BY <1>29, DeviceAssumption, DomainAssumption, SettingAssumption
  DEF StopPod, cluster, control, prepare, monitor, TypeOK
<1>30. ASSUME NEW o \in OSDs, Drain(o) PROVE TypeOK'
  BY <1>30, DeviceAssumption, DomainAssumption, SettingAssumption
  DEF Drain, cluster, control, prepare, monitor, TypeOK
<1>31. ASSUME NEW o \in OSDs, Fill(o) PROVE TypeOK'
  BY <1>31, DeviceAssumption, DomainAssumption, SettingAssumption
  DEF Fill, cluster, control, prepare, monitor, TypeOK
<1>32. ASSUME NEW o \in OSDs, MarkIn(o) PROVE TypeOK'
  BY <1>32, DeviceAssumption, DomainAssumption, SettingAssumption
  DEF MarkIn, cluster, control, prepare, monitor, TypeOK
<1>33. ASSUME NEW o \in OSDs, CryptCloseJobSucceeds(o) PROVE TypeOK'
  BY <1>33, DeviceAssumption, DomainAssumption, SettingAssumption
  DEF CryptCloseJobSucceeds, cluster, control, prepare, monitor, TypeOK
<1>34. ASSUME NEW o \in OSDs, CryptCloseJobFails(o) PROVE TypeOK'
  BY <1>34, DeviceAssumption, DomainAssumption, SettingAssumption
  DEF CryptCloseJobFails, cluster, control, prepare, monitor, TypeOK
<1>35. ASSUME NEW o \in OSDs, CryptCloseJobDeleted(o) PROVE TypeOK'
  BY <1>35, DeviceAssumption, DomainAssumption, SettingAssumption
  DEF CryptCloseJobDeleted, cluster, control, prepare, monitor, TypeOK
<1>36. ASSUME NEW d \in Devices, SwapDisk(d) PROVE TypeOK'
  BY <1>36, DeviceAssumption, DomainAssumption, SettingAssumption
  DEF SwapDisk, cluster, control, prepare, monitor, TypeOK
<1>37. ASSUME UNCHANGED vars PROVE TypeOK'
  BY <1>37, DeviceAssumption, DomainAssumption, SettingAssumption
  DEF vars, cluster, control, prepare, monitor, TypeOK
<1>. QED
  BY <1>1, <1>2, <1>3, <1>4, <1>5, <1>6, <1>7, <1>8, <1>9, <1>10, <1>11, <1>12, <1>13, <1>14,
     <1>15, <1>16, <1>17, <1>18, <1>19, <1>20, <1>21, <1>22, <1>23, <1>24, <1>25, <1>26, <1>27,
     <1>28, <1>29, <1>30, <1>31, <1>32, <1>33, <1>34, <1>35, <1>36, <1>37, Zenon
  DEF Next, Reconcile, Prepare, HealthCheck, Environment

\* The initial state is well typed.
LEMMA InitTyped == ASSUME Init PROVE TypeOK
<1>1. awaiting \in BOOLEAN
  BY Zenon DEF Init
<1>2. device \in [Devices -> OSDs \cup {"blank", "missing", "other"}]
  BY DEF Init
<1>. QED
  BY <1>1, <1>2, SettingAssumption, DomainAssumption
  DEF Init, TypeOK, NoStatus, NothingSeen, NoDeployments, Fresh, Gone, Marks

\* Every variable always holds a value of its type.
THEOREM TypeCorrect == Spec => []TypeOK
  BY InitTyped, TypeStep, PTL DEF Spec

-----------------------------------------------------------------------------
(* What the reconcile, the prepare job and the health goroutine know of the *)
(* deployments they share.                                                  *)

\* The configuration the design asks for (removeOSDsIfOutAndSafeToRemove off), and a reconcile
\* that could list the deployments to skip.
Supported == ~RemoveOut /\ ~SkipListFails

\* The goroutine owns the deployment and has work left on it.
Held(o) == Exists(dep[o]) /\ InProgress(dep[o]) /\ ~Ready(dep[o])

\* No daemon can come up in the slot: it is free, or claimed by a disk the deployment does not describe.
Vacant(o) == slot[o] \in {"destroyed", "purged"} \/ (slot[o] = "new" /\ o \in outdated)

\* Every deployment the updater may still regenerate and the goroutine owns is in the skip set.
Fence ==
    /\ \A o \in OSDs : InProgress(dep[o]) => Skipped(dep[o])
    /\ cpc \in {"idle", "mark"} => queue = {}
    /\ \A o \in queue : InProgress(dep[o]) => o \in skip

\* A deployment the reconcile saw waiting for its disk still is.
Listed == \A o \in todo : cpc = "mark" /\ Ready(seen[o]) => Exists(dep[o]) /\ Ready(dep[o])

\* What the goroutine read at the start of the tick still holds for the OSDs it has not visited.
Ticking ==
    /\ gpc = "idle" => gtodo = {} /\ victim = {}
    /\ \A o \in gtodo :
         /\ Held(o) /\ (Downscaled(dep[o]) <=> Downscaled(mine[o])) /\ o \notin victim
         /\ slot[o] = "destroyed" => o \in gseen.destroyed
         /\ o \in gseen.destroyed => cjob[o] # "running" /\ Vacant(o)

\* The OSD about to be destroyed stays stopped.
Doomed ==
    \A o \in victim : Held(o) /\ Downscaled(dep[o]) /\ cjob[o] # "running" /\ o \notin pod

\* A crypto-close job runs only for a stopped, encrypted OSD the goroutine owns.
Closing ==
    \A o \in OSDs : cjob[o] = "running" =>
      /\ Held(o) /\ Downscaled(dep[o]) /\ o \in Encrypted
      /\ o \notin pod /\ slot[o] # "destroyed"

\* Ready for swap means that the slot is vacant; only live slots have a daemon; the slots the
\* prepare job has still to fill are destroyed.
Waiting ==
    /\ \A o \in OSDs : Ready(dep[o]) => Vacant(o)
    /\ pod \subseteq OSDs /\ \A o \in pod : slot[o] = "live"
    /\ \A o \in jslots : slot[o] = "destroyed"

\* What the three programs know of the deployments they share.
Shared == Fence /\ Listed /\ Ticking /\ Doomed /\ Closing /\ Waiting
Inv == TypeOK /\ Shared

-----------------------------------------------------------------------------

\* What each part of Shared depends on.
LEMMA Frame ==
    /\ Fence /\ UNCHANGED <<dep, cpc, queue, skip>> => Fence'
    /\ Listed /\ UNCHANGED <<dep, cpc, todo, seen>> => Listed'
    /\ Ticking /\ UNCHANGED <<dep, gpc, gtodo, victim, mine, gseen, slot, cjob, outdated>> => Ticking'
    /\ Doomed /\ UNCHANGED <<dep, victim, cjob, pod>> => Doomed'
    /\ Closing /\ UNCHANGED <<dep, cjob, pod, slot>> => Closing'
    /\ Waiting /\ UNCHANGED <<dep, slot, outdated, pod, jslots>> => Waiting'
<1>1. Fence /\ UNCHANGED <<dep, cpc, queue, skip>> => Fence'
  BY DEF Fence
<1>2. Listed /\ UNCHANGED <<dep, cpc, todo, seen>> => Listed'
  BY DEF Listed
<1>3. Ticking /\ UNCHANGED <<dep, gpc, gtodo, victim, mine, gseen, slot, cjob, outdated>> => Ticking'
  BY DEF Ticking, Held, Vacant
<1>4. Doomed /\ UNCHANGED <<dep, victim, cjob, pod>> => Doomed'
  BY DEF Doomed, Held
<1>5. Closing /\ UNCHANGED <<dep, cjob, pod, slot>> => Closing'
  BY DEF Closing, Held
<1>6. Waiting /\ UNCHANGED <<dep, slot, outdated, pod, jslots>> => Waiting'
  BY DEF Waiting, Vacant
<1>. QED
  BY <1>1, <1>2, <1>3, <1>4, <1>5, <1>6

\* Every step keeps what the three programs know of the deployments they share.
LEMMA InvStep ==
    ASSUME Supported, Inv, [Next]_vars PROVE Shared'
<1> USE DEF Fresh, Gone, Marks, Exists, Requested, InProgress, Skipped, Ready, Downscaled,
            Annotated, Unannotated, Marked, Stopped, Announced, Restored, NoDeployments
<1>1. ASSUME processOSDReplacements PROVE Shared'
  <2>1. Ticking' /\ Doomed' /\ Closing' /\ Waiting'
    BY <1>1, Frame, Zenon
    DEF processOSDReplacements, cluster, control, prepare, monitor, Inv, Shared
  <2>2. Fence'
    BY <1>1
    DEF processOSDReplacements, cluster, control, prepare, monitor, Inv, Shared, TypeOK, Fence
  <2>3. Listed'
    BY <1>1
    DEF processOSDReplacements, cluster, control, prepare, monitor, Inv, Shared, TypeOK, Listed
  <2>. QED
    BY <2>1, <2>2, <2>3 DEF Shared
<1>2. ASSUME NEW o \in OSDs, markReplacement(o) PROVE Shared'
  <2>1. Fence'
    BY <1>2
    DEF markReplacement, isMissingFromOSDDump, validateReplaceOSD, cluster, control, prepare,
        monitor, Inv, Shared, TypeOK, Fence
  <2>2. Listed'
    BY <1>2
    DEF markReplacement, isMissingFromOSDDump, validateReplaceOSD, cluster, control, prepare,
        monitor, Inv, Shared, TypeOK, Listed, Waiting, Vacant
  <2>3. Ticking'
    BY <1>2
    DEF markReplacement, isMissingFromOSDDump, validateReplaceOSD, cluster, control, prepare,
        monitor, Inv, Shared, TypeOK, Ticking, Held, Vacant, Fence, Listed
  <2>4. Doomed'
    BY <1>2
    DEF markReplacement, isMissingFromOSDDump, validateReplaceOSD, cluster, control, prepare,
        monitor, Inv, Shared, TypeOK, Doomed, Held, Listed
  <2>5. Closing'
    BY <1>2
    DEF markReplacement, isMissingFromOSDDump, validateReplaceOSD, cluster, control, prepare,
        monitor, Inv, Shared, TypeOK, Closing, Held, Listed
  <2>6. Waiting'
    BY <1>2
    DEF markReplacement, isMissingFromOSDDump, validateReplaceOSD, cluster, control, prepare,
        monitor, Inv, Shared, TypeOK, Waiting, Vacant
  <2>. QED
    BY <2>1, <2>2, <2>3, <2>4, <2>5, <2>6 DEF Shared
<1>3. ASSUME getOSDUpdateInfo PROVE Shared'
  <2>1. Ticking' /\ Doomed' /\ Closing' /\ Waiting'
    BY <1>3, Frame, Zenon
    DEF getOSDUpdateInfo, cluster, control, prepare, monitor, Inv, Shared, Supported
  <2>2. Fence'
    BY <1>3
    DEF getOSDUpdateInfo, cluster, control, prepare, monitor, Inv, Shared, TypeOK, Supported, Fence
  <2>3. Listed'
    BY <1>3
    DEF getOSDUpdateInfo, cluster, control, prepare, monitor, Inv, Shared, TypeOK, Supported, Listed
  <2>. QED
    BY <2>1, <2>2, <2>3 DEF Shared
<1>4. ASSUME startProvisioningOverNodes PROVE Shared'
  <2>1. Ticking' /\ Doomed' /\ Closing' /\ Waiting'
    BY <1>4, Frame, Zenon
    DEF startProvisioningOverNodes, NoStatus, cluster, control, prepare, monitor, Inv, Shared
  <2>2. Fence'
    BY <1>4
    DEF startProvisioningOverNodes, NoStatus, cluster, control, prepare, monitor, Inv, Shared,
        TypeOK, Fence
  <2>3. Listed'
    BY <1>4
    DEF startProvisioningOverNodes, NoStatus, cluster, control, prepare, monitor, Inv, Shared,
        TypeOK, Listed
  <2>. QED
    BY <2>1, <2>2, <2>3 DEF Shared
<1>5. ASSUME NEW o \in OSDs, updateExistingOSDs(o) PROVE Shared'
  <2>1. Fence'
    BY <1>5 DEF updateExistingOSDs, cluster, control, prepare, monitor, Inv, Shared, TypeOK, Fence
  <2>2. Listed'
    BY <1>5 DEF updateExistingOSDs, cluster, control, prepare, monitor, Inv, Shared, TypeOK, Listed
  <2>3. Ticking'
    BY <1>5
    DEF updateExistingOSDs, cluster, control, prepare, monitor, Inv, Shared, TypeOK, Ticking, Held,
        Vacant, Fence
  <2>4. Doomed'
    BY <1>5
    DEF updateExistingOSDs, cluster, control, prepare, monitor, Inv, Shared, TypeOK, Doomed, Held,
        Fence
  <2>5. Closing'
    BY <1>5
    DEF updateExistingOSDs, cluster, control, prepare, monitor, Inv, Shared, TypeOK, Closing, Held,
        Fence
  <2>6. Waiting'
    BY <1>5
    DEF updateExistingOSDs, cluster, control, prepare, monitor, Inv, Shared, TypeOK, Waiting, Vacant
  <2>. QED
    BY <2>1, <2>2, <2>3, <2>4, <2>5, <2>6 DEF Shared
<1>6. ASSUME createOSDsForStatusMap PROVE Shared'
  <2>1. Ticking' /\ Doomed' /\ Closing' /\ Waiting'
    BY <1>6, Frame, Zenon
    DEF createOSDsForStatusMap, NoStatus, cluster, control, prepare, monitor, Inv, Shared
  <2>2. Fence'
    BY <1>6, Zenon
    DEF createOSDsForStatusMap, NoStatus, cluster, control, prepare, monitor, Inv, Shared, TypeOK,
        Fence
  <2>3. Listed'
    BY <1>6
    DEF createOSDsForStatusMap, NoStatus, cluster, control, prepare, monitor, Inv, Shared, TypeOK,
        Listed
  <2>. QED
    BY <2>1, <2>2, <2>3 DEF Shared
<1>7. ASSUME NEW o \in OSDs, deleteOSDDeployment(o) PROVE Shared'
  <2>1. Fence'
    BY <1>7
    DEF deleteOSDDeployment, replacementReadyForSwap, cluster, control, prepare, monitor, Inv,
        Shared, TypeOK, Fence
  <2>2. Listed'
    BY <1>7
    DEF deleteOSDDeployment, replacementReadyForSwap, cluster, control, prepare, monitor, Inv,
        Shared, TypeOK, Listed
  <2>3. Ticking'
    BY <1>7
    DEF deleteOSDDeployment, replacementReadyForSwap, cluster, control, prepare, monitor, Inv,
        Shared, TypeOK, Ticking, Held, Vacant
  <2>4. Doomed'
    BY <1>7
    DEF deleteOSDDeployment, replacementReadyForSwap, cluster, control, prepare, monitor, Inv,
        Shared, TypeOK, Doomed, Held
  <2>5. Closing'
    BY <1>7
    DEF deleteOSDDeployment, replacementReadyForSwap, cluster, control, prepare, monitor, Inv,
        Shared, TypeOK, Closing, Held
  <2>6. Waiting'
    BY <1>7
    DEF deleteOSDDeployment, replacementReadyForSwap, cluster, control, prepare, monitor, Inv,
        Shared, TypeOK, Waiting, Vacant
  <2>. QED
    BY <2>1, <2>2, <2>3, <2>4, <2>5, <2>6 DEF Shared
<1>8. ASSUME NEW o \in OSDs, createDaemonOnNode(o) PROVE Shared'
  <2>1. Fence'
    BY <1>8 DEF createDaemonOnNode, cluster, control, prepare, monitor, Inv, Shared, TypeOK, Fence
  <2>2. Listed'
    BY <1>8 DEF createDaemonOnNode, cluster, control, prepare, monitor, Inv, Shared, TypeOK, Listed
  <2>3. Ticking'
    BY <1>8
    DEF createDaemonOnNode, cluster, control, prepare, monitor, Inv, Shared, TypeOK, Ticking, Held,
        Vacant
  <2>4. Doomed'
    BY <1>8
    DEF createDaemonOnNode, cluster, control, prepare, monitor, Inv, Shared, TypeOK, Doomed, Held
  <2>5. Closing'
    BY <1>8
    DEF createDaemonOnNode, cluster, control, prepare, monitor, Inv, Shared, TypeOK, Closing, Held
  <2>6. Waiting'
    BY <1>8
    DEF createDaemonOnNode, cluster, control, prepare, monitor, Inv, Shared, TypeOK, Waiting, Vacant
  <2>. QED
    BY <2>1, <2>2, <2>3, <2>4, <2>5, <2>6 DEF Shared
<1>9. ASSUME doneWithStatus PROVE Shared'
  <2>1. Ticking' /\ Doomed' /\ Closing' /\ Waiting'
    BY <1>9, Frame, Zenon
    DEF doneWithStatus, NoStatus, cluster, control, prepare, monitor, Inv, Shared
  <2>2. Fence'
    BY <1>9
    DEF doneWithStatus, NoStatus, cluster, control, prepare, monitor, Inv, Shared, TypeOK, Fence
  <2>3. Listed'
    BY <1>9
    DEF doneWithStatus, NoStatus, cluster, control, prepare, monitor, Inv, Shared, TypeOK, Listed
  <2>. QED
    BY <2>1, <2>2, <2>3 DEF Shared
<1>10. ASSUME Return PROVE Shared'
  <2>1. Ticking' /\ Doomed' /\ Closing' /\ Waiting'
    BY <1>10, Frame, Zenon
    DEF Return, StopReconcile, NoStatus, cluster, control, prepare, monitor, Inv, Shared
  <2>2. Fence'
    BY <1>10
    DEF Return, StopReconcile, NoStatus, cluster, control, prepare, monitor, Inv, Shared, TypeOK,
        Fence
  <2>3. Listed'
    BY <1>10
    DEF Return, StopReconcile, NoStatus, cluster, control, prepare, monitor, Inv, Shared, TypeOK,
        Listed
  <2>. QED
    BY <2>1, <2>2, <2>3 DEF Shared
<1>11. ASSUME preProvisionReplacedOSDs PROVE Shared'
  <2>1. Fence' /\ Listed' /\ Ticking' /\ Doomed' /\ Closing'
    BY <1>11, Frame, Zenon
    DEF preProvisionReplacedOSDs, cluster, control, prepare, monitor, Inv, Shared
  <2>2. Waiting'
    BY <1>11
    DEF preProvisionReplacedOSDs, cluster, control, prepare, monitor, Inv, Shared, TypeOK, Waiting,
        Vacant
  <2>. QED
    BY <2>1, <2>2 DEF Shared
<1>12. ASSUME NEW o \in OSDs, NEW d \in Devices, provisionReplacedOSD(o, d) PROVE Shared'
  <2>1. Fence' /\ Listed' /\ Doomed'
    BY <1>12, Frame, Zenon DEF provisionReplacedOSD, cluster, control, prepare, monitor, Inv, Shared
  <2>2. Ticking'
    BY <1>12
    DEF provisionReplacedOSD, cluster, control, prepare, monitor, Inv, Shared, TypeOK, Ticking,
        Held, Vacant, Waiting
  <2>3. Closing'
    BY <1>12
    DEF provisionReplacedOSD, cluster, control, prepare, monitor, Inv, Shared, TypeOK, Closing,
        Held, Waiting, Vacant
  <2>4. Waiting'
    BY <1>12
    DEF provisionReplacedOSD, cluster, control, prepare, monitor, Inv, Shared, TypeOK, Waiting,
        Vacant
  <2>. QED
    BY <2>1, <2>2, <2>3, <2>4 DEF Shared
<1>13. ASSUME configureCVDevices PROVE Shared'
  <2>1. Fence' /\ Listed' /\ Ticking' /\ Doomed' /\ Closing'
    BY <1>13, Frame, Zenon DEF configureCVDevices, cluster, control, prepare, monitor, Inv, Shared
  <2>2. Waiting'
    BY <1>13
    DEF configureCVDevices, cluster, control, prepare, monitor, Inv, Shared, TypeOK, Waiting, Vacant
  <2>. QED
    BY <2>1, <2>2 DEF Shared
<1>14. ASSUME ProvisionFails PROVE Shared'
  <2>1. Fence' /\ Listed' /\ Ticking' /\ Doomed' /\ Closing'
    BY <1>14, Frame, Zenon
    DEF ProvisionFails, NoStatus, cluster, control, prepare, monitor, Inv, Shared
  <2>2. Waiting'
    BY <1>14
    DEF ProvisionFails, NoStatus, cluster, control, prepare, monitor, Inv, Shared, TypeOK, Waiting,
        Vacant
  <2>. QED
    BY <2>1, <2>2 DEF Shared
<1>15. ASSUME processOSDsDestroyForReplacement PROVE Shared'
  <2>1. Fence' /\ Listed' /\ Doomed' /\ Closing' /\ Waiting'
    BY <1>15, Frame, Zenon
    DEF processOSDsDestroyForReplacement, NothingSeen, cluster, control, prepare, monitor, Inv,
        Shared
  <2>2. Ticking'
    BY <1>15
    DEF processOSDsDestroyForReplacement, NothingSeen, cluster, control, prepare, monitor, Inv,
        Shared, TypeOK, Ticking, Held, Vacant, Closing, Doomed, Waiting
  <2>. QED
    BY <2>1, <2>2 DEF Shared
<1>16. ASSUME checkOSDDump PROVE Shared'
  <2>1. dep' = dep
    BY <1>16 DEF checkOSDDump, Supported, Inv, TypeOK
  <2>2. UNCHANGED <<cluster, control, prepare, mine, gtodo, victim>> /\ gtodo = {} /\ victim = {}
    BY <1>16, Zenon DEF checkOSDDump
  <2>3. Fence' /\ Listed' /\ Doomed' /\ Closing' /\ Waiting'
    BY <2>1, <2>2, Frame DEF cluster, control, prepare, monitor, Inv, Shared
  <2>4. Ticking'
    BY <2>1, <2>2 DEF Ticking
  <2>. QED
    BY <2>3, <2>4 DEF Shared
<1>17. ASSUME NEW o \in OSDs, cancelReplaceOSD(o) PROVE Shared'
  <2>1. Fence'
    BY <1>17
    DEF cancelReplaceOSD, Advance, Write, Destroyed, cluster, control, prepare, monitor, Inv,
        Shared, TypeOK, Fence
  <2>2. Listed'
    BY <1>17
    DEF cancelReplaceOSD, Advance, Write, Destroyed, cluster, control, prepare, monitor, Inv,
        Shared, TypeOK, Listed, Ticking, Held, Vacant
  <2>3. Ticking'
    BY <1>17
    DEF cancelReplaceOSD, Advance, Write, Destroyed, cluster, control, prepare, monitor, Inv,
        Shared, TypeOK, Ticking, Held, Vacant
  <2>4. Doomed'
    BY <1>17
    DEF cancelReplaceOSD, Advance, Write, Destroyed, cluster, control, prepare, monitor, Inv,
        Shared, TypeOK, Doomed, Held, Ticking, Vacant
  <2>5. Closing'
    BY <1>17
    DEF cancelReplaceOSD, Advance, Write, Destroyed, cluster, control, prepare, monitor, Inv,
        Shared, TypeOK, Closing, Held, Ticking, Vacant
  <2>6. Waiting'
    BY <1>17
    DEF cancelReplaceOSD, Advance, Write, Destroyed, cluster, control, prepare, monitor, Inv,
        Shared, TypeOK, Waiting, Vacant
  <2>. QED
    BY <2>1, <2>2, <2>3, <2>4, <2>5, <2>6 DEF Shared
<1>18. ASSUME NEW o \in OSDs, annotateReadyForSwap(o) PROVE Shared'
  <2>1. Fence'
    BY <1>18
    DEF annotateReadyForSwap, Advance, Write, Destroyed, cluster, control, prepare, monitor, Inv,
        Shared, TypeOK, Fence, Ticking, Held, Vacant
  <2>2. Listed'
    BY <1>18
    DEF annotateReadyForSwap, Advance, Write, Destroyed, cluster, control, prepare, monitor, Inv,
        Shared, TypeOK, Listed, Ticking, Held, Vacant
  <2>3. Ticking'
    BY <1>18
    DEF annotateReadyForSwap, Advance, Write, Destroyed, cluster, control, prepare, monitor, Inv,
        Shared, TypeOK, Ticking, Held, Vacant
  <2>4. Doomed'
    BY <1>18
    DEF annotateReadyForSwap, Advance, Write, Destroyed, cluster, control, prepare, monitor, Inv,
        Shared, TypeOK, Doomed, Held
  <2>5. Closing'
    BY <1>18
    DEF annotateReadyForSwap, Advance, Write, Destroyed, cluster, control, prepare, monitor, Inv,
        Shared, TypeOK, Closing, Held, Ticking, Vacant
  <2>6. Waiting'
    BY <1>18
    DEF annotateReadyForSwap, Advance, Write, Destroyed, cluster, control, prepare, monitor, Inv,
        Shared, TypeOK, Waiting, Vacant, Ticking, Held
  <2>. QED
    BY <2>1, <2>2, <2>3, <2>4, <2>5, <2>6 DEF Shared
<1>19. ASSUME NEW o \in OSDs, runCryptCloseJobForOSD(o) PROVE Shared'
  <2>1. Fence' /\ Listed' /\ Waiting'
    BY <1>19, Frame, Zenon
    DEF runCryptCloseJobForOSD, Advance, Destroyed, isOSDPodGone, cluster, control, prepare,
        monitor, Inv, Shared
  <2>2. Ticking'
    BY <1>19
    DEF runCryptCloseJobForOSD, Advance, Destroyed, isOSDPodGone, cluster, control, prepare,
        monitor, Inv, Shared, TypeOK, Ticking, Held, Vacant
  <2>3. Doomed'
    BY <1>19
    DEF runCryptCloseJobForOSD, Advance, Destroyed, isOSDPodGone, cluster, control, prepare,
        monitor, Inv, Shared, TypeOK, Doomed, Held
  <2>4. Closing'
    BY <1>19
    DEF runCryptCloseJobForOSD, Advance, Destroyed, isOSDPodGone, cluster, control, prepare,
        monitor, Inv, Shared, TypeOK, Closing, Held, Ticking, Vacant
  <2>. QED
    BY <2>1, <2>2, <2>3, <2>4 DEF Shared
<1>20. ASSUME NEW o \in OSDs, checkSafeToDestroy(o) PROVE Shared'
  <2>1. Fence' /\ Listed' /\ Closing' /\ Waiting'
    BY <1>20, Frame, Zenon
    DEF checkSafeToDestroy, Advance, Destroyed, isOSDPodGone, cluster, control, prepare, monitor,
        Inv, Shared
  <2>2. Ticking'
    BY <1>20
    DEF checkSafeToDestroy, Advance, Destroyed, isOSDPodGone, cluster, control, prepare, monitor,
        Inv, Shared, TypeOK, Ticking, Held, Vacant
  <2>3. Doomed'
    BY <1>20
    DEF checkSafeToDestroy, Advance, Destroyed, isOSDPodGone, cluster, control, prepare, monitor,
        Inv, Shared, TypeOK, Doomed, Held, Ticking, Vacant, Closing
  <2>. QED
    BY <2>1, <2>2, <2>3 DEF Shared
<1>21. ASSUME NEW o \in OSDs, OSDDestroy(o) PROVE Shared'
  <2>1. Fence' /\ Listed'
    BY <1>21, Frame, Zenon DEF OSDDestroy, cluster, control, prepare, monitor, Inv, Shared
  <2>2. Ticking'
    BY <1>21
    DEF OSDDestroy, cluster, control, prepare, monitor, Inv, Shared, TypeOK, Ticking, Held, Vacant,
        Doomed
  <2>3. Doomed'
    BY <1>21
    DEF OSDDestroy, cluster, control, prepare, monitor, Inv, Shared, TypeOK, Doomed, Held, Ticking,
        Vacant
  <2>4. Closing'
    BY <1>21
    DEF OSDDestroy, cluster, control, prepare, monitor, Inv, Shared, TypeOK, Closing, Held, Doomed,
        Ticking, Vacant
  <2>5. Waiting'
    BY <1>21
    DEF OSDDestroy, cluster, control, prepare, monitor, Inv, Shared, TypeOK, Waiting, Vacant,
        Doomed, Held, Ticking
  <2>. QED
    BY <2>1, <2>2, <2>3, <2>4, <2>5 DEF Shared
<1>22. ASSUME NEW o \in OSDs, OSDOut(o) PROVE Shared'
  <2>1. Fence' /\ Listed' /\ Doomed' /\ Closing' /\ Waiting'
    BY <1>22, Frame, Zenon DEF OSDOut, Advance, cluster, control, prepare, monitor, Inv, Shared
  <2>2. Ticking'
    BY <1>22
    DEF OSDOut, Advance, cluster, control, prepare, monitor, Inv, Shared, TypeOK, Ticking, Held,
        Vacant
  <2>. QED
    BY <2>1, <2>2 DEF Shared
<1>23. ASSUME NEW o \in OSDs, scaleDownOSDDeployment(o) PROVE Shared'
  <2>1. Fence'
    BY <1>23
    DEF scaleDownOSDDeployment, Advance, Write, Destroyed, cluster, control, prepare, monitor, Inv,
        Shared, TypeOK, Fence, Ticking, Held, Vacant
  <2>2. Listed'
    BY <1>23
    DEF scaleDownOSDDeployment, Advance, Write, Destroyed, cluster, control, prepare, monitor, Inv,
        Shared, TypeOK, Listed, Ticking, Held, Vacant
  <2>3. Ticking'
    BY <1>23
    DEF scaleDownOSDDeployment, Advance, Write, Destroyed, cluster, control, prepare, monitor, Inv,
        Shared, TypeOK, Ticking, Held, Vacant
  <2>4. Doomed'
    BY <1>23
    DEF scaleDownOSDDeployment, Advance, Write, Destroyed, cluster, control, prepare, monitor, Inv,
        Shared, TypeOK, Doomed, Held
  <2>5. Closing'
    BY <1>23
    DEF scaleDownOSDDeployment, Advance, Write, Destroyed, cluster, control, prepare, monitor, Inv,
        Shared, TypeOK, Closing, Held, Ticking, Vacant
  <2>6. Waiting'
    BY <1>23
    DEF scaleDownOSDDeployment, Advance, Write, Destroyed, cluster, control, prepare, monitor, Inv,
        Shared, TypeOK, Waiting, Vacant
  <2>. QED
    BY <2>1, <2>2, <2>3, <2>4, <2>5, <2>6 DEF Shared
<1>24. ASSUME NEW o \in OSDs, WaitForNextTick(o) PROVE Shared'
  <2>1. Fence' /\ Listed' /\ Doomed' /\ Closing' /\ Waiting'
    BY <1>24, Frame, Zenon
    DEF WaitForNextTick, Advance, cluster, control, prepare, monitor, Inv, Shared
  <2>2. Ticking'
    BY <1>24
    DEF WaitForNextTick, Advance, cluster, control, prepare, monitor, Inv, Shared, TypeOK, Ticking,
        Held, Vacant
  <2>. QED
    BY <2>1, <2>2 DEF Shared
<1>25. ASSUME Restart PROVE Shared'
  <2>1. Closing' /\ Waiting'
    BY <1>25, Frame, Zenon
    DEF Restart, StopReconcile, NothingSeen, cluster, control, prepare, monitor, Inv, Shared
  <2>2. Fence'
    BY <1>25
    DEF Restart, StopReconcile, NothingSeen, cluster, control, prepare, monitor, Inv, Shared,
        TypeOK, Fence
  <2>3. Listed'
    BY <1>25
    DEF Restart, StopReconcile, NothingSeen, cluster, control, prepare, monitor, Inv, Shared,
        TypeOK, Listed
  <2>4. Ticking'
    BY <1>25
    DEF Restart, StopReconcile, NothingSeen, cluster, control, prepare, monitor, Inv, Shared,
        TypeOK, Ticking, Held, Vacant
  <2>5. Doomed'
    BY <1>25
    DEF Restart, StopReconcile, NothingSeen, cluster, control, prepare, monitor, Inv, Shared,
        TypeOK, Doomed, Held
  <2>. QED
    BY <2>1, <2>2, <2>3, <2>4, <2>5 DEF Shared
<1>26. ASSUME NEW o \in OSDs, Annotate(o) PROVE Shared'
  <2>1. Fence'
    BY <1>26, DomainAssumption
    DEF Annotate, cluster, control, prepare, monitor, Inv, Shared, TypeOK, Fence
  <2>2. Listed'
    BY <1>26, DomainAssumption
    DEF Annotate, cluster, control, prepare, monitor, Inv, Shared, TypeOK, Listed
  <2>3. Ticking'
    BY <1>26, DomainAssumption
    DEF Annotate, cluster, control, prepare, monitor, Inv, Shared, TypeOK, Ticking, Held, Vacant
  <2>4. Doomed'
    BY <1>26, DomainAssumption
    DEF Annotate, cluster, control, prepare, monitor, Inv, Shared, TypeOK, Doomed, Held
  <2>5. Closing'
    BY <1>26, DomainAssumption
    DEF Annotate, cluster, control, prepare, monitor, Inv, Shared, TypeOK, Closing, Held
  <2>6. Waiting'
    BY <1>26, DomainAssumption
    DEF Annotate, cluster, control, prepare, monitor, Inv, Shared, TypeOK, Waiting, Vacant
  <2>. QED
    BY <2>1, <2>2, <2>3, <2>4, <2>5, <2>6 DEF Shared
<1>27. ASSUME NEW o \in OSDs, RemoveAnnotation(o) PROVE Shared'
  <2>1. Fence'
    BY <1>27 DEF RemoveAnnotation, cluster, control, prepare, monitor, Inv, Shared, TypeOK, Fence
  <2>2. Listed'
    BY <1>27 DEF RemoveAnnotation, cluster, control, prepare, monitor, Inv, Shared, TypeOK, Listed
  <2>3. Ticking'
    BY <1>27
    DEF RemoveAnnotation, cluster, control, prepare, monitor, Inv, Shared, TypeOK, Ticking, Held,
        Vacant
  <2>4. Doomed'
    BY <1>27
    DEF RemoveAnnotation, cluster, control, prepare, monitor, Inv, Shared, TypeOK, Doomed, Held
  <2>5. Closing'
    BY <1>27
    DEF RemoveAnnotation, cluster, control, prepare, monitor, Inv, Shared, TypeOK, Closing, Held
  <2>6. Waiting'
    BY <1>27
    DEF RemoveAnnotation, cluster, control, prepare, monitor, Inv, Shared, TypeOK, Waiting, Vacant
  <2>. QED
    BY <2>1, <2>2, <2>3, <2>4, <2>5, <2>6 DEF Shared
<1>28. ASSUME NEW o \in OSDs, StartPod(o) PROVE Shared'
  <2>1. Fence' /\ Listed'
    BY <1>28, Frame, Zenon DEF StartPod, cluster, control, prepare, monitor, Inv, Shared
  <2>2. Ticking'
    BY <1>28
    DEF StartPod, cluster, control, prepare, monitor, Inv, Shared, TypeOK, Ticking, Held, Vacant,
        Waiting
  <2>3. Doomed'
    BY <1>28
    DEF StartPod, cluster, control, prepare, monitor, Inv, Shared, TypeOK, Doomed, Held, Waiting,
        Vacant
  <2>4. Closing'
    BY <1>28
    DEF StartPod, cluster, control, prepare, monitor, Inv, Shared, TypeOK, Closing, Held, Waiting,
        Vacant
  <2>5. Waiting'
    BY <1>28 DEF StartPod, cluster, control, prepare, monitor, Inv, Shared, TypeOK, Waiting, Vacant
  <2>. QED
    BY <2>1, <2>2, <2>3, <2>4, <2>5 DEF Shared
<1>29. ASSUME NEW o \in OSDs, StopPod(o) PROVE Shared'
  <2>1. Fence' /\ Listed' /\ Ticking'
    BY <1>29, Frame, Zenon DEF StopPod, cluster, control, prepare, monitor, Inv, Shared
  <2>2. Doomed'
    BY <1>29 DEF StopPod, cluster, control, prepare, monitor, Inv, Shared, TypeOK, Doomed, Held
  <2>3. Closing'
    BY <1>29 DEF StopPod, cluster, control, prepare, monitor, Inv, Shared, TypeOK, Closing, Held
  <2>4. Waiting'
    BY <1>29 DEF StopPod, cluster, control, prepare, monitor, Inv, Shared, TypeOK, Waiting, Vacant
  <2>. QED
    BY <2>1, <2>2, <2>3, <2>4 DEF Shared
<1>30. ASSUME NEW o \in OSDs, Drain(o) PROVE Shared'
  BY <1>30, Frame, Zenon DEF Drain, cluster, control, prepare, monitor, Inv, Shared
<1>31. ASSUME NEW o \in OSDs, Fill(o) PROVE Shared'
  BY <1>31, Frame, Zenon DEF Fill, cluster, control, prepare, monitor, Inv, Shared
<1>32. ASSUME NEW o \in OSDs, MarkIn(o) PROVE Shared'
  BY <1>32, Frame, Zenon DEF MarkIn, cluster, control, prepare, monitor, Inv, Shared
<1>33. ASSUME NEW o \in OSDs, CryptCloseJobSucceeds(o) PROVE Shared'
  <2>1. Fence' /\ Listed' /\ Waiting'
    BY <1>33, Frame, Zenon
    DEF CryptCloseJobSucceeds, cluster, control, prepare, monitor, Inv, Shared
  <2>2. Ticking'
    BY <1>33
    DEF CryptCloseJobSucceeds, cluster, control, prepare, monitor, Inv, Shared, TypeOK, Ticking,
        Held, Vacant
  <2>3. Doomed'
    BY <1>33
    DEF CryptCloseJobSucceeds, cluster, control, prepare, monitor, Inv, Shared, TypeOK, Doomed, Held
  <2>4. Closing'
    BY <1>33
    DEF CryptCloseJobSucceeds, cluster, control, prepare, monitor, Inv, Shared, TypeOK, Closing,
        Held
  <2>. QED
    BY <2>1, <2>2, <2>3, <2>4 DEF Shared
<1>34. ASSUME NEW o \in OSDs, CryptCloseJobFails(o) PROVE Shared'
  <2>1. Fence' /\ Listed' /\ Waiting'
    BY <1>34, Frame, Zenon DEF CryptCloseJobFails, cluster, control, prepare, monitor, Inv, Shared
  <2>2. Ticking'
    BY <1>34
    DEF CryptCloseJobFails, cluster, control, prepare, monitor, Inv, Shared, TypeOK, Ticking, Held,
        Vacant
  <2>3. Doomed'
    BY <1>34
    DEF CryptCloseJobFails, cluster, control, prepare, monitor, Inv, Shared, TypeOK, Doomed, Held
  <2>4. Closing'
    BY <1>34
    DEF CryptCloseJobFails, cluster, control, prepare, monitor, Inv, Shared, TypeOK, Closing, Held
  <2>. QED
    BY <2>1, <2>2, <2>3, <2>4 DEF Shared
<1>35. ASSUME NEW o \in OSDs, CryptCloseJobDeleted(o) PROVE Shared'
  <2>1. Fence' /\ Listed' /\ Waiting'
    BY <1>35, Frame, Zenon DEF CryptCloseJobDeleted, cluster, control, prepare, monitor, Inv, Shared
  <2>2. Ticking'
    BY <1>35
    DEF CryptCloseJobDeleted, cluster, control, prepare, monitor, Inv, Shared, TypeOK, Ticking,
        Held, Vacant
  <2>3. Doomed'
    BY <1>35
    DEF CryptCloseJobDeleted, cluster, control, prepare, monitor, Inv, Shared, TypeOK, Doomed, Held
  <2>4. Closing'
    BY <1>35
    DEF CryptCloseJobDeleted, cluster, control, prepare, monitor, Inv, Shared, TypeOK, Closing, Held
  <2>. QED
    BY <2>1, <2>2, <2>3, <2>4 DEF Shared
<1>36. ASSUME NEW d \in Devices, SwapDisk(d) PROVE Shared'
  BY <1>36, Frame, Zenon DEF SwapDisk, cluster, control, prepare, monitor, Inv, Shared
<1>37. ASSUME UNCHANGED vars PROVE Shared'
  BY <1>37, Frame DEF vars, cluster, control, prepare, monitor, Inv, Shared
<1>. QED
  BY <1>1, <1>2, <1>3, <1>4, <1>5, <1>6, <1>7, <1>8, <1>9, <1>10, <1>11, <1>12, <1>13, <1>14,
     <1>15, <1>16, <1>17, <1>18, <1>19, <1>20, <1>21, <1>22, <1>23, <1>24, <1>25, <1>26, <1>27,
     <1>28, <1>29, <1>30, <1>31, <1>32, <1>33, <1>34, <1>35, <1>36, <1>37, Zenon
  DEF Next, Reconcile, Prepare, HealthCheck, Environment

\* Inv holds in every state.
LEMMA Invariance == ASSUME Supported PROVE Spec => []Inv
<1>1. Init => Inv
  <2>1. Init => TypeOK
    BY InitTyped, Zenon
  <2>2. Init => /\ dep = [o \in OSDs |-> Fresh] /\ slot = [o \in OSDs |-> "live"]
                /\ cjob = [o \in OSDs |-> "none"] /\ pod = OSDs /\ todo = {} /\ queue = {}
                /\ jslots = {} /\ gtodo = {} /\ victim = {}
    BY Zenon DEF Init
  <2>3. Init => Fence
    BY <2>2 DEF Fence, InProgress, Fresh
  <2>4. Init => Listed /\ Ticking /\ Doomed
    BY <2>2, Zenon DEF Listed, Ticking, Doomed
  <2>5. Init => Closing
    BY <2>2 DEF Closing
  <2>6. Init => Waiting
    BY <2>2 DEF Waiting, Ready, Fresh
  <2>. QED
    BY <2>1, <2>3, <2>4, <2>5, <2>6, Zenon DEF Inv, Shared
<1>2. Inv /\ [Next]_vars => Inv'
  BY TypeStep, InvStep DEF Inv
<1>. QED
  BY <1>1, <1>2, PTL DEF Spec

\* With any number of OSDs and disks, failing calls and restarts, `cryptsetup close` never runs
\* under a live daemon (replace_destroy.go:309).
THEOREM CloseIsSafe == ASSUME Supported PROVE Spec => []NoCloseUnderDaemon
<1>1. Inv => NoCloseUnderDaemon
  BY DEF Inv, Shared, Closing, NoCloseUnderDaemon
<1>. QED
  BY <1>1, Invariance, PTL

\* An OSD announced ready for swap has no daemon and no live slot (annotateReadyForSwap).
THEOREM SwapTheorem == ASSUME Supported PROVE Spec => []SwapIsSafe
<1>1. Inv => SwapIsSafe
  BY SMTT(30) DEF Inv, Shared, TypeOK, Waiting, Vacant, SwapIsSafe
<1>. QED
  BY <1>1, Invariance, PTL

\* A step scales a stopped deployment of the goroutine's up only once its request is gone.
LEMMA FenceStep ==
    ASSUME Supported, Inv, [Next]_vars, NEW p \in OSDs,
           Exists(dep[p]), InProgress(dep[p]), Downscaled(dep[p]), Exists(dep'[p]), ~Downscaled(dep'[p])
    PROVE  ~Requested(dep[p])
<1> USE DEF Fresh, Gone, Marks, Exists, Requested, InProgress, Skipped, Ready, Downscaled,
            Annotated, Unannotated, Marked, Stopped, Announced, Restored, NoDeployments
<1>1. ASSUME NEW o \in OSDs, markReplacement(o) PROVE ~Requested(dep[p])
  BY <1>1 DEF markReplacement, Inv, Shared, TypeOK, Supported
<1>2. ASSUME NEW o \in OSDs, updateExistingOSDs(o) PROVE ~Requested(dep[p])
  BY <1>2 DEF updateExistingOSDs, Fence, Inv, Shared, TypeOK, Supported
<1>3. ASSUME NEW o \in OSDs, deleteOSDDeployment(o) PROVE ~Requested(dep[p])
  BY <1>3 DEF deleteOSDDeployment, Inv, Shared, TypeOK, Supported
<1>4. ASSUME NEW o \in OSDs, createDaemonOnNode(o) PROVE ~Requested(dep[p])
  BY <1>4 DEF createDaemonOnNode, Inv, Shared, TypeOK, Supported
<1>5. ASSUME checkOSDDump PROVE ~Requested(dep[p])
  BY <1>5 DEF checkOSDDump, Inv, Shared, TypeOK, Supported
<1>6. ASSUME NEW o \in OSDs, cancelReplaceOSD(o) PROVE ~Requested(dep[p])
  BY <1>6 DEF cancelReplaceOSD, Advance, Write, Inv, Shared, TypeOK, Supported
<1>7. ASSUME NEW o \in OSDs, annotateReadyForSwap(o) PROVE ~Requested(dep[p])
  BY <1>7 DEF annotateReadyForSwap, Advance, Write, Inv, Shared, TypeOK, Supported
<1>8. ASSUME NEW o \in OSDs, scaleDownOSDDeployment(o) PROVE ~Requested(dep[p])
  BY <1>8 DEF scaleDownOSDDeployment, Advance, Write, Inv, Shared, TypeOK, Supported
<1>9. ASSUME NEW o \in OSDs, Annotate(o) PROVE ~Requested(dep[p])
  BY <1>9, DomainAssumption DEF Annotate, Inv, Shared, TypeOK, Supported
<1>10. ASSUME NEW o \in OSDs, RemoveAnnotation(o) PROVE ~Requested(dep[p])
  BY <1>10 DEF RemoveAnnotation, Inv, Shared, TypeOK, Supported
<1>11. ASSUME UNCHANGED vars \/ processOSDReplacements \/ getOSDUpdateInfo \/ startProvisioningOverNodes
              \/ createOSDsForStatusMap \/ doneWithStatus \/ Return
              \/ preProvisionReplacedOSDs \/ configureCVDevices \/ ProvisionFails
              \/ processOSDsDestroyForReplacement \/ Restart PROVE FALSE
  BY <1>11, Zenon
  DEF vars, processOSDReplacements, getOSDUpdateInfo, startProvisioningOverNodes,
      createOSDsForStatusMap, doneWithStatus, Return, preProvisionReplacedOSDs, configureCVDevices,
      ProvisionFails, processOSDsDestroyForReplacement, Restart
<1>12. ASSUME NEW o \in OSDs,
             \/ runCryptCloseJobForOSD(o) \/ checkSafeToDestroy(o) \/ OSDDestroy(o)
             \/ OSDOut(o) \/ WaitForNextTick(o) \/ StartPod(o)
             \/ StopPod(o) \/ Drain(o) \/ Fill(o)
             \/ MarkIn(o) \/ CryptCloseJobSucceeds(o) \/ CryptCloseJobFails(o) \/ CryptCloseJobDeleted(o)
    PROVE FALSE
  BY <1>12, Zenon
  DEF runCryptCloseJobForOSD, checkSafeToDestroy, OSDDestroy, OSDOut, WaitForNextTick, StartPod,
      StopPod, Drain, Fill, MarkIn, CryptCloseJobSucceeds, CryptCloseJobFails, CryptCloseJobDeleted
<1>13. ASSUME NEW d \in Devices, SwapDisk(d) \/ \E o \in OSDs : provisionReplacedOSD(o, d)
       PROVE FALSE
  BY <1>13, Zenon DEF SwapDisk, provisionReplacedOSD
<1>. QED
  BY <1>1, <1>2, <1>3, <1>4, <1>5, <1>6, <1>7, <1>8, <1>9, <1>10, <1>11, <1>12, <1>13, Zenon
  DEF Next, Reconcile, Prepare, HealthCheck, Environment

\* The updater never brings an OSD back that is being replaced (osd.go:287-290, update.go:156).
THEOREM FenceHolds == ASSUME Supported PROVE Spec => NeverRevived
<1>1. Inv /\ [Next]_vars =>
        [\A o \in OSDs : Exists(dep[o]) /\ InProgress(dep[o]) /\ Downscaled(dep[o])
                         /\ Exists(dep'[o]) /\ ~Downscaled(dep'[o]) => ~Requested(dep[o])]_vars
  BY FenceStep, Zenon
<1>. QED
  BY <1>1, Invariance, PTL DEF Spec, NeverRevived

-----------------------------------------------------------------------------
(* Only drained, stopped and closed OSDs are destroyed.                      *)

\* The deletion of a finished crypto-close job is through before a daemon runs in the slot again.
ResultsDeleted == \A o \in pod \cap Encrypted : cjob[o] # "succeeded"

\* A successful crypto-close job has closed the mappings of its OSD, and nothing opens them, or
\* brings data back, between the last check of safe-to-destroy and the destroy.
Drained ==
    /\ open \subseteq Encrypted
    /\ \A o \in OSDs : cjob[o] = "succeeded" => o \notin open
    /\ \A o \in victim : o \in safe /\ o \notin open

\* Every step keeps what the destroy relies on.
LEMMA DrainedStep ==
    ASSUME Inv, Drained, ResultsDeleted', [Next]_vars PROVE Drained'
<1>1. ASSUME NEW o \in OSDs, StartPod(o) PROVE Drained'
  <2>1. o \in Encrypted => cjob[o] # "succeeded"
    BY <1>1 DEF StartPod, ResultsDeleted
  <2>2. o \notin victim
    BY <1>1 DEF StartPod, Inv, Shared, Doomed
  <2>. QED
    BY <1>1, <2>1, <2>2 DEF StartPod, Drained, monitor
<1>2. ASSUME NEW o \in OSDs, Drain(o) PROVE Drained'
  BY <1>2 DEF Drain, Drained, monitor
<1>3. ASSUME NEW o \in OSDs, Fill(o) PROVE Drained'
  BY <1>3 DEF Fill, Drained, monitor, Inv, Shared, Doomed
<1>4. ASSUME NEW o \in OSDs, CryptCloseJobSucceeds(o) PROVE Drained'
  BY <1>4 DEF CryptCloseJobSucceeds, Drained, monitor, Inv, TypeOK
<1>5. ASSUME NEW o \in OSDs, CryptCloseJobFails(o) PROVE Drained'
  BY <1>5 DEF CryptCloseJobFails, Drained, monitor, Inv, TypeOK
<1>6. ASSUME NEW o \in OSDs, CryptCloseJobDeleted(o) PROVE Drained'
  BY <1>6 DEF CryptCloseJobDeleted, Drained, monitor, Inv, TypeOK
<1>7. ASSUME NEW o \in OSDs, runCryptCloseJobForOSD(o) PROVE Drained'
  BY <1>7 DEF runCryptCloseJobForOSD, Drained, Inv, TypeOK
<1>8. ASSUME NEW o \in OSDs, checkSafeToDestroy(o) PROVE Drained'
  BY <1>8, Zenon DEF checkSafeToDestroy, Drained
<1>9. ASSUME NEW o \in OSDs, OSDDestroy(o) PROVE Drained'
  BY <1>9 DEF OSDDestroy, Drained
<1>10. ASSUME Restart PROVE Drained'
  BY <1>10 DEF Restart, Drained, cluster
<1>11. ASSUME NEW o \in OSDs, NEW d \in Devices, provisionReplacedOSD(o, d) PROVE Drained'
  BY <1>11 DEF provisionReplacedOSD, Drained, monitor
<1>12. ASSUME UNCHANGED <<open, cjob, victim, safe>> PROVE Drained'
  BY <1>12 DEF Drained
<1>13. ASSUME UNCHANGED vars \/ processOSDReplacements \/ getOSDUpdateInfo \/ startProvisioningOverNodes
              \/ createOSDsForStatusMap \/ doneWithStatus \/ Return
              \/ preProvisionReplacedOSDs \/ configureCVDevices \/ ProvisionFails
              \/ processOSDsDestroyForReplacement \/ checkOSDDump
       PROVE  UNCHANGED <<open, cjob, victim, safe>>
  BY <1>13, Zenon
  DEF vars, cluster, monitor, processOSDReplacements, getOSDUpdateInfo, startProvisioningOverNodes,
      createOSDsForStatusMap, doneWithStatus, Return, preProvisionReplacedOSDs, configureCVDevices,
      ProvisionFails, processOSDsDestroyForReplacement, checkOSDDump
<1>14. ASSUME NEW o \in OSDs,
             \/ markReplacement(o) \/ updateExistingOSDs(o) \/ deleteOSDDeployment(o) \/ createDaemonOnNode(o)
             \/ cancelReplaceOSD(o) \/ annotateReadyForSwap(o) \/ OSDOut(o) \/ scaleDownOSDDeployment(o)
             \/ WaitForNextTick(o) \/ Annotate(o) \/ RemoveAnnotation(o) \/ StopPod(o) \/ MarkIn(o)
       PROVE  UNCHANGED <<open, cjob, victim, safe>>
  BY <1>14, Zenon
  DEF cluster, monitor, markReplacement, updateExistingOSDs, deleteOSDDeployment, createDaemonOnNode,
      cancelReplaceOSD, annotateReadyForSwap, OSDOut, scaleDownOSDDeployment, WaitForNextTick, Annotate,
      RemoveAnnotation, StopPod, MarkIn
<1>15. ASSUME NEW d \in Devices, SwapDisk(d) PROVE UNCHANGED <<open, cjob, victim, safe>>
  BY <1>15, Zenon DEF SwapDisk, monitor
<1>. QED
  BY <1>1, <1>2, <1>3, <1>4, <1>5, <1>6, <1>7, <1>8, <1>9, <1>10, <1>11, <1>12, <1>13, <1>14, <1>15,
     Zenon
  DEF Next, Reconcile, Prepare, HealthCheck, Environment

\* Only OSDDestroy destroys a live slot.
LEMMA DestroyStep ==
    ASSUME Inv, [Next]_vars, NEW p \in OSDs, slot[p] = "live", slot'[p] = "destroyed"
    PROVE  p \in victim
<1>1. ASSUME NEW o \in OSDs, StartPod(o) PROVE FALSE
  BY <1>1 DEF StartPod, Inv, TypeOK
<1>2. ASSUME NEW o \in OSDs, OSDDestroy(o) PROVE p \in victim
  BY <1>2 DEF OSDDestroy, Inv, TypeOK
<1>3. ASSUME NEW o \in OSDs, NEW d \in Devices, provisionReplacedOSD(o, d) PROVE FALSE
  BY <1>3 DEF provisionReplacedOSD, Inv, TypeOK
<1>4. ASSUME UNCHANGED slot PROVE FALSE
  BY <1>4
<1>5. ASSUME UNCHANGED vars \/ processOSDReplacements \/ getOSDUpdateInfo \/ startProvisioningOverNodes
              \/ createOSDsForStatusMap \/ doneWithStatus \/ Return
              \/ preProvisionReplacedOSDs \/ configureCVDevices \/ ProvisionFails
              \/ processOSDsDestroyForReplacement \/ checkOSDDump \/ Restart
       PROVE  UNCHANGED slot
  BY <1>5, Zenon
  DEF vars, cluster, processOSDReplacements, getOSDUpdateInfo, startProvisioningOverNodes,
      createOSDsForStatusMap, doneWithStatus, Return, preProvisionReplacedOSDs, configureCVDevices,
      ProvisionFails, processOSDsDestroyForReplacement, checkOSDDump, Restart
<1>6. ASSUME NEW o \in OSDs,
             \/ markReplacement(o) \/ updateExistingOSDs(o) \/ deleteOSDDeployment(o) \/ createDaemonOnNode(o)
             \/ cancelReplaceOSD(o) \/ annotateReadyForSwap(o) \/ OSDOut(o) \/ scaleDownOSDDeployment(o)
             \/ WaitForNextTick(o) \/ Annotate(o) \/ RemoveAnnotation(o) \/ StopPod(o) \/ MarkIn(o)
       PROVE  UNCHANGED slot
  BY <1>6, Zenon
  DEF cluster, markReplacement, updateExistingOSDs, deleteOSDDeployment, createDaemonOnNode,
      cancelReplaceOSD, annotateReadyForSwap, OSDOut, scaleDownOSDDeployment, WaitForNextTick, Annotate,
      RemoveAnnotation, StopPod, MarkIn
<1>7. ASSUME NEW o \in OSDs,
             \/ runCryptCloseJobForOSD(o) \/ checkSafeToDestroy(o) \/ Drain(o) \/ Fill(o)
             \/ CryptCloseJobSucceeds(o) \/ CryptCloseJobFails(o) \/ CryptCloseJobDeleted(o)
       PROVE  UNCHANGED slot
  BY <1>7, Zenon
  DEF runCryptCloseJobForOSD, checkSafeToDestroy, Drain, Fill, CryptCloseJobSucceeds,
      CryptCloseJobFails, CryptCloseJobDeleted
<1>8. ASSUME NEW d \in Devices, SwapDisk(d) PROVE UNCHANGED slot
  BY <1>8, Zenon DEF SwapDisk
<1>. QED
  BY <1>1, <1>2, <1>3, <1>4, <1>5, <1>6, <1>7, <1>8, Zenon
  DEF Next, Reconcile, Prepare, HealthCheck, Environment

\* Only an OSD that is drained, stopped and closed is destroyed (processOSDReplacementDestroy), as
\* long as crypto-close jobs are gone when the next daemon of their slot runs: a job that is still
\* being deleted would pass for the one of the next replacement (cryptCloseJobStatusForOSD).
THEOREM DestroyTheorem ==
    ASSUME Supported PROVE Spec /\ []ResultsDeleted => DestroyOnlyDrained
<1>1. Init => Drained
  BY DEF Init, Drained
<1>2. Inv /\ Drained /\ ResultsDeleted' /\ [Next]_vars => Drained'
  BY DrainedStep, Zenon
<1>3. ASSUME Inv, Drained, [Next]_vars, NEW o \in OSDs, slot[o] = "live", slot'[o] = "destroyed"
      PROVE  o \in safe /\ o \notin pod \cup open
  <2>1. o \in victim
    BY <1>3, DestroyStep, Zenon
  <2>. QED
    BY <1>3, <2>1 DEF Drained, Inv, Shared, Doomed
<1>4. Inv /\ Drained /\ [Next]_vars =>
        [\A o \in OSDs : slot[o] = "live" /\ slot'[o] = "destroyed"
                         => o \in safe /\ o \notin pod \cup open]_vars
  BY <1>3, Zenon
<1>. QED
  BY <1>1, <1>2, <1>4, Invariance, PTL DEF Spec, DestroyOnlyDrained

-----------------------------------------------------------------------------
(* The deployment of an OSD under replacement is kept.                       *)

\* Stopped deployments and those waiting for their disk carry the mark of the goroutine, and a tick
\* has excluded them from the removal of dead OSDs before it stops or announces them.
Kept ==
    /\ \A o \in OSDs : Exists(dep[o]) /\ (Downscaled(dep[o]) \/ Ready(dep[o])) => InProgress(dep[o])
    /\ \A o \in gtodo : o \in exclude /\ Exists(mine[o]) /\ InProgress(mine[o]) /\ ~Ready(mine[o])
    /\ RemoveOut /\ gpc = "work" =>
         \A o \in OSDs : Exists(dep[o]) /\ (Downscaled(dep[o]) \/ Ready(dep[o])) => o \in exclude

\* A failed list of deployments, which excludes nothing, and the removal of dead OSDs do not meet.
Excluding == ~(RemoveOut /\ Faulty)

\* Every step keeps the marks and the exclusion, and what the reconcile saw waiting for its disk.
LEMMA KeptStep ==
    ASSUME Excluding, TypeOK, Kept, Listed, [Next]_vars PROVE Kept' /\ Listed'
<1> USE DEF Fresh, Gone, Marks, Exists, Requested, InProgress, Skipped, Ready, Downscaled,
            Annotated, Unannotated, Marked, Stopped, Announced, Restored, NoDeployments
<1>0. /\ dep \in [OSDs -> SUBSET Marks] /\ seen \in [OSDs -> SUBSET Marks]
      /\ mine \in [OSDs -> SUBSET Marks] /\ gtodo \subseteq OSDs /\ todo \subseteq OSDs
  BY Zenon DEF TypeOK
<1>1. ASSUME NEW o \in OSDs, markReplacement(o) PROVE Kept' /\ Listed'
  <2>1. UNCHANGED <<gpc, gtodo, mine, exclude>> /\ UNCHANGED cpc
    BY <1>1, Zenon DEF markReplacement, monitor
  <2>2. cpc = "mark" /\ o \in todo /\ todo' = todo \ {o} /\ seen' = [seen EXCEPT ![o] = Gone]
    BY <1>1, Zenon DEF markReplacement, monitor
  <2>3. \/ Ready(seen[o]) /\ dep' = [dep EXCEPT ![o] = Gone]
        \/ /\ ~Ready(seen[o]) /\ ~InProgress(seen[o]) /\ dep[o] = seen[o]
           /\ dep' = [dep EXCEPT ![o] = Marked(dep[o])]
        \/ UNCHANGED dep
    BY <1>1, Zenon DEF markReplacement, monitor
  <2>4. Kept'
    BY <1>0, <2>1, <2>2, <2>3 DEF Kept
  <2>5. Listed'
    BY <1>0, <2>1, <2>2, <2>3 DEF Kept, Listed
  <2>. QED
    BY <2>4, <2>5, Zenon
<1>2. ASSUME NEW o \in OSDs, updateExistingOSDs(o) PROVE Kept' /\ Listed'
  <2>1. UNCHANGED <<gpc, gtodo, mine, exclude>> /\ UNCHANGED <<cpc, todo, seen>>
    BY <1>2, Zenon DEF updateExistingOSDs, monitor
  <2>2. cpc = "loop" /\ (dep' = dep \/ dep' = [dep EXCEPT ![o] = Fresh])
    BY <1>2, Zenon DEF updateExistingOSDs, monitor
  <2>3. Kept'
    BY <1>0, <2>1, <2>2 DEF Kept
  <2>4. Listed'
    BY <1>0, <2>1, <2>2 DEF Kept, Listed
  <2>. QED
    BY <2>3, <2>4, Zenon
<1>3. ASSUME NEW o \in OSDs, deleteOSDDeployment(o) PROVE Kept' /\ Listed'
  <2>1. UNCHANGED <<gpc, gtodo, mine, exclude>>
    BY <1>3, Zenon DEF deleteOSDDeployment, monitor
  <2>2. cpc = "create" /\ cpc' = cpc /\ (dep' = dep \/ dep' = [dep EXCEPT ![o] = Gone])
    BY <1>3, Zenon DEF deleteOSDDeployment, monitor
  <2>3. Kept'
    BY <1>0, <2>1, <2>2 DEF Kept
  <2>4. Listed'
    BY <1>0, <2>1, <2>2 DEF Kept, Listed
  <2>. QED
    BY <2>3, <2>4, Zenon
<1>4. ASSUME NEW o \in OSDs, createDaemonOnNode(o) PROVE Kept' /\ Listed'
  <2>1. UNCHANGED <<gpc, gtodo, mine, exclude>>
    BY <1>4, Zenon DEF createDaemonOnNode, monitor
  <2>2. cpc = "create" /\ cpc' = cpc /\ (dep' = dep \/ dep' = [dep EXCEPT ![o] = Fresh])
    BY <1>4, Zenon DEF createDaemonOnNode, monitor
  <2>3. Kept'
    BY <1>0, <2>1, <2>2 DEF Kept
  <2>4. Listed'
    BY <1>0, <2>1, <2>2 DEF Kept, Listed
  <2>. QED
    BY <2>3, <2>4, Zenon
<1>5. ASSUME processOSDReplacements PROVE Kept' /\ Listed'
  <2>1. UNCHANGED <<gpc, gtodo, mine, exclude>> /\ UNCHANGED dep
    BY <1>5, Zenon DEF processOSDReplacements, monitor
  <2>2. todo' \subseteq {o \in OSDs : Exists(dep[o])}
    BY <1>5 DEF processOSDReplacements
  <2>3. seen' = [o \in OSDs |-> IF o \in todo' THEN dep[o] ELSE Gone]
    BY <1>5, Zenon DEF processOSDReplacements
  <2>4. Kept'
    BY <2>1, Zenon DEF Kept
  <2>5. Listed'
    BY <2>1, <2>2, <2>3 DEF Listed
  <2>. QED
    BY <2>4, <2>5, Zenon
<1>6. ASSUME processOSDsDestroyForReplacement PROVE Kept' /\ Listed'
  <2> DEFINE owned == {o \in OSDs : Exists(dep[o]) /\ InProgress(dep[o])}
             work  == {o \in owned : ~Ready(dep[o])}
  <2>1. UNCHANGED <<dep, cpc, todo, seen>>
    BY <1>6, Zenon DEF processOSDsDestroyForReplacement, control
  <2>2. \A o \in OSDs : Exists(dep'[o]) /\ (Downscaled(dep'[o]) \/ Ready(dep'[o])) => InProgress(dep'[o])
    BY <2>1, Zenon DEF Kept
  <2>3. ASSUME exclude' = owned, gtodo' = work,
               mine' = [o \in OSDs |-> IF o \in work THEN dep[o] ELSE Gone]
        PROVE  Kept'
    <3>1. \A o \in gtodo' : o \in exclude' /\ Exists(mine'[o]) /\ InProgress(mine'[o]) /\ ~Ready(mine'[o])
      BY <2>3
    <3>2. \A o \in OSDs : Exists(dep'[o]) /\ (Downscaled(dep'[o]) \/ Ready(dep'[o])) => o \in exclude'
      BY <2>1, <2>2, <2>3
    <3>. QED
      BY <2>2, <3>1, <3>2, Zenon DEF Kept
  <2>4. ASSUME Faulty, gtodo' = {} PROVE Kept'
    <3>1. ~RemoveOut
      BY <2>4, Zenon DEF Excluding
    <3>2. \A o \in gtodo' : FALSE
      BY <2>4
    <3>. QED
      BY <2>2, <3>1, <3>2, Zenon DEF Kept
  <2>5. Kept'
    BY <1>6, <2>3, <2>4, Zenon DEF processOSDsDestroyForReplacement
  <2>6. Listed'
    BY <2>1, Zenon DEF Listed
  <2>. QED
    BY <2>5, <2>6, Zenon
<1>7. ASSUME checkOSDDump PROVE Kept' /\ Listed'
  <2>1. gpc = "work" /\ gtodo = {} /\ gpc' = "idle" /\ UNCHANGED <<gtodo, mine, cpc, todo, seen>>
    BY <1>7, Zenon DEF checkOSDDump, control
  <2>2. PICK gone \in SUBSET {o \in OSDs \ exclude : /\ RemoveOut /\ Exists(dep[o])
                                                   /\ slot[o] # "purged" /\ o \in safe \ (pod \cup in)} :
          dep' = [o \in OSDs |-> IF o \in gone THEN Gone ELSE dep[o]]
    BY <1>7, Zenon DEF checkOSDDump
  <2>3. Kept'
    <3>1. \A o \in OSDs : Exists(dep'[o]) => dep'[o] = dep[o]
      BY <2>2
    <3>2. gpc' # "work" /\ \A o \in gtodo' : FALSE
      BY <2>1
    <3>. QED
      BY <3>1, <3>2, Zenon DEF Kept
  <2>4. Listed'
    BY <1>0, <2>1, <2>2 DEF Kept, Listed
  <2>. QED
    BY <2>3, <2>4, Zenon
<1>8. ASSUME NEW o \in OSDs, cancelReplaceOSD(o) PROVE Kept' /\ Listed'
  <2>1. /\ o \in gtodo /\ gtodo' = gtodo \ {o} /\ mine' = [mine EXCEPT ![o] = Gone]
        /\ UNCHANGED <<gpc, exclude, cpc, todo, seen>>
    BY <1>8, Zenon DEF cancelReplaceOSD, Advance, Write, control
  <2>2. dep' = dep \/ (dep[o] = mine[o] /\ dep' = [dep EXCEPT ![o] = Restored(mine[o])])
    BY <1>8, Zenon DEF cancelReplaceOSD, Advance, Write
  <2>3. Kept'
    BY <1>0, <2>1, <2>2 DEF Kept
  <2>4. Listed'
    BY <1>0, <2>1, <2>2 DEF Kept, Listed
  <2>. QED
    BY <2>3, <2>4, Zenon
<1>9. ASSUME NEW o \in OSDs, annotateReadyForSwap(o) PROVE Kept' /\ Listed'
  <2>1. /\ o \in gtodo /\ gtodo' = gtodo \ {o} /\ mine' = [mine EXCEPT ![o] = Gone]
        /\ UNCHANGED <<gpc, exclude, cpc, todo, seen>>
    BY <1>9, Zenon DEF annotateReadyForSwap, Advance, Write, control
  <2>2. dep' = dep \/ (dep[o] = mine[o] /\ dep' = [dep EXCEPT ![o] = Announced(mine[o])])
    BY <1>9, Zenon DEF annotateReadyForSwap, Advance, Write
  <2>3. Kept'
    BY <1>0, <2>1, <2>2 DEF Kept
  <2>4. Listed'
    BY <1>0, <2>1, <2>2 DEF Kept, Listed
  <2>. QED
    BY <2>3, <2>4, Zenon
<1>10. ASSUME NEW o \in OSDs, scaleDownOSDDeployment(o) PROVE Kept' /\ Listed'
  <2>1. /\ o \in gtodo /\ gtodo' = gtodo \ {o} /\ mine' = [mine EXCEPT ![o] = Gone]
        /\ UNCHANGED <<gpc, exclude, cpc, todo, seen>>
    BY <1>10, Zenon DEF scaleDownOSDDeployment, Advance, Write, control
  <2>2. dep' = dep \/ (dep[o] = mine[o] /\ dep' = [dep EXCEPT ![o] = Stopped(mine[o])])
    BY <1>10, Zenon DEF scaleDownOSDDeployment, Advance, Write
  <2>3. Kept'
    BY <1>0, <2>1, <2>2 DEF Kept
  <2>4. Listed'
    BY <1>0, <2>1, <2>2 DEF Kept, Listed
  <2>. QED
    BY <2>3, <2>4, Zenon
<1>11. ASSUME NEW o \in OSDs,
             runCryptCloseJobForOSD(o) \/ checkSafeToDestroy(o) \/ OSDOut(o) \/ WaitForNextTick(o)
       PROVE Kept' /\ Listed'
  <2>1. /\ o \in gtodo /\ gtodo' = gtodo \ {o} /\ mine' = [mine EXCEPT ![o] = Gone]
        /\ UNCHANGED <<gpc, exclude, cpc, todo, seen>>
    BY <1>11, Zenon
    DEF runCryptCloseJobForOSD, checkSafeToDestroy, OSDOut, WaitForNextTick, Advance, control
  <2>2. dep' = dep
    BY <1>11, Zenon DEF runCryptCloseJobForOSD, checkSafeToDestroy, OSDOut, WaitForNextTick, Advance
  <2>3. Kept'
    BY <1>0, <2>1, <2>2 DEF Kept
  <2>4. Listed'
    BY <1>0, <2>1, <2>2 DEF Kept, Listed
  <2>. QED
    BY <2>3, <2>4, Zenon
<1>12. ASSUME NEW o \in OSDs, Annotate(o) PROVE Kept' /\ Listed'
  <2>1. UNCHANGED <<gpc, gtodo, mine, exclude>> /\ UNCHANGED <<cpc, todo, seen>>
    BY <1>12, Zenon DEF Annotate, monitor, control
  <2>2. PICK v \in {"ok", "typo"} : dep' = [dep EXCEPT ![o] = Annotated(dep[o], v)]
    BY <1>12, DomainAssumption, Zenon DEF Annotate
  <2>3. Kept'
    BY <1>0, <2>1, <2>2 DEF Kept
  <2>4. Listed'
    BY <1>0, <2>1, <2>2 DEF Listed
  <2>. QED
    BY <2>3, <2>4, Zenon
<1>13. ASSUME NEW o \in OSDs, RemoveAnnotation(o) PROVE Kept' /\ Listed'
  <2>1. UNCHANGED <<gpc, gtodo, mine, exclude>> /\ UNCHANGED <<cpc, todo, seen>>
    BY <1>13, Zenon DEF RemoveAnnotation, monitor, control
  <2>2. dep' = [dep EXCEPT ![o] = Unannotated(dep[o])]
    BY <1>13, Zenon DEF RemoveAnnotation, monitor, control
  <2>3. Kept'
    BY <1>0, <2>1, <2>2 DEF Kept
  <2>4. Listed'
    BY <1>0, <2>1, <2>2 DEF Kept, Listed
  <2>. QED
    BY <2>3, <2>4, Zenon
<1>14. ASSUME Restart PROVE Kept' /\ Listed'
  <2>1. dep' = dep /\ gpc' = "idle" /\ gtodo' = {} /\ todo' = {}
    BY <1>14, Zenon DEF Restart, StopReconcile
  <2>. QED
    BY <2>1 DEF Kept, Listed
<1>15. ASSUME Return PROVE Kept' /\ Listed'
  <2>1. dep' = dep /\ todo' = {} /\ UNCHANGED <<gpc, gtodo, mine, exclude>>
    BY <1>15, Zenon DEF Return, StopReconcile, monitor
  <2>. QED
    BY <2>1, Zenon DEF Kept, Listed
<1>16. ASSUME createOSDsForStatusMap PROVE Kept' /\ Listed'
  <2>1. dep' = dep /\ UNCHANGED <<gpc, gtodo, mine, exclude>>
    BY <1>16, Zenon DEF createOSDsForStatusMap, monitor
  <2>2. cpc = "loop" /\ cpc' \in {"create", "loop"}
    BY <1>16, Zenon DEF createOSDsForStatusMap
  <2>3. cpc' # "mark"
    BY <2>2
  <2>. QED
    BY <2>1, <2>3, Zenon DEF Kept, Listed
<1>17. ASSUME getOSDUpdateInfo PROVE Kept' /\ Listed'
  <2>1. dep' = dep /\ cpc' = "provision" /\ UNCHANGED <<gpc, gtodo, mine, exclude>>
    BY <1>17, Zenon DEF getOSDUpdateInfo, monitor
  <2>2. cpc' # "mark"
    BY <2>1
  <2>. QED
    BY <2>1, <2>2, Zenon DEF Kept, Listed
<1>18. ASSUME UNCHANGED <<dep, gtodo, exclude, mine, gpc>>, UNCHANGED <<todo, seen>>,
              cpc' = cpc \/ cpc' # "mark"
       PROVE  Kept' /\ Listed'
  BY <1>18, Zenon DEF Kept, Listed
<1>19. ASSUME UNCHANGED vars \/ startProvisioningOverNodes \/ doneWithStatus \/ preProvisionReplacedOSDs
              \/ configureCVDevices \/ ProvisionFails
       PROVE  Kept' /\ Listed'
  BY <1>19, <1>18, Zenon
  DEF vars, monitor, control, startProvisioningOverNodes, doneWithStatus, preProvisionReplacedOSDs,
      configureCVDevices, ProvisionFails
<1>20. ASSUME NEW o \in OSDs,
             \/ OSDDestroy(o) \/ StartPod(o) \/ StopPod(o) \/ Drain(o) \/ Fill(o) \/ MarkIn(o)
             \/ CryptCloseJobSucceeds(o) \/ CryptCloseJobFails(o) \/ CryptCloseJobDeleted(o)
       PROVE  Kept' /\ Listed'
  BY <1>20, <1>18, Zenon
  DEF monitor, control, OSDDestroy, StartPod, StopPod, Drain, Fill, MarkIn, CryptCloseJobSucceeds,
      CryptCloseJobFails, CryptCloseJobDeleted
<1>21. ASSUME NEW d \in Devices, SwapDisk(d) \/ \E o \in OSDs : provisionReplacedOSD(o, d)
       PROVE  Kept' /\ Listed'
  BY <1>21, <1>18, Zenon DEF SwapDisk, provisionReplacedOSD, monitor, control
<1>. QED
  BY <1>1, <1>2, <1>3, <1>4, <1>5, <1>6, <1>7, <1>8, <1>9, <1>10, <1>11, <1>12, <1>13, <1>14,
     <1>15, <1>16, <1>17, <1>18, <1>19, <1>20, <1>21, Zenon
  DEF Next, Reconcile, Prepare, HealthCheck, Environment

\* A step deletes a stopped deployment of the goroutine's only if it waits for its disk.
LEMMA TeardownStep ==
    ASSUME TypeOK, Kept, Listed, [Next]_vars, NEW p \in OSDs,
           Exists(dep[p]), InProgress(dep[p]), Downscaled(dep[p]), ~Exists(dep'[p])
    PROVE  Ready(dep[p])
<1> USE DEF Fresh, Gone, Marks, Exists, Requested, InProgress, Skipped, Ready, Downscaled,
            Annotated, Unannotated, Marked, Stopped, Announced, Restored, NoDeployments
<1>0. dep \in [OSDs -> SUBSET Marks]
  BY Zenon DEF TypeOK
<1>1. ASSUME NEW o \in OSDs, markReplacement(o) PROVE Ready(dep[p])
  BY <1>0, <1>1 DEF markReplacement, Listed
<1>2. ASSUME NEW o \in OSDs, updateExistingOSDs(o) PROVE FALSE
  BY <1>0, <1>2 DEF updateExistingOSDs
<1>3. ASSUME NEW o \in OSDs, deleteOSDDeployment(o) PROVE Ready(dep[p])
  BY <1>0, <1>3 DEF deleteOSDDeployment, replacementReadyForSwap
<1>4. ASSUME NEW o \in OSDs, createDaemonOnNode(o) PROVE FALSE
  BY <1>0, <1>4 DEF createDaemonOnNode
<1>5. ASSUME checkOSDDump PROVE FALSE
  <2>1. gpc = "work"
    BY <1>5, Zenon DEF checkOSDDump
  <2>2. PICK gone \in SUBSET {o \in OSDs \ exclude : /\ RemoveOut /\ Exists(dep[o])
                                                   /\ slot[o] # "purged" /\ o \in safe \ (pod \cup in)} :
          dep' = [o \in OSDs |-> IF o \in gone THEN Gone ELSE dep[o]]
    BY <1>5, Zenon DEF checkOSDDump
  <2>. QED
    BY <2>1, <2>2 DEF Kept
<1>6. ASSUME NEW o \in OSDs, cancelReplaceOSD(o) PROVE FALSE
  BY <1>0, <1>6 DEF cancelReplaceOSD, Advance, Write
<1>7. ASSUME NEW o \in OSDs, annotateReadyForSwap(o) PROVE FALSE
  BY <1>0, <1>7 DEF annotateReadyForSwap, Advance, Write
<1>8. ASSUME NEW o \in OSDs, scaleDownOSDDeployment(o) PROVE FALSE
  BY <1>0, <1>8 DEF scaleDownOSDDeployment, Advance, Write
<1>9. ASSUME NEW o \in OSDs, Annotate(o) PROVE FALSE
  BY <1>0, <1>9, DomainAssumption DEF Annotate
<1>10. ASSUME NEW o \in OSDs, RemoveAnnotation(o) PROVE FALSE
  BY <1>0, <1>10 DEF RemoveAnnotation
<1>11. ASSUME UNCHANGED vars \/ processOSDReplacements \/ getOSDUpdateInfo \/ startProvisioningOverNodes
              \/ createOSDsForStatusMap \/ doneWithStatus \/ Return
              \/ preProvisionReplacedOSDs \/ configureCVDevices \/ ProvisionFails
              \/ processOSDsDestroyForReplacement \/ Restart PROVE FALSE
  BY <1>11, Zenon
  DEF vars, processOSDReplacements, getOSDUpdateInfo, startProvisioningOverNodes,
      createOSDsForStatusMap, doneWithStatus, Return, preProvisionReplacedOSDs, configureCVDevices,
      ProvisionFails, processOSDsDestroyForReplacement, Restart
<1>12. ASSUME NEW o \in OSDs,
             \/ runCryptCloseJobForOSD(o) \/ checkSafeToDestroy(o) \/ OSDDestroy(o)
             \/ OSDOut(o) \/ WaitForNextTick(o) \/ StartPod(o)
             \/ StopPod(o) \/ Drain(o) \/ Fill(o)
             \/ MarkIn(o) \/ CryptCloseJobSucceeds(o) \/ CryptCloseJobFails(o) \/ CryptCloseJobDeleted(o)
    PROVE FALSE
  BY <1>12, Zenon
  DEF runCryptCloseJobForOSD, checkSafeToDestroy, OSDDestroy, OSDOut, WaitForNextTick, StartPod,
      StopPod, Drain, Fill, MarkIn, CryptCloseJobSucceeds, CryptCloseJobFails, CryptCloseJobDeleted
<1>13. ASSUME NEW d \in Devices, SwapDisk(d) \/ \E o \in OSDs : provisionReplacedOSD(o, d)
       PROVE FALSE
  BY <1>13, Zenon DEF SwapDisk, provisionReplacedOSD
<1>. QED
  BY <1>1, <1>2, <1>3, <1>4, <1>5, <1>6, <1>7, <1>8, <1>9, <1>10, <1>11, <1>12, <1>13, Zenon
  DEF Next, Reconcile, Prepare, HealthCheck, Environment

\* With removeOSDsIfOutAndSafeToRemove too, neither the reconcile nor the removal of dead OSDs deletes
\* a deployment scaled to zero for a replacement before it is announced ready for swap (health.go:171,
\* create.go:97), unless the list of deployments fails in the tick that removes dead OSDs.
THEOREM TeardownTheorem == ASSUME Excluding PROVE Spec => TeardownNotForgotten
<1>1. Init => Kept /\ Listed
  BY DEF Init, Kept, Listed, Fresh, Exists, Downscaled, Ready, InProgress
<1>2. TypeOK /\ Kept /\ Listed /\ [Next]_vars => Kept' /\ Listed'
  BY KeptStep, Zenon
<1>3. TypeOK /\ Kept /\ Listed /\ [Next]_vars =>
        [\A o \in OSDs : Exists(dep[o]) /\ InProgress(dep[o]) /\ Downscaled(dep[o]) /\ ~Exists(dep'[o])
                         => Ready(dep[o])]_vars
  BY TeardownStep, Zenon
<1>. QED
  BY <1>1, <1>2, <1>3, TypeCorrect, PTL DEF Spec, TeardownNotForgotten

=============================================================================
