----------------------- MODULE OSDProvisioningProofs -----------------------
(***************************************************************************)
(* What OSDProvisioning guarantees for any number of OSDs, targets and     *)
(* failure domains, any faults and any state of the requests: migration    *)
(* destroys one OSD at a time, at most one failure domain is unavailable,  *)
(* and success means that everything was deployed and updated.             *)
(***************************************************************************)
EXTENDS OSDProvisioningTypes

-----------------------------------------------------------------------------
(* One OSD at a time *)

\* OneOSDAtATime is not inductive: a prepare job of an earlier reconcile may
\* still be about to destroy its OSD when the next migration starts.  The
\* invariant is about every OSD that a job can still destroy.
Migrating(o) == migrate = o \/ \E t \in Target : job[t].migrate = o

\* What is lost or may be lost next: the OSDs that hold data, are down, and
\* have no Deployment or a job that is to destroy them.
Exposed == lost \cup {o \in in \ up : dep[o] = "none" \/ \E t \in Target : job[t].migrate = o}

\* The pods of migrated Deployments are not the ones an update replaces.
Apart ==
    /\ \A o \in Osd : Migrating(o) => dep[o] # "old"
    /\ \A o \in stopping : dep[o] = "new" /\ ~Migrating(o)

\* Until the jobs are started nothing has recreated the migrated Deployment.
Early == pc \in {"save", "list", "prepare"}
Deleted ==
    /\ Early /\ migrate # NoOsd => dep[migrate] = "none"
    /\ pc = "idle" => migrate = NoOsd

AtMostOne == \A o, p \in Exposed : o = p

IInv == Apart /\ Deleted /\ AtMostOne

\* The types these proofs use.
Types ==
    /\ dep \in [Osd -> {"none", "old", "new"}]
    /\ job \in [Target -> [migrate : Osd \cup {NoOsd}, step : {"pending", "zapped", "ended"}]]
    /\ migrate \in Osd \cup {NoOsd}
    /\ in \subseteq Osd /\ stopping \subseteq Osd /\ exist \subseteq Osd

USE OsdAssumption DEF NoOsd, Target, Ended, Early

\* Steps that migrate, deploy and expose no OSD that was not.
LEMMA Frame ==
  ASSUME Types, Types', IInv,
         \A o \in Osd : Migrating(o)' => Migrating(o),
         \A o \in Osd : dep'[o] \in {dep[o], "new"},
         \A o \in stopping' : o \in stopping \/ (dep[o] = "old" /\ dep'[o] = "new"),
         Exposed' \subseteq Exposed,
         Early' => (Early /\ UNCHANGED <<migrate, dep>>) \/ migrate' = NoOsd,
         pc' = "idle" => migrate' = NoOsd
  PROVE  IInv'
  <1>1. Apart'
    BY DEF IInv, Apart, Types
  <1>2. Deleted'
    BY DEF IInv, Deleted
  <1>3. AtMostOne'
    BY DEF IInv, AtMostOne
  <1> QED
    BY <1>1, <1>2, <1>3 DEF IInv

\* Steps that only move the operator's program counter, or forget c.migrateOSD.
LEMMA Still ==
  ASSUME Types, Types', IInv,
         UNCHANGED <<dep, job, in, up, lost, stopping>>,
         migrate' \in {migrate, NoOsd},
         Early' => (Early /\ migrate' = migrate) \/ migrate' = NoOsd,
         pc' = "idle" => migrate' = NoOsd
  PROVE  IInv'
  <1>1. \A o \in Osd : Migrating(o)' => Migrating(o)
    BY DEF Migrating
  <1>2. Exposed' \subseteq Exposed
    BY DEF Exposed
  <1>3. \A o \in Osd : dep'[o] \in {dep[o], "new"}
    OBVIOUS
  <1> QED
    BY <1>1, <1>2, <1>3, Frame

\* Every step of a prepare job, interrupted or not, keeps the invariant: it
\* keeps its OSD or ends, and loses no OSD that it may not.
LEMMA JobsIInv ==
  ASSUME Typed, HomeInv, Types, Types', IInv, NEW t \in Target, Jobs(t) \/ JobFaults(t)
  PROVE  IInv'
  <1> CephTypes /\ (JobStep(t) \/ JobFault(t))
    BY DEF Typed, Jobs, JobFaults
  <1>1. UNCHANGED <<pc, migrate>>
    BY DEF Jobs, JobFaults, unchangedByOthers, locals
  <1>2. UNCHANGED <<dep, in, up, stopping>> /\ \A u \in Target : job'[u].migrate \in {job[u].migrate, NoOsd}
    BY JobEffect DEF JobChanges
  <1>3. lost' \subseteq Exposed
    BY DEF Exposed, CanDestroy, Destroy, JobStep, DestroyOSD, DestroyFails, Provision,
           JobFault, ProvisionFails, RestartBeforeZap, RestartAfterZap, RestartBeforeReport
  <1>4. \A o \in Osd : Migrating(o)' => Migrating(o)
    BY <1>1, <1>2 DEF Migrating
  <1>5. Exposed' \subseteq Exposed
    BY <1>2, <1>3 DEF Types, Exposed
  <1>6. \A o \in Osd : dep'[o] \in {dep[o], "new"}
    BY <1>2
  <1> QED
    BY <1>1, <1>2, <1>4, <1>5, <1>6, Frame DEF IInv, Deleted

\* Ceph and the OSD pods: only updates stop pods, and nobody destroys those OSDs.
LEMMA CephIInv ==
  ASSUME Types, Types', IInv, Ceph
  PROVE  IInv'
  <1> USE DEF unchangedByOthers, podVars, jobVars, locals
  <1>1. PICK o \in Osd : CephStep(o)
    BY DEF Ceph
  <1>2. UNCHANGED <<dep, job, migrate, pc>> /\ stopping' \subseteq stopping
    BY <1>1 DEF Ceph, CephStep, PodStops, Boot, Backfill, MarkOut
  <1>3. \A p \in Osd : Migrating(p)' => Migrating(p)
    BY <1>2 DEF Migrating
  <1>4. Exposed' \subseteq Exposed
    <2>1. CASE PodStops(o)
      <3>1. dep[o] = "new" /\ \A t \in Target : job[t].migrate # o
        BY <2>1 DEF IInv, Apart, Migrating, PodStops
      <3>2. up' = up \ {o} /\ UNCHANGED <<lost, in>>
        BY <2>1 DEF PodStops
      <3> QED
        BY <1>2, <3>1, <3>2 DEF Exposed
    <2>2. CASE Boot(o) \/ Backfill(o) \/ MarkOut(o)
      BY <1>2, <2>2 DEF Exposed, Boot, Backfill, MarkOut
    <2> QED
      BY <1>1, <2>1, <2>2 DEF CephStep
  <1>5. Apart' /\ Deleted' /\ AtMostOne'
    BY <1>2, <1>3, <1>4 DEF IInv, Apart, Deleted, AtMostOne, Types
  <1> QED
    BY <1>5 DEF IInv

\* The wait for clean PGs: when a Deployment is deleted nothing else is exposed.
LEMMA MigrateIInv ==
  ASSUME Types, IInv, NEW o \in Osd, MigrateNext(o)
  PROVE  IInv'
  <1> USE DEF MigrateNext, Starts, jobVars
  <1>1. \A p \in Osd : Migrating(p)' => p = o \/ Migrating(p)
    BY DEF Migrating
  <1>2. Apart'
    BY <1>1 DEF IInv, Apart, Types
  <1>3. Deleted'
    BY DEF IInv, Types, Deleted
  <1>4. Exposed' \subseteq {o}
    BY DEF Clean, Exposed
  <1>5. AtMostOne'
    BY <1>4 DEF AtMostOne
  <1> QED
    BY <1>2, <1>3, <1>5 DEF IInv

\* A job is given the OSD whose Deployment this Start has deleted, or none.
LEMMA PrepareIInv ==
  ASSUME Types, Types', IInv, runPrepareJob \/ runPrepareJobFindsOld \/ runPrepareJobLosesRace
  PROVE  IInv'
  <1> DEFINE t == Head(todo)
  <1> USE DEF Awaits, podVars
  <1>1. /\ UNCHANGED <<dep, in, up, lost, stopping, migrate>>
        /\ Early /\ pc' # "idle" /\ job' \in {job, [job EXCEPT ![t] = NewJob(t)]}
    BY DEF Phase, runPrepareJob, runPrepareJobFindsOld, runPrepareJobLosesRace
  <1>2. \A u \in Target : job'[u].migrate \in {job[u].migrate, migrate, NoOsd}
    BY <1>1 DEF Types, NewJob
  <1>3. \A o \in Osd : Migrating(o)' => Migrating(o)
    BY <1>1, <1>2 DEF Migrating
  <1>4. Exposed' \subseteq Exposed
    BY <1>1, <1>2 DEF IInv, Types, Deleted, Exposed
  <1>5. \A o \in Osd : dep'[o] \in {dep[o], "new"}
    BY <1>1
  <1> QED
    BY <1>1, <1>3, <1>4, <1>5, Frame

\* Creating and updating Deployments exposes no OSD.
LEMMA DeployIInv ==
  ASSUME Types, Types', IInv,
         (\E t \in Target : createNewOSDsFromStatus(t)) \/ updateExistingOSDs
  PROVE  IInv'
  <1> USE DEF jobVars
  <1>1. /\ UNCHANGED <<job, in, up, lost, migrate>> /\ pc' \in {"loop", "wait"}
        /\ \A o \in Osd : dep'[o] \in {dep[o], "new"}
        /\ \A o \in stopping' : o \in stopping \/ (o \in Osd /\ dep[o] = "old" /\ dep'[o] = "new")
    <2>1. CASE updateExistingOSDs
      <3>1. PICK S \in Stoppable(Head(queue)) :
              /\ batch' \subseteq {o \in ToUpdate(S) : dep[o] = "old"}
              /\ dep' = [o \in Osd |-> IF o \in batch' THEN "new" ELSE dep[o]]
              /\ stopping' = stopping \cup (batch' \cap up)
        BY <2>1, UpdateEffect, Zenon
      <3>2. UNCHANGED <<job, in, up, lost, migrate>> /\ pc' = "wait"
        BY <2>1 DEF updateExistingOSDs
      <3> QED
        BY <3>1, <3>2 DEF Types, ToUpdate
    <2>2. CASE \E t \in Target : createNewOSDsFromStatus(t)
      BY <2>2 DEF Types, createNewOSDsFromStatus
    <2> QED
      BY <2>1, <2>2
  <1>2. \A o \in Osd : Migrating(o)' => Migrating(o)
    BY <1>1 DEF Migrating
  <1>3. Exposed' \subseteq Exposed
    <2>1. \A o \in Osd : dep'[o] = "none" => dep[o] = "none"
      BY <1>1
    <2>2. UNCHANGED <<job, in, up, lost>> /\ in \subseteq Osd
      BY <1>1 DEF Types
    <2> QED
      BY <2>1, <2>2, Zenon DEF Exposed
  <1> QED
    BY <1>1, <1>2, <1>3, Frame

\* Every step of the operator keeps the invariant.
LEMMA OperatorIInv ==
  ASSUME Types, Types', IInv, Operator
  PROVE  IInv'
  <1> USE DEF baseVars, jobVars, podVars, locals
  <1>1. CASE NoMigration \/ NothingToMigrate \/ DeferMigration
    <2>1. /\ UNCHANGED <<dep, job, in, up, lost, stopping, migrate>>
          /\ pc = "idle" /\ pc' = "list"
      BY <1>1 DEF NoMigration, NothingToMigrate, DeferMigration, Starts
    <2> QED
      BY <2>1, Still DEF IInv, Deleted
  <1>2. CASE UnhealthyPGs \/ EndLoop \/ Finish \/ Abort
    <2>1. UNCHANGED <<dep, job, in, up, lost, stopping>>
      BY <1>2 DEF UnhealthyPGs, EndLoop, Finish, Abort
    <2>2. (pc' = "idle" /\ migrate' = NoOsd) \/ (pc' = "finish" /\ migrate' = migrate)
      BY <1>2 DEF UnhealthyPGs, EndLoop, Finish, Abort, Return, Forget
    <2> QED
      BY <2>1, <2>2, Still
  <1>3. CASE \E o \in Osd : MigrateNext(o)
    BY <1>3, MigrateIInv
  <1>4. CASE saveMigrationConfig \/ getOSDUpdateInfo \/ runPrepareJobFails
    <2>1. UNCHANGED <<dep, job, in, up, lost, stopping, migrate>> /\ Early /\ pc' # "idle"
      BY <1>4 DEF saveMigrationConfig, getOSDUpdateInfo, runPrepareJobFails, Phase
    <2> QED
      BY <2>1, Still
  <1>5. CASE runPrepareJob \/ runPrepareJobFindsOld \/ runPrepareJobLosesRace
    BY <1>5, PrepareIInv
  <1>6. CASE \/ \E t \in Target : FailedStatus(t) \/ IgnoredStatus(t)
             \/ UpdateLater \/ WaitForDeploymentsToUpdate
    <2>1. UNCHANGED <<dep, job, in, up, lost, stopping, migrate>> /\ pc' = "loop"
      BY <1>6 DEF FailedStatus, IgnoredStatus, UpdateLater, WaitForDeploymentsToUpdate
    <2> QED
      BY <2>1, Still
  <1>7. CASE (\E t \in Target : createNewOSDsFromStatus(t)) \/ updateExistingOSDs
    BY <1>7, DeployIInv
  <1> QED
    BY <1>1, <1>2, <1>3, <1>4, <1>5, <1>6, <1>7 DEF Operator

\* Every step keeps the invariant.
LEMMA NextIInv ==
  ASSUME Typed, Typed', HomeInv, IInv, [Next]_vars
  PROVE  IInv'
  <1> USE DEF baseVars, jobVars, podVars, locals
  <1> Types /\ Types'
    <2>1. CephTypes /\ OperatorTypes /\ CephTypes' /\ OperatorTypes'
      BY DEF Typed
    <2>2. Types
      BY <2>1 DEF CephTypes, OperatorTypes, Types
    <2>3. Types'
      BY <2>1 DEF CephTypes, OperatorTypes, Types
    <2> QED
      BY <2>2, <2>3
  <1>1. CASE Operator
    BY <1>1, OperatorIInv
  <1>2. CASE \E t \in Target : Jobs(t) \/ JobFaults(t)
    BY <1>2, JobsIInv
  <1>3. CASE Ceph
    BY <1>3, CephIInv
  <1>4. CASE OperatorRestarts
    BY <1>4, Still DEF OperatorRestarts, Return, Forget
  <1>5. CASE (\E n \in Node : Cordon(n) \/ Uncordon(n)) \/ WatchEvent \/ UNCHANGED vars
    <2>1. UNCHANGED <<dep, job, in, up, lost, stopping, migrate, pc>>
      BY <1>5, Zenon DEF Cordon, Uncordon, WatchEvent, vars
    <2> QED
      BY <2>1, Still DEF IInv, Deleted
  <1> QED
    BY <1>1, <1>2, <1>3, <1>4, <1>5 DEF Next

\* However many OSDs are migrated, whichever call fails and wherever operator or
\* jobs are interrupted, no OSD is destroyed before the data of the one before
\* it is back (the wait for healthy PGs in startOSDMigration).
THEOREM OneOSDAtATimeTheorem == Spec => []OneOSDAtATime
  <1>1. Init => IInv
    <2> SUFFICES ASSUME Init PROVE IInv
      OBVIOUS
    <2>1. \A o \in Osd : ~Migrating(o)
      BY DEF Init, Migrating
    <2> QED
      BY <2>1 DEF Init, IInv, Apart, Deleted, AtMostOne, Exposed
  <1>2. Typed /\ Typed' /\ HomeInv /\ IInv /\ [Next]_vars => IInv'
    BY NextIInv
  <1>3. IInv => OneOSDAtATime
    BY DEF IInv, AtMostOne, Exposed, OneOSDAtATime
  <1> QED
    BY <1>1, <1>2, <1>3, AlwaysHome, PTL DEF Spec

-----------------------------------------------------------------------------
(* Origins *)

\* What still has the old store settings was there at the start, and so were the
\* OSDs that are migrated; each OSD is on a disk of its home.
Origin ==
    /\ \A t \in Target : InitDisk[t] # NoOsd =>
         home[InitDisk[t]] = t /\ osdmap[InitDisk[t]] # "absent"
    /\ \A t \in Target : disk[t] # NoOsd => home[disk[t]] = t
    /\ \A t \in Target : store[t] = "old" => disk[t] \in {NoOsd, InitDisk[t]}
    /\ \A t \in Target : cm[t].store = "old" => cm[t].osd \in {NoOsd, InitDisk[t]}
    /\ \A t \in Target : job[t].migrate \in {NoOsd, InitDisk[t]}
    /\ \A o \in Osd : dep[o] # "none" /\ label[o] = "old" => InitDisk[home[o]] = o
    /\ migrate # NoOsd => InitDisk[home[migrate]] = migrate

\* A blank disk is prepared for an id that is nowhere else.
LEMMA PreparedDisk ==
  ASSUME CephTypes, HomeInv, NEW t \in Target, PrepareDisk(t), disk[t] = NoOsd
  PROVE  /\ disk'[t] = IdFor(t) /\ disk'[t] \in Osd /\ home'[disk'[t]] = t /\ store'[t] = "new"
         /\ \A u \in Target : u # t => store'[u] = store[u]
         /\ \A u \in Target : u # t /\ disk[u] # NoOsd /\ home[disk[u]] = u =>
              osdmap'[disk[u]] = osdmap[disk[u]]
  <1> DEFINE i == IdFor(t)
  <1>1. /\ i \in Osd
        /\ \/ i = job[t].migrate
           \/ home[i] = t /\ osdmap[i] = "destroyed"
           \/ osdmap[i] = "absent"
    BY IdGiven DEF PrepareDisk
  <1>2. /\ disk' = [disk EXCEPT ![t] = i] /\ osdmap' = [osdmap EXCEPT ![i] = "exists"]
        /\ home' = [home EXCEPT ![i] = t] /\ store' = [store EXCEPT ![t] = "new"]
    BY DEF PrepareDisk
  <1> HIDE DEF i
  <1>3. home[i] = t \/ \A u \in Target : disk[u] # i
    <2>1. i # NoOsd
      BY <1>1
    <2>2. CASE i = job[t].migrate
      BY <2>1, <2>2, Zenon DEF HomeInv, JobsAtHome
    <2>3. CASE osdmap[i] = "absent"
      BY <1>1, <2>3, Zenon DEF HomeInv, AbsentUnused, Unused
    <2> QED
      BY <1>1, <2>2, <2>3, Zenon
  <1>4. /\ disk \in [Target -> Osd \cup {NoOsd}] /\ home \in [Osd -> Target]
        /\ osdmap \in [Osd -> {"absent", "exists", "destroyed"}] /\ store \in [Target -> {"old", "new"}]
    BY DEF CephTypes
  <1>5. disk'[t] = i /\ home'[i] = t /\ store'[t] = "new" /\ \A u \in Target : u # t => store'[u] = store[u]
    BY <1>1, <1>2, <1>4
  <1>6. \A o \in Osd : o # i => osdmap'[o] = osdmap[o]
    BY <1>2, <1>4
  <1>7. ASSUME NEW u \in Target, u # t, disk[u] # NoOsd, home[disk[u]] = u
        PROVE  osdmap'[disk[u]] = osdmap[disk[u]]
    BY <1>3, <1>4, <1>6, <1>7, Zenon
  <1> QED
    BY <1>1, <1>5, <1>7 DEF i

\* What a step of a job does to disk and report of its target.
LEMMA JobOrigin ==
  ASSUME CephTypes, CephTypes', HomeInv, NEW t \in Target, JobStep(t) \/ JobFault(t)
  PROVE  /\ \A u \in Target : u # t => store'[u] = store[u]
         /\ disk'[t] \in {disk[t], NoOsd} \/ (disk'[t] \in Osd /\ home'[disk'[t]] = t)
         /\ store'[t] = "old" => store[t] = "old" /\ disk'[t] \in {disk[t], NoOsd}
         /\ \/ cm'[t] = cm[t] \/ cm'[t].osd = NoOsd
            \/ cm'[t].osd = disk'[t] /\ cm'[t].store = store'[t]
  <1>1. CASE DestroyOSD(t) \/ RestartBeforeZap(t)
    BY <1>1 DEF DestroyOSD, RestartBeforeZap, CephTypes
  <1>2. CASE DestroyFails(t) \/ RestartAfterZap(t)
    BY <1>2 DEF DestroyFails, RestartAfterZap
  <1>3. CASE ProvisionFails(t)
    BY <1>3 DEF ProvisionFails, CephTypes, Status
  <1>4. CASE Provision(t) \/ RestartBeforeReport(t)
    <2>1. PrepareDisk(t)
      BY <1>4, Zenon DEF Provision, RestartBeforeReport
    <2>2. /\ \A u \in Target : u # t => store'[u] = store[u]
          /\ disk'[t] \in {disk[t], NoOsd} \/ (disk'[t] \in Osd /\ home'[disk'[t]] = t)
          /\ store'[t] = "old" => store[t] = "old" /\ disk'[t] \in {disk[t], NoOsd}
      <3>1. CASE disk[t] = NoOsd
        BY <2>1, <3>1, PreparedDisk
      <3>2. CASE disk[t] # NoOsd
        BY <2>1, <3>2, Zenon DEF PrepareDisk
      <3> QED
        BY <3>1, <3>2
    <2>3. \/ cm'[t] = cm[t] \/ cm'[t].osd = NoOsd
          \/ cm'[t].osd = disk'[t] /\ cm'[t].store = store'[t]
      <3>1. CASE RestartBeforeReport(t)
        BY <3>1, Zenon DEF RestartBeforeReport
      <3>2. CASE Provision(t)
        <4>1. cm'[t] = [status |-> "completed", osd |-> ListedOSD(t, disk'[t]), store |-> store'[t]]
          BY <3>2, Zenon DEF Provision, CephTypes
        <4>2. cm'[t].osd = ListedOSD(t, disk'[t]) /\ cm'[t].store = store'[t]
          BY <4>1
        <4> QED
          BY <4>2, ListsOrNot, Zenon
      <3> QED
        BY <1>4, <3>1, <3>2
    <2> QED
      BY <2>2, <2>3
  <1> QED
    BY <1>1, <1>2, <1>3, <1>4, Zenon DEF JobStep, JobFault

\* Jobs keep the origins.
LEMMA JobsKeepOrigin ==
  ASSUME CephTypes, CephTypes', HomeInv, Origin, NEW t \in Target, JobStep(t) \/ JobFault(t),
         UNCHANGED migrate, migrate \in Osd \cup {NoOsd}
  PROVE  Origin'
  <1> JobChanges(t)
    BY JobEffect, Zenon
  <1>1. \A o \in Osd : osdmap[o] # "absent" => home'[o] = home[o] /\ osdmap'[o] # "absent"
    BY Zenon DEF JobChanges
  <1>2. \A u \in Target : InitDisk[u] # NoOsd =>
          home'[InitDisk[u]] = u /\ osdmap'[InitDisk[u]] # "absent"
    <2>1. \A u \in Target : InitDisk[u] # NoOsd => InitDisk[u] \in Osd
      BY TargetAssumption
    <2> QED
      BY <1>1, <2>1, Zenon DEF Origin
  <1>3. ASSUME NEW u \in Target, disk'[u] # NoOsd PROVE home'[disk'[u]] = u
    <2>1. CASE disk'[u] = disk[u]
      <3>1. disk[u] \in Osd /\ home[disk[u]] = u
        BY <1>3, <2>1 DEF CephTypes, Origin
      <3>2. osdmap[disk[u]] # "absent"
        BY <3>1, Zenon DEF HomeInv, AbsentUnused, Unused
      <3> QED
        BY <1>1, <2>1, <3>1, <3>2, Zenon
    <2>2. CASE disk'[u] # disk[u]
      BY <1>3, <2>2, JobOrigin, Zenon DEF JobChanges
    <2> QED
      BY <2>1, <2>2
  <1>4. ASSUME NEW u \in Target, store'[u] = "old" PROVE disk'[u] \in {NoOsd, InitDisk[u]}
    <2>1. store[u] = "old" /\ disk'[u] \in {disk[u], NoOsd}
      BY <1>4, JobOrigin, Zenon DEF JobChanges
    <2> QED
      BY <2>1, Zenon DEF Origin
  <1>5. ASSUME NEW u \in Target, cm'[u].store = "old" PROVE cm'[u].osd \in {NoOsd, InitDisk[u]}
    <2>1. \/ cm'[u] = cm[u] \/ cm'[u].osd = NoOsd
          \/ cm'[u].osd = disk'[u] /\ cm'[u].store = store'[u]
      BY JobOrigin, Zenon DEF JobChanges
    <2>2. CASE cm'[u] = cm[u]
      BY <1>5, <2>2, Zenon DEF Origin
    <2> QED
      BY <1>4, <1>5, <2>1, <2>2, Zenon
  <1>6. \A u \in Target : job'[u].migrate \in {NoOsd, InitDisk[u]}
    <2>1. \A u \in Target : job'[u].migrate \in {job[u].migrate, NoOsd}
      BY Zenon DEF JobChanges
    <2> QED
      BY <2>1, Zenon DEF Origin
  <1>7. ASSUME NEW o \in Osd, dep'[o] # "none", label'[o] = "old" PROVE InitDisk[home'[o]] = o
    <2>1. dep[o] # "none" /\ label[o] = "old"
      BY <1>7, Zenon DEF JobChanges
    <2>2. osdmap[o] # "absent" /\ InitDisk[home[o]] = o
      BY <2>1, Zenon DEF HomeInv, AbsentUnused, Unused, Origin
    <2> QED
      BY <1>1, <2>2, Zenon
  <1>8. migrate' # NoOsd => InitDisk[home'[migrate']] = migrate'
    <2>1. migrate # NoOsd => migrate \in Osd /\ osdmap[migrate] # "absent" /\ InitDisk[home[migrate]] = migrate
      BY Zenon DEF HomeInv, AbsentUnused, Unused, Origin
    <2> QED
      BY <1>1, <2>1, Zenon
  <1> QED
    BY <1>2, <1>3, <1>4, <1>5, <1>6, <1>7, <1>8, Zenon DEF Origin

\* The other steps write no disk, and only what they know of.
LEMMA OthersKeepOrigin ==
  ASSUME Origin, UNCHANGED <<disk, store, osdmap, home>>,
         \A o \in Osd : dep'[o] # "none" /\ label'[o] = "old" =>
           (dep[o] # "none" /\ label[o] = "old") \/ InitDisk[home[o]] = o,
         migrate' # migrate =>
           migrate' = NoOsd \/ (migrate' \in Osd /\ dep[migrate'] # "none" /\ label[migrate'] = "old"),
         \A t \in Target : \/ job'[t].migrate \in {job[t].migrate, NoOsd}
                           \/ job'[t].migrate = migrate /\ migrate # NoOsd /\ home[migrate] = t,
         \A t \in Target : \/ cm'[t] = cm[t] \/ cm'[t].osd = NoOsd
                           \/ cm'[t].osd = disk[t] /\ cm'[t].store = store[t]
  PROVE  Origin'
  <1>1. \A o \in Osd : dep'[o] # "none" /\ label'[o] = "old" => InitDisk[home[o]] = o
    BY Zenon DEF Origin
  <1>2. migrate' # NoOsd => InitDisk[home[migrate']] = migrate'
    BY Zenon DEF Origin
  <1>3. \A t \in Target : job'[t].migrate \in {NoOsd, InitDisk[t]}
    BY Zenon DEF Origin
  <1>4. \A t \in Target : cm'[t].store = "old" => cm'[t].osd \in {NoOsd, InitDisk[t]}
    BY Zenon DEF Origin
  <1> QED
    BY <1>1, <1>2, <1>3, <1>4, Zenon DEF Origin

\* Every step keeps the origins.
LEMMA NextOrigin ==
  ASSUME Typed, Typed', HomeInv, Origin, [Next]_vars
  PROVE  Origin'
  <1> USE DEF baseVars, jobVars, podVars, locals
  <1> CephTypes /\ OperatorTypes /\ CephTypes'
    BY DEF Typed
  <1>a. \A t \in Target : job[t].migrate \in {job[t].migrate, NoOsd}
    OBVIOUS
  <1>1. CASE /\ UNCHANGED <<disk, store, osdmap, home, dep, label, job>>
             /\ migrate' \in {migrate, NoOsd}
             /\ \A t \in Target : cm'[t] = cm[t] \/ cm'[t].osd = NoOsd
    BY <1>1, <1>a, OthersKeepOrigin, Zenon
  <1>2. ASSUME NEW o \in Osd, MigrateNext(o)
        PROVE  Origin'
    <2>1. UNCHANGED <<disk, store, osdmap, home, job, cm>> /\ migrate' = o /\ o \in NeedMigration
      BY <1>2, Zenon DEF MigrateNext
    <2>2. dep[o] # "none" /\ label[o] = "old"
      BY <2>1, Zenon DEF NeedMigration
    <2>3. dep' = [dep EXCEPT ![o] = "none"] /\ label' = [label EXCEPT ![o] = "old"]
      BY <1>2, Zenon DEF MigrateNext
    <2>4. \A p \in Osd : dep'[p] # "none" => dep[p] # "none" /\ label'[p] = label[p]
      BY <2>3 DEF CephTypes
    <2> QED
      BY <1>a, <2>1, <2>2, <2>4, OthersKeepOrigin, Zenon
  <1>3. CASE runPrepareJob \/ runPrepareJobFindsOld \/ runPrepareJobLosesRace \/ runPrepareJobFails
    <2> DEFINE t == Head(todo)
               l == ListedOSD(t, disk[t])
    <2>1. t \in Target
      BY <1>3, NextTarget DEF runPrepareJob, runPrepareJobFindsOld, runPrepareJobLosesRace, runPrepareJobFails
    <2>2. /\ job' \in {job, [job EXCEPT ![t] = NewJob(t)]}
          /\ \/ cm' \in {[cm EXCEPT ![t] = Status("starting")], [cm EXCEPT ![t] = Status("none")]}
             \/ cm' = [cm EXCEPT ![t] = [status |-> "completed", osd |-> l, store |-> store[t]]]
      BY <1>3 DEF runPrepareJob, runPrepareJobFindsOld, runPrepareJobLosesRace, runPrepareJobFails
    <2>3. UNCHANGED <<disk, store, osdmap, home, dep, label, migrate>>
      BY <1>3, Zenon DEF runPrepareJob, runPrepareJobFindsOld, runPrepareJobLosesRace, runPrepareJobFails, Awaits
    <2>l. l \in {disk[t], NoOsd}
      BY ListsOrNot
    <2> HIDE DEF t, l
    <2>4. \A u \in Target : \/ job'[u].migrate \in {job[u].migrate, NoOsd}
                            \/ job'[u].migrate = migrate /\ migrate # NoOsd /\ home[migrate] = u
      <3>1. DOMAIN job = Target
        BY Zenon DEF CephTypes
      <3>2. \A u \in Target : job'[u] \in {job[u], NewJob(u)}
        BY <2>1, <2>2, <3>1, Zenon
      <3>3. \A u \in Target : \/ NewJob(u).migrate = NoOsd
                              \/ NewJob(u).migrate = migrate /\ migrate # NoOsd /\ home[migrate] = u
        BY DEF NewJob
      <3> QED
        BY <3>2, <3>3, Zenon
    <2>5. \A u \in Target : \/ cm'[u] = cm[u] \/ cm'[u].osd = NoOsd
                            \/ cm'[u].osd = disk[u] /\ cm'[u].store = store[u]
      BY <2>1, <2>2, <2>l DEF CephTypes, Status
    <2> QED
      BY <2>3, <2>4, <2>5, OthersKeepOrigin, Zenon
  <1>4. ASSUME NEW t \in Target, FailedStatus(t) \/ IgnoredStatus(t) \/ createNewOSDsFromStatus(t)
        PROVE  Origin'
    <2>1. UNCHANGED <<disk, store, osdmap, home, job, migrate>>
      BY <1>4, Zenon DEF FailedStatus, IgnoredStatus, createNewOSDsFromStatus
    <2>2. cm' = [cm EXCEPT ![t] = Status("none")]
      BY <1>4, Zenon DEF FailedStatus, IgnoredStatus, createNewOSDsFromStatus
    <2>3. \A u \in Target : cm'[u] = cm[u] \/ cm'[u].osd = NoOsd
      BY <2>2, Zenon DEF CephTypes, Status
    <2> DEFINE c == cm[t].osd
    <2>4. \/ UNCHANGED <<dep, label>>
          \/ /\ c \in Osd /\ dep' = [dep EXCEPT ![c] = "new"] /\ label' = [label EXCEPT ![c] = cm[t].store]
      BY <1>4, Zenon DEF FailedStatus, IgnoredStatus, createNewOSDsFromStatus, CephTypes
    <2>5. c \in Osd /\ cm[t].store = "old" => InitDisk[home[c]] = c
      <3>1. ASSUME c \in Osd, cm[t].store = "old" PROVE InitDisk[t] = c /\ InitDisk[t] # NoOsd
        <4>1. c \in {NoOsd, InitDisk[t]}
          BY <3>1, Zenon DEF Origin
        <4> QED
          BY <3>1, <4>1
      <3>2. InitDisk[t] # NoOsd => home[InitDisk[t]] = t
        BY Zenon DEF Origin
      <3> QED
        BY <3>1, <3>2, Zenon
    <2>6. \A p \in Osd : dep'[p] # "none" /\ label'[p] = "old" =>
            (dep[p] # "none" /\ label[p] = "old") \/ InitDisk[home[p]] = p
      <3> HIDE DEF c
      <3> QED
        BY <2>4, <2>5 DEF CephTypes
    <2> QED
      BY <1>a, <2>1, <2>3, <2>6, OthersKeepOrigin, Zenon
  <1>5. CASE updateExistingOSDs
    <2>1. /\ dep' = [o \in Osd |-> IF o \in batch' THEN "new" ELSE dep[o]]
          /\ \A o \in batch' : dep[o] = "old"
      BY <1>5, UpdateEffect, Zenon
    <2>2. UNCHANGED <<disk, store, osdmap, home, label, job, cm, migrate>>
      BY <1>5, Zenon DEF updateExistingOSDs
    <2>3. \A p \in Osd : dep'[p] # "none" => dep[p] # "none"
      BY <2>1
    <2> QED
      BY <1>a, <2>2, <2>3, OthersKeepOrigin, Zenon
  <1>6. CASE Finish
    <2>1. UNCHANGED <<disk, store, osdmap, home, dep, label, job>> /\ migrate' = NoOsd
      BY <1>6, Zenon DEF Finish, Return, Forget
    <2>2. \A t \in Target : cm'[t].osd = NoOsd
      BY <1>6, Zenon DEF Finish, Status
    <2> QED
      BY <1>1, <2>1, <2>2, Zenon
  <1>7. CASE \E t \in Target : Jobs(t) \/ JobFaults(t)
    BY <1>7, JobsKeepOrigin, Zenon DEF Jobs, JobFaults, unchangedByOthers, OperatorTypes
  <1>8. CASE Ceph
    <2>1. UNCHANGED <<disk, store, osdmap, home, dep, label, job, cm, migrate>>
      BY <1>8, Zenon DEF Ceph, unchangedByOthers, CephStep, PodStops, Boot, Backfill, MarkOut
    <2> QED
      BY <1>1, <2>1, Zenon
  <1>9. CASE OperatorRestarts \/ (\E n \in Node : Cordon(n) \/ Uncordon(n)) \/ WatchEvent \/ UNCHANGED vars
    BY <1>9, <1>1, Zenon DEF OperatorRestarts, Cordon, Uncordon, WatchEvent, vars, Return, Forget
  <1>10. CASE \/ NoMigration \/ UnhealthyPGs \/ DeferMigration \/ NothingToMigrate
              \/ saveMigrationConfig \/ getOSDUpdateInfo
              \/ UpdateLater \/ WaitForDeploymentsToUpdate \/ EndLoop \/ Abort
    BY <1>10, <1>1, Zenon DEF NoMigration, UnhealthyPGs, DeferMigration, NothingToMigrate,
       saveMigrationConfig, getOSDUpdateInfo, UpdateLater, WaitForDeploymentsToUpdate, EndLoop, Abort,
       Return, Forget
  <1> QED
    BY <1>2, <1>3, <1>4, <1>5, <1>6, <1>7, <1>8, <1>9, <1>10, Zenon DEF Next, Operator

\* Old stores, migrated OSDs and homes are those of the start, in every state.
LEMMA AlwaysOrigin == Spec => [](Typed /\ HomeInv /\ Origin)
  <1>1. Init => Origin
    <2> SUFFICES ASSUME Init PROVE Origin
      OBVIOUS
    <2>1. \A t \in Target : InitDisk[t] # NoOsd =>
            home[InitDisk[t]] = t /\ osdmap[InitDisk[t]] # "absent"
      BY TargetAssumption DEF Init
    <2>2. \A o \in Osd : dep[o] # "none" => InitDisk[home[o]] = o
      BY DEF Init
    <2>3. /\ disk = InitDisk /\ migrate = NoOsd
          /\ \A t \in Target : job[t].migrate = NoOsd /\ cm[t].osd = NoOsd
      BY DEF Init, Status
    <2> QED
      BY <2>1, <2>2, <2>3, Zenon DEF Origin
  <1>2. Typed /\ Typed' /\ HomeInv /\ Origin /\ [Next]_vars => Origin'
    BY NextOrigin
  <1> QED
    BY <1>1, <1>2, AlwaysHome, PTL DEF Spec

-----------------------------------------------------------------------------
(* Availability *)

\* The OSDs the cluster starts with.
Initial == {o \in Osd : \E t \in Target : InitDisk[t] = o}

\* No OSD leaves the map, so with three of them ok-to-stop is always asked.
LEMMA AlwaysAsked ==
  ASSUME Origin, Cardinality(Initial) >= 3, ~SkipUpgradeChecks
  PROVE  ~SkipsCheck
  <1>1. Initial \subseteq Known
    BY OsdAssumption DEF Initial, Known, Origin
  <1>2. IsFiniteSet(Known)
    BY FS_Subset, Zenon DEF Known
  <1>3. Cardinality(Initial) <= Cardinality(Known) /\ Cardinality(Initial) \in Nat /\ Cardinality(Known) \in Nat
    BY <1>1, <1>2, FS_Subset, FS_CardinalityType, Zenon
  <1> QED
    BY <1>3 DEF SkipsCheck

\* Pods are stopped for the update that is waited for, or an interrupted one.
StopsAwaited ==
    /\ pc \notin {"idle", "wait"} => stopping = {}
    /\ pc = "wait" => stopping \subseteq batch

\* What is unavailable, and what an update is about to make so, is in one
\* failure domain.
AtRisk == Unavailable \cup stopping
OneDomain(S) == \A o, p \in S : Domain[home[o]] = Domain[home[p]]

AvailInv == StopsAwaited /\ OneDomain(AtRisk)

\* Counting failure domains, as ok-to-stop does, is comparing them.
LEMMA DomainsCounted ==
  ASSUME NEW S, S \subseteq Osd
  PROVE  Cardinality(DomainsOf(S)) <= 1 <=> OneDomain(S)
  <1> DEFINE f == [o \in S |-> Domain[home[o]]]
             D == DomainsOf(S)
  <1>1. IsFiniteSet(S)
    BY FS_Subset, Zenon
  <1>2. f \in Surjection(S, D)
    BY DEF Surjection, DomainsOf
  <1>3. IsFiniteSet(D)
    <2> HIDE DEF f, D
    <2> QED
      BY <1>1, <1>2, FS_Surjection
  <1>4. \A o \in S : Domain[home[o]] \in D
    BY DEF DomainsOf
  <1>5. \A d \in D : \E o \in S : d = Domain[home[o]]
    BY DEF DomainsOf
  <1> HIDE DEF f, D
  <1>6. Cardinality(D) \in Nat /\ (Cardinality(D) = 0 <=> D = {}) /\ (Cardinality(D) = 1 <=> \E x : D = {x})
    BY <1>3, FS_CardinalityType, FS_EmptySet, FS_Singleton, Zenon
  <1>7. ASSUME Cardinality(D) <= 1 PROVE OneDomain(S)
    <2>1. D = {} \/ \E x : D = {x}
      BY <1>6, <1>7
    <2> QED
      BY <1>4, <2>1 DEF OneDomain
  <1>8. ASSUME OneDomain(S) PROVE Cardinality(D) <= 1
    <2>1. CASE D = {}
      BY <1>6, <2>1
    <2>2. CASE D # {}
      <3>1. PICK d : d \in D
        BY <2>2
      <3>2. \A e \in D : e = d
        BY <1>5, <1>8, <3>1 DEF OneDomain
      <3>3. D = {d}
        BY <3>1, <3>2
      <3> QED
        BY <1>6, <3>3
    <2> QED
      BY <2>1, <2>2
  <1> QED
    BY <1>7, <1>8 DEF D

\* The head of the update queue is an OSD.
LEMMA FirstQueued ==
  ASSUME OperatorTypes, queue # Nothing
  PROVE  Head(queue) \in Osd
  <1>1. \A A : \A s \in Seq(A) : s # << >> => Head(s) \in A
    OBVIOUS
  <1> QED
    BY <1>1, Zenon DEF OperatorTypes, Nothing

\* Nothing is put at risk by a step that stops no pod and keeps the homes of
\* the OSDs at risk.
LEMMA RiskKept ==
  ASSUME OneDomain(AtRisk), AtRisk' \subseteq AtRisk, \A o \in AtRisk : home'[o] = home[o]
  PROVE  OneDomain(AtRisk)'
  BY DEF OneDomain

\* Every step keeps one failure domain at risk, if no check is overridden.
LEMMA NextAvail ==
  ASSUME Typed, HomeInv, Origin, AvailInv, [Next]_vars,
         ~ContinueUpgradeAfterChecks, ~SkipUpgradeChecks, PromptStop, Cardinality(Initial) >= 3
  PROVE  AvailInv'
  <1> USE DEF baseVars, jobVars, podVars, locals
  <1> CephTypes /\ OperatorTypes /\ StopsAwaited /\ OneDomain(AtRisk)
    BY DEF Typed, AvailInv
  <1>1. CASE /\ UNCHANGED <<in, up, lost, stopping, home>>
             /\ (pc' = pc /\ batch' = batch) \/ pc' = "idle" \/ (stopping = {} /\ pc' # "wait")
    <2>1. StopsAwaited'
      BY <1>1 DEF StopsAwaited
    <2>2. OneDomain(AtRisk)'
      BY <1>1, RiskKept DEF AtRisk, Unavailable
    <2> QED
      BY <2>1, <2>2 DEF AvailInv
  <1>2. ASSUME NEW o \in Osd, MigrateNext(o)
        PROVE  AvailInv'
    <2>1. /\ pc' = "save" /\ in \subseteq up /\ lost = {} /\ stopping = {}
          /\ UNCHANGED <<in, lost>> /\ stopping' = stopping \ {o} /\ up' = up \ {o}
      BY <1>2, Zenon DEF MigrateNext, Starts, Clean
    <2>2. AtRisk' \subseteq {o}
      BY <2>1 DEF AtRisk, Unavailable
    <2> QED
      BY <2>1, <2>2 DEF AvailInv, StopsAwaited, OneDomain
  <1>3. CASE runPrepareJob \/ runPrepareJobFindsOld \/ runPrepareJobLosesRace \/ runPrepareJobFails \/ getOSDUpdateInfo
    <2>1. /\ UNCHANGED <<in, up, lost, stopping, home>>
          /\ pc \in {"list", "prepare"} /\ pc' # "wait"
      BY <1>3, Zenon DEF runPrepareJob, runPrepareJobFindsOld, runPrepareJobLosesRace, runPrepareJobFails,
                  getOSDUpdateInfo, Awaits, Phase
    <2> QED
      BY <1>1, <2>1 DEF StopsAwaited
  <1>4. CASE \/ \E t \in Target : FailedStatus(t) \/ IgnoredStatus(t) \/ createNewOSDsFromStatus(t)
             \/ UpdateLater
    BY <1>1, <1>4, Zenon DEF FailedStatus, IgnoredStatus, createNewOSDsFromStatus, UpdateLater
  <1>5. CASE updateExistingOSDs
    <2> DEFINE q == Head(queue)
    <2>1. pc = "loop" /\ queue # Nothing /\ pc' = "wait" /\ UNCHANGED <<in, up, lost, home>>
      BY <1>5 DEF updateExistingOSDs
    <2>s. Stoppable(q) = OSDOkToStop(q)
      BY AlwaysAsked, Zenon DEF Stoppable
    <2>2. PICK S \in OSDOkToStop(q) :
            /\ batch' \subseteq ToUpdate(S)
            /\ stopping' = stopping \cup (batch' \cap up)
      BY <1>5, <2>s, UpdateEffect, Zenon
    <2>3. stopping = {} /\ stopping' \subseteq S /\ stopping' \subseteq batch'
      BY <2>1, <2>2 DEF StopsAwaited, ToUpdate
    <2>4. q \in Osd
      BY <2>1, FirstQueued
    <2> HIDE DEF q
    <2>5. OkToStop({q}) /\ \A p \in S : Domain[home[p]] = Domain[home[q]]
      BY <2>2, Zenon DEF OSDOkToStop
    <2>6. Unavailable \cup {q} \subseteq Osd
      BY <2>4 DEF CephTypes, Unavailable
    <2>7. OneDomain(Unavailable \cup {q})
      BY <2>5, <2>6, DomainsCounted DEF OkToStop
    <2>8. \A p \in Unavailable \cup S : Domain[home[p]] = Domain[home[q]]
      BY <2>5, <2>7, Zenon DEF OneDomain
    <2>9. AtRisk' \subseteq Unavailable \cup S
      BY <2>1, <2>3 DEF AtRisk, Unavailable
    <2>10. OneDomain(AtRisk)'
      BY <2>1, <2>8, <2>9 DEF OneDomain
    <2> QED
      BY <2>1, <2>3, <2>10 DEF AvailInv, StopsAwaited
  <1>6. CASE WaitForDeploymentsToUpdate
    <2>1. /\ UNCHANGED <<in, up, lost, stopping, home>> /\ pc = "wait" /\ pc' = "loop"
          /\ batch \cap stopping = {}
      BY <1>6, Zenon DEF WaitForDeploymentsToUpdate
    <2> QED
      BY <1>1, <2>1 DEF StopsAwaited
  <1>7. ASSUME NEW t \in Target, Jobs(t) \/ JobFaults(t)
        PROVE  AvailInv'
    <2>1. (JobStep(t) \/ JobFault(t)) /\ UNCHANGED <<pc, batch>>
      BY <1>7 DEF Jobs, JobFaults, unchangedByOthers
    <2>2. /\ UNCHANGED <<in, up, stopping>> /\ lost' \subseteq lost \cup (in \ up)
          /\ \A o \in Osd : osdmap[o] # "absent" => home'[o] = home[o]
      BY <2>1, JobEffect DEF JobChanges
    <2>3. AtRisk' \subseteq AtRisk
      BY <2>2 DEF AtRisk, Unavailable
    <2>4. \A o \in AtRisk : o \in Osd /\ osdmap[o] # "absent"
      BY DEF AtRisk, Unavailable, HomeInv, AbsentUnused, Unused, CephTypes
    <2>5. OneDomain(AtRisk)'
      BY <2>2, <2>3, <2>4, RiskKept, Zenon
    <2>6. StopsAwaited'
      BY <2>1, <2>2 DEF StopsAwaited
    <2> QED
      BY <2>5, <2>6 DEF AvailInv
  <1>8. ASSUME Ceph PROVE AvailInv'
    <2>1. PICK o \in Osd : CephStep(o)
      BY <1>8 DEF Ceph
    <2>2. UNCHANGED <<pc, batch, home>> /\ stopping' \subseteq stopping /\ AtRisk' \subseteq AtRisk
      BY <1>8, <2>1, Zenon DEF Ceph, unchangedByOthers, CephStep, PodStops, Boot, Backfill, MarkOut, AtRisk, Unavailable
    <2>3. OneDomain(AtRisk)'
      BY <2>2, RiskKept
    <2> QED
      BY <2>2, <2>3 DEF AvailInv, StopsAwaited
  <1>9. CASE OperatorRestarts \/ (\E n \in Node : Cordon(n) \/ Uncordon(n)) \/ WatchEvent \/ UNCHANGED vars
    BY <1>9, <1>1, Zenon DEF OperatorRestarts, Cordon, Uncordon, WatchEvent, vars, Return
  <1>10. CASE NoMigration \/ UnhealthyPGs \/ DeferMigration \/ NothingToMigrate
    <2>1. UNCHANGED <<in, up, lost, stopping, home>> /\ stopping = {} /\ pc' # "wait"
      BY <1>10, Zenon DEF NoMigration, UnhealthyPGs, DeferMigration, NothingToMigrate, Starts, Return
    <2> QED
      BY <1>1, <2>1, Zenon
  <1>11. CASE saveMigrationConfig \/ EndLoop \/ Finish \/ Abort
    <2>1. /\ UNCHANGED <<in, up, lost, stopping, home>>
          /\ pc \notin {"idle", "wait"} /\ pc' # "wait"
      BY <1>11 DEF saveMigrationConfig, EndLoop, Finish, Abort, Return
    <2> QED
      BY <1>1, <2>1 DEF StopsAwaited
  <1> QED
    BY <1>2, <1>3, <1>4, <1>5, <1>6, <1>7, <1>8, <1>9, <1>10, <1>11 DEF Next, Operator

\* Updating and migrating OSDs never makes the data of two failure domains
\* unavailable at once, for any number of updates in parallel and any
\* interruption of operator and jobs.  The premises are the cases in which
\* the code does not ask `ceph osd ok-to-stop` or goes on without its consent
\* (continueUpgradeAfterChecksEvenIfNotHealthy, skipUpgradeChecks, fewer than
\* three OSDs), and PromptStop: after a restart the operator does not look
\* at the cluster before the pods it replaced have stopped.
THEOREM DataAvailableTheorem ==
  ASSUME ~ContinueUpgradeAfterChecks, ~SkipUpgradeChecks, Cardinality(Initial) >= 3, PromptStop
  PROVE  Spec => []DataAvailable
  <1>1. Init => AvailInv
    BY DEF Init, AvailInv, StopsAwaited, OneDomain, AtRisk, Unavailable
  <1>2. Typed /\ HomeInv /\ Origin /\ AvailInv /\ [Next]_vars => AvailInv'
    BY NextAvail
  <1>3. Typed /\ AvailInv => DataAvailable
    <2> SUFFICES ASSUME Typed, AvailInv PROVE DataAvailable
      OBVIOUS
    <2>1. Unavailable \subseteq Osd /\ OneDomain(Unavailable)
      BY DEF Typed, CephTypes, AvailInv, AtRisk, Unavailable, OneDomain
    <2> QED
      BY <2>1, DomainsCounted, Zenon DEF DataAvailable
  <1> QED
    BY <1>1, <1>2, <1>3, AlwaysOrigin, PTL DEF Spec

-----------------------------------------------------------------------------
(* Success *)

\* Whatever the job of t still does, no OSD but o will be on its disk.
Holds(t, o) == disk[t] = o \/ (disk[t] = NoOsd /\ (Active(t) => job[t].migrate = o))

\* The job of node t lists no OSD for its disk, and whatever it still does none
\* but a destroyed or a migrated one will be there.
Left(t) ==
    /\ t \in Node
    /\ \/ disk[t] = NoOsd /\ (Active(t) => job[t].migrate # NoOsd)
       \/ disk[t] # NoOsd /\ osdmap[disk[t]] = "destroyed"
       \/ disk[t] # NoOsd /\ disk[t] = InitDisk[t] /\ store[t] = "new"

\* The ConfigMaps are processed in the loop; only a failed one was not awaited.
Phases ==
    /\ pc \in {"idle", "save", "list"} => await = {} /\ finished = {}
    /\ pc = "prepare" => finished = {}
    /\ ~errs => finished \subseteq await
    /\ pc = "finish" => ~errs /\ queue = Nothing /\ finished = await

\* A result that is awaited is of the OSD that is on the disk, or will be again,
\* unless the job left it out.
Reports(t) == \/ cm[t].osd \in Osd /\ Holds(t, cm[t].osd)
              \/ cm[t].osd = NoOsd /\ Left(t)
Reported == \A t \in await : cm[t].status = "completed" => Reports(t)

\* A result that was processed without error has its Deployment.
Deploys(t) == \E o \in Osd : dep[o] # "none" /\ Holds(t, o)
Processed == ~errs => \A t \in finished : Deploys(t) \/ Left(t)

\* From the list of Deployments on: none of them is deleted, and each one that
\* this Start has to update is updated or queued.  The ones left out of the
\* queue are still to be migrated.
Listed == pc \in {"prepare", "loop", "wait", "finish"}
QueueInv ==
    /\ \A o \in pend : requested /\ label[o] = "old"
    /\ Listed => pend = {} /\ \A o \in exist : dep[o] # "none"
    /\ Listed /\ ~errs => \A o \in exist \ labelled :
         home[o] \in PVC \cup nodes /\ (requested => label[o] = "new")
            => dep[o] = "new" \/ o \in Range(queue)

DoneInv == Phases /\ Reported /\ Processed /\ QueueInv

\* Returning from Start forgets all of it.
LEMMA ReturnDone ==
  ASSUME Return
  PROVE  DoneInv'
  BY DEF Return, Forget, DoneInv, Phases, Reported, Processed, QueueInv, Listed

\* A job leaves the OSD on its disk, or brings the migrated one back.
LEMMA JobHolds ==
  ASSUME CephTypes, HomeInv, NEW t \in Target, JobStep(t) \/ JobFault(t), NEW u \in Target,
         NEW o \in Osd, Holds(u, o)
  PROVE  Holds(u, o)'
  <1> JobChanges(t)
    BY JobEffect, Zenon
  <1>1. CASE u # t
    <2>1. disk'[u] = disk[u] /\ job'[u] = job[u]
      BY <1>1, Zenon DEF JobChanges
    <2> QED
      BY <2>1 DEF Holds, Active
  <1>2. CASE u = t
    <2> USE DEF Holds, Active
    <2>1. CASE DestroyOSD(t)
      BY <1>2, <2>1 DEF DestroyOSD, CanDestroy, CephTypes
    <2>2. CASE DestroyFails(t) \/ RestartBeforeZap(t) \/ RestartAfterZap(t) \/ ProvisionFails(t)
      <3>1. disk' = disk /\ (job' = job \/ job' = [job EXCEPT ![t] = Ended] \/ job' = [job EXCEPT ![t].step = "pending"])
        BY <2>2 DEF DestroyFails, RestartBeforeZap, RestartAfterZap, ProvisionFails
      <3>2. job[t].step # "ended" \/ disk[t] = o
        BY <1>2, <2>2 DEF DestroyFails, RestartBeforeZap, CanDestroy, RestartAfterZap, ProvisionFails, ReadyToProvision, CephTypes
      <3> QED
        BY <1>2, <3>1, <3>2 DEF CephTypes
    <2>3. CASE Provision(t) \/ RestartBeforeReport(t)
      <3>1. PrepareDisk(t) /\ ReadyToProvision(t)
        BY <2>3 DEF Provision, RestartBeforeReport
      <3>2. disk'[t] = IF disk[t] = NoOsd THEN IdFor(t) ELSE disk[t]
        BY <3>1, PrepareKeepsHomes, Zenon
      <3>3. disk[t] = NoOsd => IdFor(t) = o
        <4>1. job[t].step # "ended"
          BY <3>1 DEF ReadyToProvision
        <4>2. o # NoOsd
          BY OsdAssumption DEF NoOsd
        <4> QED
          BY <1>2, <4>1, <4>2, Zenon DEF IdFor
      <3> QED
        BY <1>2, <3>2, <3>3, Zenon
    <2> QED
      BY <2>1, <2>2, <2>3, Zenon DEF JobStep, JobFault
  <1> QED
    BY <1>1, <1>2

\* A disk whose OSD is left out keeps it, or gets the migrated one.
LEMMA JobLeaves ==
  ASSUME CephTypes, HomeInv, Origin, NEW t \in Target, JobStep(t) \/ JobFault(t), NEW u \in Target, Left(u)
  PROVE  Left(u)'
  <1> JobChanges(t)
    BY JobEffect, Zenon
  <1>t. /\ disk \in [Target -> Osd \cup {NoOsd}] /\ osdmap \in [Osd -> {"absent", "exists", "destroyed"}]
        /\ store \in [Target -> {"old", "new"}]
        /\ job \in [Target -> [migrate : Osd \cup {NoOsd}, step : {"pending", "zapped", "ended"}]]
    BY Zenon DEF CephTypes
  <1>1. CASE DestroyOSD(t)
    <2>1. /\ job[t].migrate \in Osd /\ job[t].migrate # NoOsd
          /\ osdmap' = [osdmap EXCEPT ![job[t].migrate] = "destroyed"]
          /\ disk' = [disk EXCEPT ![t] = NoOsd] /\ job' = [job EXCEPT ![t].step = "zapped"] /\ store' = store
      BY <1>1, <1>t DEF DestroyOSD, CanDestroy, Destroy
    <2>2. disk'[t] = NoOsd /\ job'[t].migrate = job[t].migrate
      BY <1>t, <2>1
    <2>3. \A o \in Osd : osdmap[o] = "destroyed" => osdmap'[o] = "destroyed"
      BY <1>t, <2>1
    <2>4. CASE u = t
      BY <2>1, <2>2, <2>4, Zenon DEF Left
    <2>5. CASE u # t
      <3>1. disk'[u] = disk[u] /\ job'[u] = job[u] /\ store'[u] = store[u]
        BY <2>1, <2>5, Zenon DEF JobChanges
      <3>2. disk[u] # NoOsd => disk[u] \in Osd
        BY <1>t
      <3> QED
        BY <2>3, <3>1, <3>2, Zenon DEF Left, Active
    <2> QED
      BY <2>4, <2>5
  <1>2. CASE DestroyFails(t) \/ RestartBeforeZap(t) \/ RestartAfterZap(t) \/ ProvisionFails(t)
    <2>1. /\ disk' = disk /\ store' = store
          /\ (job' = job \/ job' = [job EXCEPT ![t] = Ended] \/ job' = [job EXCEPT ![t].step = "pending"])
      BY <1>2, Zenon DEF DestroyFails, RestartBeforeZap, RestartAfterZap, ProvisionFails
    <2>2. \A o \in Osd : osdmap[o] = "destroyed" => osdmap'[o] = "destroyed"
      BY <1>2, <1>t DEF DestroyFails, RestartBeforeZap, RestartAfterZap, ProvisionFails, Destroy
    <2>3. Active(t)
      BY <1>2, <1>t DEF Active, DestroyFails, RestartBeforeZap, CanDestroy, RestartAfterZap, ProvisionFails, ReadyToProvision
    <2>4. Active(u)' => Active(u) /\ job'[u].migrate = job[u].migrate
      BY <1>t, <2>1, <2>3 DEF Active
    <2>5. disk[u] # NoOsd => disk[u] \in Osd
      BY <1>t
    <2> QED
      BY <2>1, <2>2, <2>4, <2>5, Zenon DEF Left
  <1>3. CASE Provision(t) \/ RestartBeforeReport(t)
    <2>1. PrepareDisk(t) /\ ReadyToProvision(t)
      BY <1>3, Zenon DEF Provision, RestartBeforeReport
    <2>2. job'[t].step = "ended" \/ job'[t].migrate = job[t].migrate
      BY <1>3, <1>t DEF Provision, RestartBeforeReport
    <2>3. CASE disk[t] # NoOsd
      <3>1. UNCHANGED <<disk, store, osdmap>>
        BY <2>1, <2>3, Zenon DEF PrepareDisk
      <3>2. u = t \/ job'[u] = job[u]
        BY Zenon DEF JobChanges
      <3> QED
        BY <2>3, <3>1, <3>2, Zenon DEF Left, Active
    <2>4. CASE disk[t] = NoOsd /\ u # t
      <3>1. disk'[u] = disk[u] /\ job'[u] = job[u]
        BY <2>4, Zenon DEF JobChanges
      <3>2. store'[u] = store[u]
        BY <2>1, <2>4, PreparedDisk, Zenon
      <3>3. disk[u] # NoOsd => home[disk[u]] = u
        BY Zenon DEF Origin
      <3>4. disk[u] # NoOsd => osdmap'[disk[u]] = osdmap[disk[u]]
        BY <2>1, <2>4, <3>3, PreparedDisk, Zenon
      <3> QED
        BY <3>1, <3>2, <3>4, Zenon DEF Left, Active
    <2>5. CASE disk[t] = NoOsd /\ u = t
      <3>1. Active(t)
        BY <2>1, <1>t DEF Active, ReadyToProvision
      <3>2. job[t].migrate # NoOsd
        BY <2>5, <3>1, Zenon DEF Left
      <3>3. job[t].migrate = InitDisk[t]
        BY <3>2, Zenon DEF Origin
      <3>4. disk'[t] = InitDisk[t] /\ store'[t] = "new"
        BY <2>1, <2>5, <3>2, <3>3, PreparedDisk, Zenon DEF IdFor
      <3> QED
        BY <2>5, <3>2, <3>3, <3>4, Zenon DEF Left
    <2> QED
      BY <2>3, <2>4, <2>5
  <1> QED
    BY <1>1, <1>2, <1>3, Zenon DEF JobStep, JobFault

\* A job reports the OSD on its disk, or leaves it out.
LEMMA JobReports ==
  ASSUME CephTypes, HomeInv, Origin, NEW t \in Target, JobStep(t) \/ JobFault(t), NEW u \in Target
  PROVE  \/ cm'[u] = cm[u] \/ cm'[u].status # "completed"
         \/ cm'[u].osd = disk'[u] /\ disk'[u] \in Osd
         \/ cm'[u].osd = NoOsd /\ Left(u)'
  <1> JobChanges(t)
    BY JobEffect, Zenon
  <1>1. CASE u # t
    BY <1>1, Zenon DEF JobChanges
  <1>2. CASE u = t /\ Provision(t)
    <2>1. disk'[t] \in Osd
      BY <1>2, PrepareKeepsHomes, Zenon DEF Provision
    <2>2. cm'[t].osd = ListedOSD(t, disk'[t])
      BY <1>2 DEF Provision, CephTypes
    <2>3. CASE ListedOSD(t, disk'[t]) = disk'[t]
      BY <1>2, <2>1, <2>2, <2>3, Zenon
    <2>4. CASE ListedOSD(t, disk'[t]) # disk'[t]
      <3>1. /\ t \notin PVC /\ osdmap[disk'[t]] = "destroyed" /\ ListedOSD(t, disk'[t]) = NoOsd
            /\ disk[t] # NoOsd \/ job[t].migrate # NoOsd
        BY <2>4, Zenon DEF ListedOSD
      <3>2. t \in Node /\ PrepareDisk(t)
        BY <1>2, <3>1 DEF Provision
      <3>3. ASSUME disk[t] # NoOsd PROVE Left(t)'
        BY <3>1, <3>2, <3>3, Zenon DEF PrepareDisk, Left
      <3>4. ASSUME disk[t] = NoOsd PROVE Left(t)'
        <4>1. job[t].migrate # NoOsd /\ job[t].migrate = InitDisk[t]
          BY <3>1, <3>4, Zenon DEF Origin
        <4>2. disk'[t] = InitDisk[t] /\ store'[t] = "new"
          BY <3>2, <3>4, <4>1, PreparedDisk, Zenon DEF IdFor
        <4> QED
          BY <3>2, <4>1, <4>2, Zenon DEF Left
      <3> QED
        BY <1>2, <2>2, <3>1, <3>3, <3>4, Zenon
    <2> QED
      BY <2>3, <2>4
  <1>3. CASE u = t /\ ProvisionFails(t)
    BY <1>3 DEF ProvisionFails, CephTypes, Status
  <1>4. CASE DestroyOSD(t) \/ DestroyFails(t) \/ RestartBeforeZap(t) \/ RestartAfterZap(t) \/ RestartBeforeReport(t)
    BY <1>4 DEF DestroyOSD, DestroyFails, RestartBeforeZap, RestartAfterZap, RestartBeforeReport
  <1> QED
    BY <1>1, <1>2, <1>3, <1>4, Zenon DEF JobStep, JobFault

\* The listed OSDs have been given by Ceph.
LEMMA ListedKnown ==
  ASSUME HomeInv, OperatorTypes, QueueInv, Listed
  PROVE  \A o \in exist : o \in Osd /\ osdmap[o] # "absent"
  BY Zenon DEF HomeInv, AbsentUnused, Unused, OperatorTypes, QueueInv

\* Jobs keep what is reported, processed and queued.
LEMMA JobsDone ==
  ASSUME Typed, HomeInv, Origin, DoneInv, NEW t \in Target, Jobs(t) \/ JobFaults(t)
  PROVE  DoneInv'
  <1> CephTypes /\ OperatorTypes /\ (JobStep(t) \/ JobFault(t))
    BY DEF Typed, Jobs, JobFaults
  <1>1. UNCHANGED <<given, valid, record, pc, locals>>
    BY DEF Jobs, JobFaults, unchangedByOthers
  <1>2. UNCHANGED <<dep, label>>
    BY JobEffect DEF JobChanges
  <1>3. Phases'
    BY <1>1 DEF DoneInv, Phases, locals
  <1>4. Reported'
    <2> SUFFICES ASSUME NEW u \in await
                 PROVE  (cm[u].status = "completed" => Reports(u))'
      BY <1>1, Zenon DEF Reported, locals
    <2>1. u \in Target
      BY DEF OperatorTypes
    <2>2. CASE cm'[u] = cm[u]
      <3>1. \A p \in Osd : Holds(u, p) => disk'[u] = p \/ (disk'[u] = NoOsd /\ (Active(u)' => job'[u].migrate = p))
        BY <2>1, JobHolds, Zenon DEF Holds
      <3>2. cm[u].status = "completed" => Reports(u)
        BY Zenon DEF DoneInv, Reported
      <3>3. Left(u) => Left(u)'
        BY <2>1, JobLeaves, Zenon
      <3> QED
        BY <2>2, <3>1, <3>2, <3>3, Zenon DEF Holds, Reports
    <2>3. CASE cm'[u].osd = disk'[u] /\ disk'[u] \in Osd
      BY <2>3, Zenon DEF Holds, Reports
    <2>4. CASE cm'[u].osd = NoOsd /\ Left(u)'
      BY <2>4, Zenon DEF Reports
    <2> QED
      BY <2>1, <2>2, <2>3, <2>4, JobReports, Zenon
  <1>5. Processed'
    <2> SUFFICES ASSUME ~errs, NEW u \in finished
                 PROVE  (\E o \in Osd : dep[o] # "none" /\ Holds(u, o)') \/ Left(u)'
      BY <1>1, <1>2, Zenon DEF Processed, Deploys, locals
    <2>1. u \in Target
      BY DEF OperatorTypes
    <2>2. CASE Left(u)
      BY <2>1, <2>2, JobLeaves, Zenon
    <2>3. CASE Deploys(u)
      <3>1. PICK o \in Osd : dep[o] # "none" /\ Holds(u, o)
        BY <2>3, Zenon DEF Deploys
      <3>2. Holds(u, o)'
        BY <2>1, <3>1, JobHolds, Zenon
      <3> QED
        BY <3>1, <3>2, Zenon
    <2> QED
      BY <2>2, <2>3, Zenon DEF DoneInv, Processed
  <1>6. QueueInv'
    <2>1. Listed => \A o \in exist : home'[o] = home[o]
      BY ListedKnown, JobEffect, Zenon DEF DoneInv, JobChanges
    <2> QED
      BY <1>1, <1>2, <2>1, Zenon DEF DoneInv, QueueInv, Listed, given, locals
  <1> QED
    BY <1>3, <1>4, <1>5, <1>6 DEF DoneInv

\* Steps that change neither disks, jobs nor results keep them reported.
LEMMA ReportedKept ==
  ASSUME Reported, UNCHANGED <<disk, store, osdmap, job, cm, await>>
  PROVE  Reported'
  BY Zenon DEF Reported, Reports, Holds, Left, Active

\* A processed result stays so while no Deployment is deleted.
LEMMA ProcessedKept ==
  ASSUME Processed, UNCHANGED <<disk, store, osdmap, job, finished>>, errs => errs',
         \A o \in Osd : dep[o] # "none" => dep'[o] # "none"
  PROVE  Processed'
  BY Zenon DEF Processed, Deploys, Holds, Left, Active

\* Migrating and listing start with nothing awaited.
LEMMA BeginDone ==
  ASSUME Typed, DoneInv,
         \/ NoMigration \/ DeferMigration \/ NothingToMigrate
         \/ (\E o \in Osd : MigrateNext(o)) \/ saveMigrationConfig \/ getOSDUpdateInfo
  PROVE  DoneInv'
  <1> USE DEF baseVars, jobVars, podVars, locals, given
  <1> CephTypes /\ OperatorTypes /\ Phases /\ QueueInv
    BY DEF Typed, DoneInv
  <1>1. pc \in {"idle", "save", "list"} /\ pc' \notin {"wait", "finish"} /\ UNCHANGED <<await, finished>>
    BY Zenon DEF NoMigration, DeferMigration, NothingToMigrate, MigrateNext, saveMigrationConfig,
           getOSDUpdateInfo, Starts, Phase
  <1>2. await' = {} /\ finished' = {}
    BY <1>1 DEF Phases
  <1>3. Phases' /\ Reported' /\ Processed'
    BY <1>1, <1>2 DEF Phases, Reported, Processed
  <1>4. QueueInv'
    <2>1. CASE NoMigration \/ DeferMigration \/ NothingToMigrate \/ saveMigrationConfig
      <3>1. pc' = "list" /\ UNCHANGED <<label, requested>> /\ (pend' = pend \/ (requested /\ pend' = NeedMigration))
        BY <2>1, Zenon DEF NoMigration, DeferMigration, NothingToMigrate, saveMigrationConfig
      <3> QED
        BY <3>1 DEF QueueInv, Listed, NeedMigration
    <2>2. ASSUME NEW o \in Osd, MigrateNext(o) PROVE QueueInv'
      <3>1. /\ pc' = "save" /\ UNCHANGED requested /\ requested /\ pend' = NeedMigration \ {o}
            /\ label' = [label EXCEPT ![o] = "old"]
        BY <2>2 DEF MigrateNext
      <3>2. \A p \in pend' : label'[p] = "old"
        BY <3>1 DEF CephTypes, NeedMigration
      <3> QED
        BY <3>1, <3>2 DEF QueueInv, Listed
    <2>3. CASE getOSDUpdateInfo
      <3>1. /\ exist' = Deployed /\ pend' = {} /\ UNCHANGED <<dep, label, home, requested, labelled>>
            /\ Range(queue') = exist' \ pend
        BY <2>3, ListEffect, Zenon DEF getOSDUpdateInfo
      <3>2. \A o \in exist' : dep'[o] # "none" /\ (o \in Range(queue') \/ (requested /\ label[o] = "old"))
        BY <3>1 DEF QueueInv, Deployed
      <3> QED
        BY <3>1, <3>2, Zenon DEF QueueInv
    <2> QED
      BY <2>1, <2>2, <2>3
  <1> QED
    BY <1>3, <1>4 DEF DoneInv

\* Starting a job: its target is awaited, with no result but one on its disk.
LEMMA PrepareDone ==
  ASSUME Typed, DoneInv,
         runPrepareJob \/ runPrepareJobFindsOld \/ runPrepareJobLosesRace \/ runPrepareJobFails
  PROVE  DoneInv'
  <1> USE DEF podVars, given
  <1> DEFINE t == Head(todo)
  <1> CephTypes /\ OperatorTypes /\ DoneInv
    BY DEF Typed
  <1>1. /\ pc = "prepare" /\ pc' \in {"prepare", "loop"}
        /\ UNCHANGED <<disk, store, osdmap, home, dep, label>>
        /\ UNCHANGED <<finished, exist, nodes, queue, pend, requested, labelled>>
        /\ errs => errs'
    <2>1. CASE runPrepareJob
      BY <2>1 DEF runPrepareJob, Awaits, Phase
    <2>2. CASE runPrepareJobFindsOld
      BY <2>2 DEF runPrepareJobFindsOld, Awaits, Phase
    <2>3. CASE runPrepareJobLosesRace
      BY <2>3 DEF runPrepareJobLosesRace, Awaits, Phase
    <2>4. CASE runPrepareJobFails
      BY <2>4 DEF runPrepareJobFails, Awaits, Phase
    <2> QED
      BY <2>1, <2>2, <2>3, <2>4
  <1>2. t \in Target
    BY <1>1, NextTarget
  <1>3. /\ job' \in {job, [job EXCEPT ![t] = NewJob(t)]}
        /\ await' \in {await, await \cup {t}}
        /\ \/ cm' \in {[cm EXCEPT ![t] = Status("starting")], [cm EXCEPT ![t] = Status("none")]}
           \/ /\ disk[t] # NoOsd
              /\ cm' = [cm EXCEPT ![t] = [status |-> "completed", osd |-> ListedOSD(t, disk[t]), store |-> store[t]]]
    <2>1. CASE runPrepareJob
      BY <2>1 DEF runPrepareJob, Awaits
    <2>2. CASE runPrepareJobFindsOld
      BY <2>2 DEF runPrepareJobFindsOld, Awaits
    <2>3. CASE runPrepareJobLosesRace
      BY <2>3 DEF runPrepareJobLosesRace, Awaits
    <2>4. CASE runPrepareJobFails
      BY <2>4 DEF runPrepareJobFails, Awaits
    <2> QED
      BY <2>1, <2>2, <2>3, <2>4, Zenon
  <1> HIDE DEF t
  <1>4. finished = {}
    BY <1>1 DEF DoneInv, Phases
  <1>5. Phases' /\ Processed'
    BY <1>1, <1>4 DEF Phases, Processed
  <1>6. Reported'
    <2> SUFFICES ASSUME NEW u \in await'
                 PROVE  (cm[u].status = "completed" => Reports(u))'
      BY Zenon DEF Reported
    <2>1. CASE u = t
      <3>1. cm'[t].status # "completed" \/ (disk[t] # NoOsd /\ cm'[t].osd = ListedOSD(t, disk[t]))
        BY <1>2, <1>3 DEF CephTypes, Status
      <3>2. disk[t] # NoOsd => disk[t] \in Osd
        BY <1>2 DEF CephTypes
      <3>3. CASE ListedOSD(t, disk[t]) = disk[t]
        BY <1>1, <2>1, <3>1, <3>2, <3>3, Zenon DEF Holds, Reports
      <3>4. CASE ListedOSD(t, disk[t]) # disk[t]
        <4>1. t \notin PVC /\ osdmap[disk[t]] = "destroyed" /\ ListedOSD(t, disk[t]) = NoOsd
          BY <3>4, Zenon DEF ListedOSD
        <4>2. t \in Node
          BY <1>2, <4>1
        <4> QED
          BY <1>1, <2>1, <3>1, <4>1, <4>2, Zenon DEF Left, Reports
      <3> QED
        BY <3>3, <3>4
    <2>2. CASE u # t
      <3>0. u \in await
        BY <1>3, <2>2, Zenon
      <3>1. u \in Target /\ cm'[u] = cm[u] /\ job'[u] = job[u]
        <4>1. u \in Target
          BY <3>0, Zenon DEF OperatorTypes
        <4>2. DOMAIN cm = Target /\ DOMAIN job = Target
          BY Zenon DEF CephTypes
        <4> QED
          BY <1>2, <1>3, <2>2, <4>1, <4>2, Zenon
      <3>2. cm[u].status = "completed" => Reports(u)
        BY <3>0, Zenon DEF DoneInv, Reported
      <3> QED
        BY <1>1, <3>1, <3>2, Zenon DEF Reports, Holds, Left, Active
    <2> QED
      BY <2>1, <2>2
  <1>7. QueueInv'
    BY <1>1 DEF DoneInv, QueueInv, Listed
  <1> QED
    BY <1>5, <1>6, <1>7 DEF DoneInv

\* Results are processed: the OSD has a Deployment afterwards, or there is an error.
LEMMA StatusDone ==
  ASSUME Typed, DoneInv, NEW t \in Target,
         FailedStatus(t) \/ IgnoredStatus(t) \/ createNewOSDsFromStatus(t)
  PROVE  DoneInv'
  <1> USE DEF podVars, given, locals
  <1> CephTypes /\ OperatorTypes /\ DoneInv
    BY DEF Typed
  <1>1. /\ pc = "loop" /\ UNCHANGED <<disk, store, osdmap, job, home>>
        /\ UNCHANGED <<pc, await, exist, nodes, queue, pend, requested, labelled>>
        /\ cm' = [cm EXCEPT ![t] = Status("none")] /\ (errs => errs')
    BY Zenon DEF FailedStatus, IgnoredStatus, createNewOSDsFromStatus
  <1>2. Reported'
    <2>1. \A u \in await : cm'[u] = cm[u] \/ cm'[u].status = "none"
      BY <1>1 DEF CephTypes, OperatorTypes, Status
    <2>2. \A u \in await : cm[u].status = "completed" => Reports(u)
      BY Zenon DEF DoneInv, Reported
    <2>3. \A u \in await : Reports(u) /\ cm'[u] = cm[u] => Reports(u)'
      BY <1>1, Zenon DEF Reports, Holds, Left, Active
    <2>4. \A u \in await : cm'[u].status = "completed" => cm'[u] = cm[u]
      BY <2>1
    <2> QED
      BY <1>1, <2>2, <2>3, <2>4, Zenon DEF Reported
  <1>3. \/ errs' /\ UNCHANGED <<dep, label>>
        \/ UNCHANGED <<dep, label, finished, errs>>
        \/ /\ cm[t].status = "completed" /\ t \in await /\ finished' = finished \cup {t}
           /\ UNCHANGED errs
           /\ \/ cm[t].osd \in exist \cup {NoOsd} /\ UNCHANGED <<dep, label>>
              \/ /\ cm[t].osd \notin exist /\ cm[t].osd \in Osd
                 /\ dep' = [dep EXCEPT ![cm[t].osd] = "new"]
                 /\ label' = [label EXCEPT ![cm[t].osd] = cm[t].store]
    BY Zenon DEF FailedStatus, IgnoredStatus, createNewOSDsFromStatus, CephTypes
  <1>4. /\ \A o \in Osd : dep'[o] \in {dep[o], "new"}
        /\ \A o \in exist : label'[o] = label[o]
    BY <1>3 DEF CephTypes, OperatorTypes
  <1>5. Phases'
    BY <1>1, <1>3 DEF DoneInv, Phases
  <1>6. Processed'
    <2> SUFFICES ASSUME ~errs', NEW u \in finished'
                 PROVE  (\E o \in Osd : dep'[o] # "none" /\ Holds(u, o)) \/ Left(u)
      BY <1>1, Zenon DEF Processed, Deploys, Holds, Left, Active
    <2>1. CASE u \in finished
      <3>1. Deploys(u) \/ Left(u)
        BY <1>1, <2>1, Zenon DEF DoneInv, Processed
      <3>2. \A o \in Osd : dep[o] # "none" => dep'[o] # "none"
        BY <1>4, Zenon
      <3> QED
        BY <3>1, <3>2, Zenon DEF Deploys
    <2>2. CASE u \notin finished
      <3>1. /\ u = t /\ cm[t].status = "completed" /\ t \in await
            /\ cm[t].osd \in exist \cup {NoOsd} \/ dep' = [dep EXCEPT ![cm[t].osd] = "new"]
        BY <1>3, <2>2, Zenon
      <3>2. Reports(t)
        BY <3>1, Zenon DEF DoneInv, Reported
      <3>3. ASSUME cm[t].osd \in Osd PROVE dep'[cm[t].osd] # "none"
        <4>1. CASE cm[t].osd \in exist
          <5>1. dep[cm[t].osd] # "none"
            BY <1>1, <4>1, Zenon DEF DoneInv, QueueInv, Listed
          <5> QED
            BY <1>4, <3>3, <5>1, Zenon
        <4>2. CASE dep' = [dep EXCEPT ![cm[t].osd] = "new"]
          BY <3>3, <4>2 DEF CephTypes
        <4>3. cm[t].osd # NoOsd
          BY <3>3
        <4> QED
          BY <3>1, <4>1, <4>2, <4>3, Zenon
      <3> QED
        BY <3>1, <3>2, <3>3, Zenon DEF Reports
    <2> QED
      BY <2>1, <2>2
  <1>7. QueueInv'
    BY <1>1, <1>4, Zenon DEF DoneInv, QueueInv, Listed, OperatorTypes
  <1> QED
    BY <1>2, <1>5, <1>6, <1>7 DEF DoneInv

\* Updating: what leaves the queue is updated, or is not reconciled here.
LEMMA UpdateDone ==
  ASSUME Typed, DoneInv, UpdateLater \/ updateExistingOSDs \/ WaitForDeploymentsToUpdate
  PROVE  DoneInv'
  <1> USE DEF baseVars, jobVars, podVars, given, locals
  <1> CephTypes /\ OperatorTypes /\ DoneInv
    BY DEF Typed
  <1>1. /\ pc \in {"loop", "wait"} /\ pc' \in {"loop", "wait"}
        /\ UNCHANGED <<disk, store, osdmap, job, cm, home, label>>
        /\ UNCHANGED <<await, finished, exist, nodes, pend, requested, labelled>>
    BY Zenon DEF UpdateLater, updateExistingOSDs, WaitForDeploymentsToUpdate
  <1>2. errs => errs'
    <2>1. CASE UpdateLater \/ WaitForDeploymentsToUpdate
      BY <2>1, Zenon DEF UpdateLater, WaitForDeploymentsToUpdate
    <2>2. CASE updateExistingOSDs
      <3>1. errs' = TRUE \/ errs' = errs
        BY <2>2, UpdateEffect, Zenon
      <3> QED
        BY <3>1, Zenon
    <2> QED
      BY <2>1, <2>2
  <1>3. \A o \in Osd : dep'[o] \in {dep[o], "new"}
    <2>1. CASE UpdateLater \/ WaitForDeploymentsToUpdate
      BY <2>1, Zenon DEF UpdateLater, WaitForDeploymentsToUpdate
    <2>2. CASE updateExistingOSDs
      <3>1. dep' = [o \in Osd |-> IF o \in batch' THEN "new" ELSE dep[o]]
        BY <2>2, UpdateEffect, Zenon
      <3> QED
        BY <3>1
    <2> QED
      BY <2>1, <2>2
  <1>4. Phases'
    BY <1>1, <1>2 DEF DoneInv, Phases
  <1>5. Reported' /\ Processed'
    BY <1>1, <1>2, <1>3, ReportedKept, ProcessedKept DEF DoneInv
  <1>6. ASSUME ~errs', NEW o \in exist \ labelled, home[o] \in PVC \cup nodes, dep[o] # "new",
               o \in Range(queue)
        PROVE  dep'[o] = "new" \/ o \in Range(queue')
    <2>1. CASE UpdateLater
      BY <1>6, <2>1, Rotated, Zenon DEF UpdateLater, OperatorTypes, Nothing
    <2>2. CASE WaitForDeploymentsToUpdate
      BY <1>6, <2>2, Zenon DEF WaitForDeploymentsToUpdate
    <2>3. CASE updateExistingOSDs
      <3>1. PICK S \in Stoppable(Head(queue)) :
              /\ batch' = {p \in ToUpdate(S) : dep[p] = "old"}
              /\ dep' = [p \in Osd |-> IF p \in batch' THEN "new" ELSE dep[p]]
              /\ queue' = Only(queue, Osd \ S)
        BY <1>6, <2>3, UpdateEffect, Zenon
      <3>2. Range(queue') = Range(queue) \cap (Osd \ S) /\ o \in Osd
        BY <3>1, OnlyKeeps DEF OperatorTypes
      <3>3. CASE o \notin S
        BY <1>6, <3>2, <3>3
      <3>4. CASE o \in S
        <4>1. o \in ToUpdate(S)
          BY <1>6, <3>4 DEF ToUpdate
        <4>2. dep[o] = "old"
          BY <1>1, <1>6, <3>2 DEF DoneInv, QueueInv, Listed, CephTypes
        <4> QED
          BY <3>1, <3>2, <4>1, <4>2
      <3> QED
        BY <3>3, <3>4
    <2> QED
      BY <2>1, <2>2, <2>3
  <1>7. QueueInv'
    <2>1. Listed /\ Listed' /\ pend' = {} /\ \A o \in exist : o \in Osd /\ dep'[o] # "none"
      BY <1>1, <1>3 DEF DoneInv, QueueInv, Listed, OperatorTypes
    <2>2. ASSUME ~errs', NEW o \in exist \ labelled, home[o] \in PVC \cup nodes,
                 requested => label[o] = "new"
          PROVE  dep'[o] = "new" \/ o \in Range(queue')
      <3>1. dep[o] = "new" \/ o \in Range(queue)
        BY <1>2, <2>1, <2>2 DEF DoneInv, QueueInv
      <3>2. CASE dep[o] = "new"
        BY <1>3, <2>1, <3>2, Zenon
      <3>3. CASE dep[o] # "new"
        BY <1>6, <2>2, <3>1, <3>3, Zenon
      <3> QED
        BY <3>2, <3>3
    <2> QED
      BY <1>1, <2>1, <2>2 DEF QueueInv
  <1> QED
    BY <1>4, <1>5, <1>7 DEF DoneInv

\* The loop ends: as many results as were awaited are all of them.
LEMMA EndDone ==
  ASSUME Typed, DoneInv, EndLoop, ~errs
  PROVE  DoneInv'
  <1> USE DEF baseVars, given, locals
  <1> OperatorTypes /\ DoneInv
    BY DEF Typed
  <1>1. /\ pc = "loop" /\ queue = Nothing /\ Cardinality(await) = Cardinality(finished) /\ pc' = "finish"
        /\ UNCHANGED <<baseVars, requested, labelled, locals>>
    BY DEF EndLoop, doneUpdating, doneCreating
  <1>2. finished = await
    <2>1. await \in SUBSET Target /\ finished \in SUBSET await
      BY DEF OperatorTypes, DoneInv, Phases
    <2>2. IsFiniteSet(await)
      BY <2>1, TargetAssumption, FS_Subset
    <2> QED
      BY <1>1, <2>1, <2>2, FS_Subset
  <1>3. Phases'
    BY <1>1, <1>2 DEF DoneInv, Phases
  <1>4. Reported' /\ Processed'
    BY <1>1, ReportedKept, ProcessedKept DEF DoneInv
  <1>5. QueueInv'
    BY <1>1, Zenon DEF DoneInv, QueueInv, Listed
  <1> QED
    BY <1>3, <1>4, <1>5 DEF DoneInv

\* Every step keeps what is reported, processed and queued.
LEMMA NextDone ==
  ASSUME Typed, HomeInv, Origin, DoneInv, [Next]_vars
  PROVE  DoneInv'
  <1> USE DEF baseVars, jobVars, podVars, given, locals
  <1>1. CASE /\ UNCHANGED <<disk, store, osdmap, job, cm, home, dep, label, pc>>
             /\ UNCHANGED <<await, finished, exist, nodes, queue, pend, requested, labelled, errs>>
    <2>1. Reported' /\ Processed'
      BY <1>1, ReportedKept, ProcessedKept DEF DoneInv
    <2> QED
      BY <1>1, <2>1, Zenon DEF DoneInv, Phases, QueueInv, Listed
  <1>2. CASE \/ NoMigration \/ DeferMigration \/ NothingToMigrate
             \/ (\E o \in Osd : MigrateNext(o)) \/ saveMigrationConfig \/ getOSDUpdateInfo
    BY <1>2, BeginDone
  <1>3. CASE runPrepareJob \/ runPrepareJobFindsOld \/ runPrepareJobLosesRace \/ runPrepareJobFails
    BY <1>3, PrepareDone
  <1>4. CASE \E t \in Target : FailedStatus(t) \/ IgnoredStatus(t) \/ createNewOSDsFromStatus(t)
    BY <1>4, StatusDone
  <1>5. CASE UpdateLater \/ updateExistingOSDs \/ WaitForDeploymentsToUpdate
    BY <1>5, UpdateDone
  <1>6. CASE EndLoop
    <2>1. errs => Return
      BY <1>6, Zenon DEF EndLoop
    <2> QED
      BY <1>6, <2>1, EndDone, ReturnDone
  <1>7. CASE UnhealthyPGs \/ Finish \/ Abort \/ OperatorRestarts
    BY <1>7, ReturnDone DEF UnhealthyPGs, Finish, Abort, OperatorRestarts
  <1>8. CASE \E t \in Target : Jobs(t) \/ JobFaults(t)
    BY <1>8, JobsDone
  <1>9. CASE Ceph \/ (\E n \in Node : Cordon(n) \/ Uncordon(n)) \/ WatchEvent \/ UNCHANGED vars
    BY <1>9, <1>1, Zenon DEF Ceph, unchangedByOthers, CephStep, PodStops, Boot, Backfill, MarkOut,
       Cordon, Uncordon, WatchEvent, vars
  <1> QED
    BY <1>2, <1>3, <1>4, <1>5, <1>6, <1>7, <1>8, <1>9 DEF Next, Operator

\* When Start reports success, every target it waited for has its OSD deployed
\* and every Deployment it had to update is updated, although the loop only
\* compares the numbers of awaited and finished ConfigMaps, stale jobs report
\* beside the new ones and a job may be lost and started again at any point.
THEOREM SuccessTheorem == Spec => []SuccessMeansDone
  <1>1. Init => DoneInv
    BY Zenon DEF Init, DoneInv, Phases, Reported, Processed, QueueInv, Listed
  <1>2. Typed /\ HomeInv /\ Origin /\ DoneInv /\ [Next]_vars => DoneInv'
    BY NextDone
  <1>3. DoneInv => SuccessMeansDone
    <2> SUFFICES ASSUME DoneInv, pc = "finish"
                 PROVE  /\ \A t \in await : disk[t] # NoOsd => dep[disk[t]] # "none" \/ Unlisted(t)
                        /\ \A o \in exist \ labelled :
                             home[o] \in PVC \cup nodes /\ (requested => label[o] = "new") => dep[o] = "new"
      BY DEF SuccessMeansDone
    <2>1. ~errs /\ queue = Nothing /\ finished = await
      BY DEF DoneInv, Phases
    <2>2. \A t \in await : disk[t] # NoOsd => dep[disk[t]] # "none" \/ Unlisted(t)
      BY <2>1, Zenon DEF DoneInv, Processed, Deploys, Holds, Left, Unlisted
    <2>3. Range(queue) = {}
      BY <2>1 DEF Range, Nothing
    <2> QED
      BY <2>1, <2>2, <2>3 DEF DoneInv, QueueInv, Listed
  <1> QED
    BY <1>1, <1>2, <1>3, AlwaysOrigin, PTL DEF Spec

=============================================================================
