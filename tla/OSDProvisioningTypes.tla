----------------------- MODULE OSDProvisioningTypes ------------------------
(***************************************************************************)
(* The operators and the types of OSDProvisioning: what InOrder and Only   *)
(* return, that every variable stays in its type, and that no OSD id is    *)
(* used before Ceph has given it.                                          *)
(***************************************************************************)
EXTENDS OSDProvisioning, FiniteSetTheorems, WellFoundedInduction, TLAPS

-----------------------------------------------------------------------------
(* Sets of natural numbers and sequences *)

\* Every set of natural numbers has a least element.
LEMMA LeastOf ==
  ASSUME NEW T, T \subseteq Nat, T # {}
  PROVE  \E x \in T : \A y \in T : x <= y
  <1> DEFINE R == {ss \in Nat \X Nat : ss[1] < ss[2]}
  <1>1. IsWellFoundedOn(R, Nat)
    BY NatLessThanWellFounded DEF OpToRel
  <1>2. \A x, y \in Nat : y < x => <<y, x>> \in R
    OBVIOUS
  <1> HIDE DEF R
  <1>3. PICK x \in T : \A y \in T : ~ (<<y, x>> \in R)
    BY <1>1, WFMin, Zenon
  <1>4. \A y \in T : ~(y < x)
    BY <1>2, <1>3, Zenon
  <1> QED
    BY <1>4

\* Min of a set of natural numbers is one of them.
LEMMA MinOf ==
  ASSUME NEW S, S \subseteq Nat, S # {}
  PROVE  Min(S) \in S
  <1>1. \E m \in S : \A y \in S : m <= y
    BY LeastOf, Zenon
  <1> QED
    BY <1>1, Zenon DEF Min

\* How many elements of S are below x.
Rank(S, x) == Cardinality({y \in S : y < x})

\* In a finite set every rank below its size is the rank of exactly one element.
LEMMA RankOf ==
  ASSUME NEW S, S \subseteq Nat, IsFiniteSet(S)
  PROVE  /\ Cardinality(S) \in Nat
         /\ \A x, y \in S : Rank(S, x) = Rank(S, y) => x = y
         /\ \A x \in S : Rank(S, x) + 1 \in 1..Cardinality(S)
         /\ \A k \in 1..Cardinality(S) : \E x \in S : Rank(S, x) = k - 1
  <1> DEFINE Low(x) == {y \in S : y < x}
             n == Cardinality(S)
             r == [x \in S |-> Rank(S, x)]
  <1>1. n \in Nat
    BY FS_CardinalityType
  <1>2. \A x \in S : IsFiniteSet(Low(x)) /\ Cardinality(Low(x)) \in Nat
    BY FS_Subset, FS_CardinalityType
  <1>3. ASSUME NEW x \in S, NEW y \in S, x < y
        PROVE  Cardinality(Low(x)) < Cardinality(Low(y))
    <2>0. (\A z \in S : z < x => z < y) /\ ~(x < x)
      <3>1. x \in Nat /\ y \in Nat /\ \A z \in S : z \in Nat
        OBVIOUS
      <3> QED
        BY <1>3, <3>1
    <2>1. Low(x) \subseteq Low(y) /\ x \in Low(y) /\ x \notin Low(x)
      BY <1>3, <2>0, Zenon
    <2>2. Low(x) # Low(y) /\ Low(x) \in SUBSET Low(y) /\ IsFiniteSet(Low(y))
      BY <2>1, <1>2
    <2>3. Cardinality(Low(x)) \in Nat /\ Cardinality(Low(y)) \in Nat
      BY <1>2
    <2> HIDE DEF Low
    <2>4. Cardinality(Low(x)) <= Cardinality(Low(y)) /\ Cardinality(Low(x)) # Cardinality(Low(y))
      BY <2>2, FS_Subset
    <2> QED
      BY <2>3, <2>4
  <1>4. ASSUME NEW x \in S
        PROVE  Cardinality(Low(x)) < n
    <2>1. Low(x) # S /\ Low(x) \in SUBSET S /\ x \in Nat
      OBVIOUS
    <2>2. Cardinality(Low(x)) \in Nat
      BY <1>2
    <2> HIDE DEF Low
    <2>3. Cardinality(Low(x)) <= n /\ n # Cardinality(Low(x))
      BY <2>1, FS_Subset
    <2> QED
      BY <1>1, <2>2, <2>3
  <1>5. \A x \in S : Rank(S, x) \in Nat /\ Rank(S, x) < n
    BY <1>2, <1>4 DEF Rank
  <1>6. \A x, y \in S : Rank(S, x) = Rank(S, y) => x = y
    <2>1. \A x, y \in S : x < y => Rank(S, x) < Rank(S, y)
      BY <1>3 DEF Rank
    <2> HIDE DEF Low, n, r
    <2> QED
      BY <1>5, <2>1
  <1>7. r \in Surjection(S, 0..(n - 1))
    <2>1. r \in [S -> 0..(n - 1)]
      BY <1>1, <1>5
    <2>2. r \in Injection(S, 0..(n - 1))
      BY <2>1, <1>6 DEF Injection, IsInjective
    <2>3. IsFiniteSet(0..(n - 1)) /\ Cardinality(0..(n - 1)) = n
      <3> HIDE DEF n, r
      <3> QED
        BY <1>1, FS_Interval
    <2> HIDE DEF r
    <2> QED
      BY <2>2, <2>3, FS_Injection
  <1>8. \A k \in 1..n : \E x \in S : Rank(S, x) = k - 1
    <2>1. \A j \in 0..(n - 1) : \E x \in S : r[x] = j
      BY <1>7, Zenon DEF Surjection
    <2>2. \A k \in 1..n : k - 1 \in 0..(n - 1)
      BY <1>1
    <2> QED
      BY <2>1, <2>2
  <1> QED
    BY <1>1, <1>5, <1>6, <1>8

\* InOrder lists every element of a finite set of natural numbers once.
LEMMA InOrderLists ==
  ASSUME NEW S, S \subseteq Nat, IsFiniteSet(S)
  PROVE  /\ Cardinality(S) \in Nat
         /\ InOrder(S) \in [1..Cardinality(S) -> S]
         /\ \A i, j \in 1..Cardinality(S) : InOrder(S)[i] = InOrder(S)[j] => i = j
         /\ \A x \in S : \E i \in 1..Cardinality(S) : InOrder(S)[i] = x
  <1> DEFINE n == Cardinality(S)
             q == InOrder(S)
  <1>1. n \in Nat
    BY RankOf, Zenon
  <1>2. \A k \in 1..n : \E x \in S : Rank(S, x) = k - 1
    BY RankOf, Zenon
  <1>3. \A k \in 1..n : q[k] = CHOOSE x \in S : Rank(S, x) = k - 1
    BY Zenon DEF InOrder, Rank
  <1>4. \A k \in 1..n : q[k] \in S /\ Rank(S, q[k]) = k - 1
    <2> HIDE DEF n, q
    <2> QED
      BY <1>2, <1>3
  <1>5. q \in [1..n -> S]
    BY <1>4, Zenon DEF InOrder
  <1>6. \A i, j \in 1..n : q[i] = q[j] => i = j
    <2>1. \A i, j \in 1..n : q[i] = q[j] => i - 1 = j - 1
      BY <1>4
    <2> HIDE DEF n, q
    <2> QED
      BY <1>1, <2>1
  <1>7. ASSUME NEW x \in S PROVE \E i \in 1..n : q[i] = x
    <2>1. Rank(S, x) + 1 \in 1..n /\ \A y \in S : Rank(S, y) = Rank(S, x) => y = x
      BY RankOf, Zenon
    <2> DEFINE i == Rank(S, x) + 1
    <2>2. i \in 1..n /\ q[i] \in S /\ Rank(S, q[i]) = i - 1
      BY <1>4, <2>1
    <2>3. Rank(S, x) \in Int
      BY RankOf, FS_Subset, FS_CardinalityType DEF Rank
    <2>4. Rank(S, q[i]) = Rank(S, x)
      <3> HIDE DEF n, q
      <3> QED
        BY <2>2, <2>3
    <2> QED
      BY <2>1, <2>2, <2>4, Zenon
  <1> QED
    BY <1>1, <1>5, <1>6, <1>7

\* What is in a sequence over A is in A.
LEMMA RangeIn == \A A : \A s \in Seq(A) : Range(s) \subseteq A
  BY DEF Range

\* Only keeps exactly the elements of s in T, and none twice that was not.
LEMMA OnlyKeeps ==
  ASSUME NEW A, NEW s \in Seq(A), NEW T
  PROVE  /\ Only(s, T) \in Seq(A)
         /\ Range(Only(s, T)) = Range(s) \cap T
         /\ IsInjective(s) => IsInjective(Only(s, T))
  <1> DEFINE I == {i \in DOMAIN s : s[i] \in T}
             n == Cardinality(I)
             q == InOrder(I)
             r == Only(s, T)
  <1>1. DOMAIN s = 1..Len(s) /\ Len(s) \in Nat /\ \A i \in DOMAIN s : s[i] \in A
    OBVIOUS
  <1>2. I \subseteq Nat /\ IsFiniteSet(I)
    <2>1. IsFiniteSet(1..Len(s))
      BY <1>1, FS_Interval
    <2>2. I \in SUBSET (1..Len(s)) /\ 1..Len(s) \subseteq Nat
      BY <1>1
    <2> HIDE DEF I
    <2> QED
      BY <2>1, <2>2, FS_Subset, Zenon
  <1>3. /\ n \in Nat /\ q \in [1..n -> I]
        /\ \A i, j \in 1..n : q[i] = q[j] => i = j
        /\ \A x \in I : \E i \in 1..n : q[i] = x
    <2> HIDE DEF I
    <2> QED
      BY <1>2, InOrderLists, Zenon
  <1>4. r = [k \in 1..n |-> s[q[k]]]
    BY DEF Only
  <1>5. \A k \in 1..n : q[k] \in DOMAIN s /\ s[q[k]] \in A /\ s[q[k]] \in T
    BY <1>1, <1>3
  <1>6. \A i \in DOMAIN s : s[i] \in T => \E k \in 1..n : q[k] = i
    BY <1>3, Zenon
  <1> HIDE DEF I, n, q, r
  <1>7. r \in Seq(A) /\ DOMAIN r = 1..n
    BY <1>3, <1>4, <1>5
  <1>8. Range(r) = Range(s) \cap T
    <2>1. \A x \in Range(r) : x \in Range(s) /\ x \in T
      BY <1>4, <1>5, <1>7 DEF Range
    <2>2. ASSUME NEW x \in Range(s), x \in T PROVE x \in Range(r)
      <3>1. PICK i \in DOMAIN s : x = s[i]
        BY DEF Range
      <3>2. PICK k \in 1..n : q[k] = i
        BY <1>6, <2>2, <3>1
      <3> QED
        BY <1>4, <1>7, <3>1, <3>2 DEF Range
    <2> QED
      BY <2>1, <2>2
  <1>9. IsInjective(s) => IsInjective(r)
    BY <1>3, <1>4, <1>5, <1>7 DEF IsInjective
  <1> QED
    BY <1>7, <1>8, <1>9 DEF r

\* The OSD at the head of the queue goes to its end: the same OSDs, none twice.
LEMMA Rotated ==
  ASSUME NEW A, NEW q \in Seq(A), q # << >>
  PROVE  /\ Head(q) \in Range(q) /\ Append(Tail(q), Head(q)) \in Seq(A)
         /\ Range(Append(Tail(q), Head(q))) = Range(q)
         /\ IsInjective(q) => IsInjective(Append(Tail(q), Head(q)))
  <1> DEFINE n == Len(q)
             r == Append(Tail(q), Head(q))
  <1>1. n \in Nat /\ n >= 1 /\ DOMAIN q = 1..n /\ Head(q) = q[1]
    OBVIOUS
  <1>2. Len(Tail(q)) = n - 1 /\ Tail(q) \in Seq(A) /\ \A i \in 1..(n - 1) : Tail(q)[i] = q[i + 1]
    OBVIOUS
  <1>3. Head(q) \in A
    BY <1>1
  <1>4. /\ r \in Seq(A) /\ DOMAIN r = 1..n
        /\ \A i \in 1..(n - 1) : r[i] = q[i + 1]
        /\ r[n] = q[1]
    BY <1>1, <1>2, <1>3
  <1> HIDE DEF r, n
  <1>5. \A i \in 1..n : i = n \/ (i \in 1..(n - 1) /\ i + 1 \in 1..n /\ i + 1 # 1)
    BY <1>1
  <1>6. \A x \in Range(r) : x \in Range(q)
    BY <1>1, <1>4, <1>5 DEF Range
  <1>7. ASSUME NEW x \in Range(q) PROVE x \in Range(r)
    <2>1. PICK i \in 1..n : x = q[i]
      BY <1>1 DEF Range
    <2>2. CASE i = 1
      BY <1>1, <1>4, <2>1, <2>2 DEF Range
    <2>3. CASE i # 1
      <3>1. i - 1 \in 1..(n - 1) /\ i - 1 \in 1..n /\ (i - 1) + 1 = i
        BY <1>1, <2>3
      <3> QED
        BY <1>4, <2>1, <3>1 DEF Range
    <2> QED
      BY <2>2, <2>3
  <1>8. IsInjective(q) => IsInjective(r)
    <2> SUFFICES ASSUME IsInjective(q), NEW i \in 1..n, NEW j \in 1..n, r[i] = r[j]
                 PROVE  i = j
      BY <1>4 DEF IsInjective
    <2>1. \A k, m \in 1..n : q[k] = q[m] => k = m
      BY <1>1 DEF IsInjective
    <2> QED
      BY <1>1, <1>4, <1>5, <2>1
  <1>9. Head(q) \in Range(q)
    BY <1>1 DEF Range
  <1>10. Range(r) = Range(q)
    BY <1>6, <1>7, Zenon
  <1> QED
    BY <1>4, <1>8, <1>9, <1>10 DEF r

-----------------------------------------------------------------------------
(* Types *)

USE OsdAssumption DEF NoOsd, Target, Ended

CephTypes ==
    /\ disk \in [Target -> Osd \cup {NoOsd}] /\ store \in [Target -> {"old", "new"}]
    /\ osdmap \in [Osd -> {"absent", "exists", "destroyed"}] /\ home \in [Osd -> Target]
    /\ in \subseteq Osd /\ lost \subseteq Osd /\ up \subseteq Osd /\ stopping \subseteq up
    /\ dep \in [Osd -> {"none", "old", "new"}]
    /\ job \in [Target -> [migrate : Osd \cup {NoOsd}, step : {"pending", "zapped", "ended"}]]
    /\ label \in [Osd -> {"old", "new"}]
    /\ cm \in [Target -> [status : {"none", "starting", "completed", "failed"},
                          osd : Osd \cup {NoOsd}, store : {"old", "new"}]]
    /\ events \in 0..MaxEvents

OperatorTypes ==
    /\ spec \in Seq(Target) /\ labelled \subseteq Osd /\ valid \subseteq Node
    /\ record \in Osd \cup {NoOsd} /\ migrate \in Osd \cup {NoOsd}
    /\ pc \in {"idle", "save", "list", "prepare", "loop", "wait", "finish"}
    /\ pend \subseteq Osd /\ exist \subseteq Osd /\ batch \subseteq Osd
    /\ queue \in Seq(exist) /\ IsInjective(queue)
    /\ nodes \subseteq Node /\ todo \in Seq(Target) /\ (pc = "prepare" => todo # Nothing)
    /\ await \subseteq Target /\ finished \subseteq Target

Flags == requested \in BOOLEAN /\ errs \in BOOLEAN /\ wake \in BOOLEAN

\* What the tail of the queue of targets gives.
LEMMA NextTarget ==
  ASSUME OperatorTypes, pc = "prepare"
  PROVE  Head(todo) \in Target /\ Tail(todo) \in Seq(Target)
  BY DEF OperatorTypes, Nothing

\* Only ids of the model are given to a disk, and the id keeps its home.
LEMMA IdGiven ==
  ASSUME CephTypes, NEW t \in Target, HasId(t)
  PROVE  /\ IdFor(t) \in Osd
         /\ \/ IdFor(t) = job[t].migrate
            \/ home[IdFor(t)] = t /\ osdmap[IdFor(t)] = "destroyed"
            \/ osdmap[IdFor(t)] = "absent"
  <1>1. Slots(t) \subseteq Osd /\ Absent \subseteq Osd
    BY DEF Slots, Absent
  <1>2. CASE job[t].migrate # NoOsd
    BY <1>2 DEF IdFor, CephTypes
  <1>3. CASE job[t].migrate = NoOsd /\ t \notin PVC /\ Slots(t) # {}
    <2>1. Min(Slots(t)) \in Slots(t)
      BY <1>1, <1>3, MinOf, Zenon
    <2> QED
      BY <1>3, <2>1 DEF IdFor, Slots
  <1>4. CASE job[t].migrate = NoOsd /\ ~(t \notin PVC /\ Slots(t) # {})
    <2>1. Min(Absent) \in Absent
      BY <1>1, <1>4, MinOf, Zenon DEF HasId
    <2> QED
      BY <1>4, <2>1 DEF IdFor, Absent
  <1> QED
    BY <1>2, <1>3, <1>4

LEMMA FaultCounted ==
  ASSUME events \in 0..MaxEvents, Fault \/ UNCHANGED events
  PROVE  events' \in 0..MaxEvents
  BY BoundAssumption DEF Fault

\* The initial state is typed.
LEMMA InitTypes == Init => CephTypes /\ OperatorTypes /\ Flags
  <1> SUFFICES ASSUME Init PROVE CephTypes /\ OperatorTypes /\ Flags
    OBVIOUS
  <1>1. home \in [Osd -> Target]
    BY TargetAssumption DEF Init
  <1>2. CephTypes
    <2>1. disk \in [Target -> Osd \cup {NoOsd}] /\ store \in [Target -> {"old", "new"}]
      BY TargetAssumption DEF Init
    <2>2. /\ osdmap \in [Osd -> {"absent", "exists", "destroyed"}]
          /\ dep \in [Osd -> {"none", "old", "new"}] /\ label \in [Osd -> {"old", "new"}]
          /\ in \subseteq Osd /\ lost \subseteq Osd /\ up \subseteq Osd /\ stopping \subseteq up
      BY DEF Init
    <2>3. job \in [Target -> [migrate : Osd \cup {NoOsd}, step : {"pending", "zapped", "ended"}]]
      BY DEF Init
    <2>4. cm \in [Target -> [status : {"none", "starting", "completed", "failed"},
                             osd : Osd \cup {NoOsd}, store : {"old", "new"}]]
      BY DEF Init, Status
    <2>5. events \in 0..MaxEvents
      BY BoundAssumption DEF Init
    <2> QED
      BY <1>1, <2>1, <2>2, <2>3, <2>4, <2>5 DEF CephTypes
  <1>3. OperatorTypes
    <2>1. spec \in Seq(Target) /\ labelled \subseteq Osd
      BY ScenarioAssumption DEF Init
    <2> QED
      BY <2>1 DEF Init, OperatorTypes, Nothing, IsInjective
  <1>4. Flags
    BY ScenarioAssumption, Zenon DEF Init, Flags
  <1> QED
    BY <1>2, <1>3, <1>4

\* Preparing a disk keeps the types of what it writes.
LEMMA PrepareTypes ==
  ASSUME CephTypes, NEW t \in Target, PrepareDisk(t)
  PROVE  /\ disk' \in [Target -> Osd \cup {NoOsd}] /\ store' \in [Target -> {"old", "new"}]
         /\ osdmap' \in [Osd -> {"absent", "exists", "destroyed"}] /\ home' \in [Osd -> Target]
  <1>1. CASE disk[t] # NoOsd
    BY <1>1 DEF PrepareDisk, CephTypes
  <1>2. CASE disk[t] = NoOsd
    <2>1. IdFor(t) \in Osd
      BY <1>2, IdGiven DEF PrepareDisk
    <2> QED
      BY <1>2, <2>1 DEF PrepareDisk, CephTypes
  <1> QED
    BY <1>1, <1>2

\* A job lists the OSD of its disk or nothing.
LEMMA ListsOrNot ==
  ASSUME NEW t, NEW o
  PROVE  ListedOSD(t, o) \in {o, NoOsd}
  BY Zenon DEF ListedOSD

\* Prepare jobs keep the types.
LEMMA JobTypes ==
  ASSUME CephTypes, NEW t \in Target, JobStep(t) \/ JobFault(t)
  PROVE  CephTypes'
  <1> USE DEF podVars
  <1>1. CASE DestroyOSD(t) \/ RestartBeforeZap(t)
    <2>1. job[t].migrate \in Osd
      BY <1>1 DEF DestroyOSD, RestartBeforeZap, CanDestroy, CephTypes
    <2>2. events' \in 0..MaxEvents
      BY <1>1, FaultCounted DEF DestroyOSD, RestartBeforeZap, CephTypes
    <2> QED
      BY <1>1, <2>1, <2>2 DEF DestroyOSD, RestartBeforeZap, Destroy, CephTypes
  <1>2. CASE DestroyFails(t)
    BY <1>2 DEF DestroyFails, CephTypes
  <1>3. CASE Provision(t)
    <2>1. PrepareDisk(t)
      BY <1>3 DEF Provision
    <2>2. disk'[t] \in Osd \cup {NoOsd} /\ store'[t] \in {"old", "new"}
      BY <2>1, PrepareTypes
    <2> DEFINE l == ListedOSD(t, disk'[t])
    <2>l. l \in Osd \cup {NoOsd}
      BY <2>2, ListsOrNot
    <2>c. cm' = [cm EXCEPT ![t] = [status |-> "completed", osd |-> l, store |-> store'[t]]]
      BY <1>3, Zenon DEF Provision
    <2> HIDE DEF l
    <2>3. cm' \in [Target -> [status : {"none", "starting", "completed", "failed"},
                              osd : Osd \cup {NoOsd}, store : {"old", "new"}]]
      BY <2>2, <2>l, <2>c DEF CephTypes
    <2>4. job' \in [Target -> [migrate : Osd \cup {NoOsd}, step : {"pending", "zapped", "ended"}]]
      BY <1>3 DEF Provision, CephTypes
    <2>5. UNCHANGED <<lost, podVars, events>>
      BY <1>3 DEF Provision
    <2> QED
      BY <2>1, <2>3, <2>4, <2>5, PrepareTypes DEF CephTypes
  <1>4. CASE ProvisionFails(t) \/ RestartAfterZap(t)
    <2>1. events' \in 0..MaxEvents
      BY <1>4, FaultCounted DEF ProvisionFails, RestartAfterZap, CephTypes
    <2>2. job' = [job EXCEPT ![t].step = "pending"]
      BY <1>4 DEF ProvisionFails, RestartAfterZap
    <2>3. cm' \in {cm, [cm EXCEPT ![t] = Status("failed")]}
      BY <1>4 DEF ProvisionFails, RestartAfterZap
    <2>4. UNCHANGED <<disk, store, osdmap, home, lost, podVars>>
      BY <1>4 DEF ProvisionFails, RestartAfterZap
    <2> QED
      BY <2>1, <2>2, <2>3, <2>4 DEF CephTypes, Status
  <1>5. CASE RestartBeforeReport(t)
    <2>1. PrepareDisk(t) /\ events' \in 0..MaxEvents
      BY <1>5, FaultCounted DEF RestartBeforeReport, CephTypes
    <2>2. job' \in [Target -> [migrate : Osd \cup {NoOsd}, step : {"pending", "zapped", "ended"}]]
      BY <1>5 DEF RestartBeforeReport, CephTypes
    <2>3. UNCHANGED <<lost, cm, podVars>>
      BY <1>5 DEF RestartBeforeReport
    <2> QED
      BY <2>1, <2>2, <2>3, PrepareTypes DEF CephTypes
  <1> QED
    BY <1>1, <1>2, <1>3, <1>4, <1>5 DEF JobStep, JobFault

\* Ceph and the pods keep the types.
LEMMA PodTypes ==
  ASSUME CephTypes, NEW o \in Osd, CephStep(o)
  PROVE  CephTypes'
  <1> USE DEF podVars, jobVars
  <1>1. CASE PodStops(o)
    BY <1>1 DEF PodStops, CephTypes
  <1>2. CASE Boot(o)
    BY <1>2 DEF Boot, CephTypes
  <1>3. CASE Backfill(o) \/ MarkOut(o)
    BY <1>3, Zenon DEF Backfill, MarkOut, CephTypes
  <1> QED
    BY <1>1, <1>2, <1>3 DEF CephStep

\* What an update of Deployments writes: the changed ones among those that may
\* be stopped, all of them unless it fails.
LEMMA UpdateEffect ==
  ASSUME updateExistingOSDs
  PROVE  \E S \in Stoppable(Head(queue)) :
           LET changed == {o \in ToUpdate(S) : dep[o] = "old"} IN
           /\ batch' \subseteq changed /\ (errs' = TRUE \/ (batch' = changed /\ errs' = errs))
           /\ dep' = [o \in Osd |-> IF o \in batch' THEN "new" ELSE dep[o]]
           /\ stopping' = stopping \cup (batch' \cap up)
           /\ queue' = Only(queue, Osd \ S)
           /\ Fault \/ UNCHANGED events
  <1>1. PICK S \in Stoppable(Head(queue)) :
          LET changed == {o \in ToUpdate(S) : dep[o] = "old"} IN
          /\ \/ batch' = changed /\ UNCHANGED <<errs, events>>
             \/ Fault /\ errs' = TRUE /\ batch' \in {changed \ {o} : o \in changed}
          /\ dep' = [o \in Osd |-> IF o \in batch' THEN "new" ELSE dep[o]]
          /\ stopping' = stopping \cup (batch' \cap up)
          /\ queue' = Only(queue, Osd \ S)
    BY Zenon DEF updateExistingOSDs
  <1> DEFINE changed == {o \in ToUpdate(S) : dep[o] = "old"}
  <1>2. \/ batch' = changed /\ UNCHANGED <<errs, events>>
        \/ Fault /\ errs' = TRUE /\ batch' \in {changed \ {o} : o \in changed}
    BY <1>1, Zenon
  <1> HIDE DEF changed
  <1>3. batch' \subseteq changed /\ (errs' = TRUE \/ (batch' = changed /\ errs' = errs))
    BY <1>2, Zenon
  <1>4. Fault \/ UNCHANGED events
    BY <1>2, Zenon
  <1> QED
    BY <1>1, <1>3, <1>4, Zenon DEF changed

\* Returning from Start, and a restart of the operator, keep the types.
LEMMA ReturnTypes ==
  ASSUME OperatorTypes, Return, UNCHANGED <<given, valid, record>>
  PROVE  OperatorTypes'
  BY DEF OperatorTypes, Return, Forget, given, Nothing, IsInjective

\* The steps of a migration keep the types.
LEMMA MigrationTypes ==
  ASSUME CephTypes, OperatorTypes,
         \/ NoMigration \/ UnhealthyPGs \/ DeferMigration \/ NothingToMigrate
         \/ (\E o \in Osd : MigrateNext(o)) \/ saveMigrationConfig
  PROVE  CephTypes' /\ OperatorTypes'
  <1> USE DEF baseVars, jobVars, podVars, locals, given
  <1>1. CASE NoMigration \/ DeferMigration \/ NothingToMigrate \/ saveMigrationConfig
    <2>1. CephTypes'
      BY <1>1, Zenon DEF CephTypes, NoMigration, DeferMigration, NothingToMigrate, saveMigrationConfig
    <2>2. OperatorTypes'
      BY <1>1, Zenon DEF OperatorTypes, NoMigration, DeferMigration, NothingToMigrate,
                  saveMigrationConfig, NeedMigration
    <2> QED
      BY <2>1, <2>2
  <1>2. CASE UnhealthyPGs
    <2>1. CephTypes'
      BY <1>2 DEF CephTypes, UnhealthyPGs
    <2>2. OperatorTypes'
      BY <1>2, ReturnTypes DEF UnhealthyPGs
    <2> QED
      BY <2>1, <2>2
  <1>3. ASSUME NEW o \in Osd, MigrateNext(o)
        PROVE  CephTypes' /\ OperatorTypes'
    <2>1. events' \in 0..MaxEvents
      BY <1>3, FaultCounted DEF MigrateNext, CephTypes
    <2>2. CephTypes'
      BY <1>3, <2>1 DEF CephTypes, MigrateNext, Starts
    <2>3. OperatorTypes'
      BY <1>3 DEF OperatorTypes, MigrateNext, NeedMigration
    <2> QED
      BY <2>2, <2>3
  <1> QED
    BY <1>1, <1>2, <1>3

\* What getOSDUpdateInfo puts in the queues: every Deployment that is not to be
\* migrated, and the targets that need a job.
LEMMA ListEffect ==
  ASSUME OperatorTypes, getOSDUpdateInfo
  PROVE  /\ queue' \in Seq(exist') /\ IsInjective(queue') /\ Range(queue') = exist' \ pend
         /\ todo' \in Seq(Target) /\ (pc' = "prepare" => todo' # Nothing) /\ pc' \in {"prepare", "loop"}
  <1> DEFINE S == Deployed \ pend
  <1>1. S \subseteq Osd /\ S \subseteq Nat /\ S \in SUBSET Osd
    BY Zenon DEF Deployed
  <1>2. IsFiniteSet(S)
    <2> HIDE DEF S
    <2> QED
      BY <1>1, FS_Subset, Zenon
  <1>3. queue' = InOrder(S) /\ exist' = Deployed
    BY DEF getOSDUpdateInfo
  <1>4. S \subseteq exist' /\ S = exist' \ pend
    BY <1>3
  <1> HIDE DEF S
  <1>5. /\ Cardinality(S) \in Nat /\ queue' \in [1..Cardinality(S) -> S]
        /\ \A i, j \in 1..Cardinality(S) : queue'[i] = queue'[j] => i = j
        /\ \A x \in S : \E i \in 1..Cardinality(S) : queue'[i] = x
    BY <1>1, <1>2, <1>3, InOrderLists, Zenon
  <1>6. queue' \in Seq(exist')
    <2>1. queue' = [k \in 1..Cardinality(S) |-> queue'[k]] /\ \A k \in 1..Cardinality(S) : queue'[k] \in exist'
      BY <1>4, <1>5, Zenon
    <2> QED
      BY <1>5, <2>1
  <1>7. IsInjective(queue') /\ Range(queue') = S
    BY <1>5 DEF IsInjective, Range
  <1>8. todo' \in Seq(Target)
    BY OnlyKeeps DEF OperatorTypes, getOSDUpdateInfo
  <1>9. (pc' = "prepare" => todo' # Nothing) /\ pc' \in {"prepare", "loop"}
    BY DEF getOSDUpdateInfo, Phase
  <1> QED
    BY <1>4, <1>6, <1>7, <1>8, <1>9

\* Starting the jobs keeps the types.
LEMMA StartJobTypes ==
  ASSUME CephTypes, OperatorTypes,
         \/ getOSDUpdateInfo \/ runPrepareJob \/ runPrepareJobFindsOld
         \/ runPrepareJobLosesRace \/ runPrepareJobFails
  PROVE  CephTypes' /\ OperatorTypes'
  <1> USE DEF baseVars, jobVars, podVars, locals, given
  <1>1. CASE getOSDUpdateInfo
    <2>1. CephTypes'
      BY <1>1 DEF CephTypes, getOSDUpdateInfo
    <2>2. exist' \subseteq Osd /\ pend' = {} /\ nodes' = valid
      BY <1>1 DEF getOSDUpdateInfo, Deployed
    <2>3. UNCHANGED <<given, valid, record, migrate, await, finished, batch>>
      BY <1>1 DEF getOSDUpdateInfo
    <2>4. OperatorTypes'
      BY <1>1, <2>2, <2>3, ListEffect DEF OperatorTypes
    <2> QED
      BY <2>1, <2>4
  <1>2. CASE runPrepareJob \/ runPrepareJobFindsOld \/ runPrepareJobLosesRace
    <2> DEFINE t == Head(todo)
               l == ListedOSD(t, disk[t])
    <2>1. pc = "prepare" /\ Awaits(t) /\ UNCHANGED events
      BY <1>2 DEF runPrepareJob, runPrepareJobFindsOld, runPrepareJobLosesRace
    <2>2. t \in Target /\ Tail(todo) \in Seq(Target)
      BY <2>1, NextTarget
    <2>3. job' \in {job, [job EXCEPT ![t] = NewJob(t)]}
      BY <1>2 DEF runPrepareJob, runPrepareJobFindsOld, runPrepareJobLosesRace
    <2>4. cm' \in {[cm EXCEPT ![t] = Status("starting")],
                   [cm EXCEPT ![t] = [status |-> "completed", osd |-> l, store |-> store[t]]]}
      BY <1>2 DEF runPrepareJob, runPrepareJobFindsOld, runPrepareJobLosesRace
    <2>l. l \in {disk[t], NoOsd}
      BY ListsOrNot
    <2> HIDE DEF t, l
    <2>5. job' \in [Target -> [migrate : Osd \cup {NoOsd}, step : {"pending", "zapped", "ended"}]]
      <3>1. NewJob(t) \in [migrate : Osd \cup {NoOsd}, step : {"pending", "zapped", "ended"}]
        BY DEF OperatorTypes, NewJob
      <3> QED
        BY <2>2, <2>3, <3>1 DEF CephTypes
    <2>6. cm' \in [Target -> [status : {"none", "starting", "completed", "failed"},
                              osd : Osd \cup {NoOsd}, store : {"old", "new"}]]
      <3> DEFINE C == [status : {"none", "starting", "completed", "failed"},
                       osd : Osd \cup {NoOsd}, store : {"old", "new"}]
      <3>1. /\ Status("starting") \in C
            /\ [status |-> "completed", osd |-> l, store |-> store[t]] \in C
        BY <2>2, <2>l DEF CephTypes, Status
      <3>2. cm \in [Target -> C]
        BY DEF CephTypes
      <3> HIDE DEF C
      <3>3. \E c \in C : cm' = [cm EXCEPT ![t] = c]
        BY <2>4, <3>1
      <3>4. cm' \in [Target -> C]
        BY <2>2, <3>2, <3>3
      <3> QED
        BY <3>4 DEF C
    <2>7. CephTypes'
      BY <2>1, <2>5, <2>6 DEF CephTypes, Awaits
    <2>8. OperatorTypes'
      BY <2>1, <2>2 DEF OperatorTypes, Awaits, Phase
    <2> QED
      BY <2>7, <2>8
  <1>3. CASE runPrepareJobFails
    <2>1. Head(todo) \in Target /\ Tail(todo) \in Seq(Target) /\ events' \in 0..MaxEvents
      BY <1>3, NextTarget, FaultCounted DEF runPrepareJobFails, CephTypes
    <2>2. CephTypes'
      BY <1>3, <2>1 DEF CephTypes, runPrepareJobFails, Status
    <2>3. OperatorTypes'
      BY <1>3, <2>1 DEF OperatorTypes, runPrepareJobFails, Phase
    <2> QED
      BY <2>2, <2>3
  <1> QED
    BY <1>1, <1>2, <1>3

\* The steps of the loop keep the types.
LEMMA LoopTypes ==
  ASSUME CephTypes, OperatorTypes,
         \/ \E t \in Target : FailedStatus(t) \/ IgnoredStatus(t) \/ createNewOSDsFromStatus(t)
         \/ UpdateLater \/ updateExistingOSDs \/ WaitForDeploymentsToUpdate
         \/ EndLoop \/ Finish \/ Abort
  PROVE  CephTypes' /\ OperatorTypes'
  <1> USE DEF baseVars, jobVars, podVars, locals, given
  <1>1. ASSUME NEW t \in Target, FailedStatus(t) \/ IgnoredStatus(t)
        PROVE  CephTypes' /\ OperatorTypes'
    <2>1. cm' = [cm EXCEPT ![t] = Status("none")]
      BY <1>1 DEF FailedStatus, IgnoredStatus
    <2>2. UNCHANGED <<disk, store, osdmap, home, lost, job, podVars, events>>
      BY <1>1 DEF FailedStatus, IgnoredStatus
    <2>3. CephTypes'
      BY <2>1, <2>2 DEF CephTypes, Status
    <2>4. OperatorTypes'
      BY <1>1, Zenon DEF OperatorTypes, FailedStatus, IgnoredStatus
    <2> QED
      BY <2>3, <2>4
  <1>2. ASSUME NEW t \in Target, createNewOSDsFromStatus(t)
        PROVE  CephTypes' /\ OperatorTypes'
    <2>1. cm' = [cm EXCEPT ![t] = Status("none")] /\ (Fault \/ UNCHANGED events)
      BY <1>2, Zenon DEF createNewOSDsFromStatus
    <2>2. events' \in 0..MaxEvents
      BY <2>1, FaultCounted DEF CephTypes
    <2>3. \/ UNCHANGED <<dep, label>>
          \/ /\ cm[t].osd \in Osd
             /\ dep' = [dep EXCEPT ![cm[t].osd] = "new"]
             /\ label' = [label EXCEPT ![cm[t].osd] = cm[t].store]
      BY <1>2 DEF createNewOSDsFromStatus, CephTypes
    <2>4. dep' \in [Osd -> {"none", "old", "new"}] /\ label' \in [Osd -> {"old", "new"}]
      BY <2>3 DEF CephTypes
    <2>5. UNCHANGED <<disk, store, osdmap, home, lost, job, in, up, stopping>>
      BY <1>2, Zenon DEF createNewOSDsFromStatus
    <2>6. CephTypes'
      BY <2>1, <2>2, <2>4, <2>5 DEF CephTypes, Status
    <2>7. OperatorTypes'
      BY <1>2, Zenon DEF OperatorTypes, createNewOSDsFromStatus
    <2> QED
      BY <2>6, <2>7
  <1>3. CASE UpdateLater
    <2>1. CephTypes'
      BY <1>3 DEF CephTypes, UpdateLater
    <2>2. queue' \in Seq(exist) /\ IsInjective(queue')
      BY <1>3, Rotated DEF OperatorTypes, UpdateLater, Nothing
    <2>3. OperatorTypes'
      BY <1>3, <2>2 DEF OperatorTypes, UpdateLater
    <2> QED
      BY <2>1, <2>3
  <1>4. CASE updateExistingOSDs
    <2>1. PICK S \in Stoppable(Head(queue)) :
            /\ batch' \subseteq ToUpdate(S)
            /\ dep' = [o \in Osd |-> IF o \in batch' THEN "new" ELSE dep[o]]
            /\ stopping' = stopping \cup (batch' \cap up)
            /\ queue' = Only(queue, Osd \ S)
            /\ Fault \/ UNCHANGED events
      BY <1>4, UpdateEffect, Zenon
    <2>2. events' \in 0..MaxEvents /\ batch' \subseteq Osd
      BY <2>1, FaultCounted, Zenon DEF CephTypes, ToUpdate, OperatorTypes
    <2>3. queue' \in Seq(exist) /\ IsInjective(queue')
      BY <2>1, OnlyKeeps DEF OperatorTypes
    <2>4. CephTypes'
      BY <1>4, <2>1, <2>2, Zenon DEF CephTypes, updateExistingOSDs
    <2>5. pc' = "wait" /\ UNCHANGED <<given, valid, record, migrate, pend, exist, nodes, todo, await, finished>>
      BY <1>4, Zenon DEF updateExistingOSDs
    <2>6. OperatorTypes'
      BY <2>2, <2>3, <2>5 DEF OperatorTypes
    <2> QED
      BY <2>4, <2>6
  <1>5. CASE WaitForDeploymentsToUpdate
    BY <1>5, Zenon DEF CephTypes, OperatorTypes, WaitForDeploymentsToUpdate
  <1>6. CASE EndLoop \/ Finish \/ Abort
    <2>1. CephTypes'
      <3>1. CASE EndLoop
        BY <3>1 DEF EndLoop, CephTypes
      <3>2. CASE Finish
        BY <3>2 DEF Finish, CephTypes, Status
      <3>3. CASE Abort
        <4>1. events' \in 0..MaxEvents
          BY <3>3, FaultCounted DEF Abort, CephTypes
        <4> QED
          BY <3>3, <4>1 DEF Abort, CephTypes
      <3> QED
        BY <1>6, <3>1, <3>2, <3>3
    <2>2. UNCHANGED <<given, valid, record>> /\ (Return \/ (pc' = "finish" /\ UNCHANGED locals))
      BY <1>6, Zenon DEF EndLoop, Finish, Abort
    <2>3. OperatorTypes'
      <3>1. CASE Return
        BY <2>2, <3>1, ReturnTypes
      <3>2. CASE pc' = "finish" /\ UNCHANGED locals
        BY <2>2, <3>2 DEF OperatorTypes
      <3> QED
        BY <2>2, <3>1, <3>2
    <2> QED
      BY <2>1, <2>3
  <1> QED
    BY <1>1, <1>2, <1>3, <1>4, <1>5, <1>6

\* Every step keeps the types.
LEMMA NextTypes ==
  ASSUME CephTypes, OperatorTypes, [Next]_vars
  PROVE  CephTypes' /\ OperatorTypes'
  <1> USE DEF baseVars, jobVars, podVars, locals, given
  <1>1. CASE Operator
    BY <1>1, MigrationTypes, StartJobTypes, LoopTypes DEF Operator
  <1>2. CASE \E t \in Target : Jobs(t) \/ JobFaults(t)
    <2>1. CephTypes'
      BY <1>2, JobTypes DEF Jobs, JobFaults
    <2>2. UNCHANGED unchangedByOthers
      BY <1>2 DEF Jobs, JobFaults
    <2>3. OperatorTypes'
      BY <2>2 DEF OperatorTypes, unchangedByOthers
    <2> QED
      BY <2>1, <2>3
  <1>3. CASE Ceph
    <2>1. CephTypes'
      BY <1>3, PodTypes DEF Ceph
    <2>2. OperatorTypes'
      BY <1>3 DEF Ceph, OperatorTypes, unchangedByOthers
    <2> QED
      BY <2>1, <2>2
  <1>4. CASE OperatorRestarts
    <2>1. events' \in 0..MaxEvents
      BY <1>4, FaultCounted DEF OperatorRestarts, CephTypes
    <2>2. CephTypes'
      BY <1>4, <2>1 DEF OperatorRestarts, CephTypes
    <2>3. OperatorTypes'
      BY <1>4, ReturnTypes DEF OperatorRestarts
    <2> QED
      BY <2>2, <2>3
  <1>5. ASSUME NEW n \in Node, Cordon(n) \/ Uncordon(n)
        PROVE  CephTypes' /\ OperatorTypes'
    <2>1. events' \in 0..MaxEvents /\ valid' \subseteq Node
      BY <1>5, FaultCounted DEF Cordon, Uncordon, CephTypes, OperatorTypes
    <2>2. UNCHANGED <<jobVars, podVars, given, record, pc, locals>>
      BY <1>5 DEF Cordon, Uncordon
    <2> QED
      BY <2>1, <2>2 DEF CephTypes, OperatorTypes
  <1>6. CASE WatchEvent \/ UNCHANGED vars
    BY <1>6, Zenon DEF CephTypes, OperatorTypes, WatchEvent, vars
  <1> QED
    BY <1>1, <1>2, <1>3, <1>4, <1>5, <1>6, Zenon DEF Next

\* The flags stay Boolean.
LEMMA NextFlags ==
  ASSUME Flags, [Next]_vars
  PROVE  Flags'
  <1>1. UNCHANGED requested
    BY Zenon DEF Next, vars, given, Operator, Jobs, JobFaults, Ceph, OperatorRestarts, Cordon, Uncordon, WatchEvent,
      unchangedByOthers,
      NoMigration, UnhealthyPGs, DeferMigration, NothingToMigrate, MigrateNext, saveMigrationConfig,
      getOSDUpdateInfo, runPrepareJob, runPrepareJobFindsOld, runPrepareJobLosesRace, runPrepareJobFails,
      Awaits, FailedStatus, IgnoredStatus, createNewOSDsFromStatus, UpdateLater, updateExistingOSDs,
      WaitForDeploymentsToUpdate, EndLoop, Finish, Abort
  <1>2. errs' = errs \/ errs' = TRUE \/ errs' = FALSE
    <2>1. CASE Operator
      BY <2>1, Zenon DEF Operator, locals,
        NoMigration, UnhealthyPGs, DeferMigration, NothingToMigrate, MigrateNext, saveMigrationConfig,
        getOSDUpdateInfo, runPrepareJob, runPrepareJobFindsOld, runPrepareJobLosesRace, runPrepareJobFails,
        Awaits, FailedStatus, IgnoredStatus, createNewOSDsFromStatus, UpdateLater, updateExistingOSDs,
        WaitForDeploymentsToUpdate, EndLoop, Finish, Abort, Return, Forget
    <2>2. CASE \/ \E t \in Target : Jobs(t) \/ JobFaults(t)
               \/ Ceph \/ OperatorRestarts
               \/ \E n \in Node : Cordon(n) \/ Uncordon(n)
               \/ WatchEvent \/ UNCHANGED vars
      BY <2>2, Zenon DEF Jobs, JobFaults, Ceph, OperatorRestarts, Cordon, Uncordon, WatchEvent,
        unchangedByOthers, locals, vars, Return, Forget
    <2> QED
      BY <2>1, <2>2, Zenon DEF Next
  <1>3. wake' = wake \/ wake' = TRUE \/ wake' = FALSE
    <2>1. CASE Operator
      BY <2>1, Zenon DEF Operator, Requeue, Dequeue,
        NoMigration, UnhealthyPGs, DeferMigration, NothingToMigrate, MigrateNext, saveMigrationConfig,
        getOSDUpdateInfo, runPrepareJob, runPrepareJobFindsOld, runPrepareJobLosesRace, runPrepareJobFails,
        Awaits, FailedStatus, IgnoredStatus, createNewOSDsFromStatus, UpdateLater, updateExistingOSDs,
        WaitForDeploymentsToUpdate, EndLoop, Finish, Abort
    <2>2. CASE \/ \E t \in Target : Jobs(t) \/ JobFaults(t)
               \/ Ceph \/ OperatorRestarts
               \/ \E n \in Node : Cordon(n) \/ Uncordon(n)
               \/ WatchEvent \/ UNCHANGED vars
      BY <2>2, Zenon DEF Jobs, JobFaults, Ceph, OperatorRestarts, Cordon, Uncordon, WatchEvent,
        unchangedByOthers, vars, Requeue
    <2> QED
      BY <2>1, <2>2, Zenon DEF Next
  <1> QED
    BY <1>1, <1>2, <1>3, Zenon DEF Flags

Typed == CephTypes /\ OperatorTypes /\ Flags

\* The types hold in every reachable state.
LEMMA AlwaysTyped == Spec => []Typed
  <1>1. Typed /\ [Next]_vars => Typed'
    BY NextTypes, NextFlags DEF Typed
  <1> QED
    BY <1>1, InitTypes, PTL DEF Spec, Typed

\* Every variable stays in its type, and the update queue never holds an OSD
\* twice nor one that getOSDUpdateInfo found no Deployment for: a deferred OSD
\* is popped before it is pushed back, and what may be stopped is taken out.
THEOREM TypeTheorem == Spec => []TypeOK
  <1>1. OperatorTypes => queue \in Seq(exist) /\ todo \in Seq(Target)
    BY Zenon DEF OperatorTypes
  <1>2. OperatorTypes => Range(queue) \subseteq exist /\ Range(todo) \subseteq Target
    BY <1>1, RangeIn, Zenon
  <1>3. Typed => TypeOK
    BY <1>2, Zenon DEF Typed, CephTypes, OperatorTypes, Flags, TypeOK
  <1> QED
    BY <1>3, AlwaysTyped, PTL

-----------------------------------------------------------------------------
(* Ids and homes *)

\* An id that Ceph has not given yet appears nowhere.
Unused(o) ==
    /\ o \notin in \cup lost \cup stopping /\ dep[o] = "none" /\ migrate # o
    /\ \A t \in Target : job[t].migrate # o /\ disk[t] # o /\ cm[t].osd # o
AbsentUnused == \A o \in Osd : osdmap[o] = "absent" => Unused(o)

\* A job migrates only an OSD of its own target.
JobsAtHome == \A t \in Target : job[t].migrate # NoOsd => home[job[t].migrate] = t

HomeInv == AbsentUnused /\ JobsAtHome

\* A disk is prepared for an id of its own target, or for one not given before.
LEMMA PrepareKeepsHomes ==
  ASSUME CephTypes, HomeInv, NEW t \in Target, PrepareDisk(t)
  PROVE  /\ \A o \in Osd : osdmap[o] # "absent" => home'[o] = home[o] /\ osdmap'[o] # "absent"
         /\ disk'[t] \in Osd /\ osdmap'[disk'[t]] # "absent"
         /\ \A u \in Target : u # t => disk'[u] = disk[u]
         /\ disk'[t] = IF disk[t] = NoOsd THEN IdFor(t) ELSE disk[t]
         /\ \A o \in Osd : osdmap'[o] = "absent" => osdmap[o] = "absent"
  <1>1. CASE disk[t] # NoOsd
    <2>1. disk[t] \in Osd
      BY <1>1 DEF CephTypes
    <2>2. osdmap[disk[t]] # "absent"
      BY <2>1, Zenon DEF HomeInv, AbsentUnused, Unused
    <2> QED
      BY <1>1, <2>1, <2>2 DEF PrepareDisk
  <1>2. CASE disk[t] = NoOsd
    <2> DEFINE i == IdFor(t)
    <2>1. /\ i \in Osd
          /\ \/ i = job[t].migrate
             \/ home[i] = t /\ osdmap[i] = "destroyed"
             \/ osdmap[i] = "absent"
      BY <1>2, IdGiven DEF PrepareDisk
    <2>2. home[i] = t \/ osdmap[i] = "absent"
      BY <2>1 DEF HomeInv, JobsAtHome
    <2>3. /\ disk' = [disk EXCEPT ![t] = i] /\ osdmap' = [osdmap EXCEPT ![i] = "exists"]
          /\ home' = [home EXCEPT ![i] = t]
      BY <1>2 DEF PrepareDisk
    <2> HIDE DEF i
    <2>4. disk \in [Target -> Osd \cup {NoOsd}] /\ home \in [Osd -> Target]
          /\ osdmap \in [Osd -> {"absent", "exists", "destroyed"}]
      BY DEF CephTypes
    <2>5. disk'[t] = i /\ \A u \in Target : u # t => disk'[u] = disk[u]
      BY <2>3, <2>4
    <2>6. osdmap'[i] # "absent" /\ \A o \in Osd : o # i => osdmap'[o] = osdmap[o] /\ home'[o] = home[o]
      BY <2>1, <2>3, <2>4
    <2>7. home'[i] = t
      BY <2>1, <2>3, <2>4
    <2> QED
      BY <1>2, <2>1, <2>2, <2>5, <2>6, <2>7 DEF i
  <1> QED
    BY <1>1, <1>2, Zenon

\* What a step of a job does to the disks, the map, the jobs and the reports.
JobChanges(t) ==
    /\ \A o \in Osd : osdmap[o] # "absent" => home'[o] = home[o] /\ osdmap'[o] # "absent"
    /\ \A u \in Target \ {t} : disk'[u] = disk[u] /\ job'[u] = job[u] /\ cm'[u] = cm[u]
    /\ disk'[t] \in Osd => disk'[t] = disk[t] \/ osdmap'[disk'[t]] # "absent"
    /\ job'[t].migrate \in {job[t].migrate, NoOsd}
    /\ cm'[t].osd \in {cm[t].osd, NoOsd} \/ (cm'[t].osd = disk'[t] /\ disk'[t] \in Osd)
    /\ lost' \subseteq lost \cup (in \ up)
    /\ UNCHANGED <<in, up, stopping, dep, label>>

\* Every step of a job does no more than that.
LEMMA JobEffect ==
  ASSUME CephTypes, HomeInv, NEW t \in Target, JobStep(t) \/ JobFault(t)
  PROVE  JobChanges(t)
  <1> USE DEF podVars, JobChanges
  <1>1. UNCHANGED <<in, up, stopping, dep, label>>
    BY DEF JobStep, DestroyOSD, DestroyFails, Provision, JobFault, ProvisionFails,
           RestartBeforeZap, RestartAfterZap, RestartBeforeReport
  <1>2. CASE DestroyOSD(t) \/ RestartBeforeZap(t)
    BY <1>1, <1>2 DEF DestroyOSD, RestartBeforeZap, CanDestroy, Destroy, CephTypes
  <1>3. CASE DestroyFails(t) \/ RestartAfterZap(t)
    BY <1>1, <1>3 DEF DestroyFails, RestartAfterZap, CephTypes
  <1>4. CASE ProvisionFails(t)
    BY <1>1, <1>4 DEF ProvisionFails, CephTypes, Status
  <1>5. CASE Provision(t)
    <2>1. PrepareDisk(t) /\ UNCHANGED lost
      BY <1>5, Zenon DEF Provision
    <2>2. cm'[t].osd = ListedOSD(t, disk'[t]) /\ job'[t].migrate = NoOsd
      BY <1>5 DEF Provision, CephTypes, Ended
    <2>l. cm'[t].osd \in {disk'[t], NoOsd}
      BY <2>2, ListsOrNot, Zenon
    <2>3. \A u \in Target \ {t} : job'[u] = job[u] /\ cm'[u] = cm[u]
      BY <1>5, Zenon DEF Provision, CephTypes
    <2> QED
      BY <1>1, <2>1, <2>2, <2>l, <2>3, PrepareKeepsHomes, Zenon
  <1>6. CASE RestartBeforeReport(t)
    <2>1. PrepareDisk(t) /\ UNCHANGED <<lost, cm>>
      BY <1>6 DEF RestartBeforeReport
    <2>2. job'[t].migrate = job[t].migrate /\ \A u \in Target \ {t} : job'[u] = job[u]
      BY <1>6 DEF RestartBeforeReport, CephTypes
    <2> QED
      BY <1>1, <2>1, <2>2, PrepareKeepsHomes, Zenon
  <1> QED
    BY <1>2, <1>3, <1>4, <1>5, <1>6, Zenon DEF JobStep, JobFault

\* Jobs keep the ids and homes.
LEMMA JobHomes ==
  ASSUME CephTypes, CephTypes', HomeInv, NEW t \in Target, Jobs(t) \/ JobFaults(t)
  PROVE  HomeInv'
  <1>1. JobChanges(t)
    BY JobEffect DEF Jobs, JobFaults
  <1>2. UNCHANGED migrate
    BY DEF Jobs, JobFaults, unchangedByOthers, locals
  <1>3. ASSUME NEW o \in Osd, osdmap'[o] = "absent"
        PROVE  Unused(o)'
    <2>1. osdmap[o] = "absent"
      BY <1>1, <1>3, Zenon DEF JobChanges
    <2>2. Unused(o)
      BY <2>1 DEF HomeInv, AbsentUnused
    <2>3. o \notin in' \cup lost' \cup stopping' /\ dep'[o] = "none" /\ migrate' # o
      BY <1>1, <1>2, <2>2, Zenon DEF JobChanges, Unused
    <2>4. \A u \in Target : disk'[u] # o
      BY <1>1, <1>3, <2>2, Zenon DEF JobChanges, Unused
    <2>5. \A u \in Target : job'[u].migrate # o
      <3>1. \A u \in Target : job[u].migrate # o /\ NoOsd # o
        BY <2>2 DEF Unused
      <3>2. /\ job'[t].migrate \in {job[t].migrate, NoOsd}
            /\ \A u \in Target \ {t} : job'[u] = job[u]
        BY <1>1, Zenon DEF JobChanges
      <3> QED
        BY <3>1, <3>2, Zenon
    <2>6. \A u \in Target : cm'[u].osd # o
      <3>1. \A u \in Target : cm[u].osd # o /\ NoOsd # o
        BY <2>2 DEF Unused
      <3>2. /\ cm'[t].osd \in {cm[t].osd, NoOsd} \/ cm'[t].osd = disk'[t]
            /\ \A u \in Target \ {t} : cm'[u] = cm[u]
        BY <1>1, Zenon DEF JobChanges
      <3> QED
        BY <2>4, <3>1, <3>2, Zenon
    <2> QED
      BY <2>3, <2>4, <2>5, <2>6 DEF Unused
  <1>4. ASSUME NEW u \in Target, job'[u].migrate # NoOsd
        PROVE  home'[job'[u].migrate] = u
    <2>1. job'[u].migrate = job[u].migrate /\ job[u].migrate \in Osd
      BY <1>1, <1>4 DEF JobChanges, CephTypes
    <2>2. home[job[u].migrate] = u /\ osdmap[job[u].migrate] # "absent"
      BY <1>4, <2>1, Zenon DEF HomeInv, JobsAtHome, AbsentUnused, Unused
    <2>3. \A o \in Osd : osdmap[o] # "absent" => home'[o] = home[o]
      BY <1>1 DEF JobChanges
    <2> QED
      BY <2>1, <2>2, <2>3, Zenon
  <1> QED
    BY <1>3, <1>4, Zenon DEF HomeInv, AbsentUnused, JobsAtHome

\* The other steps write no map and no disk, and only what they know of.
LEMMA OtherHomes ==
  ASSUME CephTypes, HomeInv, UNCHANGED <<disk, osdmap, home>>,
         (in' \cup lost' \cup stopping') \ (in \cup lost \cup stopping)
            \subseteq {o \in Osd : osdmap[o] # "absent"},
         \A o \in Osd : osdmap[o] = "absent" => dep'[o] = "none",
         migrate' # migrate => migrate' = NoOsd \/ (migrate' \in Osd /\ dep[migrate'] # "none"),
         \A t \in Target : \/ job'[t].migrate \in {job[t].migrate, NoOsd}
                           \/ job'[t].migrate = migrate /\ home[migrate] = t,
         \A t \in Target : cm'[t].osd \in {cm[t].osd, disk[t], NoOsd}
  PROVE  HomeInv'
  <1>1. ASSUME NEW o \in Osd, osdmap[o] = "absent"
        PROVE  Unused(o)'
    <2>1. Unused(o)
      BY <1>1, Zenon DEF HomeInv, AbsentUnused
    <2>2. o \notin in' \cup lost' \cup stopping' /\ dep'[o] = "none"
      BY <1>1, <2>1, Zenon DEF Unused
    <2>3. migrate' # o
      <3>1. o # NoOsd /\ migrate # o /\ dep[o] = "none"
        BY <2>1 DEF Unused
      <3> QED
        BY <3>1
    <2>4. \A t \in Target : job'[t].migrate # o /\ cm'[t].osd # o
      BY <2>1 DEF Unused
    <2> QED
      BY <2>1, <2>2, <2>3, <2>4 DEF Unused
  <1>2. ASSUME NEW t \in Target, job'[t].migrate # NoOsd
        PROVE  home[job'[t].migrate] = t
    BY <1>2, Zenon DEF HomeInv, JobsAtHome
  <1> QED
    BY <1>1, <1>2, Zenon DEF HomeInv, AbsentUnused, JobsAtHome

\* Every step keeps the ids and homes.
LEMMA NextHomes ==
  ASSUME Typed, Typed', HomeInv, [Next]_vars
  PROVE  HomeInv'
  <1> USE DEF baseVars, jobVars, podVars, locals
  <1> CephTypes /\ OperatorTypes /\ CephTypes'
    BY DEF Typed
  <1>a. \A o \in Osd : osdmap[o] = "absent" => dep[o] = "none"
    BY DEF HomeInv, AbsentUnused, Unused
  <1>b. \A t \in Target : job[t].migrate \in {job[t].migrate, NoOsd} /\ cm[t].osd \in {cm[t].osd, disk[t], NoOsd}
    OBVIOUS
  <1>1. CASE /\ UNCHANGED <<disk, osdmap, home, in, lost, stopping, dep, job, cm>>
             /\ migrate' \in {migrate, NoOsd}
    BY <1>1, <1>a, <1>b, OtherHomes
  <1>2. ASSUME NEW o \in Osd, MigrateNext(o)
        PROVE  HomeInv'
    <2>1. /\ UNCHANGED <<disk, osdmap, home, in, lost, job, cm>> /\ stopping' \subseteq stopping
          /\ migrate' = o /\ dep[o] # "none"
      BY <1>2 DEF MigrateNext, NeedMigration
    <2>2. \A p \in Osd : osdmap[p] = "absent" => dep'[p] = "none"
      BY <1>2, <1>a DEF MigrateNext, CephTypes
    <2> QED
      BY <1>b, <2>1, <2>2, OtherHomes
  <1>3. CASE runPrepareJob \/ runPrepareJobFindsOld \/ runPrepareJobLosesRace \/ runPrepareJobFails
    <2> DEFINE t == Head(todo)
               l == ListedOSD(t, disk[t])
    <2>1. t \in Target
      BY <1>3, NextTarget DEF runPrepareJob, runPrepareJobFindsOld, runPrepareJobLosesRace, runPrepareJobFails
    <2>2. /\ job' \in {job, [job EXCEPT ![t] = NewJob(t)]}
          /\ \/ cm' \in {[cm EXCEPT ![t] = Status("starting")], [cm EXCEPT ![t] = Status("none")]}
             \/ cm' = [cm EXCEPT ![t] = [status |-> "completed", osd |-> l, store |-> store[t]]]
      BY <1>3 DEF runPrepareJob, runPrepareJobFindsOld, runPrepareJobLosesRace, runPrepareJobFails
    <2>l. l \in {disk[t], NoOsd}
      BY ListsOrNot
    <2>3. UNCHANGED <<disk, osdmap, home, in, lost, stopping, dep, migrate>>
      BY <1>3, Zenon DEF runPrepareJob, runPrepareJobFindsOld, runPrepareJobLosesRace, runPrepareJobFails, Awaits
    <2> HIDE DEF t, l
    <2>4. \A u \in Target : \/ job'[u].migrate \in {job[u].migrate, NoOsd}
                            \/ job'[u].migrate = migrate /\ home[migrate] = u
      <3>1. DOMAIN job = Target
        BY Zenon DEF CephTypes
      <3>2. \A u \in Target : job'[u] \in {job[u], NewJob(u)}
        BY <2>1, <2>2, <3>1, Zenon
      <3>3. \A u \in Target : \/ NewJob(u).migrate = NoOsd
                              \/ NewJob(u).migrate = migrate /\ home[migrate] = u
        BY DEF NewJob
      <3> QED
        BY <3>2, <3>3, Zenon
    <2>5. \A u \in Target : cm'[u].osd \in {cm[u].osd, disk[u], NoOsd}
      BY <2>1, <2>2, <2>l DEF CephTypes, Status
    <2> QED
      BY <1>a, <2>3, <2>4, <2>5, OtherHomes, Zenon
  <1>4. ASSUME NEW t \in Target, FailedStatus(t) \/ IgnoredStatus(t) \/ createNewOSDsFromStatus(t)
        PROVE  HomeInv'
    <2>1. UNCHANGED <<disk, osdmap, home, in, lost, stopping, job, migrate>>
      BY <1>4, Zenon DEF FailedStatus, IgnoredStatus, createNewOSDsFromStatus
    <2>2. cm' = [cm EXCEPT ![t] = Status("none")]
      BY <1>4, Zenon DEF FailedStatus, IgnoredStatus, createNewOSDsFromStatus
    <2>3. \A u \in Target : cm'[u].osd \in {cm[u].osd, disk[u], NoOsd}
      BY <2>2, Zenon DEF CephTypes, Status
    <2>4. dep' = dep \/ dep' = [dep EXCEPT ![cm[t].osd] = "new"]
      BY <1>4, Zenon DEF FailedStatus, IgnoredStatus, createNewOSDsFromStatus
    <2>5. \A p \in Osd : osdmap[p] = "absent" => dep'[p] = "none"
      BY <1>a, <2>4 DEF CephTypes, HomeInv, AbsentUnused, Unused
    <2> QED
      BY <1>b, <2>1, <2>3, <2>5, OtherHomes, Zenon
  <1>5. CASE updateExistingOSDs
    <2>1. PICK S \in Stoppable(Head(queue)) :
            /\ batch' \subseteq {o \in ToUpdate(S) : dep[o] = "old"}
            /\ dep' = [o \in Osd |-> IF o \in batch' THEN "new" ELSE dep[o]]
            /\ stopping' = stopping \cup (batch' \cap up)
      BY <1>5, UpdateEffect, Zenon
    <2>2. UNCHANGED <<disk, osdmap, home, in, lost, job, cm, migrate>>
      BY <1>5, Zenon DEF updateExistingOSDs
    <2>3. \A o \in batch' : o \in Osd /\ osdmap[o] # "absent"
      BY <1>a, <2>1, Zenon DEF ToUpdate, OperatorTypes
    <2>4. \A p \in Osd : osdmap[p] = "absent" => dep'[p] = "none"
      BY <1>a, <2>1, <2>3
    <2> QED
      BY <1>b, <2>1, <2>2, <2>3, <2>4, OtherHomes, Zenon
  <1>6. CASE Finish
    <2>1. UNCHANGED <<disk, osdmap, home, in, lost, stopping, dep, job>> /\ migrate' = NoOsd
      BY <1>6 DEF Finish, Return, Forget
    <2>2. \A t \in Target : cm'[t].osd \in {cm[t].osd, disk[t], NoOsd}
      BY <1>6, Zenon DEF Finish, Status
    <2> QED
      BY <1>a, <1>b, <2>1, <2>2, OtherHomes, Zenon
  <1>7. CASE \E t \in Target : Jobs(t) \/ JobFaults(t)
    BY <1>7, JobHomes
  <1>8. ASSUME Ceph PROVE HomeInv'
    <2>1. PICK o \in Osd : CephStep(o)
      BY <1>8 DEF Ceph
    <2>2. UNCHANGED <<disk, osdmap, home, dep, job, cm, migrate>>
      BY <1>8, <2>1, Zenon DEF Ceph, unchangedByOthers, CephStep, PodStops, Boot, Backfill, MarkOut
    <2>3. (in' \cup lost' \cup stopping') \ (in \cup lost \cup stopping)
             \subseteq {p \in Osd : osdmap[p] # "absent"}
      BY <2>1, Zenon DEF CephStep, PodStops, Boot, Bootable, Backfill, MarkOut
    <2> QED
      BY <1>a, <1>b, <2>2, <2>3, OtherHomes
  <1>9. CASE OperatorRestarts \/ (\E n \in Node : Cordon(n) \/ Uncordon(n)) \/ WatchEvent \/ UNCHANGED vars
    BY <1>9, <1>1, Zenon DEF OperatorRestarts, Cordon, Uncordon, WatchEvent, vars, Return, Forget
  <1>10. CASE \/ NoMigration \/ UnhealthyPGs \/ DeferMigration \/ NothingToMigrate
              \/ saveMigrationConfig \/ getOSDUpdateInfo
              \/ UpdateLater \/ WaitForDeploymentsToUpdate \/ EndLoop \/ Abort
    BY <1>10, <1>1, Zenon DEF NoMigration, UnhealthyPGs, DeferMigration, NothingToMigrate,
       saveMigrationConfig, getOSDUpdateInfo, UpdateLater, WaitForDeploymentsToUpdate, EndLoop, Abort,
       Return, Forget
  <1> QED
    BY <1>2, <1>3, <1>4, <1>5, <1>6, <1>7, <1>8, <1>9, <1>10 DEF Next, Operator

\* No id is used before Ceph has given it, and every job is at the home of the
\* OSD it migrates.
LEMMA AlwaysHome == Spec => [](Typed /\ HomeInv)
  <1>1. Init => HomeInv
    <2> SUFFICES ASSUME Init PROVE HomeInv
      OBVIOUS
    <2>1. \A o \in Osd : osdmap[o] = "absent" => Unused(o)
      BY DEF Init, Unused, Status
    <2>2. JobsAtHome
      BY DEF Init, JobsAtHome
    <2> QED
      BY <2>1, <2>2 DEF HomeInv, AbsentUnused
  <1>2. Typed /\ Typed' /\ HomeInv /\ [Next]_vars => HomeInv'
    BY NextHomes
  <1> QED
    BY <1>1, <1>2, AlwaysTyped, PTL DEF Spec

=============================================================================
