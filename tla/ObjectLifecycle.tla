--------------------------- MODULE ObjectLifecycle ---------------------------
(***************************************************************************)
(* The controllers of object storage: CephObjectRealm,                     *)
(* CephObjectZoneGroup, CephObjectZone, CephObjectStore,                   *)
(* CephObjectStoreUser, CephObjectStoreAccount and CephBucketTopic.  The   *)
(* provider of a store in a multisite configuration is its zone, of a zone *)
(* its zone group, of a zone group its realm; a store without a provider   *)
(* has a realm and pools of its own.  Users, accounts and topics lie in a  *)
(* store.  Modelled are master zones without peers.                        *)
(***************************************************************************)
EXTENDS Resources

Same == <<cluster, protected, healthy, cleanup, cr, lag, clusterTask, data,
          checkers>>

-----------------------------------------------------------------------------
(* Creation.                                                                *)

IsMultisite(o) == Provider[o] # NoObject

\* NewMultisiteContext finds the zone, zone group and realm CRs.
MultisiteContext(o) ==
  LET zone == Provider[o]
      zonegroup == Provider[zone]
      realm == Provider[zonegroup]
  IN  IsMultisite(o) => Alive(zone) /\ Alive(zonegroup) /\ Alive(realm)

\* A zone group needs its realm, a zone its zone group: the CR, and what it
\* stands for in Ceph.
InProvider(o) == Alive(Provider[o]) /\ Backing[Provider[o]] \in ceph

CreateRealmStart(o) == StartCreate(o, "realm") /\ BeginCreate(o)
CreateRealm(o) == Kind[o] = "realm" /\ CreateInCeph(o)
CreateZoneGroupStart(o) ==
  StartCreate(o, "zonegroup") /\ InProvider(o) /\ BeginCreate(o)
CreateZoneGroup(o) == Kind[o] = "zonegroup" /\ CreateInCeph(o)
CreateZoneStart(o) ==
  StartCreate(o, "zone") /\ InProvider(o) /\ BeginCreate(o)
CreateZone(o) == Kind[o] = "zone" /\ CreateInCeph(o)

\* A store needs the CRs of its zone, zone group and realm, and the zone
\* Ready; a user needs its store Ready.
CreateStoreStart(o) ==
  /\ StartCreate(o, "store")
  /\ MultisiteContext(o)
  /\ IsMultisite(o) => Provider[o] \in ready
  /\ BeginCreate(o)
CreateStore(o) == Kind[o] = "store" /\ CreateInCeph(o)
StoreReady(o) == Alive(Provider[o]) /\ Provider[o] \in ready
CreateUserStart(o) ==
  StartCreate(o, "user") /\ StoreReady(o) /\ BeginCreate(o)
CreateUser(o) == Kind[o] = "user" /\ CreateInCeph(o)

-----------------------------------------------------------------------------
(* Stores.                                                                  *)

\* Dependents, buckets and user CRs, are looked for only when the multisite
\* CRs are there and the pools exist.
StoreDependents(o) ==
  /\ MultisiteContext(o)
  /\ Pools[o] \in ceph
  /\ \/ \E u \in DependentsOf(o) : Kind[u] = "user"
     \/ Pools[o] \in data

\* Nor are they when the pools cannot be listed or the admin ops API cannot
\* be reached.  In a zone the search needs the zone in Ceph.
DeleteStoreStart(o) ==
  /\ StartDelete(o, "store")
  /\ events' \in IF StoreDependents(o) THEN Overlooked({"pool ls", "admin ops"})
                                       ELSE {events}
  /\ IsMultisite(o) /\ MultisiteContext(o) /\ Pools[o] \in ceph =>
       Backing[Provider[o]] \in ceph
  /\ Goto(o, "destroy")
  /\ UNCHANGED <<Same, ready, ceph, notes>>

\* Best effort: a store of its own loses its realm and pools, one in a zone
\* its endpoint, if the multisite CRs are there; failures are only logged.
DeleteStore(o) ==
  /\ task[o] = "destroy"
  /\ Kind[o] = "store"
  /\ Goto(o, "release")
  /\ \/ /\ ceph' = IF MultisiteContext(o)
                     THEN ceph \ ({Backing[o]} \union Inside(o)) ELSE ceph
        /\ events' = events
     \/ "pool delete" \in Failing /\ Event /\ ceph' = ceph
  /\ foreign' = foreign \intersect ceph'
  /\ UNCHANGED <<Same, ready, noted>>

-----------------------------------------------------------------------------
(* Users.                                                                   *)

\* Without a reachable store there is nothing to delete the user in.
DeleteUserStart(o) ==
  /\ StartDelete(o, "user")
  /\ Goto(o, IF StoreReady(o) THEN "destroy" ELSE "release")
  /\ UNCHANGED <<Same, ready, ceph, notes, events>>

DeleteUser(o) ==
  /\ task[o] = "destroy"
  /\ Kind[o] = "user"
  /\ Goto(o, "release")
  /\ ceph' = ceph \ {Backing[o]}
  /\ UNCHANGED <<Same, ready, notes, events>>

-----------------------------------------------------------------------------
(* Accounts.                                                                *)

CreateAccountStart_Adopts(o) ==
  /\ StartCreate(o, "account")
  /\ StoreReady(o)
  /\ Goto(o, IF Backing[o] \in ceph THEN "modify" ELSE "note")
  /\ UNCHANGED <<Same, ready, ceph, notes, events>>

\* GetAccount: an account that exists is the CR's own if the status holds its
\* ID, and is left alone if not.
CreateAccountStart(o) ==
  /\ StartCreate(o, "account")
  /\ StoreReady(o)
  /\ IF Backing[o] \in ceph THEN o \in noted /\ Goto(o, "modify")
                            ELSE Goto(o, "note")
  /\ UNCHANGED <<Same, ready, ceph, notes, events>>

ModifyAccount(o) ==
  /\ Kind[o] = "account"
  /\ task[o] = "modify"
  /\ Goto(o, "idle")
  /\ ready' = IF Backing[o] \in ceph THEN ready \union {o} ELSE ready \ {o}
  /\ UNCHANGED <<Same, ceph, notes, events>>

\* The ID goes to the status before the account is created.  CreateAccount
\* fails when the account exists by then.
PersistAccountID(o) ==
  /\ Kind[o] = "account"
  /\ task[o] = "note"
  /\ Goto(o, "create")
  /\ noted' = noted \union {o}
  /\ UNCHANGED <<Same, ready, ceph, foreign, events>>
CreateAccount(o) == Kind[o] = "account" /\ CreateInCeph(o)

\* Without the store CR there is nothing to delete the account in; without
\* the ID in the status it is not the CR's.
DeleteAccountStart(o) ==
  /\ StartDelete(o, "account")
  /\ Alive(Provider[o]) => Provider[o] \in ready
  /\ Goto(o, IF Alive(Provider[o]) /\ o \in noted THEN "destroy" ELSE "release")
  /\ UNCHANGED <<Same, ready, ceph, notes, events>>

DeleteAccount(o) ==
  /\ task[o] = "destroy"
  /\ Kind[o] = "account"
  /\ Goto(o, "release")
  /\ ceph' = ceph \ {Backing[o]}
  /\ foreign' = foreign \ {Backing[o]}
  /\ UNCHANGED <<Same, ready, noted, events>>

\* The controller has found no account of the ID, in this reconcile or in one
\* that wrote the ID to the status.
FoundNone(o) == task[o] = "note" \/ o \in noted

\* Someone else creates the account: before the controller looks for it, or
\* later.
OtherAccount(o) ==
  /\ Event
  /\ Kind[o] = "account"
  /\ Backing[Provider[o]] \in ceph
  /\ Backing[o] \notin ceph
  /\ ceph' = ceph \union {Backing[o]}
  /\ foreign' = IF FoundNone(o) THEN foreign ELSE foreign \union {Backing[o]}
  /\ UNCHANGED <<Same, ready, noted, task>>

-----------------------------------------------------------------------------
(* Topics.                                                                  *)

\* The first status of the reconcile has no ARN.  A change of the topic
\* starts one, too.  Retries without the store change nothing.
CreateTopicStart(o) ==
  /\ \/ /\ StartCreate(o, "topic")
        /\ o \in noted => InProvider(o)
        /\ events' = events
     \/ /\ Kind[o] = "topic"
        /\ cr[o] = "held" /\ o \in ready
        /\ MayStart(o)
        /\ Event
  /\ noted' = noted \union {o}
  /\ ready' = ready \ {o}
  /\ Goto(o, "create")
  /\ UNCHANGED <<Same, ceph, foreign>>
CreateTopic(o) == Kind[o] = "topic" /\ CreateInCeph(o)

\* Without an ARN there is nothing to delete.  Without a status deleteTopic
\* panics, and nothing queues the CR again.
DeleteTopicStart(o) ==
  /\ StartDelete(o, "topic")
  /\ o \in noted
  /\ Goto(o, IF o \in ready THEN "destroy" ELSE "release")
  /\ UNCHANGED <<Same, ready, ceph, notes, events>>

\* It needs the store CR, and the store; the failure costs the ARN.
DeleteTopic(o) ==
  /\ task[o] = "destroy"
  /\ Kind[o] = "topic"
  /\ IF InProvider(o)
       THEN /\ Goto(o, "release")
            /\ ceph' = ceph \ {Backing[o]}
            /\ ready' = ready
       ELSE /\ Goto(o, "idle")
            /\ ready' = ready \ {o}
            /\ ceph' = ceph
  /\ UNCHANGED <<Same, notes, events>>

-----------------------------------------------------------------------------
(* Zones.                                                                   *)

DeleteZoneStart_Waits(o) ==
  /\ StartDelete(o, "zone")
  /\ Alive(Provider[o])
  /\ Backing[o] \in ceph
  /\ DependentsOf(o) = {}
  /\ Goto(o, "destroy")
  /\ UNCHANGED <<Same, ready, ceph, notes, events>>

\* Without the zone group CR the finalizer goes at once.  With it, the zone
\* must be found in Ceph, and no store CR may name it.
DeleteZoneStart(o) ==
  /\ StartDelete(o, "zone")
  /\ IF Alive(Provider[o])
       THEN /\ Backing[o] \in ceph
            /\ DependentsOf(o) = {}
            /\ Goto(o, "destroy")
       ELSE Goto(o, "release")
  /\ UNCHANGED <<Same, ready, ceph, notes, events>>

\* The pools go first; failures to delete a pool are only logged.
DeleteZonePools(o) ==
  /\ task[o] = "destroy"
  /\ Kind[o] = "zone"
  /\ Goto(o, "zone")
  /\ \/ ceph' = ceph \ {Pools[o]} /\ events' = events
     \/ "pool delete" \in Failing /\ Event /\ ceph' = ceph
  /\ UNCHANGED <<Same, ready, notes>>

DeleteZone(o) ==
  /\ task[o] = "zone"
  /\ Goto(o, "release")
  /\ ceph' = ceph \ {Backing[o]}
  /\ UNCHANGED <<Same, ready, notes, events>>

\* One controller per kind.
RealmController(o) ==
  /\ Kind[o] = "realm"
  /\ CreateRealmStart(o) \/ CreateRealm(o)
ZoneGroupController(o) ==
  /\ Kind[o] = "zonegroup"
  /\ CreateZoneGroupStart(o) \/ CreateZoneGroup(o)
ZoneController(o) ==
  /\ Kind[o] = "zone"
  /\ CreateZoneStart(o) \/ CreateZone(o)
     \/ DeleteZoneStart(o) \/ DeleteZonePools(o) \/ DeleteZone(o)
StoreController(o) ==
  /\ Kind[o] = "store"
  /\ CreateStoreStart(o) \/ CreateStore(o)
     \/ DeleteStoreStart(o) \/ DeleteStore(o)
UserController(o) ==
  /\ Kind[o] = "user"
  /\ CreateUserStart(o) \/ CreateUser(o)
     \/ DeleteUserStart(o) \/ DeleteUser(o)
AccountController(o) ==
  /\ Kind[o] = "account"
  /\ CreateAccountStart(o) \/ ModifyAccount(o)
     \/ PersistAccountID(o) \/ CreateAccount(o)
     \/ DeleteAccountStart(o) \/ DeleteAccount(o)
TopicController(o) ==
  /\ Kind[o] = "topic"
  /\ CreateTopicStart(o) \/ CreateTopic(o)
     \/ DeleteTopicStart(o) \/ DeleteTopic(o)

ObjectStep(o) ==
  \/ RealmController(o) \/ ZoneGroupController(o) \/ ZoneController(o)
  \/ StoreController(o) \/ UserController(o) \/ AccountController(o)
  \/ TopicController(o)
=============================================================================
