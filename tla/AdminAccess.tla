----------------------------- MODULE AdminAccess -----------------------------
(***************************************************************************)
(* What the rotation of the admin key promises                             *)
(* (design/ceph/cephx-keyring-rotation.md, "Ceph admin key rotation"):     *)
(* the operator can always find, in Kubernetes, a credential that Ceph     *)
(* accepts.  There are two places to look, the rook-ceph-mon Secret        *)
(* (primary) and the admin-rotator Secret (backup), and no step may give   *)
(* up one of them unless the other one works.                              *)
(***************************************************************************)
VARIABLES primary, backup   \* whether the stored credential is valid in Ceph

access == <<primary, backup>>

Init == primary = TRUE /\ backup = FALSE

(* client.admin-rotator exists in Ceph and its keyring is in the Secret. *)
KeepBackup == primary /\ backup' = TRUE /\ UNCHANGED primary

(* client.admin got another key, which the Secret does not have yet, or
   the Secret was given the new key. *)
ChangePrimary == backup /\ UNCHANGED backup /\ primary' = ~primary

(* client.admin-rotator is removed. *)
DropBackup == primary /\ backup' = FALSE /\ UNCHANGED primary

Next == KeepBackup \/ ChangePrimary \/ DropBackup

Spec == Init /\ [][Next]_access
=============================================================================
