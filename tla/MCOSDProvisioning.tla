------------------------- MODULE MCOSDProvisioning -------------------------
(* Two PVCs in one failure domain, a third PVC and a node in two others.  In   *)
(* the first scenario the three OSDs are migrated; in the others they are      *)
(* updated while an OSD is created on the third PVC.                           *)
EXTENDS OSDProvisioning

Used == <<"pvc1", "pvc2", "node1">>
Grown == <<"pvc1", "pvc2", "pvc3", "node1">>

MCOsd == 0..4
MCDomain == [t \in {"pvc1", "pvc2", "pvc3", "node1"} |->
               IF t \in {"pvc1", "pvc2"} THEN "a" ELSE t]
MCDisk == [t \in {"pvc1", "pvc2", "pvc3", "node1"} |->
             CASE t = "pvc1" -> 0 [] t = "pvc2" -> 1 [] t = "pvc3" -> -1 [] OTHER -> 2]
MCScenarios ==
    [spec : {Used}, requested : {TRUE}, labelled : {{}, {1}}]
    \cup [spec : {Grown}, requested : {FALSE}, labelled : {{}, {2}}]

=============================================================================
