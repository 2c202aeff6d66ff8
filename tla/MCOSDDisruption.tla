-------------------------- MODULE MCOSDDisruption --------------------------
(* Small clusters for OSDDisruption. Domains 1..3 are hosts, 11 and 12 zones. *)
EXTENDS OSDDisruption

\* Three hosts with one OSD each: n1, n2 and n3 are the only nodes of hosts 1, 2 and 3.
HostNodes == [o \in OSDs |-> CASE o = 1 -> "n1" [] o = 2 -> "n2" [] o = 3 -> "n3"]
HostLocation == [l \in Levels |-> [o \in OSDs |-> o]]
HostPools == {{0}}

\* Two zones with one host each; the second host has two OSDs, one of which comes and goes.
ZoneNodes == [o \in OSDs |-> IF o = 1 THEN "n1" ELSE "n2"]
ZoneLocation == [l \in Levels |-> [o \in OSDs |->
                    IF l = 0 THEN (IF o = 1 THEN 1 ELSE 2) ELSE (IF o = 1 THEN 11 ELSE 12)]]
ZonePools == {{}, {1}, {0, 1}}
=============================================================================
