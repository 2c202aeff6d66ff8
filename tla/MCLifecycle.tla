----------------------------- MODULE MCLifecycle -----------------------------
(* A CephCluster with block, file and object resources, for TLC.            *)
EXTENDS Lifecycle

Block == {"pool", "rnsA"}
File == {"fs", "svgA", "svgB"}
Own == {"store", "user"}
Multisite == {"realm", "zonegroup", "zone", "mstore"}
MCObjects == Block \union File \union Own \union Multisite \union
             {"topic", "account", "client", "metadata", "nfs", "nvmeof",
              "rbdmirror", "fsmirror"}

MCScenarios == {Block, File, Own, Multisite,
                {"store", "topic"}, {"store", "account"},
                {"metadata", "nfs"}, {"metadata", "nvmeof"},
                {"client", "rbdmirror"}, {"fsmirror"}}
JustFile == {File}
MCKind == [o \in MCObjects |->
  CASE o = "mstore" -> "store"
    [] o = "rnsA" -> "rns"
    [] o = "metadata" -> "pool"
    [] o \in {"svgA", "svgB"} -> "svg"
    [] OTHER -> o]
MCProvider == [o \in MCObjects |->
  CASE o = "rnsA" -> "pool"
    [] o \in {"svgA", "svgB"} -> "fs"
    [] o \in {"user", "topic", "account"} -> "store"
    [] o \in {"nfs", "nvmeof"} -> "metadata"
    [] o = "mstore" -> "zone"
    [] o = "zone" -> "zonegroup"
    [] o = "zonegroup" -> "realm"
    [] OTHER -> "nobody"]
\* A namespace CR names its namespace; two subvolume group CRs name one group.
MCBacking == [o \in MCObjects |->
  CASE o = "rnsA" -> "rns"
    [] o \in {"svgA", "svgB"} -> "svg"
    [] OTHER -> o]
MCPools == [o \in MCObjects |->
  IF o \in {"zone", "mstore"} THEN "zonepools" ELSE MCBacking[o]]
=============================================================================
