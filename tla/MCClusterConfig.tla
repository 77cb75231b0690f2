-------------------------- MODULE MCClusterConfig --------------------------
(* ClusterConfig with the constants the configurations give. *)
EXTENDS ClusterConfig
=============================================================================
