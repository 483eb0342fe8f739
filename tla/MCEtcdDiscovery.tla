-------------------------- MODULE MCEtcdDiscovery ---------------------------
(* Model checking of EtcdDiscovery. *)
EXTENDS EtcdDiscovery
=============================================================================
