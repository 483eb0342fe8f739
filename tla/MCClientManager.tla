--------------------------- MODULE MCClientManager ---------------------------
(***************************************************************************)
(* Three callers, two services and three dials: enough for two callers to  *)
(* share a dial, for a service to be dialed again after its connection was *)
(* shut down, and for Close to fall between the dial and its installation. *)
(***************************************************************************)
EXTENDS ClientManager
=============================================================================
