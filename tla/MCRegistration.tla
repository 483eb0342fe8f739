--------------------------- MODULE MCRegistration ----------------------------
(* Every lease after the first one is granted because of a fault, so one   *)
(* lease more than MaxFaults never runs out.                               *)
EXTENDS Registration
=============================================================================
