----------------------------- MODULE MCResolver -----------------------------
(* Two instances, two writes (a registration and its removal, or two       *)
(* registrations), one of them of a malformed value or of one without an   *)
(* address, one failed call, one delete without its previous value and one *)
(* refresh at a time beside run.                                           *)
EXTENDS Resolver
=============================================================================
