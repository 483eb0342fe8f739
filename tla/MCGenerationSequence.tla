------------------------ MODULE MCGenerationSequence -------------------------
(* Three callers race over a clock that may stand still or go back; the    *)
(* counter passes the clock's readings, so that both branches are taken.   *)
EXTENDS GenerationSequence
=============================================================================
