------------------------- MODULE MCDataPlaneManager --------------------------
(* Four generations: a first start, two rebuilds around a failed stop, and *)
(* one that overlaps a Stop of another caller.                             *)
EXTENDS DataPlaneManager
=============================================================================
