----------------------------- MODULE MCLifecycle -----------------------------
(* Three components, so that a start can fail in the middle, and two or    *)
(* three callers, so that Health overlaps a Stop that another one runs.    *)
EXTENDS Lifecycle
=============================================================================
