--------------------------- MODULE ComponentStack ----------------------------
(***************************************************************************)
(* What an ordered lifecycle promises, without locks or callers: the       *)
(* components that are live form a stack.  It grows one component at a     *)
(* time while the runtime starts, shrinks from the top while it stops or   *)
(* rolls a failed start back, is complete while the runtime runs, and is   *)
(* empty while it is stopped.                                              *)
(***************************************************************************)
EXTENDS Naturals, Sequences

CONSTANT Components

VARIABLES
    order,      \* the components, in registration order
    live,       \* the stack: the components that are live, oldest first
    mode        \* what the runtime is doing

stackVars == <<order, live, mode>>

StackInit ==
    /\ order = <<>>
    /\ live = <<>>
    /\ mode = "stopped"

Register(c) ==
    /\ mode = "stopped"
    /\ \A i \in 1..Len(order) : order[i] # c
    /\ order' = Append(order, c)
    /\ UNCHANGED <<live, mode>>

BeginStart ==
    /\ mode = "stopped"
    /\ mode' = "starting"
    /\ UNCHANGED <<order, live>>

Push ==
    /\ mode = "starting"
    /\ Len(live) < Len(order)
    /\ live' = Append(live, order[Len(live) + 1])
    /\ UNCHANGED <<order, mode>>

Complete ==
    /\ mode = "starting"
    /\ Len(live) = Len(order)
    /\ mode' = "running"
    /\ UNCHANGED <<order, live>>

\* A component failed to start, or the runtime is asked to stop.
BeginStop ==
    /\ mode' = "stopping"
    /\ UNCHANGED <<order, live>>

Pop ==
    /\ mode = "stopping"
    /\ live # <<>>
    /\ live' = SubSeq(live, 1, Len(live) - 1)
    /\ UNCHANGED <<order, mode>>

EndStop ==
    /\ mode = "stopping"
    /\ live = <<>>
    /\ mode' = "stopped"
    /\ UNCHANGED <<order, live>>

StackNext ==
    \/ \E c \in Components : Register(c)
    \/ BeginStart \/ Push \/ Complete \/ BeginStop \/ Pop \/ EndStop

StackSpec == StackInit /\ [][StackNext]_stackVars
=============================================================================
