-------------------------- MODULE MCServiceProcess ---------------------------
(* Three generations (the first one and two rebuilds), two commands and    *)
(* one change of the configuration.  Two ways a process gets its instance  *)
(* ids: ports that the system picks (the watcher's id is nobody's, and the *)
(* third generation gets the port of the first again), and a fixed port    *)
(* (the watcher's id is everybody's) with a second generation that is not  *)
(* registered.                                                             *)
EXTENDS ServiceProcess

MCIdentities ==
    LET ids(first, second) ==
            [g \in Gens \cup {Nil} |-> IF g = Nil THEN "derived" ELSE IF g = 2 THEN second ELSE first]
    IN  {ids("picked", "other"), ids("derived", NoId)}
=============================================================================
