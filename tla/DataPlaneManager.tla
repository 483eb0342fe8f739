-------------------------- MODULE DataPlaneManager ---------------------------
(***************************************************************************)
(* servicekit/dataplane.go: the Manager that replaces one DataPlane        *)
(* generation by the next.                                                 *)
(*                                                                         *)
(* Rebuild holds m.mu while it builds the next generation, stops the old   *)
(* one and starts the next one.  Stop takes the current generation out     *)
(* under m.mu and stops it after giving the lock back.  Status, Health and *)
(* RuntimeIdentity only read.                                              *)
(*                                                                         *)
(* A generation is a lifecycle (module Lifecycle), seen here by what its   *)
(* Start and Stop return.  A Stop that returned an error has nevertheless  *)
(* been through every component and forgotten them, so that a second Stop  *)
(* of the same generation returns nil and releases nothing more.           *)
(***************************************************************************)
EXTENDS Naturals

CONSTANTS
    Callers,    \* goroutines that call Rebuild or Stop
    Gens,       \* generations, in the order NewGeneration numbers them
    Nil         \* no generation, no caller

ASSUME CallersAssumption == Nil \notin Callers
ASSUME GensAssumption == Gens \subseteq Nat /\ Nil \notin Gens

(***************************************************************************)
(* A generation: not built; built (its clients are open, nothing is        *)
(* started); being started; up; being stopped; stopped without an error;   *)
(* stopped with an error (what it still holds is never released); failed   *)
(* to start and rolled back.                                               *)
(***************************************************************************)
Phases == {"absent", "built", "starting", "up", "stopping", "down", "stuck", "failed"}
Final == {"down", "stuck", "failed"}

VARIABLES
    mu,         \* the holder of Manager.mu
    current,    \* Manager.current
    status,     \* Manager.status: Running, Generation and whether LastError is set
    pc,         \* where each caller is
    old,        \* the generation a caller stops
    next,       \* the generation a rebuild has built
    plane       \* the generations

vars == <<mu, current, status, pc, old, next, plane>>

StatusRecord == [running : BOOLEAN, generation : Gens \cup {Nil}, error : BOOLEAN]

TypeOK ==
    /\ mu \in Callers \cup {Nil}
    /\ current \in Gens \cup {Nil}
    /\ status \in StatusRecord
    /\ pc \in [Callers -> {"idle", "build", "stopOld", "startNext", "stopTaken"}]
    /\ old \in [Callers -> Gens \cup {Nil}]
    /\ next \in [Callers -> Gens \cup {Nil}]
    /\ plane \in [Gens -> Phases]
    /\ \A c \in Callers : mu = c <=> pc[c] \in {"build", "stopOld", "startNext"}

Init ==
    /\ mu = Nil
    /\ current = Nil
    /\ status = [running |-> FALSE, generation |-> Nil, error |-> FALSE]
    /\ pc = [c \in Callers |-> "idle"]
    /\ old = [c \in Callers |-> Nil]
    /\ next = [c \in Callers |-> Nil]
    /\ plane = [g \in Gens |-> "absent"]

recordLocked(running, generation, error) ==
    status' = [running |-> running, generation |-> generation, error |-> error]

\* A caller leaves Rebuild or Stop and forgets its local variables.
Return(c) ==
    /\ pc' = [pc EXCEPT ![c] = "idle"]
    /\ old' = [old EXCEPT ![c] = Nil]
    /\ next' = [next EXCEPT ![c] = Nil]

\* Stop begins: the components of a stuck generation are already forgotten.
Stopping(g) == IF plane[g] = "up" THEN "stopping" ELSE plane[g]
Stopped(g) == IF plane[g] = "stopping" THEN "down" ELSE plane[g]

-----------------------------------------------------------------------------
(* RebuildWithLogContext *)

RebuildBegin(c) ==
    /\ pc[c] = "idle" /\ mu = Nil
    /\ mu' = c
    /\ pc' = [pc EXCEPT ![c] = "build"]
    /\ old' = [old EXCEPT ![c] = current]
    /\ UNCHANGED <<current, status, next, plane>>

\* Mutant: a failed build is recorded without the generation that stays current.
BuildFailsNoGeneration(c) ==
    /\ pc[c] = "build"
    /\ recordLocked(FALSE, Nil, TRUE)
    /\ mu' = Nil
    /\ Return(c)
    /\ UNCHANGED <<current, plane>>

BuildFails(c) ==
    /\ pc[c] = "build"
    /\ recordLocked(FALSE, old[c], TRUE)
    /\ mu' = Nil
    /\ Return(c)
    /\ UNCHANGED <<current, plane>>

\* m.builder: a new generation, numbered after all the others.
BuildNext(c) ==
    /\ pc[c] = "build"
    /\ \E n \in Gens :
          /\ plane[n] = "absent"
          /\ \A g \in Gens : g < n => plane[g] # "absent"
          /\ next' = [next EXCEPT ![c] = n]
          /\ plane' = IF old[c] = Nil
                      THEN [plane EXCEPT ![n] = "starting"]
                      ELSE [plane EXCEPT ![n] = "built", ![old[c]] = Stopping(old[c])]
    /\ pc' = [pc EXCEPT ![c] = IF old[c] = Nil THEN "startNext" ELSE "stopOld"]
    /\ UNCHANGED <<mu, current, status, old>>

\* Mutant: the next generation is started before the Stop of the old one returns.
StopOldAsync(c) ==
    /\ pc[c] = "stopOld"
    /\ plane' = [plane EXCEPT ![next[c]] = "starting"]
    /\ current' = Nil
    /\ pc' = [pc EXCEPT ![c] = "startNext"]
    /\ UNCHANGED <<mu, status, old, next>>

StopOld(c) ==
    /\ pc[c] = "stopOld"
    /\ plane' = [plane EXCEPT ![old[c]] = Stopped(old[c]), ![next[c]] = "starting"]
    /\ current' = Nil
    /\ pc' = [pc EXCEPT ![c] = "startNext"]
    /\ UNCHANGED <<mu, status, old, next>>

\* The old generation stays current and the built one is dropped as it is.
StopOldFails(c) ==
    /\ pc[c] = "stopOld"
    /\ plane[old[c]] = "stopping"
    /\ plane' = [plane EXCEPT ![old[c]] = "stuck"]
    /\ recordLocked(TRUE, old[c], TRUE)
    /\ mu' = Nil
    /\ Return(c)
    /\ UNCHANGED current

\* Mutant: the next generation is started but not made current.
StartNextNotCurrent(c) ==
    /\ pc[c] = "startNext"
    /\ plane' = [plane EXCEPT ![next[c]] = "up"]
    /\ recordLocked(TRUE, next[c], FALSE)
    /\ mu' = Nil
    /\ Return(c)
    /\ UNCHANGED current

StartNext(c) ==
    /\ pc[c] = "startNext"
    /\ plane' = [plane EXCEPT ![next[c]] = "up"]
    /\ current' = next[c]
    /\ recordLocked(TRUE, next[c], FALSE)
    /\ mu' = Nil
    /\ Return(c)

StartNextFails(c) ==
    /\ pc[c] = "startNext"
    /\ plane' = [plane EXCEPT ![next[c]] = "failed"]
    /\ recordLocked(FALSE, Nil, TRUE)
    /\ mu' = Nil
    /\ Return(c)
    /\ UNCHANGED current

-----------------------------------------------------------------------------
(* Stop: the first half under the lock, the second without it. *)

StopTake(c) ==
    /\ pc[c] = "idle" /\ mu = Nil
    /\ current' = Nil
    /\ recordLocked(FALSE, Nil, FALSE)
    /\ IF current = Nil
       THEN UNCHANGED <<pc, old, plane>>
       ELSE /\ pc' = [pc EXCEPT ![c] = "stopTaken"]
            /\ old' = [old EXCEPT ![c] = current]
            /\ plane' = [plane EXCEPT ![current] = Stopping(current)]
    /\ UNCHANGED <<mu, next>>

StopTaken(c) ==
    /\ pc[c] = "stopTaken"
    /\ \E after \in IF plane[old[c]] = "stopping" THEN {"down", "stuck"}
                    ELSE {plane[old[c]]} :
          plane' = [plane EXCEPT ![old[c]] = after]
    /\ Return(c)
    /\ UNCHANGED <<mu, current, status>>

Turn(c) ==
    \/ BuildFails(c) \/ BuildNext(c) \/ StopOld(c) \/ StopOldFails(c)
    \/ StartNext(c) \/ StartNextFails(c) \/ StopTaken(c)

Next ==
    \/ \E c \in Callers : RebuildBegin(c) \/ Turn(c)
    \/ \E c \in Callers : StopTake(c)

(***************************************************************************)
(* The builder and the Start and Stop of a generation return: the contexts *)
(* they run under have deadlines.  Nobody has to call Rebuild or Stop.     *)
(***************************************************************************)
Fairness == \A c \in Callers : WF_vars(Turn(c))

Spec == Init /\ [][Next]_vars /\ Fairness

-----------------------------------------------------------------------------
(***************************************************************************)
(* No generation runs on unnoticed: one that is up is the current one, one *)
(* that is being started belongs to the rebuild that holds the lock, and   *)
(* one that is being stopped is in the hands of exactly one caller, though *)
(* Stop does its work outside the lock.                                    *)
(***************************************************************************)
NoOrphanGeneration ==
    \A g \in Gens :
        /\ plane[g] = "up" => current = g
        /\ plane[g] = "starting" =>
              \E c \in Callers : mu = c /\ pc[c] = "startNext" /\ next[c] = g
        /\ plane[g] = "stopping" =>
              \E c \in Callers :
                  /\ pc[c] \in {"stopOld", "stopTaken"} /\ old[c] = g
                  /\ \A d \in Callers : (pc[d] \in {"stopOld", "stopTaken"}
                                          /\ old[d] = g) => d = c

(***************************************************************************)
(* The current generation is one that was started: it is up, or a rebuild  *)
(* is stopping it, or its Stop has failed and it was kept.                 *)
(***************************************************************************)
CurrentWasStarted ==
    current # Nil => plane[current] \in {"up", "stopping", "stuck"}

(***************************************************************************)
(* Status().Generation names the current generation whenever the lock is   *)
(* free, also after a build, a stop or a start that failed; and Running    *)
(* agrees with it when LastError is empty.                                 *)
(***************************************************************************)
StatusNamesCurrent ==
    mu = Nil => /\ status.generation = current
                /\ ~status.error => /\ status.running <=> current # Nil
                                    /\ current # Nil => plane[current] = "up"

(***************************************************************************)
(* Generations only move forward: one that was stopped or failed to start  *)
(* is never started again, and a current generation is only ever replaced  *)
(* by a later one.                                                         *)
(***************************************************************************)
GenerationsAdvance ==
    [][/\ \A g \in Gens : plane[g] \in Final => plane'[g] = plane[g]
       /\ \A g \in Gens : (current' = g /\ current # g) =>
             \A h \in Gens : plane[h] \in {"up", "stopping"} \cup Final => h < g \/ h = g]_vars

(***************************************************************************)
(* Two generations are never active at once: stopping the old one ends     *)
(* before starting the next one begins (README, "Rebuild Semantics").  The *)
(* one exception is a Stop that has given the lock back and is still       *)
(* stopping the generation it took.                                        *)
(***************************************************************************)
OneGenerationActive ==
    (\A c \in Callers : pc[c] # "stopTaken") =>
        \A g, h \in Gens :
            (plane[g] \in {"starting", "up", "stopping"} /\
             plane[h] \in {"starting", "up", "stopping"}) => g = h

-----------------------------------------------------------------------------
(* The parts of the inductive invariant. *)

\* What the position of a caller says of its generations.
CallersSound ==
    \A c \in Callers :
        /\ pc[c] = "build" => old[c] = current
        /\ pc[c] = "stopOld" =>
              /\ old[c] = current /\ old[c] # Nil /\ next[c] \in Gens
              /\ plane[next[c]] = "built" /\ plane[old[c]] \in {"stopping", "stuck"}
        /\ pc[c] = "startNext" =>
              current = Nil /\ next[c] \in Gens /\ plane[next[c]] = "starting"
        /\ pc[c] = "stopTaken" =>
              /\ old[c] \in Gens /\ old[c] # current
              /\ plane[old[c]] \in {"stopping", "stuck"}

\* Two calls of Stop never hold the same generation.
TakenOnce ==
    \A c, d \in Callers :
        (pc[c] = "stopTaken" /\ pc[d] = "stopTaken" /\ old[c] = old[d]) => c = d

\* Generations are built in order, and a rebuild holds the newest one.
BuiltInOrder ==
    /\ \A g, h \in Gens : (plane[g] # "absent" /\ plane[h] = "absent") => g < h
    /\ \A c \in Callers : pc[c] \in {"stopOld", "startNext"} =>
          \A g \in Gens : plane[g] # "absent" => g <= next[c]

\* While the lock is held a generation that is current is up, or the holder stops it.
CurrentSound ==
    /\ CurrentWasStarted
    /\ (current # Nil /\ plane[current] = "stopping") =>
          \E c \in Callers : pc[c] = "stopOld"

IndInv ==
    /\ TypeOK /\ CallersSound /\ TakenOnce /\ BuiltInOrder
    /\ CurrentSound /\ NoOrphanGeneration /\ StatusNamesCurrent
=============================================================================
