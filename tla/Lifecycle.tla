------------------------------ MODULE Lifecycle ------------------------------
(***************************************************************************)
(* runtime/lifecycle/lifecycle.go: Runtime starts an ordered set of        *)
(* components, stops the started ones in reverse order, and asks them for  *)
(* their health.                                                           *)
(*                                                                         *)
(* Start and Stop hold r.mu from end to end and call the components one by *)
(* one; each call of a component is an action, so that Health, which gives *)
(* the lock back before it asks the components, interleaves with them.     *)
(*                                                                         *)
(* The components are external to this module: Start returns nil with the  *)
(* component up or an error with nothing to release, Stop returns nil with *)
(* the component down or an error after which it may still hold what it    *)
(* held ("stuck").  Health may return nil or an error whatever the state   *)
(* of the component: a boundAddressComponent is always healthy, a          *)
(* GRPCService is still healthy after its Stop.                            *)
(***************************************************************************)
EXTENDS Naturals, Sequences

CONSTANTS
    Components,     \* component names
    Callers,        \* goroutines that use the Runtime
    Nobody          \* the holder of a free lock

ASSUME NobodyAssumption == Nobody \notin Callers

VARIABLES
    components,     \* Runtime.components, in the order of Add
    started,        \* Runtime.started
    running,        \* Runtime.running
    mu,             \* the holder of Runtime.mu
    doing,          \* what each caller does
    left,           \* stopStarted: how many entries of started it has still to stop
    items,          \* Health: the copy of started that a caller goes through
    asked,          \* Health: how many of them have answered nil
    comp,           \* the components themselves: "new", "up", "down" or "stuck"
    overtaken       \* history: the Health callers whose copy is older than the last Stop

runtimeVars == <<components, started, running, mu, doing, left, items, asked, comp, overtaken>>
healthVars == <<items, asked, overtaken>>

LifecycleTypeOK ==
    /\ components \in Seq(Components)
    /\ started \in Seq(Components)
    /\ running \in BOOLEAN
    /\ mu \in Callers \cup {Nobody}
    /\ doing \in [Callers -> {"idle", "starting", "rollback", "stopping", "checking"}]
    /\ left \in Nat
    /\ items \in [Callers -> Seq(Components)]
    /\ asked \in [Callers -> Nat]
    /\ comp \in [Components -> {"new", "up", "down", "stuck"}]
    /\ overtaken \in SUBSET Callers

LifecycleInit ==
    /\ components = <<>>
    /\ started = <<>>
    /\ running = FALSE
    /\ mu = Nobody
    /\ doing = [g \in Callers |-> "idle"]
    /\ left = 0
    /\ items = [g \in Callers |-> <<>>]
    /\ asked = [g \in Callers |-> 0]
    /\ comp = [c \in Components |-> "new"]
    /\ overtaken = {}

\* The caller takes the lock and goes to `to`.
Lock(g, to) ==
    /\ doing[g] = "idle"
    /\ mu = Nobody
    /\ mu' = g
    /\ doing' = [doing EXCEPT ![g] = to]

Unlock(g) ==
    /\ mu' = Nobody
    /\ doing' = [doing EXCEPT ![g] = "idle"]

-----------------------------------------------------------------------------
\* Add: rejected while running, and for a name that exists.
Add(g, c) ==
    /\ doing[g] = "idle" /\ mu = Nobody
    /\ ~running
    /\ \A i \in 1..Len(components) : components[i] # c
    /\ components' = Append(components, c)
    /\ UNCHANGED <<started, running, mu, doing, left, comp, healthVars>>

\* Mutant: Start declares the runtime running before its components are.
StartBeginRunsAtOnce(g) ==
    /\ ~running
    /\ Lock(g, "starting")
    /\ running' = TRUE
    /\ UNCHANGED <<components, started, left, comp, healthVars>>

\* Start does nothing when running.
StartBegin(g) ==
    /\ ~running
    /\ Lock(g, "starting")
    /\ UNCHANGED <<components, started, running, left, comp, healthVars>>

\* The component that Start has to start next.
NextItem == components[Len(started) + 1]

StartComponent(g) ==
    /\ doing[g] = "starting"
    /\ Len(started) < Len(components)
    /\ comp' = [comp EXCEPT ![NextItem] = "up"]
    /\ started' = Append(started, NextItem)
    /\ UNCHANGED <<components, running, mu, doing, left, healthVars>>

\* Mutant: a failed start returns without stopping what it started.
StartFailsNoRollback(g) ==
    /\ doing[g] = "starting"
    /\ Len(started) < Len(components)
    /\ Unlock(g)
    /\ UNCHANGED <<components, started, running, left, comp, healthVars>>

\* The loop calls stopStarted with what it has started so far.
StartFails(g) ==
    /\ doing[g] = "starting"
    /\ Len(started) < Len(components)
    /\ doing' = [doing EXCEPT ![g] = "rollback"]
    /\ left' = Len(started)
    /\ UNCHANGED <<components, started, running, mu, comp, healthVars>>

StartEnd(g) ==
    /\ doing[g] = "starting"
    /\ Len(started) = Len(components)
    /\ running' = TRUE
    /\ Unlock(g)
    /\ UNCHANGED <<components, started, left, comp, healthVars>>

StopBegin(g) ==
    /\ Lock(g, "stopping")
    /\ running' = FALSE
    /\ left' = Len(started)
    /\ overtaken' = overtaken \cup {h \in Callers : doing[h] = "checking"}
    /\ UNCHANGED <<components, started, items, asked, comp>>

\* Mutant: the started components are stopped in the order they were started.
StopComponentForward(g) ==
    /\ doing[g] \in {"stopping", "rollback"}
    /\ left > 0
    /\ left' = left - 1
    /\ \E after \in {"down", "stuck"} :
          comp' = [comp EXCEPT ![started[Len(started) + 1 - left]] = after]
    /\ UNCHANGED <<components, started, running, mu, doing, healthVars>>

(* One turn of stopStarted, on behalf of Stop or of a failed Start.  An    *)
(* error is joined to the others and the loop goes on.                     *)
StopComponent(g) ==
    /\ doing[g] \in {"stopping", "rollback"}
    /\ left > 0
    /\ left' = left - 1
    /\ \E after \in {"down", "stuck"} : comp' = [comp EXCEPT ![started[left]] = after]
    /\ UNCHANGED <<components, started, running, mu, doing, healthVars>>

StopEnd(g) ==
    /\ doing[g] \in {"stopping", "rollback"}
    /\ left = 0
    /\ started' = <<>>
    /\ Unlock(g)
    /\ UNCHANGED <<components, running, left, comp, healthVars>>

\* Health copies started under the lock; it fails at once when not running.
HealthBegin(g) ==
    /\ doing[g] = "idle" /\ mu = Nobody
    /\ running
    /\ doing' = [doing EXCEPT ![g] = "checking"]
    /\ items' = [items EXCEPT ![g] = started]
    /\ asked' = [asked EXCEPT ![g] = 0]
    /\ UNCHANGED <<components, started, running, mu, left, comp, overtaken>>

\* The next component answers that it is healthy, whatever its state.
HealthCheck(g) ==
    /\ doing[g] = "checking"
    /\ asked[g] < Len(items[g])
    /\ asked' = [asked EXCEPT ![g] = @ + 1]
    /\ UNCHANGED <<components, started, running, mu, doing, left, items, comp, overtaken>>

\* Health returns, and its copy is gone.
HealthReturns(g) ==
    /\ doing' = [doing EXCEPT ![g] = "idle"]
    /\ items' = [items EXCEPT ![g] = <<>>]
    /\ asked' = [asked EXCEPT ![g] = 0]
    /\ overtaken' = overtaken \ {g}
    /\ UNCHANGED <<components, started, running, mu, left, comp>>

\* The component reports an error, and Health returns it at once.
HealthFails(g) ==
    /\ doing[g] = "checking"
    /\ asked[g] < Len(items[g])
    /\ HealthReturns(g)

HealthOk(g) ==
    /\ doing[g] = "checking"
    /\ asked[g] = Len(items[g])
    /\ HealthReturns(g)

\* A turn of the goroutine that is inside Start or Stop.
Turn(g) ==
    \/ StartComponent(g) \/ StartFails(g) \/ StartEnd(g)
    \/ StopComponent(g) \/ StopEnd(g)

LifecycleNext == \E g \in Callers :
    \/ \E c \in Components : Add(g, c)
    \/ StartBegin(g) \/ StopBegin(g) \/ HealthBegin(g)
    \/ Turn(g)
    \/ HealthCheck(g) \/ HealthFails(g) \/ HealthOk(g)

(***************************************************************************)
(* The Start, Stop and Health of a component return, and a goroutine that  *)
(* can run does run.  Nobody has to call the Runtime.                      *)
(***************************************************************************)
LifecycleFairness ==
    \A g \in Callers : /\ WF_runtimeVars(Turn(g))
                       /\ WF_runtimeVars(HealthCheck(g) \/ HealthFails(g) \/ HealthOk(g))

LifecycleSpec == LifecycleInit /\ [][LifecycleNext]_runtimeVars /\ LifecycleFairness

-----------------------------------------------------------------------------
(***************************************************************************)
(* Start order and reverse stop order as one fact: the components that are *)
(* up are a prefix of the registration order, also in the middle of a      *)
(* start, a rollback or a stop and after errors of Stop.  A component is   *)
(* never up without the ones registered before it, which it may use.       *)
(***************************************************************************)
UpIsPrefix ==
    \A i, j \in 1..Len(components) :
        (i < j /\ comp[components[j]] = "up") => comp[components[i]] = "up"

(***************************************************************************)
(* Start is all or nothing: when nobody is inside Start or Stop, a runtime *)
(* that runs has every component up and recorded, and one that does not    *)
(* run has recorded none and left none up that was not asked to stop.      *)
(***************************************************************************)
AllOrNothing ==
    mu = Nobody => IF running
                   THEN started = components /\ \A i \in 1..Len(components) :
                                                    comp[components[i]] = "up"
                   ELSE started = <<>> /\ \A c \in Components : comp[c] # "up"

(***************************************************************************)
(* Health gives the lock back and goes through its copy of started while   *)
(* others use the Runtime, and a component may answer nil when it is gone. *)
(* Unless a Stop has overtaken the call, the copy is nevertheless the      *)
(* whole runtime with every component up, so that a nil answer speaks for  *)
(* all of them.  After a Stop, and even a restart with more components, it *)
(* is still a prefix of the components and names none that was never       *)
(* started; all that a nil answer then says is that these were up when the *)
(* copy was taken.                                                         *)
(***************************************************************************)
HealthCopyIsWhole ==
    \A g \in Callers : doing[g] = "checking" =>
        /\ g \notin overtaken => /\ items[g] = components
                                /\ \A i \in 1..Len(components) : comp[components[i]] = "up"
        /\ asked[g] <= Len(items[g]) /\ Len(items[g]) <= Len(components)
        /\ \A i \in 1..Len(items[g]) : /\ items[g][i] = components[i]
                                       /\ comp[items[g][i]] # "new"

(***************************************************************************)
(* The Runtime implements the stack of live components.                    *)
(***************************************************************************)
Mode ==
    CASE \E g \in Callers : doing[g] = "starting" -> "starting"
      [] \E g \in Callers : doing[g] \in {"stopping", "rollback"} -> "stopping"
      [] OTHER -> IF running THEN "running" ELSE "stopped"

Live == IF Mode = "stopping" THEN SubSeq(started, 1, left) ELSE started

Stack == INSTANCE ComponentStack WITH order <- components, live <- Live, mode <- Mode

ImplementsStack == Stack!StackSpec

-----------------------------------------------------------------------------
(* The parts of the inductive invariant. *)

Busy == {"starting", "rollback", "stopping"}

\* The lock is held exactly by the caller inside Start or Stop, and never while running.
LockSound ==
    /\ \A g \in Callers : doing[g] \in Busy <=> mu = g
    /\ running => mu = Nobody

\* Names are unique, and started is a prefix of components: complete while running,
\* empty while nothing happens.
StartedSound ==
    /\ \A i, j \in 1..Len(components) : components[i] = components[j] => i = j
    /\ Len(started) <= Len(components)
    /\ \A i \in 1..Len(started) : started[i] = components[i]
    /\ running => Len(started) = Len(components)
    /\ (mu = Nobody /\ ~running) => Len(started) = 0

\* How many of the started components are not stopped yet.
LiveCount == IF \E g \in Callers : doing[g] \in {"stopping", "rollback"} THEN left ELSE Len(started)

\* Exactly the first LiveCount components are up.
UpSound ==
    /\ LiveCount <= Len(started)
    /\ \A i \in 1..Len(components) : comp[components[i]] = "up" <=> i <= LiveCount
    /\ \A c \in Components : comp[c] = "up" => \E i \in 1..Len(components) : components[i] = c

LifecycleInv == LifecycleTypeOK /\ LockSound /\ StartedSound /\ UpSound

\* The copy of a Health call: complete while no Stop has overtaken it, always a prefix
\* of components whose members have been started.
CopySound ==
    \A g \in Callers : doing[g] = "checking" =>
        /\ g \notin overtaken => running /\ Len(items[g]) = Len(components)
        /\ asked[g] <= Len(items[g]) /\ Len(items[g]) <= Len(components)
        /\ \A i \in 1..Len(items[g]) : /\ items[g][i] = components[i]
                                       /\ comp[items[g][i]] # "new"
=============================================================================
