--------------------------- MODULE ServiceProcess ----------------------------
(***************************************************************************)
(* servicekit/runner.go, control.go and process_control.go: the process    *)
(* that Run manages.  Two goroutines use the DataPlane manager (module     *)
(* DataPlaneManager): Run itself, which starts the first generation and    *)
(* stops the last one, and the control watcher, which rebuilds on the      *)
(* commands that runtime-admin publishes in etcd.                          *)
(*                                                                         *)
(* A command has a target: any instance, or one instance id.  A generation *)
(* has the id under which it is registered: its own when the system picks  *)
(* its port, the same one with a fixed port, none without a registry.  The *)
(* watcher itself has the id that the first configuration gives.  A        *)
(* configuration is a version number that others may raise at any time.    *)
(***************************************************************************)
EXTENDS Naturals, Sequences

CONSTANTS
    Gens,           \* generations
    Nil,            \* nothing
    Any,            \* a command without instance_id
    Ids, NoId,      \* instance ids, and the empty one
    Identities,     \* the ids a process may have: of each generation, and of the watcher (Nil)
    MaxConfig,      \* bound: changes of the configuration
    MaxCommands     \* bound: published commands

ASSUME MaxAssumption == MaxConfig \in Nat /\ MaxCommands \in Nat
ASSUME AnyAssumption == Any \notin Ids /\ NoId \notin Ids
ASSUME IdentitiesAssumption ==
    \A i \in Identities : i \in [Gens \cup {Nil} -> Ids \cup {NoId}] /\ i[Nil] \in Ids

VARIABLES
    mu, current, status, pc, old, next, plane,      \* the Manager
    run,            \* where Run is
    config,         \* the configuration that LoadConfig would return
    initial,        \* Run: the configuration loaded first
    useInitial,     \* Run: the builder has not been called yet
    loaded,         \* the configuration of each generation
    watcher,        \* where the watcher's goroutine is
    commands,       \* commands on their way to the watcher
    handling,       \* the command it handles
    cancelled,      \* the watcher's context
    watches,        \* the etcd watches of the command store that are alive
    client,         \* the etcd client of ProcessControl is open
    timedOut,       \* control.Stop gave up waiting for the watcher
    published,      \* commands published so far
    identity        \* the instance id of each generation, and of the watcher (Nil)

managerVars == <<mu, current, status, pc, old, next, plane>>
runVars == <<run, initial, client, timedOut>>
watcherVars == <<watcher, commands, handling, cancelled, watches>>
adminVars == <<config, published, identity>>
vars == <<managerVars, runVars, useInitial, loaded, watcherVars, adminVars>>

Callers == {"main", "watcher"}

ASSUME GensAssumption == Gens \subseteq Nat /\ Nil \notin Gens /\ Nil \notin Callers

Manager == INSTANCE DataPlaneManager

Channels == {"service", "all"}
Command == [target : Ids \cup {Any}, rebuild : BOOLEAN, config : 0..MaxConfig]

TypeOK ==
    /\ Manager!TypeOK
    /\ run \in {"init", "starting", "control", "serving", "waitWatcher", "stopManager",
                "stopping", "returned"}
    /\ config \in 0..MaxConfig /\ initial \in 0..MaxConfig
    /\ useInitial \in BOOLEAN /\ cancelled \in BOOLEAN
    /\ client \in BOOLEAN /\ timedOut \in BOOLEAN
    /\ loaded \in [Gens -> 0..MaxConfig]
    /\ watcher \in {"off", "idle", "accept", "begin", "rebuild", "done"}
    /\ commands \in Seq(Command) /\ handling \in Command \cup {Nil}
    /\ watches \in SUBSET Channels
    /\ published \in 0..MaxCommands
    /\ identity \in Identities

Init ==
    /\ Manager!Init
    /\ run = "init" /\ config = 0 /\ initial = 0 /\ useInitial = TRUE
    /\ loaded = [g \in Gens |-> 0]
    /\ watcher = "off" /\ commands = <<>> /\ handling = Nil /\ cancelled = FALSE
    /\ watches = {} /\ client = FALSE /\ timedOut = FALSE /\ published = 0
    /\ identity \in Identities

-----------------------------------------------------------------------------
(* External: an operator changes the configuration or publishes a command. *)

ChangeConfig ==
    /\ config < MaxConfig
    /\ config' = config + 1
    /\ UNCHANGED <<managerVars, runVars, useInitial, loaded, watcherVars, published, identity>>

(* A command reaches the process only through a watch that is alive.       *)
Publish(via, target, rebuild) ==
    /\ published < MaxCommands
    /\ published' = published + 1
    /\ commands' = IF via \in watches
                   THEN Append(commands, [target |-> target, rebuild |-> rebuild, config |-> config])
                   ELSE commands
    /\ UNCHANGED <<managerVars, runVars, useInitial, loaded, watcher, handling, cancelled, watches, config,
                   identity>>

(* An etcd watch of the command store ends with an error: its goroutine    *)
(* returns and nothing is reported.                                        *)
CommandWatchEnds(via) ==
    /\ via \in watches
    /\ watches' = watches \ {via}
    /\ UNCHANGED <<managerVars, runVars, useInitial, loaded, watcher, commands, handling, cancelled, adminVars>>

-----------------------------------------------------------------------------
\* Mutant: the builder goes on using the first configuration.
BuildAlwaysInitial(c) ==
    /\ useInitial' = useInitial
    /\ loaded' = IF next'[c] # next[c] /\ next'[c] # Nil
                 THEN [loaded EXCEPT ![next'[c]] = initial] ELSE loaded

(* The builder that Run gives the manager: the configuration loaded first  *)
(* serves once, every later generation loads its own.                      *)
Build(c) ==
    /\ useInitial' = (useInitial /\ pc[c] # "build")
    /\ loaded' = IF next'[c] # next[c] /\ next'[c] # Nil
                 THEN [loaded EXCEPT ![next'[c]] = IF useInitial THEN initial ELSE config]
                 ELSE loaded

\* A turn inside Rebuild or Stop of the manager.
ManagerTurn(c) ==
    /\ Manager!Turn(c)
    /\ Build(c)
    /\ UNCHANGED <<runVars, watcherVars, adminVars>>

-----------------------------------------------------------------------------
(* Run *)

RunBegin ==
    /\ run = "init"
    /\ initial' = config
    /\ Manager!RebuildBegin("main")
    /\ run' = "starting"
    /\ UNCHANGED <<useInitial, loaded, client, timedOut, watcherVars, adminVars>>

\* manager.Start returned: with an error Run returns it.
Started ==
    /\ run = "starting" /\ pc["main"] = "idle"
    /\ run' = IF current = Nil THEN "returned" ELSE "control"
    /\ UNCHANGED <<managerVars, initial, client, timedOut, useInitial, loaded, watcherVars, adminVars>>

(* NewProcessControl and control.Start: the watcher is started.            *)
ControlStart ==
    /\ run = "control"
    /\ client' = TRUE
    /\ watcher' = "idle" /\ watches' = Channels
    /\ run' = "serving"
    /\ UNCHANGED <<managerVars, initial, timedOut, useInitial, loaded, commands, handling, cancelled, adminVars>>

\* A process that is configured from files has no control.
ControlDisabled ==
    /\ run = "control"
    /\ run' = "serving"
    /\ UNCHANGED <<managerVars, initial, client, timedOut, useInitial, loaded, watcherVars, adminVars>>

\* The etcd client of the control cannot be created: the generation is stopped.
ControlFails ==
    /\ run = "control"
    /\ run' = "stopManager"
    /\ UNCHANGED <<managerVars, initial, client, timedOut, useInitial, loaded, watcherVars, adminVars>>

\* control.Start finds Run's context done: only the manager is stopped.
ControlStartFails ==
    /\ run = "control"
    /\ client' = TRUE
    /\ run' = "stopManager"
    /\ UNCHANGED <<managerVars, initial, timedOut, useInitial, loaded, watcherVars, adminVars>>

\* The process is asked to end: control.Stop cancels the watcher and waits for it.
Shutdown ==
    /\ run = "serving"
    /\ run' = "waitWatcher"
    /\ cancelled' = TRUE
    /\ UNCHANGED <<managerVars, initial, client, timedOut, useInitial, loaded, watcher, commands, handling, watches, adminVars>>

\* Mutant: Stop does not wait for the goroutine.
WatcherNotAwaited ==
    /\ run = "waitWatcher"
    /\ run' = "stopManager"
    /\ client' = FALSE
    /\ UNCHANGED <<managerVars, initial, timedOut, useInitial, loaded, watcherVars, adminVars>>

\* Mutant: control.Stop waits for a watcher that was never started.
WatcherStoppedOnlyDone ==
    /\ run = "waitWatcher"
    /\ watcher = "done"
    /\ run' = "stopManager"
    /\ client' = FALSE
    /\ UNCHANGED <<managerVars, initial, timedOut, useInitial, loaded, watcherVars, adminVars>>

WatcherStopped ==
    /\ run = "waitWatcher"
    /\ watcher \in {"off", "done"}
    /\ run' = "stopManager"
    /\ client' = FALSE
    /\ UNCHANGED <<managerVars, initial, timedOut, useInitial, loaded, watcherVars, adminVars>>

\* The shutdown context ends first, because a rebuild takes longer.
ControlStopTimesOut ==
    /\ run = "waitWatcher"
    /\ watcher \notin {"off", "done"}
    /\ timedOut' = TRUE
    /\ run' = "stopManager"
    /\ client' = FALSE
    /\ UNCHANGED <<managerVars, initial, useInitial, loaded, watcherVars, adminVars>>

\* manager.Stop waits for the lock, whatever its context says.
StopManager ==
    /\ run = "stopManager"
    /\ Manager!StopTake("main")
    /\ run' = "stopping"
    /\ UNCHANGED <<initial, client, timedOut, useInitial, loaded, watcherVars, adminVars>>

RunReturns ==
    /\ run = "stopping" /\ pc["main"] = "idle"
    /\ run' = "returned"
    /\ UNCHANGED <<managerVars, initial, client, timedOut, useInitial, loaded, watcherVars, adminVars>>

-----------------------------------------------------------------------------
(* ControlWatcher.run and handle.  The select may take a command although  *)
(* the context is done.                                                    *)

TakeCommand ==
    /\ watcher = "idle" /\ commands # <<>>
    /\ handling' = Head(commands)
    /\ commands' = Tail(commands)
    /\ watcher' = "accept"
    /\ UNCHANGED <<managerVars, runVars, useInitial, loaded, cancelled, watches, adminVars>>

\* Mutant: a command is accepted whatever instance it names.
acceptAny(command) == command.rebuild

(* The id that the process answers to while g is current (Nil: none is).   *)
(* Without a generation, and with one that has no id, it is the watcher's. *)
EffectiveId(g) == IF identity[g] # NoId THEN identity[g] ELSE identity[Nil]

accept(command) == command.rebuild /\ command.target \in {Any, EffectiveId(current)}

\* RuntimeIdentity takes the manager's lock.
Accept ==
    /\ watcher = "accept" /\ mu = Nil
    /\ watcher' = IF accept(handling) THEN "begin" ELSE "idle"
    /\ handling' = IF accept(handling) THEN handling ELSE Nil
    /\ UNCHANGED <<managerVars, runVars, useInitial, loaded, commands, cancelled, watches, adminVars>>

HandleBegin ==
    /\ watcher = "begin"
    /\ Manager!RebuildBegin("watcher")
    /\ watcher' = "rebuild"
    /\ UNCHANGED <<runVars, useInitial, loaded, commands, handling, cancelled, watches, adminVars>>

HandleEnd ==
    /\ watcher = "rebuild" /\ pc["watcher"] = "idle"
    /\ watcher' = "idle"
    /\ handling' = Nil
    /\ UNCHANGED <<managerVars, runVars, useInitial, loaded, commands, cancelled, watches, adminVars>>

\* The context is done, or both watches have ended and the channel is closed.
WatcherEnds ==
    /\ watcher = "idle"
    /\ cancelled \/ (watches = {} /\ commands = <<>>)
    /\ watcher' = "done"
    /\ UNCHANGED <<managerVars, runVars, useInitial, loaded, commands, handling, cancelled, watches, adminVars>>

RunStep ==
    \/ Started \/ ControlStart \/ ControlDisabled \/ ControlFails \/ ControlStartFails
    \/ WatcherStopped \/ ControlStopTimesOut \/ StopManager \/ RunReturns

WatcherStep == TakeCommand \/ Accept \/ HandleBegin \/ HandleEnd \/ WatcherEnds

Admin ==
    \/ ChangeConfig
    \/ \E via \in Channels, target \in Ids \cup {Any}, rebuild \in BOOLEAN :
          Publish(via, target, rebuild)
    \/ \E via \in Channels : CommandWatchEnds(via)

Next ==
    \/ RunBegin \/ Shutdown \/ RunStep \/ WatcherStep \/ Admin
    \/ \E c \in Callers : ManagerTurn(c)

(***************************************************************************)
(* Both goroutines run when they can, and the lock is handed to a waiter   *)
(* that asks again and again (sync.Mutex does not starve).  The builder    *)
(* and the generations return: their contexts have deadlines.  Nobody has  *)
(* to shut the process down or to publish anything.                        *)
(***************************************************************************)
Fairness ==
    /\ WF_vars(RunStep) /\ SF_vars(StopManager)
    /\ WF_vars(WatcherStep) /\ SF_vars(Accept) /\ SF_vars(HandleBegin)
    /\ \A c \in Callers : WF_vars(ManagerTurn(c))

Spec == Init /\ [][Next]_vars /\ Fairness

-----------------------------------------------------------------------------
(***************************************************************************)
(* A clean shutdown leaves nothing behind: when Run has returned and       *)
(* control.Stop did not time out, no generation is active, nobody is left  *)
(* to start one, and the etcd client of a watcher that ran is closed.  (A  *)
(* watcher that was not started leaves its client open, runner.go:81.)     *)
(***************************************************************************)
CleanShutdown ==
    (run = "returned" /\ ~timedOut) =>
        /\ \A g \in Gens : plane[g] \notin {"starting", "up", "stopping"}
        /\ watcher \in {"off", "done"}
        /\ watcher = "done" => ~client

(***************************************************************************)
(* A targeted command replaces its target: while a rebuild for a command   *)
(* that names an instance is under way, the generation it replaces is one  *)
(* that answers to that id (none, if the id is the watcher's and there was *)
(* no generation), or none is left because Run has stopped it.  The        *)
(* identity is read before the rebuild takes the lock.                     *)
(***************************************************************************)
TargetIsReplaced ==
    (pc["watcher"] # "idle" /\ handling.target # Any) =>
        EffectiveId(old["watcher"]) = handling.target \/ (old["watcher"] = Nil /\ timedOut)

(***************************************************************************)
(* A rebuild uses the latest configuration: what it builds is at least as  *)
(* new as the configuration was when its command was published.            *)
(***************************************************************************)
RebuildSeesConfig ==
    pc["watcher"] \in {"stopOld", "startNext"} => loaded[next["watcher"]] >= handling.config

(***************************************************************************)
(* Shutdown ends: when the process is asked to end Run returns, even if a  *)
(* rebuild holds the manager and control.Stop times out.                   *)
(***************************************************************************)
ShutdownEnds == run = "waitWatcher" ~> run = "returned"
=============================================================================
