------------------------- MODULE ServiceProcessProofs -------------------------
(***************************************************************************)
(* Proofs about the process of servicekit/runner.go and control.go, for    *)
(* any number of generations, configurations and commands.  What is proved *)
(* of the manager for any callers (module DataPlaneManagerProofs) holds    *)
(* for the two goroutines of the process, and is used here.  The numbers   *)
(* that its generations get (module GenerationSequence) come last.         *)
(***************************************************************************)
EXTENDS ServiceProcess, GenerationSequence, TLAPS

M == INSTANCE DataPlaneManagerProofs

-----------------------------------------------------------------------------
(* The inductive invariant, with M!IndInv for the manager. *)

\* Where the two goroutines are, and what they are in the middle of.
ProgramOrder ==
    /\ run \in {"init", "starting", "control"} => watcher = "off"
    /\ watcher # "rebuild" => pc["watcher"] = "idle"
    /\ pc["watcher"] # "stopTaken"
    /\ run \notin {"starting", "stopping"} => pc["main"] = "idle"
    /\ run = "starting" => pc["main"] # "stopTaken"
    /\ run = "stopping" => pc["main"] \in {"idle", "stopTaken"}

\* Who begins to build has no next generation yet, and the configuration that
\* was loaded first is used up by the first build.
BuildSound ==
    /\ \A c \in Callers : pc[c] \in {"idle", "build", "stopTaken"} => next[c] = Nil
    /\ run # "init" => pc["main"] = "build" \/ ~useInitial

\* What shutdown has done: the watcher is waited for, and without it nobody
\* makes a generation current again.
ShutdownOrder ==
    run \in {"stopManager", "stopping", "returned"} =>
        /\ timedOut \/ watcher \in {"off", "done"}
        /\ watcher # "off" => ~client
        /\ run # "stopManager" => timedOut \/ current = Nil

\* No command is newer than the configuration; one that was accepted names the
\* current generation until Run stops it.
CommandsSound ==
    /\ \A i \in 1..Len(commands) : commands[i].config <= config
    /\ watcher \in {"accept", "begin", "rebuild"} =>
          handling \in Command /\ handling.config <= config
    /\ (watcher = "begin" /\ handling.target # Any) =>
          handling.target = EffectiveId(current) \/ (current = Nil /\ timedOut)

IndInv ==
    /\ TypeOK /\ M!IndInv /\ ProgramOrder /\ BuildSound /\ ShutdownOrder
    /\ CommandsSound /\ TargetIsReplaced /\ RebuildSeesConfig

-----------------------------------------------------------------------------
(* The manager inside the process *)

\* The two goroutines and the generations are as the manager's proofs assume.
LEMMA ManagerAssumptions == M!CallersAssumption /\ M!GensAssumption
  BY GensAssumption DEF M!CallersAssumption, M!GensAssumption

\* The manager that the process runs is the one that the proofs are about.
LEMMA SameManager ==
  /\ Manager!Init => M!Init
  /\ \A c \in Callers : Manager!RebuildBegin(c) => M!RebuildBegin(c)
  /\ \A c \in Callers : Manager!StopTake(c) => M!StopTake(c)
  /\ \A c \in Callers : Manager!Turn(c) => M!Turn(c)
  <1>2. Manager!Init => M!Init
    BY DEF Manager!Init, M!Init
  <1>3. ASSUME NEW c \in Callers
        PROVE  /\ Manager!RebuildBegin(c) => M!RebuildBegin(c)
               /\ Manager!StopTake(c) => M!StopTake(c)
    BY DEF Manager!RebuildBegin, M!RebuildBegin, Manager!StopTake, M!StopTake,
      Manager!recordLocked, M!recordLocked, Manager!Stopping, M!Stopping
  <1>4. ASSUME NEW c \in Callers
        PROVE  Manager!Turn(c) => M!Turn(c)
    BY DEF Manager!Turn, M!Turn, Manager!BuildFails, M!BuildFails, Manager!BuildNext, M!BuildNext,
      Manager!StopOld, M!StopOld, Manager!StopOldFails, M!StopOldFails,
      Manager!StartNext, M!StartNext, Manager!StartNextFails,
      M!StartNextFails, Manager!StopTaken, M!StopTaken, Manager!Return,
      M!Return, Manager!recordLocked, M!recordLocked, Manager!Stopping,
      M!Stopping, Manager!Stopped, M!Stopped
  <1> QED BY <1>2, <1>3, <1>4

\* What the process does to the manager preserves the manager's invariant.
LEMMA ManagerPreserved ==
  ASSUME M!IndInv, NEW c \in Callers,
         \/ Manager!RebuildBegin(c) \/ Manager!StopTake(c) \/ Manager!Turn(c)
         \/ UNCHANGED managerVars
  PROVE  M!IndInv' /\ Manager!TypeOK'
  <1>1. M!Next \/ UNCHANGED M!vars
    BY SameManager DEF M!Next, M!vars, managerVars
  <1>2. M!IndInv'
    BY <1>1, ManagerAssumptions, M!StepIndInv
  <1>3. M!TypeOK' => Manager!TypeOK'
    BY DEF Manager!TypeOK, M!TypeOK, Manager!StatusRecord, M!StatusRecord, Manager!Phases, M!Phases
  <1> QED BY <1>2, <1>3 DEF M!IndInv

\* A turn inside Rebuild or Stop: whom it moves, and when it ends.
LEMMA TurnEffect ==
  ASSUME M!TypeOK, NEW c \in Callers, Manager!Turn(c)
  PROVE  /\ pc[c] # "idle"
         /\ pc[c] = "build" => pc'[c] \in {"idle", "stopOld", "startNext"}
         /\ pc[c] = "stopOld" => pc'[c] \in {"idle", "startNext"}
         /\ pc[c] \in {"startNext", "stopTaken"} => pc'[c] = "idle"
         /\ pc[c] = "stopTaken" => current' = current
         /\ pc'[c] # "idle" => old'[c] = old[c]
         /\ pc'[c] = "idle" => next'[c] = Nil
         /\ pc[c] = "build" /\ pc'[c] # "idle" => next'[c] \in Gens
         /\ pc[c] # "build" /\ pc'[c] # "idle" => next'[c] = next[c]
         /\ \A d \in Callers \ {c} : pc'[d] = pc[d] /\ old'[d] = old[d] /\ next'[d] = next[d]
  <1> USE SameManager DEF M!TypeOK, M!Return, M!recordLocked
  <1>1. CASE M!BuildFails(c)
    BY <1>1 DEF M!BuildFails
  <1>2. CASE M!BuildNext(c)
    BY <1>2 DEF M!BuildNext
  <1>3. CASE M!StopOld(c)
    BY <1>3 DEF M!StopOld
  <1>4. CASE M!StopOldFails(c)
    BY <1>4 DEF M!StopOldFails
  <1>5. CASE M!StartNext(c)
    BY <1>5 DEF M!StartNext
  <1>6. CASE M!StartNextFails(c)
    BY <1>6 DEF M!StartNextFails
  <1>7. CASE M!StopTaken(c)
    BY <1>7 DEF M!StopTaken
  <1>8. M!Turn(c)
    OBVIOUS
  <1> QED BY <1>1, <1>2, <1>3, <1>4, <1>5, <1>6, <1>7, <1>8 DEF M!Turn

-----------------------------------------------------------------------------
(* The steps of the process *)

\* A change of the configuration preserves the invariant.
LEMMA ChangeConfigStep ==
  ASSUME IndInv, ChangeConfig
  PROVE  IndInv'
  <1> USE MaxAssumption, AnyAssumption, GensAssumption
      DEF Callers, Channels, managerVars, runVars, watcherVars, adminVars,
          ChangeConfig
  <1>0. config \in Nat /\ config' = config + 1 /\ commands \in Seq(Command)
    BY DEF IndInv, TypeOK, ChangeConfig
  <1>1. M!IndInv' /\ Manager!TypeOK'
    BY ManagerPreserved DEF IndInv
  <1>2. TypeOK'
    BY <1>1 DEF IndInv, TypeOK
  <1>3. ProgramOrder'
    BY DEF IndInv, ProgramOrder
  <1>4. BuildSound'
    BY DEF IndInv, BuildSound
  <1>5. ShutdownOrder'
    BY DEF IndInv, TypeOK, ShutdownOrder, ProgramOrder
  <1>6. CommandsSound'
    <2>1. \A i \in 1..Len(commands) : commands[i].config \in Nat
      <3>1. \A i \in 1..Len(commands) : commands[i] \in Command
        BY <1>0
      <3>2. \A m \in Command : m.config \in Nat
        BY DEF Command
      <3> QED BY <3>1, <3>2
    <2>2. \A x \in Nat : x <= config => x <= config'
      BY <1>0
    <2>3. handling \in Command => handling.config \in Nat
      BY DEF Command
    <2> QED BY <2>1, <2>2, <2>3 DEF IndInv, CommandsSound, EffectiveId, ChangeConfig
  <1>7. TargetIsReplaced'
    BY DEF IndInv, ProgramOrder, TargetIsReplaced, EffectiveId
  <1>8. RebuildSeesConfig'
    BY DEF IndInv, ProgramOrder, RebuildSeesConfig
  <1> QED BY <1>1, <1>2, <1>3, <1>4, <1>5, <1>6, <1>7, <1>8 DEF IndInv

\* A command that is published preserves the invariant.
LEMMA PublishStep ==
  ASSUME IndInv, NEW via \in Channels, NEW target \in Ids \cup {Any}, NEW rebuild \in BOOLEAN,
         Publish(via, target, rebuild)
  PROVE  IndInv'
  <1> USE MaxAssumption, AnyAssumption, GensAssumption
      DEF Callers, Channels, managerVars, runVars, watcherVars, adminVars
  <1> DEFINE command == [target |-> target, rebuild |-> rebuild, config |-> config]
  <1>1. M!IndInv' /\ Manager!TypeOK'
    BY ManagerPreserved DEF IndInv, Publish
  <1>2. command \in Command /\ command.config = config /\ config \in Nat /\ commands \in Seq(Command)
    BY DEF IndInv, TypeOK, Command
  <1>3. commands' = Append(commands, command) \/ commands' = commands
    BY DEF Publish
  <1> HIDE DEF command
  <1>4. commands' \in Seq(Command)
    BY <1>2, <1>3
  <1>5. \A i \in 1..Len(commands') : commands'[i].config <= config
    BY <1>2, <1>3 DEF IndInv, CommandsSound
  <1>6. TypeOK'
    BY <1>1, <1>4 DEF IndInv, TypeOK, Publish
  <1>7. CommandsSound'
    BY <1>5 DEF IndInv, CommandsSound, EffectiveId, Publish
  <1>8. ProgramOrder' /\ BuildSound' /\ ShutdownOrder'
    BY DEF IndInv, ProgramOrder, BuildSound, ShutdownOrder, Publish
  <1>9. TargetIsReplaced' /\ RebuildSeesConfig'
    BY DEF IndInv, TargetIsReplaced, EffectiveId, RebuildSeesConfig, Publish
  <1> QED BY <1>1, <1>6, <1>7, <1>8, <1>9 DEF IndInv

\* A watch of the command store that ends preserves the invariant.
LEMMA CommandWatchEndsStep ==
  ASSUME IndInv, NEW via \in Channels, CommandWatchEnds(via)
  PROVE  IndInv'
  <1> USE MaxAssumption, AnyAssumption, GensAssumption
      DEF Callers, Channels, managerVars, runVars, watcherVars, adminVars,
          CommandWatchEnds
  <1>1. M!IndInv' /\ Manager!TypeOK'
    BY ManagerPreserved DEF IndInv
  <1>2. TypeOK'
    BY <1>1 DEF IndInv, TypeOK
  <1>3. ProgramOrder'
    BY DEF IndInv, ProgramOrder
  <1>4. BuildSound'
    BY DEF IndInv, BuildSound
  <1>5. ShutdownOrder'
    BY DEF IndInv, TypeOK, ShutdownOrder, ProgramOrder
  <1>6. CommandsSound'
    BY DEF IndInv, CommandsSound, EffectiveId
  <1>7. TargetIsReplaced'
    BY DEF IndInv, ProgramOrder, TargetIsReplaced, EffectiveId
  <1>8. RebuildSeesConfig'
    BY DEF IndInv, ProgramOrder, RebuildSeesConfig
  <1> QED BY <1>1, <1>2, <1>3, <1>4, <1>5, <1>6, <1>7, <1>8 DEF IndInv

\* The steps of Run that leave the manager alone preserve the invariant.
LEMMA RunAloneStep ==
  ASSUME IndInv, \/ Started \/ ControlStart \/ ControlDisabled \/ ControlFails \/ ControlStartFails
                 \/ Shutdown \/ WatcherStopped \/ ControlStopTimesOut \/ RunReturns
  PROVE  IndInv'
  <1> USE MaxAssumption, AnyAssumption, GensAssumption
      DEF Callers, Channels, managerVars, runVars, watcherVars, adminVars,
          Started, ControlStart, ControlDisabled, ControlFails,
          ControlStartFails, Shutdown, WatcherStopped, ControlStopTimesOut, RunReturns
  <1>1. M!IndInv' /\ Manager!TypeOK'
    BY ManagerPreserved DEF IndInv
  <1>2. TypeOK'
    BY <1>1 DEF IndInv, TypeOK
  <1>3. ProgramOrder'
    BY DEF IndInv, ProgramOrder
  <1>4. BuildSound'
    BY DEF IndInv, BuildSound
  <1>5. ShutdownOrder'
    BY DEF IndInv, TypeOK, ShutdownOrder, ProgramOrder
  <1>6. CommandsSound'
    BY DEF IndInv, CommandsSound, EffectiveId
  <1>7. TargetIsReplaced'
    BY DEF IndInv, ProgramOrder, TargetIsReplaced, EffectiveId
  <1>8. RebuildSeesConfig'
    BY DEF IndInv, ProgramOrder, RebuildSeesConfig
  <1> QED BY <1>1, <1>2, <1>3, <1>4, <1>5, <1>6, <1>7, <1>8 DEF IndInv

\* The end of a rebuild for a command, and of the watcher, preserve the invariant.
LEMMA WatcherAloneStep ==
  ASSUME IndInv, HandleEnd \/ WatcherEnds
  PROVE  IndInv'
  <1> USE MaxAssumption, AnyAssumption, GensAssumption
      DEF Callers, Channels, managerVars, runVars, watcherVars, adminVars,
          HandleEnd, WatcherEnds
  <1>1. M!IndInv' /\ Manager!TypeOK'
    BY ManagerPreserved DEF IndInv
  <1>2. TypeOK'
    BY <1>1 DEF IndInv, TypeOK
  <1>3. ProgramOrder'
    BY DEF IndInv, ProgramOrder
  <1>4. BuildSound'
    BY DEF IndInv, BuildSound
  <1>5. ShutdownOrder'
    BY DEF IndInv, TypeOK, ShutdownOrder, ProgramOrder
  <1>6. CommandsSound'
    BY DEF IndInv, CommandsSound, EffectiveId
  <1>7. TargetIsReplaced'
    BY DEF IndInv, ProgramOrder, TargetIsReplaced, EffectiveId
  <1>8. RebuildSeesConfig'
    BY DEF IndInv, ProgramOrder, RebuildSeesConfig
  <1> QED BY <1>1, <1>2, <1>3, <1>4, <1>5, <1>6, <1>7, <1>8 DEF IndInv

\* Accepting a command or not preserves the invariant: it names the current generation.
LEMMA AcceptStep ==
  ASSUME IndInv, Accept
  PROVE  IndInv'
  <1> USE MaxAssumption, AnyAssumption, GensAssumption
      DEF Callers, Channels, managerVars, runVars, watcherVars, adminVars,
          Accept, accept, EffectiveId
  <1>1. M!IndInv' /\ Manager!TypeOK'
    BY ManagerPreserved DEF IndInv
  <1>2. TypeOK'
    BY <1>1 DEF IndInv, TypeOK
  <1>3. ProgramOrder'
    BY DEF IndInv, ProgramOrder
  <1>4. BuildSound'
    BY DEF IndInv, BuildSound
  <1>5. ShutdownOrder'
    BY DEF IndInv, TypeOK, ShutdownOrder, ProgramOrder
  <1>6. CommandsSound'
    BY DEF IndInv, TypeOK, CommandsSound, Accept, accept, EffectiveId, Command
  <1>7. TargetIsReplaced'
    BY DEF IndInv, ProgramOrder, TargetIsReplaced, EffectiveId
  <1>8. RebuildSeesConfig'
    BY DEF IndInv, ProgramOrder, RebuildSeesConfig
  <1> QED BY <1>1, <1>2, <1>3, <1>4, <1>5, <1>6, <1>7, <1>8 DEF IndInv

\* Taking a command preserves the invariant.
LEMMA TakeCommandStep ==
  ASSUME IndInv, TakeCommand
  PROVE  IndInv'
  <1> USE MaxAssumption, AnyAssumption, GensAssumption
      DEF Callers, Channels, managerVars, runVars, watcherVars, adminVars,
          TakeCommand
  <1>0. /\ commands \in Seq(Command) /\ Len(commands) > 0
        /\ commands' \in Seq(Command) /\ handling' \in Command
        /\ handling' = commands[1]
        /\ \A i \in 1..Len(commands') : i + 1 \in 1..Len(commands) /\ commands'[i] = commands[i + 1]
    <2>1. commands \in Seq(Command) /\ commands # <<>>
      BY DEF IndInv, TypeOK, TakeCommand
    <2> HIDE DEF Command
    <2> QED BY <2>1 DEF TakeCommand
  <1>1. M!IndInv' /\ Manager!TypeOK'
    BY ManagerPreserved DEF IndInv
  <1>2. TypeOK'
    BY <1>0, <1>1 DEF IndInv, TypeOK, TakeCommand
  <1>3. ProgramOrder'
    BY DEF IndInv, ProgramOrder
  <1>4. BuildSound'
    BY DEF IndInv, BuildSound
  <1>5. ShutdownOrder'
    BY DEF IndInv, TypeOK, ShutdownOrder, ProgramOrder
  <1>6. CommandsSound'
    BY <1>0 DEF IndInv, CommandsSound, EffectiveId, TakeCommand
  <1>7. TargetIsReplaced'
    BY DEF IndInv, ProgramOrder, TargetIsReplaced, EffectiveId
  <1>8. RebuildSeesConfig'
    BY DEF IndInv, ProgramOrder, RebuildSeesConfig
  <1> QED BY <1>1, <1>2, <1>3, <1>4, <1>5, <1>6, <1>7, <1>8 DEF IndInv

-----------------------------------------------------------------------------
(* The steps that use the manager *)

\* Run's first rebuild begins: the watcher is not there yet.
LEMMA RunBeginStep ==
  ASSUME IndInv, RunBegin
  PROVE  IndInv'
  <1> USE MaxAssumption, AnyAssumption, GensAssumption
      DEF Callers, Channels, managerVars, runVars, watcherVars, adminVars
  <1>1. M!IndInv' /\ Manager!TypeOK'
    BY ManagerPreserved DEF IndInv, RunBegin
  <1>2. /\ M!RebuildBegin("main") /\ M!TypeOK
        /\ run = "init" /\ run' = "starting" /\ watcher = "off" /\ pc["watcher"] = "idle"
    BY SameManager DEF IndInv, ProgramOrder, RunBegin, M!IndInv
  <1>3. /\ pc'["main"] = "build" /\ pc'["watcher"] = "idle" /\ next' = next
    BY <1>2 DEF M!RebuildBegin, M!TypeOK
  <1>4. TypeOK'
    BY <1>1 DEF IndInv, TypeOK, RunBegin
  <1>5. ProgramOrder' /\ BuildSound' /\ ShutdownOrder'
    BY <1>2, <1>3 DEF IndInv, ProgramOrder, BuildSound, ShutdownOrder, RunBegin
  <1>6. CommandsSound' /\ TargetIsReplaced' /\ RebuildSeesConfig'
    BY <1>2, <1>3 DEF IndInv, CommandsSound, TargetIsReplaced, EffectiveId, RebuildSeesConfig, RunBegin
  <1> QED BY <1>1, <1>4, <1>5, <1>6 DEF IndInv

\* Run's Stop takes the current generation: only a watcher that was given up
\* on may still be about to rebuild.
LEMMA StopManagerStep ==
  ASSUME IndInv, StopManager
  PROVE  IndInv'
  <1> USE MaxAssumption, AnyAssumption, GensAssumption
      DEF Callers, Channels, managerVars, runVars, watcherVars, adminVars
  <1>1. M!IndInv' /\ Manager!TypeOK'
    BY ManagerPreserved DEF IndInv, StopManager
  <1>2. /\ M!StopTake("main") /\ M!TypeOK
        /\ run = "stopManager" /\ run' = "stopping" /\ pc["main"] = "idle"
        /\ timedOut \/ watcher \in {"off", "done"}
    BY SameManager DEF IndInv, ProgramOrder, ShutdownOrder, StopManager, M!IndInv
  <1>3. /\ pc'["main"] \in {"idle", "stopTaken"} /\ current' = Nil /\ next' = next
        /\ pc'["watcher"] = pc["watcher"] /\ old'["watcher"] = old["watcher"]
    BY <1>2 DEF M!StopTake, M!TypeOK
  <1>4. TypeOK'
    BY <1>1 DEF IndInv, TypeOK, StopManager
  <1>5. ProgramOrder' /\ BuildSound' /\ ShutdownOrder'
    BY <1>2, <1>3 DEF IndInv, ProgramOrder, BuildSound, ShutdownOrder, StopManager
  <1>6. CommandsSound'
    BY <1>2, <1>3 DEF IndInv, CommandsSound, EffectiveId, StopManager
  <1>7. TargetIsReplaced' /\ RebuildSeesConfig'
    BY <1>2, <1>3 DEF IndInv, TargetIsReplaced, EffectiveId, RebuildSeesConfig, StopManager
  <1> QED BY <1>1, <1>4, <1>5, <1>6, <1>7 DEF IndInv

\* The watcher's rebuild begins, with the generation that is current now.
LEMMA HandleBeginStep ==
  ASSUME IndInv, HandleBegin
  PROVE  IndInv'
  <1> USE MaxAssumption, AnyAssumption, GensAssumption
      DEF Callers, Channels, managerVars, runVars, watcherVars, adminVars
  <1>1. M!IndInv' /\ Manager!TypeOK'
    BY ManagerPreserved DEF IndInv, HandleBegin
  <1>2. /\ M!RebuildBegin("watcher") /\ M!TypeOK
        /\ watcher = "begin" /\ watcher' = "rebuild" /\ run \notin {"init", "starting", "control"}
    BY SameManager DEF IndInv, ProgramOrder, HandleBegin, M!IndInv
  <1>3. /\ pc'["watcher"] = "build" /\ old'["watcher"] = current /\ current' = current
        /\ pc'["main"] = pc["main"] /\ next' = next /\ pc["watcher"] = "idle"
    BY <1>2 DEF M!RebuildBegin, M!TypeOK
  <1>4. TypeOK'
    BY <1>1 DEF IndInv, TypeOK, HandleBegin
  <1>5. ProgramOrder' /\ BuildSound' /\ ShutdownOrder'
    BY <1>2, <1>3 DEF IndInv, ProgramOrder, BuildSound, ShutdownOrder, HandleBegin
  <1>6. CommandsSound'
    BY <1>2, <1>3 DEF IndInv, CommandsSound, EffectiveId, HandleBegin
  <1>7. TargetIsReplaced' /\ RebuildSeesConfig'
    BY <1>2, <1>3 DEF IndInv, CommandsSound, TargetIsReplaced, EffectiveId, RebuildSeesConfig, HandleBegin
  <1> QED BY <1>1, <1>4, <1>5, <1>6, <1>7 DEF IndInv

\* A turn of a goroutine that is inside Rebuild or Stop.
LEMMA ManagerTurnStep ==
  ASSUME IndInv, NEW c \in Callers, ManagerTurn(c)
  PROVE  IndInv'
  <1> USE MaxAssumption, AnyAssumption, GensAssumption
      DEF Callers, Channels, managerVars, runVars, watcherVars, adminVars
  <1>1. M!IndInv' /\ Manager!TypeOK'
    BY ManagerPreserved DEF IndInv, ManagerTurn
  <1>2. M!TypeOK /\ Manager!Turn(c)
    BY DEF IndInv, M!IndInv, ManagerTurn
  <1>3. /\ useInitial' = (useInitial /\ pc[c] # "build")
        /\ UNCHANGED <<run, initial, client, timedOut, watcher, commands, handling, cancelled,
                       watches, config, published, identity>>
    BY DEF ManagerTurn, Build
  <1>4. loaded' = IF next'[c] # next[c] /\ next'[c] # Nil
                  THEN [loaded EXCEPT ![next'[c]] = IF useInitial THEN initial ELSE config]
                  ELSE loaded
    BY DEF ManagerTurn, Build
  <1>5. next'[c] \in Gens \cup {Nil} /\ next[c] \in Gens \cup {Nil}
    BY <1>1, <1>2 DEF Manager!TypeOK, M!TypeOK
  <1>6. TypeOK'
    <2>1. useInitial' \in BOOLEAN
      BY <1>3 DEF IndInv, TypeOK
    <2>2. loaded' \in [Gens -> 0..MaxConfig]
      BY <1>4, <1>5 DEF IndInv, TypeOK
    <2> QED BY <1>1, <1>3, <2>1, <2>2 DEF IndInv, TypeOK
  <1>7. ProgramOrder'
    BY <1>2, <1>3, TurnEffect DEF IndInv, ProgramOrder, M!TypeOK
  <1>8. BuildSound'
    <2>1. \A d \in Callers : pc'[d] \in {"idle", "build", "stopTaken"} => next'[d] = Nil
      BY <1>2, TurnEffect DEF IndInv, BuildSound, M!TypeOK
    <2>2. run' # "init" => pc'["main"] = "build" \/ ~useInitial'
      BY <1>2, <1>3, TurnEffect DEF IndInv, BuildSound
    <2> QED BY <2>1, <2>2 DEF BuildSound
  <1>9. ShutdownOrder'
    <2>1. CASE c = "main"
      BY <1>2, <1>3, <2>1, TurnEffect DEF IndInv, ProgramOrder, ShutdownOrder
    <2>2. CASE c = "watcher"
      BY <1>2, <1>3, <2>2, TurnEffect DEF IndInv, ProgramOrder, ShutdownOrder
    <2> QED BY <2>1, <2>2
  <1>10. CommandsSound'
    <2>1. CASE c = "main"
      BY <1>2, <1>3, <2>1, TurnEffect DEF IndInv, ProgramOrder, CommandsSound, EffectiveId
    <2>2. CASE c = "watcher"
      BY <1>2, <1>3, <2>2, TurnEffect DEF IndInv, ProgramOrder, CommandsSound, EffectiveId
    <2> QED BY <2>1, <2>2
  <1>11. TargetIsReplaced'
    BY <1>2, <1>3, TurnEffect DEF IndInv, TargetIsReplaced, EffectiveId
  <1>12. RebuildSeesConfig'
    <2> SUFFICES ASSUME pc'["watcher"] \in {"stopOld", "startNext"}
                 PROVE  loaded'[next'["watcher"]] >= handling'.config
      BY DEF RebuildSeesConfig
    <2>1. watcher = "rebuild" /\ run \notin {"init", "starting", "control"}
      BY <1>2, <1>3, TurnEffect DEF IndInv, ProgramOrder, M!TypeOK
    <2>2. pc["main"] # "build" /\ ~useInitial
      BY <2>1 DEF IndInv, ProgramOrder, BuildSound
    <2>3. ASSUME pc[c] # "build" PROVE loaded' = loaded
      BY <1>2, <1>4, <2>3, TurnEffect
    <2>4. CASE c = "watcher" /\ pc[c] = "build"
      <3>1. next[c] = Nil /\ next'[c] \in Gens
        BY <1>2, <2>4, TurnEffect DEF IndInv, BuildSound
      <3>2. loaded'[next'[c]] = config
        BY <1>4, <2>2, <3>1 DEF IndInv, TypeOK
      <3>3. handling.config <= config /\ handling.config \in Nat /\ config \in Nat
        BY <2>1 DEF IndInv, TypeOK, CommandsSound, Command
      <3> QED BY <1>3, <2>4, <3>2, <3>3
    <2>5. CASE c = "watcher" /\ pc[c] # "build"
      BY <1>2, <1>3, <2>3, <2>5, TurnEffect DEF IndInv, RebuildSeesConfig, M!TypeOK
    <2>6. CASE c = "main"
      BY <1>2, <1>3, <2>2, <2>3, <2>6, TurnEffect DEF IndInv, RebuildSeesConfig
    <2> QED BY <2>4, <2>5, <2>6
  <1> QED BY <1>1, <1>6, <1>7, <1>8, <1>9, <1>10, <1>11, <1>12 DEF IndInv

-----------------------------------------------------------------------------
\* The process begins in a state that satisfies the inductive invariant.
LEMMA InitIndInv == Init => IndInv
  <1> SUFFICES ASSUME Init PROVE IndInv
    OBVIOUS
  <1> USE MaxAssumption, GensAssumption DEF Init, Callers
  <1>1. M!IndInv
    BY SameManager, ManagerAssumptions, M!InitIndInv
  <1>2. /\ pc["main"] = "idle" /\ pc["watcher"] = "idle" /\ current = Nil
        /\ \A c \in Callers : next[c] = Nil
    BY DEF Manager!Init
  <1>3. TypeOK
    <2>1. Manager!TypeOK
      BY DEF Manager!Init, Manager!TypeOK, Manager!StatusRecord, Manager!Phases
    <2>2. commands \in Seq(Command)
      OBVIOUS
    <2>3. /\ useInitial \in BOOLEAN /\ cancelled \in BOOLEAN
          /\ client \in BOOLEAN /\ timedOut \in BOOLEAN
      OBVIOUS
    <2>4. config \in 0..MaxConfig /\ initial \in 0..MaxConfig /\ published \in 0..MaxCommands
      OBVIOUS
    <2> QED BY <2>1, <2>2, <2>3, <2>4 DEF TypeOK, Channels
  <1>4. ProgramOrder /\ BuildSound /\ ShutdownOrder
    BY <1>2 DEF ProgramOrder, BuildSound, ShutdownOrder
  <1>5. CommandsSound /\ TargetIsReplaced /\ RebuildSeesConfig
    BY <1>2 DEF CommandsSound, TargetIsReplaced, EffectiveId, RebuildSeesConfig
  <1> QED BY <1>1, <1>3, <1>4, <1>5 DEF IndInv

\* Stuttering preserves the inductive invariant.
LEMMA StutterStep ==
  ASSUME IndInv, UNCHANGED vars
  PROVE  IndInv'
  <1> USE DEF vars, managerVars, runVars, watcherVars, adminVars
  <1>1. M!IndInv' /\ Manager!TypeOK'
    BY ManagerPreserved DEF IndInv, Callers
  <1>2. TypeOK'
    BY <1>1 DEF IndInv, TypeOK
  <1>3. ProgramOrder' /\ BuildSound' /\ ShutdownOrder'
    BY DEF IndInv, ProgramOrder, BuildSound, ShutdownOrder
  <1>4. CommandsSound' /\ TargetIsReplaced' /\ RebuildSeesConfig'
    BY DEF IndInv, CommandsSound, TargetIsReplaced, EffectiveId, RebuildSeesConfig
  <1> QED BY <1>1, <1>2, <1>3, <1>4 DEF IndInv

\* Every step of the process, and stuttering, preserves the inductive invariant.
LEMMA StepIndInv == IndInv /\ [Next]_vars => IndInv'
  <1> SUFFICES ASSUME IndInv, [Next]_vars PROVE IndInv'
    OBVIOUS
  <1>1. CASE Admin
    BY <1>1, ChangeConfigStep, PublishStep, CommandWatchEndsStep DEF Admin
  <1>2. CASE RunBegin \/ Shutdown \/ RunStep
    BY <1>2, RunBeginStep, RunAloneStep, StopManagerStep DEF RunStep
  <1>3. CASE WatcherStep
    BY <1>3, TakeCommandStep, AcceptStep, HandleBeginStep, WatcherAloneStep DEF WatcherStep
  <1>4. ASSUME NEW c \in Callers, ManagerTurn(c) PROVE IndInv'
    BY <1>4, ManagerTurnStep
  <1>5. CASE UNCHANGED vars
    BY <1>5, StutterStep
  <1> QED BY <1>1, <1>2, <1>3, <1>4, <1>5 DEF Next

(***************************************************************************)
(* Type correctness of the process: Run, the watcher, the commands on      *)
(* their way and the manager.                                              *)
(***************************************************************************)
THEOREM TypeCorrect == Spec => []TypeOK
  <1>1. IndInv => TypeOK
    BY DEF IndInv
  <1> QED BY <1>1, InitIndInv, StepIndInv, PTL DEF Spec

(***************************************************************************)
(* The process uses the manager as its specification allows: every step of *)
(* Run and of the watcher is a step of the manager or leaves it alone, so  *)
(* what is proved of the manager holds in the process.                     *)
(***************************************************************************)
THEOREM UsesManager == Spec => M!Init /\ [][M!Next]_(M!vars)
  <1>1. Init => M!Init
    BY SameManager DEF Init
  <1>2. [Next]_vars => [M!Next]_(M!vars)
    <2> SUFFICES ASSUME Next PROVE M!Next \/ UNCHANGED M!vars
      BY DEF vars, managerVars, M!vars
    <2> USE SameManager DEF M!Next, M!vars, managerVars, Callers
    <2>1. CASE Admin
      BY <2>1 DEF Admin, ChangeConfig, Publish, CommandWatchEnds
    <2>2. CASE RunBegin \/ Shutdown
      BY <2>2 DEF RunBegin, Shutdown
    <2>3. CASE RunStep
      BY <2>3 DEF RunStep, Started, ControlStart, ControlDisabled, ControlFails, ControlStartFails,
                  WatcherStopped, ControlStopTimesOut, StopManager, RunReturns
    <2>4. CASE WatcherStep
      BY <2>4 DEF WatcherStep, TakeCommand, Accept, HandleBegin, HandleEnd, WatcherEnds
    <2>5. ASSUME NEW c \in Callers, ManagerTurn(c) PROVE M!Next
      BY <2>5 DEF ManagerTurn
    <2> QED BY <2>1, <2>2, <2>3, <2>4, <2>5 DEF Next
  <1> QED BY <1>1, <1>2, PTL DEF Spec

(***************************************************************************)
(* When Run has returned and control.Stop did not time out, no generation  *)
(* is active, the watcher is not there to start one, and the etcd client   *)
(* of a watcher that ran is closed: whatever rebuilds were under way when  *)
(* the shutdown began, and however they ended.                             *)
(***************************************************************************)
THEOREM ShutdownIsClean == Spec => []CleanShutdown
  <1>1. IndInv => CleanShutdown
    <2> SUFFICES ASSUME IndInv, run = "returned", ~timedOut
                 PROVE  /\ \A g \in Gens : plane[g] \notin {"starting", "up", "stopping"}
                        /\ watcher \in {"off", "done"}
                        /\ watcher = "done" => ~client
      BY DEF CleanShutdown
    <2>1. /\ watcher \in {"off", "done"} /\ (watcher = "done" => ~client) /\ current = Nil
          /\ pc["main"] = "idle" /\ pc["watcher"] = "idle"
      BY DEF IndInv, ShutdownOrder, ProgramOrder
    <2>2. \A c \in Callers : pc[c] = "idle"
      BY <2>1 DEF Callers
    <2>3. \A g \in Gens : plane[g] \notin {"starting", "up", "stopping"}
      BY <2>1, <2>2, GensAssumption DEF IndInv, M!IndInv, M!NoOrphanGeneration
    <2> QED BY <2>1, <2>3
  <1> QED BY <1>1, InitIndInv, StepIndInv, PTL DEF Spec

(***************************************************************************)
(* A command that names an instance replaces that instance and no other,   *)
(* though its identity is read before the rebuild takes the lock; only if  *)
(* control.Stop has timed out may Run have stopped it in between.          *)
(***************************************************************************)
THEOREM CommandsHitTarget == Spec => []TargetIsReplaced
  <1>1. IndInv => TargetIsReplaced
    BY DEF IndInv
  <1> QED BY <1>1, InitIndInv, StepIndInv, PTL DEF Spec

(***************************************************************************)
(* What a command's rebuild builds is at least as new as the configuration *)
(* was when the command was published: the configuration that Run loaded   *)
(* first is never used for it.                                             *)
(***************************************************************************)
THEOREM RebuildsAreFresh == Spec => []RebuildSeesConfig
  <1>1. IndInv => RebuildSeesConfig
    BY DEF IndInv
  <1> QED BY <1>1, InitIndInv, StepIndInv, PTL DEF Spec

-----------------------------------------------------------------------------
(***************************************************************************)
(* The numbers of the generations (module GenerationSequence), for any     *)
(* goroutines that build and any behaviour of the clock.                   *)
(***************************************************************************)

\* The initial counter satisfies the inductive invariant.
LEMMA NumbersInit == SequenceInit => SequenceIndInv
  BY DEF SequenceInit, SequenceIndInv, SequenceTypeOK, CounterIsBound

\* A number about to be issued lies above the value the caller loaded.
LEMMA CandidateAbove ==
  ASSUME SequenceTypeOK, NEW c \in Builders
  PROVE  Candidate(c) \in Nat /\ last[c] < Candidate(c)
  BY DEF SequenceTypeOK, Candidate

\* Every step of a caller preserves the inductive invariant.
LEMMA NumbersNext == SequenceIndInv /\ [SequenceNext]_sequenceVars => SequenceIndInv'
  <1> SUFFICES ASSUME SequenceIndInv, [SequenceNext]_sequenceVars PROVE SequenceIndInv'
    OBVIOUS
  <1> USE ClockAssumption, MaxSequenceAssumption DEF SequenceIndInv
  <1>1. ASSUME NEW c \in Builders, Call(c) PROVE SequenceIndInv'
    BY <1>1 DEF Call, SequenceTypeOK, CounterIsBound
  <1>2. ASSUME NEW c \in Builders, Load(c) PROVE SequenceIndInv'
    BY <1>2 DEF Load, SequenceTypeOK, CounterIsBound
  <1>3. ASSUME NEW c \in Builders, Swap(c) PROVE SequenceIndInv'
    <2>1. Candidate(c) \in Nat /\ generationSequence < Candidate(c)
      BY <1>3, CandidateAbove DEF Swap
    <2>2. SequenceTypeOK'
      BY <1>3, <2>1 DEF Swap, SequenceTypeOK
    <2>3. CounterIsBound'
      BY <1>3, <2>1 DEF Swap, SequenceTypeOK, CounterIsBound
    <2> QED BY <2>2, <2>3
  <1>4. ASSUME NEW c \in Builders, Retry(c) PROVE SequenceIndInv'
    BY <1>4 DEF Retry, SequenceTypeOK, CounterIsBound
  <1>5. CASE UNCHANGED sequenceVars
    BY <1>5 DEF sequenceVars, SequenceTypeOK, CounterIsBound
  <1> QED BY <1>1, <1>2, <1>3, <1>4, <1>5 DEF SequenceNext, SequenceStep

\* A step that returns a number is a successful CompareAndSwap of that caller.
LEMMA ReturnIsSwap ==
  ASSUME SequenceIndInv, [SequenceNext]_sequenceVars, NEW c \in Builders, building[c] = "swap", building'[c] = "idle"
  PROVE  Swap(c)
  BY DEF SequenceIndInv, SequenceTypeOK, SequenceNext, SequenceStep, Call, Load, Swap, Retry, sequenceVars

(***************************************************************************)
(* Two generations of one process never get the same number, even when     *)
(* their builders read the same clock.                                     *)
(***************************************************************************)
THEOREM UniqueNumbers == SequenceSpec => NumbersAreUnique
  <1>1. SequenceIndInv /\ [SequenceNext]_sequenceVars =>
          [\A c \in Builders : (building[c] = "swap" /\ building'[c] = "idle") =>
              Candidate(c) \notin issued]_sequenceVars
    BY ReturnIsSwap, CandidateAbove DEF Swap, SequenceIndInv, CounterIsBound, SequenceTypeOK
  <1> QED BY <1>1, NumbersInit, NumbersNext, PTL DEF SequenceSpec, NumbersAreUnique

(***************************************************************************)
(* A later generation always has a larger number than the ones built       *)
(* before it, even when the clock is set back.                             *)
(***************************************************************************)
THEOREM IncreasingNumbers == SequenceSpec => NumbersFollowRealTime
  <1>1. SequenceIndInv /\ [SequenceNext]_sequenceVars =>
          [\A c \in Builders : (building[c] = "swap" /\ building'[c] = "idle") =>
              floor[c] < Candidate(c)]_sequenceVars
    BY ReturnIsSwap, CandidateAbove DEF Swap, SequenceIndInv, CounterIsBound, SequenceTypeOK
  <1> QED BY <1>1, NumbersInit, NumbersNext, PTL DEF SequenceSpec, NumbersFollowRealTime
=============================================================================
