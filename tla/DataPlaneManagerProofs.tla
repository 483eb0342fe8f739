----------------------- MODULE DataPlaneManagerProofs ------------------------
(***************************************************************************)
(* Proofs about the DataPlane manager of servicekit/dataplane.go, for any  *)
(* number of callers and generations.                                      *)
(***************************************************************************)
EXTENDS DataPlaneManager, TLAPS

\* The initial state satisfies the inductive invariant.
LEMMA InitIndInv == Init => IndInv
  BY CallersAssumption, GensAssumption
  DEF Init, IndInv, TypeOK, StatusRecord, Phases, CallersSound, TakenOnce, BuiltInOrder,
      CurrentSound, CurrentWasStarted, NoOrphanGeneration, StatusNamesCurrent

\* Taking the lock for a rebuild preserves the inductive invariant.
LEMMA RebuildBeginStep ==
  ASSUME IndInv, NEW c \in Callers, RebuildBegin(c)
  PROVE  IndInv'
  <1> USE CallersAssumption, GensAssumption DEF IndInv, TypeOK, StatusRecord, Phases, RebuildBegin
  <1>1. TypeOK'
    OBVIOUS
  <1>2. CallersSound'
    BY DEF CallersSound, NoOrphanGeneration, CurrentSound, CurrentWasStarted
  <1>3. TakenOnce'
    BY DEF TakenOnce, CallersSound
  <1>4. BuiltInOrder'
    BY DEF BuiltInOrder, CallersSound
  <1>5. CurrentSound'
    BY DEF CurrentSound, CurrentWasStarted, CallersSound
  <1>6. NoOrphanGeneration'
    BY DEF NoOrphanGeneration, CallersSound, TakenOnce
  <1>7. StatusNamesCurrent'
    BY DEF StatusNamesCurrent, CallersSound, CurrentSound, CurrentWasStarted
  <1> QED BY <1>1, <1>2, <1>3, <1>4, <1>5, <1>6, <1>7

\* A failed build preserves the inductive invariant.
LEMMA BuildFailsStep ==
  ASSUME IndInv, NEW c \in Callers, BuildFails(c)
  PROVE  IndInv'
  <1> USE CallersAssumption, GensAssumption DEF IndInv, TypeOK, StatusRecord, Phases, BuildFails, Return, recordLocked
  <1>1. TypeOK'
    OBVIOUS
  <1>2. CallersSound'
    BY DEF CallersSound, NoOrphanGeneration, CurrentSound, CurrentWasStarted
  <1>3. TakenOnce'
    BY DEF TakenOnce, CallersSound
  <1>4. BuiltInOrder'
    BY DEF BuiltInOrder, CallersSound
  <1>5. CurrentSound'
    BY DEF CurrentSound, CurrentWasStarted, CallersSound
  <1>6. NoOrphanGeneration'
    BY DEF NoOrphanGeneration, CallersSound, TakenOnce
  <1>7. StatusNamesCurrent'
    BY DEF StatusNamesCurrent, CallersSound, CurrentSound, CurrentWasStarted
  <1> QED BY <1>1, <1>2, <1>3, <1>4, <1>5, <1>6, <1>7

\* Building the next generation preserves the inductive invariant.
LEMMA BuildNextStep ==
  ASSUME IndInv, NEW c \in Callers, BuildNext(c)
  PROVE  IndInv'
  <1> USE CallersAssumption, GensAssumption DEF IndInv, TypeOK, StatusRecord, Phases, BuildNext, Stopping
  <1>a. PICK n \in Gens :
          /\ plane[n] = "absent"
          /\ \A g \in Gens : g < n => plane[g] # "absent"
          /\ next' = [next EXCEPT ![c] = n]
          /\ plane' = IF old[c] = Nil
                      THEN [plane EXCEPT ![n] = "starting"]
                      ELSE [plane EXCEPT ![n] = "built", ![old[c]] = Stopping(old[c])]
    OBVIOUS
  <1>b. mu = c /\ old[c] = current /\ (current # Nil => plane[current] \in {"up", "stuck"})
    BY DEF CallersSound, CurrentSound, CurrentWasStarted
  <1>c. \A d \in Callers : d # c =>
          pc[d] \notin {"build", "stopOld", "startNext"} /\ pc'[d] = pc[d] /\ next'[d] = next[d]
    BY <1>a, <1>b
  <1>1. TypeOK'
    <2>1. plane' \in [Gens -> Phases]
      BY <1>a, <1>b
    <2> QED BY <1>a, <1>b, <1>c, <2>1
  <1>2. CallersSound'
    <2>1. CASE old[c] = Nil
      BY <1>a, <1>b, <1>c, <2>1 DEF CallersSound
    <2>2. CASE old[c] # Nil
      BY <1>a, <1>b, <1>c, <2>2 DEF CallersSound
    <2> QED BY <2>1, <2>2
  <1>3. TakenOnce'
    BY DEF TakenOnce, CallersSound
  <1>4. BuiltInOrder'
    BY DEF BuiltInOrder, CallersSound
  <1>5. CurrentSound'
    BY DEF CurrentSound, CurrentWasStarted, CallersSound
  <1>6. NoOrphanGeneration'
    BY DEF NoOrphanGeneration, CallersSound, TakenOnce
  <1>7. StatusNamesCurrent'
    BY DEF StatusNamesCurrent, CallersSound, CurrentSound, CurrentWasStarted
  <1> QED BY <1>1, <1>2, <1>3, <1>4, <1>5, <1>6, <1>7

\* Stopping the old generation preserves the inductive invariant.
LEMMA StopOldStep ==
  ASSUME IndInv, NEW c \in Callers, StopOld(c)
  PROVE  IndInv'
  <1> USE CallersAssumption, GensAssumption DEF IndInv, TypeOK, StatusRecord, Phases, StopOld, Stopped
  <1>1. TypeOK'
    OBVIOUS
  <1>2. CallersSound'
    <2>1. mu = c /\ \A d \in Callers : d # c => pc[d] \notin {"build", "stopOld", "startNext"}
      OBVIOUS
    <2>2. /\ old[c] = current /\ old[c] \in Gens /\ next[c] \in Gens /\ old[c] # next[c]
          /\ plane[next[c]] = "built"
      BY DEF CallersSound
    <2> QED BY <2>1, <2>2 DEF CallersSound
  <1>3. TakenOnce'
    BY DEF TakenOnce, CallersSound
  <1>4. BuiltInOrder'
    BY DEF BuiltInOrder, CallersSound
  <1>5. CurrentSound'
    BY DEF CurrentSound, CurrentWasStarted, CallersSound
  <1>6. NoOrphanGeneration'
    BY DEF NoOrphanGeneration, CallersSound, TakenOnce
  <1>7. StatusNamesCurrent'
    BY DEF StatusNamesCurrent, CallersSound, CurrentSound, CurrentWasStarted
  <1> QED BY <1>1, <1>2, <1>3, <1>4, <1>5, <1>6, <1>7

\* A failed stop of the old generation preserves the inductive invariant.
LEMMA StopOldFailsStep ==
  ASSUME IndInv, NEW c \in Callers, StopOldFails(c)
  PROVE  IndInv'
  <1> USE CallersAssumption, GensAssumption DEF IndInv, TypeOK, StatusRecord, Phases, StopOldFails, Return, recordLocked
  <1>1. TypeOK'
    OBVIOUS
  <1>2. CallersSound'
    BY DEF CallersSound, NoOrphanGeneration, CurrentSound, CurrentWasStarted
  <1>3. TakenOnce'
    BY DEF TakenOnce, CallersSound
  <1>4. BuiltInOrder'
    BY DEF BuiltInOrder, CallersSound
  <1>5. CurrentSound'
    BY DEF CurrentSound, CurrentWasStarted, CallersSound
  <1>6. NoOrphanGeneration'
    BY DEF NoOrphanGeneration, CallersSound, TakenOnce
  <1>7. StatusNamesCurrent'
    BY DEF StatusNamesCurrent, CallersSound, CurrentSound, CurrentWasStarted
  <1> QED BY <1>1, <1>2, <1>3, <1>4, <1>5, <1>6, <1>7

\* Starting the next generation preserves the inductive invariant.
LEMMA StartNextStep ==
  ASSUME IndInv, NEW c \in Callers, StartNext(c)
  PROVE  IndInv'
  <1> USE CallersAssumption, GensAssumption DEF IndInv, TypeOK, StatusRecord, Phases, StartNext, Return, recordLocked
  <1>1. TypeOK'
    OBVIOUS
  <1>2. CallersSound'
    BY DEF CallersSound, NoOrphanGeneration, CurrentSound, CurrentWasStarted
  <1>3. TakenOnce'
    BY DEF TakenOnce, CallersSound
  <1>4. BuiltInOrder'
    BY DEF BuiltInOrder, CallersSound
  <1>5. CurrentSound'
    BY DEF CurrentSound, CurrentWasStarted, CallersSound
  <1>6. NoOrphanGeneration'
    BY DEF NoOrphanGeneration, CallersSound, TakenOnce
  <1>7. StatusNamesCurrent'
    BY DEF StatusNamesCurrent, CallersSound, CurrentSound, CurrentWasStarted
  <1> QED BY <1>1, <1>2, <1>3, <1>4, <1>5, <1>6, <1>7

\* A failed start preserves the inductive invariant.
LEMMA StartNextFailsStep ==
  ASSUME IndInv, NEW c \in Callers, StartNextFails(c)
  PROVE  IndInv'
  <1> USE CallersAssumption, GensAssumption DEF IndInv, TypeOK, StatusRecord, Phases, StartNextFails, Return, recordLocked
  <1>1. TypeOK'
    OBVIOUS
  <1>2. CallersSound'
    BY DEF CallersSound, NoOrphanGeneration, CurrentSound, CurrentWasStarted
  <1>3. TakenOnce'
    BY DEF TakenOnce, CallersSound
  <1>4. BuiltInOrder'
    BY DEF BuiltInOrder, CallersSound
  <1>5. CurrentSound'
    BY DEF CurrentSound, CurrentWasStarted, CallersSound
  <1>6. NoOrphanGeneration'
    BY DEF NoOrphanGeneration, CallersSound, TakenOnce
  <1>7. StatusNamesCurrent'
    BY DEF StatusNamesCurrent, CallersSound, CurrentSound, CurrentWasStarted
  <1> QED BY <1>1, <1>2, <1>3, <1>4, <1>5, <1>6, <1>7

\* Stop taking the current generation preserves the inductive invariant.
LEMMA StopTakeStep ==
  ASSUME IndInv, NEW c \in Callers, StopTake(c)
  PROVE  IndInv'
  <1> USE CallersAssumption, GensAssumption DEF IndInv, TypeOK, StatusRecord, Phases, StopTake, recordLocked, Stopping
  <1>1. TypeOK'
    OBVIOUS
  <1>2. CallersSound'
    <2>1. \A d \in Callers : pc[d] \notin {"build", "stopOld", "startNext"}
      OBVIOUS
    <2>2. current # Nil => plane[current] \in {"up", "stuck"}
      BY <2>1 DEF CurrentSound, CurrentWasStarted
    <2>3. CASE current = Nil
      BY <2>1, <2>3 DEF CallersSound
    <2>4. CASE current # Nil
      <3>1. /\ c \in Callers /\ current' = Nil
            /\ pc' = [pc EXCEPT ![c] = "stopTaken"] /\ old' = [old EXCEPT ![c] = current]
            /\ plane'[current] \in {"stopping", "stuck"}
            /\ \A g \in Gens : g # current => plane'[g] = plane[g]
        BY <2>2, <2>4
      <3> HIDE DEF StopTake, Stopping, recordLocked
      <3>2. \A d \in Callers : d # c => pc'[d] = pc[d] /\ old'[d] = old[d]
        BY <3>1
      <3>3. ASSUME NEW d \in Callers
            PROVE  /\ pc'[d] \notin {"build", "stopOld", "startNext"}
                   /\ pc'[d] = "stopTaken" => /\ old'[d] \in Gens /\ old'[d] # current'
                                              /\ plane'[old'[d]] \in {"stopping", "stuck"}
        <4>1. CASE d = c
          BY <2>4, <3>1, <4>1
        <4>2. CASE d # c /\ pc[d] = "stopTaken"
          <5>1. old[d] \in Gens /\ plane[old[d]] \in {"stopping", "stuck"} /\ old[d] # current
            BY <4>2 DEF CallersSound
          <5> HIDE DEF IndInv, TypeOK, StatusRecord, Phases
          <5>2. pc'[d] = "stopTaken" /\ old'[d] = old[d]
            BY <3>2, <4>2
          <5>3. old[d] # current' /\ plane'[old[d]] = plane[old[d]]
            BY <3>1, <5>1, GensAssumption
          <5> QED BY <5>1, <5>2, <5>3
        <4>3. CASE d # c /\ pc[d] # "stopTaken"
          BY <2>1, <3>2, <4>3
        <4> QED BY <4>1, <4>2, <4>3
      <3> QED BY <3>3 DEF CallersSound
    <2> QED BY <2>3, <2>4
  <1>3. TakenOnce'
    BY DEF TakenOnce, CallersSound
  <1>4. BuiltInOrder'
    BY DEF BuiltInOrder, CallersSound
  <1>5. CurrentSound'
    BY DEF CurrentSound, CurrentWasStarted, CallersSound
  <1>6. NoOrphanGeneration'
    BY DEF NoOrphanGeneration, CallersSound, TakenOnce
  <1>7. StatusNamesCurrent'
    BY DEF StatusNamesCurrent, CallersSound, CurrentSound, CurrentWasStarted
  <1> QED BY <1>1, <1>2, <1>3, <1>4, <1>5, <1>6, <1>7

\* Stop stopping the generation it took preserves the inductive invariant.
LEMMA StopTakenStep ==
  ASSUME IndInv, NEW c \in Callers, StopTaken(c)
  PROVE  IndInv'
  <1> USE CallersAssumption, GensAssumption DEF IndInv, TypeOK, StatusRecord, Phases, StopTaken, Return
  <1>a. old[c] \in Gens /\ old[c] # current /\ plane[old[c]] \in {"stopping", "stuck"}
    BY DEF CallersSound
  <1>b. PICK after \in {"down", "stuck"} : plane' = [plane EXCEPT ![old[c]] = after]
    BY <1>a
  <1>c. \A d \in Callers : (d # c /\ pc[d] \in {"stopOld", "stopTaken"}) => old[d] # old[c]
    BY <1>a DEF CallersSound, TakenOnce
  <1>1. TypeOK'
    <2>1. plane' \in [Gens -> Phases]
      BY <1>a, <1>b
    <2> QED BY <2>1
  <1>2. CallersSound'
    BY <1>a, <1>b, <1>c DEF CallersSound
  <1>3. TakenOnce'
    BY DEF TakenOnce, CallersSound
  <1>4. BuiltInOrder'
    BY DEF BuiltInOrder, CallersSound
  <1>5. CurrentSound'
    BY DEF CurrentSound, CurrentWasStarted, CallersSound
  <1>6. NoOrphanGeneration'
    BY DEF NoOrphanGeneration, CallersSound, TakenOnce
  <1>7. StatusNamesCurrent'
    BY DEF StatusNamesCurrent, CallersSound, CurrentSound, CurrentWasStarted
  <1> QED BY <1>1, <1>2, <1>3, <1>4, <1>5, <1>6, <1>7

\* Every step of the manager, and stuttering, preserves the inductive invariant.
LEMMA StepIndInv == IndInv /\ [Next]_vars => IndInv'
  <1> SUFFICES ASSUME IndInv, [Next]_vars PROVE IndInv'
    OBVIOUS
  <1>1. CASE Next
    BY <1>1, RebuildBeginStep, BuildFailsStep, BuildNextStep, StopOldStep, StopOldFailsStep,
       StartNextStep, StartNextFailsStep, StopTakeStep, StopTakenStep DEF Next, Turn
  <1>2. CASE UNCHANGED vars
    BY <1>2 DEF vars, IndInv, TypeOK, StatusRecord, Phases, CallersSound, TakenOnce, BuiltInOrder,
      CurrentSound, CurrentWasStarted, NoOrphanGeneration, StatusNamesCurrent
  <1> QED BY <1>1, <1>2

(***************************************************************************)
(* Whatever rebuilds and stops run concurrently and fail, no generation    *)
(* that is up, being started or being stopped is out of the manager's or   *)
(* its callers' hands, and what is current was really started.             *)
(***************************************************************************)
THEOREM NoLostGeneration == Spec => [](TypeOK /\ NoOrphanGeneration /\ CurrentWasStarted)
  <1>1. IndInv => TypeOK /\ NoOrphanGeneration /\ CurrentWasStarted
    BY DEF IndInv, CurrentSound
  <1> QED BY <1>1, InitIndInv, StepIndInv, PTL DEF Spec

(***************************************************************************)
(* Between operations the status names the current generation, and without *)
(* a recorded error it says correctly whether one runs.                    *)
(***************************************************************************)
THEOREM StatusCorrect == Spec => []StatusNamesCurrent
  <1>1. IndInv => StatusNamesCurrent
    BY DEF IndInv
  <1> QED BY <1>1, InitIndInv, StepIndInv, PTL DEF Spec

\* One step never revives a generation and never goes back to an older one.
LEMMA AdvanceStep ==
  IndInv /\ [Next]_vars =>
    [/\ \A g \in Gens : plane[g] \in Final => plane'[g] = plane[g]
     /\ \A g \in Gens : (current' = g /\ current # g) =>
           \A h \in Gens : plane[h] \in {"up", "stopping"} \cup Final => h < g \/ h = g]_vars
  <1> SUFFICES ASSUME IndInv, [Next]_vars
               PROVE  /\ \A g \in Gens : plane[g] \in Final => plane'[g] = plane[g]
                      /\ \A g \in Gens : (current' = g /\ current # g) =>
                            \A h \in Gens : plane[h] \in {"up", "stopping"} \cup Final =>
                               h < g \/ h = g
    OBVIOUS
  <1> USE CallersAssumption, GensAssumption DEF IndInv, TypeOK, Final
  <1>1. ASSUME NEW c \in Callers, RebuildBegin(c) \/ BuildFails(c)
        PROVE  plane' = plane /\ current' = current
    BY <1>1 DEF RebuildBegin, BuildFails
  <1>2. ASSUME NEW c \in Callers, BuildNext(c)
        PROVE  current' = current /\ \A g \in Gens : plane[g] \in Final => plane'[g] = plane[g]
    BY <1>2 DEF BuildNext, Stopping, CallersSound
  <1>3. ASSUME NEW c \in Callers, StopOld(c) \/ StopOldFails(c)
        PROVE  /\ current' \in {current, Nil}
               /\ \A g \in Gens : plane[g] \in Final => plane'[g] = plane[g]
    BY <1>3 DEF StopOld, StopOldFails, Stopped, CallersSound
  <1>4. ASSUME NEW c \in Callers, StartNext(c)
        PROVE  /\ \A g \in Gens : plane[g] \in Final => plane'[g] = plane[g]
               /\ current' = next[c]
               /\ \A h \in Gens : plane[h] # "absent" => h <= next[c]
    BY <1>4 DEF StartNext, CallersSound, BuiltInOrder
  <1>5. ASSUME NEW c \in Callers, StartNextFails(c) \/ StopTaken(c)
        PROVE  /\ current' = current
               /\ \A g \in Gens : plane[g] \in Final => plane'[g] = plane[g]
    BY <1>5 DEF StartNextFails, StopTaken, CallersSound
  <1>6. ASSUME NEW c \in Callers, StopTake(c)
        PROVE  /\ current' = Nil
               /\ \A g \in Gens : plane[g] \in Final => plane'[g] = plane[g]
    BY <1>6 DEF StopTake, Stopping
  <1>7. CASE UNCHANGED vars
    BY <1>7 DEF vars
  <1>8. CASE Next
    <2>1. ASSUME NEW c \in Callers, StartNext(c) PROVE
             \A g \in Gens : (current' = g /\ current # g) =>
                \A h \in Gens : plane[h] \in {"up", "stopping"} \cup Final => h < g \/ h = g
      BY <1>4, <2>1
    <2>2. ASSUME NEW c \in Callers, RebuildBegin(c) \/ Turn(c), ~StartNext(c)
          PROVE  current' \in {current, Nil}
      BY <1>1, <1>2, <1>3, <1>5, <2>2 DEF Turn
    <2>3. \A g \in Gens : plane[g] \in Final => plane'[g] = plane[g]
      BY <1>1, <1>2, <1>3, <1>4, <1>5, <1>6, <1>8 DEF Next, Turn
    <2> QED BY <1>6, <1>8, <2>1, <2>2, <2>3 DEF Next
  <1> QED BY <1>7, <1>8

(***************************************************************************)
(* Generations only move forward: a generation that was stopped or failed  *)
(* is never started again, and the current one is only ever replaced by a  *)
(* later one.                                                              *)
(***************************************************************************)
THEOREM ForwardOnly == Spec => GenerationsAdvance
  BY AdvanceStep, InitIndInv, StepIndInv, PTL DEF Spec, GenerationsAdvance

(***************************************************************************)
(* At most one generation is being started, up or being stopped, unless a  *)
(* Stop is still stopping the generation it took: rebuilds alone never     *)
(* overlap two generations.                                                *)
(***************************************************************************)
THEOREM RebuildsExclusive == Spec => []OneGenerationActive
  <1>1. IndInv => OneGenerationActive
    <2> SUFFICES ASSUME IndInv, \A c \in Callers : pc[c] # "stopTaken",
                        NEW g \in Gens, plane[g] \in {"starting", "up", "stopping"}
                 PROVE  \/ current = g
                        \/ \E c \in Callers : mu = c /\ pc[c] = "startNext" /\ next[c] = g
                                              /\ current = Nil
      BY CallersAssumption, GensAssumption DEF IndInv, TypeOK, OneGenerationActive
    <2>1. CASE plane[g] = "up"
      BY <2>1 DEF IndInv, NoOrphanGeneration
    <2>2. CASE plane[g] = "starting"
      BY <2>2 DEF IndInv, NoOrphanGeneration, CallersSound
    <2>3. CASE plane[g] = "stopping"
      BY <2>3 DEF IndInv, NoOrphanGeneration, CallersSound
    <2> QED BY <2>1, <2>2, <2>3
  <1> QED BY <1>1, InitIndInv, StepIndInv, PTL DEF Spec
=============================================================================
