------------------------- MODULE ClientManagerProofs -------------------------
(***************************************************************************)
(* Proofs about the connection manager of runtime/grpcclient/manager.go,   *)
(* for any number of callers, services and dials.                          *)
(***************************************************************************)
EXTENDS ClientManager, TLAPS

\* The initial state satisfies the inductive invariant.
LEMMA InitIndInv == Init => IndInv
  <1> SUFFICES ASSUME Init PROVE IndInv
    OBVIOUS
  <1> USE NilAssumption DEF Init, InFlight, NewCall
  <1>1. TypeOK
    BY DEF TypeOK, CallRecord, ConnStates
  <1>2. CallersPoint /\ OneOwner /\ InFlightPublished
    BY DEF CallersPoint, OneOwner, Owns, InFlightPublished
  <1>3. PhaseSound /\ CacheSound
    BY DEF PhaseSound, UnusedSound, DialingSound, DialedSound, CacheSound
  <1>4. NoLeakedConn /\ OutcomeSound
    BY DEF NoLeakedConn, OutcomeSound
  <1> QED BY <1>1, <1>2, <1>3, <1>4 DEF IndInv

\* Joining a dial in flight preserves the inductive invariant.
LEMMA JoinStep ==
  ASSUME IndInv, NEW g \in Callers, NEW s \in Services, ConnJoin(g, s)
  PROVE  IndInv'
  <1> USE NilAssumption DEF IndInv, TypeOK, CallRecord, ConnStates, InFlight, ConnJoin, Usable
  <1>1. TypeOK'
    OBVIOUS
  <1>2. CallersPoint'
    BY DEF CallersPoint, InFlightPublished
  <1>3. OneOwner'
    BY DEF OneOwner, Owns, CallersPoint, InFlightPublished
  <1>4. InFlightPublished'
    BY DEF InFlightPublished, CallersPoint, OneOwner, Owns
  <1>5. PhaseSound'
    <2>1. UnusedSound'
      BY DEF PhaseSound, UnusedSound, CallersPoint
    <2>2. DialingSound'
      BY DEF PhaseSound, UnusedSound, DialingSound, CallersPoint, OneOwner, Owns
    <2>3. DialedSound'
      BY DEF PhaseSound, DialingSound, DialedSound, CallersPoint, OneOwner, Owns
    <2> QED BY <2>1, <2>2, <2>3 DEF PhaseSound
  <1>6. CacheSound'
    BY DEF CacheSound, CallersPoint, PhaseSound, UnusedSound, DialingSound, DialedSound, InFlightPublished, NewCall
  <1>7. NoLeakedConn'
    BY DEF NoLeakedConn, CallersPoint, CacheSound, PhaseSound, UnusedSound, DialingSound, DialedSound, OneOwner, Owns, InFlightPublished
  <1>8. OutcomeSound'
    BY DEF OutcomeSound, CallersPoint, PhaseSound, UnusedSound, DialingSound, DialedSound, CacheSound, InFlightPublished, NewCall
  <1> QED BY <1>1, <1>2, <1>3, <1>4, <1>5, <1>6, <1>7, <1>8

\* Publishing a new dialCall preserves the inductive invariant.
LEMMA DialStep ==
  ASSUME IndInv, NEW g \in Callers, NEW s \in Services, ConnDial(g, s)
  PROVE  IndInv'
  <1> USE NilAssumption DEF IndInv, TypeOK, CallRecord, ConnStates, InFlight, ConnDial, Usable
  <1>1. TypeOK'
    OBVIOUS
  <1>2. CallersPoint'
    BY DEF CallersPoint, InFlightPublished
  <1>3. OneOwner'
    BY DEF OneOwner, Owns, CallersPoint, InFlightPublished
  <1>4. InFlightPublished'
    BY DEF InFlightPublished, CallersPoint, OneOwner, Owns
  <1>5. PhaseSound'
    <2>1. UnusedSound'
      BY DEF PhaseSound, UnusedSound, CallersPoint
    <2>2. DialingSound'
      BY DEF PhaseSound, UnusedSound, DialingSound, CallersPoint, OneOwner, Owns
    <2>3. DialedSound'
      BY DEF PhaseSound, DialingSound, DialedSound, CallersPoint, OneOwner, Owns
    <2> QED BY <2>1, <2>2, <2>3 DEF PhaseSound
  <1>6. CacheSound'
    BY DEF CacheSound, CallersPoint, PhaseSound, UnusedSound, DialingSound, DialedSound, InFlightPublished, NewCall
  <1>7. NoLeakedConn'
    BY DEF NoLeakedConn, CallersPoint, CacheSound, PhaseSound, UnusedSound, DialingSound, DialedSound, OneOwner, Owns, InFlightPublished
  <1>8. OutcomeSound'
    BY DEF OutcomeSound, CallersPoint, PhaseSound, UnusedSound, DialingSound, DialedSound, CacheSound, InFlightPublished, NewCall
  <1> QED BY <1>1, <1>2, <1>3, <1>4, <1>5, <1>6, <1>7, <1>8

\* A successful dial preserves the inductive invariant.
LEMMA DialSucceedsStep ==
  ASSUME IndInv, NEW g \in Callers, DialSucceeds(g)
  PROVE  IndInv'
  <1> USE NilAssumption DEF IndInv, TypeOK, CallRecord, ConnStates, InFlight, DialSucceeds
  <1>1. TypeOK'
    OBVIOUS
  <1>2. CallersPoint'
    BY DEF CallersPoint, InFlightPublished
  <1>3. OneOwner'
    BY DEF OneOwner, Owns, CallersPoint, InFlightPublished
  <1>4. InFlightPublished'
    BY DEF InFlightPublished, CallersPoint, OneOwner, Owns
  <1>5. PhaseSound'
    <2>1. UnusedSound'
      BY DEF PhaseSound, UnusedSound, CallersPoint
    <2>2. DialingSound'
      BY DEF PhaseSound, UnusedSound, DialingSound, CallersPoint, OneOwner, Owns
    <2>3. DialedSound'
      BY DEF PhaseSound, DialingSound, DialedSound, CallersPoint, OneOwner, Owns
    <2> QED BY <2>1, <2>2, <2>3 DEF PhaseSound
  <1>6. CacheSound'
    BY DEF CacheSound, CallersPoint, PhaseSound, UnusedSound, DialingSound, DialedSound, InFlightPublished, NewCall
  <1>7. NoLeakedConn'
    BY DEF NoLeakedConn, CallersPoint, CacheSound, PhaseSound, UnusedSound, DialingSound, DialedSound, OneOwner, Owns, InFlightPublished
  <1>8. OutcomeSound'
    BY DEF OutcomeSound, CallersPoint, PhaseSound, UnusedSound, DialingSound, DialedSound, CacheSound, InFlightPublished, NewCall
  <1> QED BY <1>1, <1>2, <1>3, <1>4, <1>5, <1>6, <1>7, <1>8

\* A failed dial preserves the inductive invariant.
LEMMA DialFailsStep ==
  ASSUME IndInv, NEW g \in Callers, DialFails(g)
  PROVE  IndInv'
  <1> USE NilAssumption DEF IndInv, TypeOK, CallRecord, ConnStates, InFlight, DialFails
  <1>1. TypeOK'
    OBVIOUS
  <1>2. CallersPoint'
    BY DEF CallersPoint, InFlightPublished
  <1>3. OneOwner'
    BY DEF OneOwner, Owns, CallersPoint, InFlightPublished
  <1>4. InFlightPublished'
    BY DEF InFlightPublished, CallersPoint, OneOwner, Owns
  <1>5. PhaseSound'
    <2>1. UnusedSound'
      BY DEF PhaseSound, UnusedSound, CallersPoint
    <2>2. DialingSound'
      BY DEF PhaseSound, UnusedSound, DialingSound, CallersPoint, OneOwner, Owns
    <2>3. DialedSound'
      BY DEF PhaseSound, DialingSound, DialedSound, CallersPoint, OneOwner, Owns
    <2> QED BY <2>1, <2>2, <2>3 DEF PhaseSound
  <1>6. CacheSound'
    BY DEF CacheSound, CallersPoint, PhaseSound, UnusedSound, DialingSound, DialedSound, InFlightPublished, NewCall
  <1>7. NoLeakedConn'
    BY DEF NoLeakedConn, CallersPoint, CacheSound, PhaseSound, UnusedSound, DialingSound, DialedSound, OneOwner, Owns, InFlightPublished
  <1>8. OutcomeSound'
    BY DEF OutcomeSound, CallersPoint, PhaseSound, UnusedSound, DialingSound, DialedSound, CacheSound, InFlightPublished, NewCall
  <1> QED BY <1>1, <1>2, <1>3, <1>4, <1>5, <1>6, <1>7, <1>8

\* The second critical section of Conn preserves the inductive invariant.
LEMMA InstallStep ==
  ASSUME IndInv, NEW g \in Callers, Install(g)
  PROVE  IndInv'
  <1> DEFINE k == at[g]
             s == call[k].service
  <1> USE NilAssumption DEF IndInv, TypeOK, CallRecord, ConnStates, InFlight
  <1>1. /\ k \in Calls /\ s \in Services /\ pc[g] = "dialed"
        /\ InFlight(k) /\ dials[s] = k
    BY DEF Install, CallersPoint, InFlightPublished
  <1>2. /\ dials' = [dials EXCEPT ![s] = Nil]
        /\ pc' = [pc EXCEPT ![g] = "idle"]
        /\ at' = [at EXCEPT ![g] = Nil]
        /\ closed' = closed
    BY <1>1 DEF Install
  <1>3. \A j \in Calls : j # k => call'[j] = call[j]
    BY <1>1 DEF Install
  <1>4. /\ call'[k].service = s
        /\ call'[k].phase = "done"
        /\ call' \in [Calls -> CallRecord]
    <2>1. call[k] \in CallRecord /\ conns[s] \in Calls \cup {Nil}
      BY <1>1
    <2>2. (call[k].failed \/ (closed /\ ~Usable(s))) \in BOOLEAN
      OBVIOUS
    <2> HIDE DEF CallRecord
    <2>3. call'[k].service = s /\ call'[k].phase = "done" /\ call'[k] \in CallRecord
      BY <1>1, <2>1, <2>2 DEF Install, CallRecord
    <2> QED
      BY <1>1, <2>3 DEF Install
  <1>5. \A h \in Callers : Owns(h, k) => h = g
    BY <1>1 DEF OneOwner, Owns
  <1>6. TypeOK'
    BY <1>1, <1>2, <1>4 DEF Install, Usable
  <1>7. CallersPoint' /\ OneOwner'
    BY <1>1, <1>2, <1>3, <1>4, <1>5 DEF CallersPoint, OneOwner, Owns
  <1>8. InFlightPublished'
    BY <1>1, <1>2, <1>3, <1>4 DEF InFlightPublished
  \* The outcome: the dial's error, an existing connection, a closed manager, a cached connection.
  <1>9. PhaseSound' /\ CacheSound' /\ NoLeakedConn' /\ OutcomeSound'
    <2>1. CASE call[k].failed
      <3>1. conn' = conn /\ conns' = conns
        BY <1>1, <2>1 DEF Install
      <3>2. call'[k].conn = Nil /\ call'[k].failed
        BY <1>1, <2>1 DEF Install, PhaseSound, DialedSound, Usable
      <3>3. UnusedSound'
        BY <1>1, <1>3, <1>4, <3>1 DEF PhaseSound, UnusedSound
      <3>4. DialingSound' /\ DialedSound'
        BY <1>1, <1>2, <1>3, <1>5, <3>1 DEF PhaseSound, DialingSound, DialedSound, CallersPoint, Owns
      <3>5. CacheSound'
        BY <1>1, <1>2, <1>3, <1>4, <2>1, <3>1 DEF CacheSound, PhaseSound, DialedSound, Usable
      <3>6. NoLeakedConn'
        BY <1>1, <1>2, <1>3, <1>4, <2>1, <3>1 DEF NoLeakedConn, PhaseSound, DialedSound, UnusedSound, Usable
      <3>7. OutcomeSound'
        BY <1>1, <1>3, <1>4, <2>1, <3>1, <3>2 DEF OutcomeSound, CacheSound, PhaseSound, DialedSound, Usable
      <3> QED BY <3>3, <3>4, <3>5, <3>6, <3>7 DEF PhaseSound
    <2>2. CASE ~call[k].failed /\ Usable(s)
      <3>1. conn' = [conn EXCEPT ![k] = "shutdown"] /\ conns' = conns
        BY <1>1, <2>2 DEF Install
      <3>2. call'[k].conn = conns[s] /\ ~call'[k].failed
        BY <1>1, <2>2 DEF Install, PhaseSound, DialedSound, Usable
      <3>3. UnusedSound'
        BY <1>1, <1>3, <1>4, <3>1 DEF PhaseSound, UnusedSound
      <3>4. DialingSound' /\ DialedSound'
        BY <1>1, <1>2, <1>3, <1>5, <3>1 DEF PhaseSound, DialingSound, DialedSound, CallersPoint, Owns
      <3>5. CacheSound'
        BY <1>1, <1>2, <1>3, <1>4, <2>2, <3>1 DEF CacheSound, PhaseSound, DialedSound, Usable
      <3>6. NoLeakedConn'
        BY <1>1, <1>2, <1>3, <1>4, <2>2, <3>1 DEF NoLeakedConn, PhaseSound, DialedSound, UnusedSound, Usable
      <3>7. OutcomeSound'
        BY <1>1, <1>3, <1>4, <2>2, <3>1, <3>2 DEF OutcomeSound, CacheSound, PhaseSound, DialedSound, Usable
      <3> QED BY <3>3, <3>4, <3>5, <3>6, <3>7 DEF PhaseSound
    <2>3. CASE ~call[k].failed /\ ~Usable(s) /\ closed
      <3>1. conn' = [conn EXCEPT ![k] = "shutdown"] /\ conns' = conns
        BY <1>1, <2>3 DEF Install
      <3>2. call'[k].conn = Nil /\ call'[k].failed
        BY <1>1, <2>3 DEF Install, PhaseSound, DialedSound, Usable
      <3>3. UnusedSound'
        BY <1>1, <1>3, <1>4, <3>1 DEF PhaseSound, UnusedSound
      <3>4. DialingSound' /\ DialedSound'
        BY <1>1, <1>2, <1>3, <1>5, <3>1 DEF PhaseSound, DialingSound, DialedSound, CallersPoint, Owns
      <3>5. CacheSound'
        BY <1>1, <1>2, <1>3, <1>4, <2>3, <3>1 DEF CacheSound, PhaseSound, DialedSound, Usable
      <3>6. NoLeakedConn'
        BY <1>1, <1>2, <1>3, <1>4, <2>3, <3>1 DEF NoLeakedConn, PhaseSound, DialedSound, UnusedSound, Usable
      <3>7. OutcomeSound'
        BY <1>1, <1>3, <1>4, <2>3, <3>1, <3>2 DEF OutcomeSound, CacheSound, PhaseSound, DialedSound, Usable
      <3> QED BY <3>3, <3>4, <3>5, <3>6, <3>7 DEF PhaseSound
    <2>4. CASE ~call[k].failed /\ ~Usable(s) /\ ~closed
      <3>1. conn' = conn /\ conns' = [conns EXCEPT ![s] = k]
        BY <1>1, <2>4 DEF Install
      <3>2. call'[k].conn = k /\ ~call'[k].failed
        BY <1>1, <2>4 DEF Install, PhaseSound, DialedSound, Usable
      <3>3. UnusedSound'
        BY <1>1, <1>3, <1>4, <3>1 DEF PhaseSound, UnusedSound
      <3>4. DialingSound' /\ DialedSound'
        BY <1>1, <1>2, <1>3, <1>5, <3>1 DEF PhaseSound, DialingSound, DialedSound, CallersPoint, Owns
      <3>5. CacheSound'
        BY <1>1, <1>2, <1>3, <1>4, <2>4, <3>1 DEF CacheSound, PhaseSound, DialedSound, Usable
      <3>6. NoLeakedConn'
        BY <1>1, <1>2, <1>3, <1>4, <2>4, <3>1 DEF NoLeakedConn, PhaseSound, DialedSound, UnusedSound, Usable
      <3>7. OutcomeSound'
        BY <1>1, <1>3, <1>4, <2>4, <3>1, <3>2 DEF OutcomeSound, CacheSound, PhaseSound, DialedSound, Usable
      <3> QED BY <3>3, <3>4, <3>5, <3>6, <3>7 DEF PhaseSound
    <2> QED BY <2>1, <2>2, <2>3, <2>4
  <1> QED BY <1>6, <1>7, <1>8, <1>9

\* A waiter that returns preserves the inductive invariant.
LEMMA WaitStep ==
  ASSUME IndInv, NEW g \in Callers, WaitDone(g) \/ WaitCancelled(g)
  PROVE  IndInv'
  <1> USE NilAssumption DEF IndInv, TypeOK, CallRecord, ConnStates, InFlight, WaitDone, WaitCancelled
  <1>1. TypeOK'
    OBVIOUS
  <1>2. CallersPoint'
    BY DEF CallersPoint, InFlightPublished
  <1>3. OneOwner'
    BY DEF OneOwner, Owns, CallersPoint, InFlightPublished
  <1>4. InFlightPublished'
    BY DEF InFlightPublished, CallersPoint, OneOwner, Owns
  <1>5. PhaseSound'
    <2>1. UnusedSound'
      BY DEF PhaseSound, UnusedSound, CallersPoint
    <2>2. DialingSound'
      BY DEF PhaseSound, UnusedSound, DialingSound, CallersPoint, OneOwner, Owns
    <2>3. DialedSound'
      BY DEF PhaseSound, DialingSound, DialedSound, CallersPoint, OneOwner, Owns
    <2> QED BY <2>1, <2>2, <2>3 DEF PhaseSound
  <1>6. CacheSound'
    BY DEF CacheSound, CallersPoint, PhaseSound, UnusedSound, DialingSound, DialedSound, InFlightPublished, NewCall
  <1>7. NoLeakedConn'
    BY DEF NoLeakedConn, CallersPoint, CacheSound, PhaseSound, UnusedSound, DialingSound, DialedSound, OneOwner, Owns, InFlightPublished
  <1>8. OutcomeSound'
    BY DEF OutcomeSound, CallersPoint, PhaseSound, UnusedSound, DialingSound, DialedSound, CacheSound, InFlightPublished, NewCall
  <1> QED BY <1>1, <1>2, <1>3, <1>4, <1>5, <1>6, <1>7, <1>8

\* Close preserves the inductive invariant.
LEMMA CloseStep ==
  ASSUME IndInv, Close
  PROVE  IndInv'
  <1> USE NilAssumption DEF IndInv, TypeOK, CallRecord, ConnStates, InFlight, Close
  <1>1. TypeOK'
    OBVIOUS
  <1>2. CallersPoint'
    BY DEF CallersPoint, InFlightPublished
  <1>3. OneOwner'
    BY DEF OneOwner, Owns, CallersPoint, InFlightPublished
  <1>4. InFlightPublished'
    BY DEF InFlightPublished, CallersPoint, OneOwner, Owns
  <1>5. PhaseSound'
    <2>1. UnusedSound'
      BY DEF PhaseSound, UnusedSound, CacheSound
    <2>2. DialingSound'
      BY DEF PhaseSound, DialingSound, CacheSound, CallersPoint
    <2>3. DialedSound'
      BY DEF PhaseSound, DialedSound, CacheSound, CallersPoint
    <2> QED BY <2>1, <2>2, <2>3 DEF PhaseSound
  <1>6. CacheSound'
    BY DEF CacheSound, CallersPoint, PhaseSound, UnusedSound, DialingSound, DialedSound, InFlightPublished, NewCall
  <1>7. NoLeakedConn'
    BY DEF NoLeakedConn, CallersPoint, CacheSound, PhaseSound, UnusedSound, DialingSound, DialedSound, OneOwner, Owns, InFlightPublished
  <1>8. OutcomeSound'
    BY DEF OutcomeSound, CallersPoint, PhaseSound, UnusedSound, DialingSound, DialedSound, CacheSound, InFlightPublished, NewCall
  <1> QED BY <1>1, <1>2, <1>3, <1>4, <1>5, <1>6, <1>7, <1>8

\* A caller that closes its connection preserves the inductive invariant.
LEMMA CallerClosesStep ==
  ASSUME IndInv, NEW c \in Calls, CallerClosesConn(c)
  PROVE  IndInv'
  <1> USE NilAssumption DEF IndInv, TypeOK, CallRecord, ConnStates, InFlight, CallerClosesConn
  <1>1. TypeOK'
    OBVIOUS
  <1>2. CallersPoint'
    BY DEF CallersPoint, InFlightPublished
  <1>3. OneOwner'
    BY DEF OneOwner, Owns, CallersPoint, InFlightPublished
  <1>4. InFlightPublished'
    BY DEF InFlightPublished, CallersPoint, OneOwner, Owns
  <1>5. PhaseSound'
    <2>1. UnusedSound'
      BY DEF PhaseSound, UnusedSound, CallersPoint
    <2>2. DialingSound'
      BY DEF PhaseSound, UnusedSound, DialingSound, CallersPoint, OneOwner, Owns
    <2>3. DialedSound'
      BY DEF PhaseSound, DialingSound, DialedSound, CallersPoint, OneOwner, Owns
    <2> QED BY <2>1, <2>2, <2>3 DEF PhaseSound
  <1>6. CacheSound'
    BY DEF CacheSound, CallersPoint, PhaseSound, UnusedSound, DialingSound, DialedSound, InFlightPublished, NewCall
  <1>7. NoLeakedConn'
    BY DEF NoLeakedConn, CallersPoint, CacheSound, PhaseSound, UnusedSound, DialingSound, DialedSound, OneOwner, Owns, InFlightPublished
  <1>8. OutcomeSound'
    BY DEF OutcomeSound, CallersPoint, PhaseSound, UnusedSound, DialingSound, DialedSound, CacheSound, InFlightPublished, NewCall
  <1> QED BY <1>1, <1>2, <1>3, <1>4, <1>5, <1>6, <1>7, <1>8

\* Every step of the manager, and stuttering, preserves the inductive invariant.
LEMMA StepIndInv == IndInv /\ [Next]_vars => IndInv'
  <1> SUFFICES ASSUME IndInv, [Next]_vars PROVE IndInv'
    OBVIOUS
  <1>1. CASE Next
    BY <1>1, JoinStep, DialStep, DialSucceedsStep, DialFailsStep, InstallStep, WaitStep,
       CloseStep, CallerClosesStep DEF Next
  <1>2. CASE UNCHANGED vars
    BY <1>2 DEF vars, IndInv, TypeOK, CallersPoint, OneOwner, Owns, InFlightPublished,
       PhaseSound, UnusedSound, DialingSound, DialedSound, CacheSound, NoLeakedConn, OutcomeSound, InFlight, CallRecord, ConnStates
  <1> QED BY <1>1, <1>2

(***************************************************************************)
(* Type correctness of the manager's cache, dial table and callers, for    *)
(* any sets of callers, services and dials.                                *)
(***************************************************************************)
THEOREM TypeCorrect == Spec => []TypeOK
  <1>1. IndInv => TypeOK
    BY DEF IndInv
  <1> QED BY <1>1, InitIndInv, StepIndInv, PTL DEF Spec

(***************************************************************************)
(* Manager.Conn is single-flight per service: of any number of callers, at *)
(* most one dials a service at a time.                                     *)
(***************************************************************************)
THEOREM OneDialPerService == Spec => []SingleFlight
  <1>1. IndInv => SingleFlight
    BY DEF IndInv, InFlightPublished, SingleFlight
  <1> QED BY <1>1, InitIndInv, StepIndInv, PTL DEF Spec

(***************************************************************************)
(* Manager.Conn loses no connection: at any time an open connection is     *)
(* cached or is still held by the goroutine that dialed it, and a finished *)
(* dial handed out one sound outcome.                                      *)
(***************************************************************************)
THEOREM ConnSafety == Spec => [](NoLeakedConn /\ OutcomeSound)
  <1>1. IndInv => NoLeakedConn /\ OutcomeSound
    BY DEF IndInv
  <1> QED BY <1>1, InitIndInv, StepIndInv, PTL DEF Spec

\* One step after Close nothing is cached and the manager is still closed.
LEMMA ClosedStep ==
  IndInv /\ [Next]_vars =>
    [closed => closed' /\ \A s \in Services : conns'[s] = Nil]_vars
  <1> SUFFICES ASSUME IndInv, [Next]_vars, closed
               PROVE  closed' /\ \A s \in Services : conns'[s] = Nil
    OBVIOUS
  <1>1. closed'
    BY DEF Next, vars, ConnJoin, ConnDial, DialSucceeds, DialFails, Install, WaitDone,
       WaitCancelled, Close, CallerClosesConn
  <1> QED BY <1>1, StepIndInv DEF IndInv, CacheSound

(***************************************************************************)
(* Manager.Close is final: a dial that was in flight when the manager was  *)
(* closed never puts its connection into the cache.                        *)
(***************************************************************************)
THEOREM CloseIsFinal == Spec => ClosedIsFinal
  BY ClosedStep, InitIndInv, StepIndInv, PTL DEF Spec, ClosedIsFinal

\* Only dialCalls that are unused or in flight change.
LEMMA OutcomeStep ==
  IndInv /\ [Next]_vars => [\A k \in Calls : call[k].phase = "done" => call'[k] = call[k]]_vars
  <1> SUFFICES ASSUME IndInv, [Next]_vars, NEW k \in Calls, call[k].phase = "done"
               PROVE  call'[k] = call[k]
    OBVIOUS
  <1> USE DEF IndInv, TypeOK, CallersPoint, InFlight
  <1>1. ASSUME NEW g \in Callers, NEW s \in Services, ConnJoin(g, s) \/ ConnDial(g, s)
        PROVE  call'[k] = call[k]
    BY <1>1 DEF ConnJoin, ConnDial
  <1>2. ASSUME NEW g \in Callers, DialSucceeds(g) \/ DialFails(g) \/ Install(g)
        PROVE  call'[k] = call[k]
    BY <1>2 DEF DialSucceeds, DialFails, Install
  <1>3. CASE \/ UNCHANGED vars \/ Close
             \/ \E g \in Callers : WaitDone(g) \/ WaitCancelled(g)
             \/ \E c \in Calls : CallerClosesConn(c)
    BY <1>3 DEF vars, Close, WaitDone, WaitCancelled, CallerClosesConn
  <1> QED BY <1>1, <1>2, <1>3 DEF Next

(***************************************************************************)
(* All waiters of a dial see one outcome: it is written before the channel *)
(* is closed and never again.                                              *)
(***************************************************************************)
THEOREM OutcomeStable == Spec => OutcomeIsStable
  BY OutcomeStep, InitIndInv, StepIndInv, PTL DEF Spec, OutcomeIsStable
=============================================================================
