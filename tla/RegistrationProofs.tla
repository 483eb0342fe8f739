-------------------------- MODULE RegistrationProofs --------------------------
(***************************************************************************)
(* Proofs about the registration component of                              *)
(* runtime/component/registration.go on runtime/registry/etcd.go, for any  *)
(* number of leases and faults; about the lifecycle that starts and stops  *)
(* it with the other components (runtime/lifecycle/lifecycle.go), for any  *)
(* number of components and callers; and about the registry of a monolith  *)
(* (runtime/registry/memory.go, runtime/discovery/memory.go), for any      *)
(* number of instances and watches and channels of any size.               *)
(***************************************************************************)
EXTENDS Registration, Lifecycle, MemoryRegistry, FiniteSetTheorems, SequenceTheorems, TLAPS

Registering(p) == pc[p] \in {"put", "undo"}

\* The loop runs only after Start has registered, and Stop goes on to
\* Deregister only when the loop has exited.
LoopInTurn ==
    /\ pc["main"] \in {"down", "grant", "put", "undo", "notStarted"} => pc["loop"] = "none"
    /\ pc["main"] \in {"drain", "delete", "revoke", "stopped"} => pc["loop"] = "exited"

\* A lease that is being registered is nobody else's yet: no stream keeps it.
FreshIsOwn ==
    /\ \A p \in Procs : Registering(p) =>
          /\ fresh[p] \in Leases /\ lease[fresh[p]] # "none"
          /\ fresh[p] \notin keep
    /\ \A l \in keep : lease[l] = "alive"

\* What Stop has done by the time it is at each of its calls.
StopProgress ==
    /\ pc["main"] \in {"drain", "delete", "revoke", "stopped"} =>
          ~healthy /\ registration = Nil /\ fresh["main"] \in Leases
    /\ pc["main"] \in {"revoke", "stopped"} /\ ~failed => key = Nil
    /\ pc["main"] = "stopped" => ~failed

IndInv == TypeOK /\ LoopInTurn /\ FreshIsOwn /\ StopProgress /\ KeptKeyIsRegistered

\* The initial state satisfies the inductive invariant.
LEMMA InitIndInv == Init => IndInv
  <1> SUFFICES ASSUME Init PROVE IndInv
    OBVIOUS
  <1> USE LeaseAssumption, FaultAssumption DEF Init, Procs
  <1>1. TypeOK
    <2>1. healthy \in BOOLEAN /\ cancelled \in BOOLEAN /\ failed \in BOOLEAN
      OBVIOUS
    <2>2. /\ pc \in [Procs -> MainStates \cup LoopStates]
          /\ pc["main"] \in MainStates /\ pc["loop"] \in LoopStates
      BY DEF MainStates, LoopStates
    <2> QED BY <2>1, <2>2 DEF TypeOK
  <1>2. LoopInTurn /\ FreshIsOwn
    BY DEF LoopInTurn, FreshIsOwn, Registering
  <1>3. StopProgress /\ KeptKeyIsRegistered
    BY DEF StopProgress, KeptKeyIsRegistered
  <1> QED BY <1>1, <1>2, <1>3 DEF IndInv

\* A step of Register, by Start or by the renew loop, preserves the invariant.
LEMMA RegisterStep ==
  ASSUME IndInv, NEW p \in Procs,
         \/ RegisterGrant(p) \/ RegisterGrantFails(p) \/ RegisterPut(p)
         \/ RegisterPutFails(p) \/ RegisterUndo(p)
  PROVE  IndInv'
  <1> USE LeaseAssumption, FaultAssumption
      DEF IndInv, TypeOK, Procs, MainStates, LoopStates, LoopInTurn, FreshIsOwn, Registering,
          StopProgress, KeptKeyIsRegistered, etcd, Goto, Fault, RegisterFails, LoopTurnEnds
  <1>1. CASE RegisterGrant(p)
    BY <1>1 DEF RegisterGrant
  <1>2. CASE RegisterGrantFails(p)
    <2>1. TypeOK'
      <3>1. healthy' \in BOOLEAN /\ cancelled' \in BOOLEAN
        BY <1>2 DEF RegisterGrantFails
      <3>2. failed' \in BOOLEAN
        BY <1>2 DEF RegisterGrantFails
      <3>3. /\ key' \in Leases \cup {Nil} /\ keep' \in SUBSET Leases
            /\ lease' \in [Leases -> {"none", "alive", "gone"}]
            /\ registration' \in Leases \cup {Nil}
            /\ fresh' \in [Procs -> Leases \cup {Nil}]
            /\ faults' \in 0..MaxFaults
        BY <1>2 DEF RegisterGrantFails
      <3>4. /\ pc' \in [Procs -> MainStates \cup LoopStates]
            /\ pc'["main"] \in MainStates /\ pc'["loop"] \in LoopStates
            /\ pc'["main"] \in {"up", "wait"} => registration' # Nil
        BY <1>2 DEF RegisterGrantFails
      <3> QED BY <3>1, <3>2, <3>3, <3>4
    <2>2. LoopInTurn'
      BY <1>2 DEF RegisterGrantFails
    <2>3. FreshIsOwn'
      BY <1>2 DEF RegisterGrantFails
    <2>4. StopProgress'
      BY <1>2 DEF RegisterGrantFails
    <2>5. KeptKeyIsRegistered'
      BY <1>2 DEF RegisterGrantFails
    <2> QED BY <2>1, <2>2, <2>3, <2>4, <2>5
  <1>3. CASE RegisterPut(p)
    <2>1. TypeOK'
      <3>1. healthy' \in BOOLEAN /\ cancelled' \in BOOLEAN
        BY <1>3 DEF RegisterPut
      <3>2. failed' \in BOOLEAN
        BY <1>3 DEF RegisterPut
      <3>3. /\ key' \in Leases \cup {Nil} /\ keep' \in SUBSET Leases
            /\ lease' \in [Leases -> {"none", "alive", "gone"}]
            /\ registration' \in Leases \cup {Nil}
            /\ fresh' \in [Procs -> Leases \cup {Nil}]
            /\ faults' \in 0..MaxFaults
        BY <1>3 DEF RegisterPut
      <3>4. /\ pc' \in [Procs -> MainStates \cup LoopStates]
            /\ pc'["main"] \in MainStates /\ pc'["loop"] \in LoopStates
            /\ pc'["main"] \in {"up", "wait"} => registration' # Nil
        BY <1>3 DEF RegisterPut
      <3> QED BY <3>1, <3>2, <3>3, <3>4
    <2>2. LoopInTurn'
      BY <1>3 DEF RegisterPut
    <2>3. FreshIsOwn'
      BY <1>3 DEF RegisterPut
    <2>4. StopProgress'
      BY <1>3 DEF RegisterPut
    <2>5. KeptKeyIsRegistered'
      BY <1>3 DEF RegisterPut
    <2> QED BY <2>1, <2>2, <2>3, <2>4, <2>5
  <1>4. CASE RegisterPutFails(p)
    BY <1>4 DEF RegisterPutFails
  <1>5. CASE RegisterUndo(p)
    <2>1. TypeOK'
      <3>1. healthy' \in BOOLEAN /\ cancelled' \in BOOLEAN
        BY <1>5 DEF RegisterUndo, EndLease
      <3>2. failed' \in BOOLEAN
        BY <1>5 DEF RegisterUndo, EndLease
      <3>3. /\ key' \in Leases \cup {Nil} /\ keep' \in SUBSET Leases
            /\ lease' \in [Leases -> {"none", "alive", "gone"}]
            /\ registration' \in Leases \cup {Nil}
            /\ fresh' \in [Procs -> Leases \cup {Nil}]
            /\ faults' \in 0..MaxFaults
        BY <1>5 DEF RegisterUndo, EndLease
      <3>4. /\ pc' \in [Procs -> MainStates \cup LoopStates]
            /\ pc'["main"] \in MainStates /\ pc'["loop"] \in LoopStates
            /\ pc'["main"] \in {"up", "wait"} => registration' # Nil
        <4>1. CASE p = "main"
          BY <1>5, <4>1 DEF RegisterUndo
        <4>2. CASE p = "loop"
          BY <1>5, <4>2 DEF RegisterUndo
        <4> QED BY <4>1, <4>2
      <3> QED BY <3>1, <3>2, <3>3, <3>4
    <2>2. LoopInTurn'
      BY <1>5 DEF RegisterUndo, EndLease
    <2>3. FreshIsOwn'
      BY <1>5 DEF RegisterUndo, EndLease
    <2>4. StopProgress'
      BY <1>5 DEF RegisterUndo, EndLease
    <2>5. KeptKeyIsRegistered'
      BY <1>5 DEF RegisterUndo, EndLease
    <2> QED BY <2>1, <2>2, <2>3, <2>4, <2>5
  <1> QED BY <1>1, <1>2, <1>3, <1>4, <1>5

\* A step of Start or Stop outside Register preserves the invariant.
LEMMA MainStep ==
  ASSUME IndInv,
         \/ StartCall \/ StopCall \/ StopWaitTimesOut \/ StopTakes
         \/ DeregisterDrained \/ DeregisterDelete \/ DeregisterRevoke
  PROVE  IndInv'
  <1> USE LeaseAssumption, FaultAssumption
      DEF IndInv, TypeOK, Procs, MainStates, LoopStates, LoopInTurn, FreshIsOwn, Registering,
          StopProgress, KeptKeyIsRegistered, etcd, Goto, Fault
  <1>1. CASE StartCall
    BY <1>1 DEF StartCall
  <1>2. CASE StopCall
    BY <1>2 DEF StopCall
  <1>3. CASE StopWaitTimesOut
    BY <1>3 DEF StopWaitTimesOut
  <1>4. CASE StopTakes
    BY <1>4 DEF StopTakes
  <1>5. CASE DeregisterDrained
    BY <1>5 DEF DeregisterDrained
  <1>6. CASE DeregisterDelete
    <2>1. TypeOK'
      <3>1. healthy' \in BOOLEAN /\ cancelled' \in BOOLEAN
        BY <1>6 DEF DeregisterDelete
      <3>2. failed' \in BOOLEAN
        BY <1>6 DEF DeregisterDelete
      <3>3. /\ key' \in Leases \cup {Nil} /\ keep' \in SUBSET Leases
            /\ lease' \in [Leases -> {"none", "alive", "gone"}]
            /\ registration' \in Leases \cup {Nil}
            /\ fresh' \in [Procs -> Leases \cup {Nil}]
            /\ faults' \in 0..MaxFaults
        BY <1>6 DEF DeregisterDelete
      <3>4. /\ pc' \in [Procs -> MainStates \cup LoopStates]
            /\ pc'["main"] \in MainStates /\ pc'["loop"] \in LoopStates
            /\ pc'["main"] \in {"up", "wait"} => registration' # Nil
        BY <1>6 DEF DeregisterDelete
      <3> QED BY <3>1, <3>2, <3>3, <3>4
    <2>2. LoopInTurn'
      BY <1>6 DEF DeregisterDelete
    <2>3. FreshIsOwn'
      BY <1>6 DEF DeregisterDelete
    <2>4. StopProgress'
      BY <1>6 DEF DeregisterDelete
    <2>5. KeptKeyIsRegistered'
      BY <1>6 DEF DeregisterDelete
    <2> QED BY <2>1, <2>2, <2>3, <2>4, <2>5
  <1>7. CASE DeregisterRevoke
    BY <1>7 DEF DeregisterRevoke, EndLease
  <1> QED BY <1>1, <1>2, <1>3, <1>4, <1>5, <1>6, <1>7

\* A step of the renew loop outside Register preserves the invariant.
LEMMA LoopStep ==
  ASSUME IndInv, LoopTick \/ LoopRenew \/ LoopCheck \/ LoopRenewFails
  PROVE  IndInv'
  <1> USE LeaseAssumption, FaultAssumption
      DEF IndInv, TypeOK, Procs, MainStates, LoopStates, LoopInTurn, FreshIsOwn, Registering,
          StopProgress, KeptKeyIsRegistered, etcd, Goto, Fault, LoopTurnEnds
  <1>1. CASE LoopTick
    BY <1>1 DEF LoopTick
  <1>2. CASE LoopRenew
    <2>1. TypeOK'
      BY <1>2 DEF LoopRenew
    <2>2. LoopInTurn'
      BY <1>2 DEF LoopRenew
    <2>3. FreshIsOwn'
      BY <1>2 DEF LoopRenew
    <2>4. StopProgress'
      BY <1>2 DEF LoopRenew
    <2>5. KeptKeyIsRegistered'
      BY <1>2 DEF LoopRenew
    <2> QED BY <2>1, <2>2, <2>3, <2>4, <2>5
  <1>3. CASE LoopCheck
    <2>1. TypeOK'
      BY <1>3 DEF LoopCheck
    <2>2. LoopInTurn'
      BY <1>3 DEF LoopCheck
    <2>3. FreshIsOwn'
      BY <1>3 DEF LoopCheck
    <2>4. StopProgress'
      BY <1>3 DEF LoopCheck
    <2>5. KeptKeyIsRegistered'
      BY <1>3 DEF LoopCheck
    <2> QED BY <2>1, <2>2, <2>3, <2>4, <2>5
  <1>4. CASE LoopRenewFails
    <2>1. TypeOK'
      <3>1. healthy' \in BOOLEAN
        BY <1>4 DEF LoopRenewFails
      <3>2. faults' \in 0..MaxFaults
        BY <1>4 DEF LoopRenewFails
      <3>3. pc' \in [Procs -> MainStates \cup LoopStates]
        BY <1>4 DEF LoopRenewFails
      <3> QED BY <1>4, <3>1, <3>2, <3>3 DEF LoopRenewFails
    <2>2. LoopInTurn'
      BY <1>4 DEF LoopRenewFails
    <2>3. FreshIsOwn'
      BY <1>4 DEF LoopRenewFails
    <2>4. StopProgress'
      BY <1>4 DEF LoopRenewFails
    <2>5. KeptKeyIsRegistered'
      BY <1>4 DEF LoopRenewFails
    <2> QED BY <2>1, <2>2, <2>3, <2>4, <2>5
  <1> QED BY <1>1, <1>2, <1>3, <1>4

\* What the etcd server and its operators do preserves the invariant.
LEMMA ServerStep ==
  ASSUME IndInv, Delete \/ \E l \in Leases : LeaseExpires(l) \/ LeaseLost(l)
  PROVE  IndInv'
  <1> USE LeaseAssumption, FaultAssumption
      DEF IndInv, TypeOK, Procs, MainStates, LoopStates, LoopInTurn, FreshIsOwn, Registering,
          StopProgress, KeptKeyIsRegistered, Fault
  <1>1. CASE Delete
    BY <1>1 DEF Delete
  <1>2. ASSUME NEW l \in Leases, LeaseExpires(l) \/ LeaseLost(l)
        PROVE  IndInv'
    BY <1>2 DEF LeaseExpires, LeaseLost, EndLease
  <1> QED BY <1>1, <1>2

\* Every step, and stuttering, preserves the inductive invariant.
LEMMA StepIndInv == IndInv /\ [Next]_vars => IndInv'
  <1> SUFFICES ASSUME IndInv, [Next]_vars PROVE IndInv'
    OBVIOUS
  <1>1. CASE Next
    <2>1. "main" \in Procs /\ "loop" \in Procs
      BY DEF Procs
    <2> QED BY <1>1, <2>1, RegisterStep, MainStep, LoopStep, ServerStep DEF Next, MainTurn, LoopTurn
  <1>2. CASE UNCHANGED vars
    BY <1>2 DEF vars, etcd, IndInv, TypeOK, LoopInTurn, FreshIsOwn, Registering,
                StopProgress, KeptKeyIsRegistered
  <1> QED BY <1>1, <1>2

(***************************************************************************)
(* Type correctness of the component and of its etcd state; while the      *)
(* component is up it holds a registration that Stop can deregister.       *)
(***************************************************************************)
THEOREM TypeCorrect == Spec => []TypeOK
  <1>1. IndInv => TypeOK
    BY DEF IndInv
  <1> QED BY <1>1, InitIndInv, StepIndInv, PTL DEF Spec

(***************************************************************************)
(* A Stop that returned nil leaves no key behind, and no lease, late put   *)
(* or turn of the renew loop brings it back, whatever calls failed with or *)
(* without effect and whatever leases were lost before.                    *)
(***************************************************************************)
THEOREM StopIsFinal == Spec => []StoppedStaysGone
  <1>1. IndInv => StoppedStaysGone
    BY DEF IndInv, StopProgress, StoppedStaysGone
  <1> QED BY <1>1, InitIndInv, StepIndInv, PTL DEF Spec

(***************************************************************************)
(* No keepalive stream of this process keeps a key in etcd that Stop would *)
(* not deregister: a key put by an attempt that failed is left to expire.  *)
(***************************************************************************)
THEOREM KeptKeyIsOurs == Spec => []KeptKeyIsRegistered
  <1>1. IndInv => KeptKeyIsRegistered
    BY DEF IndInv
  <1> QED BY <1>1, InitIndInv, StepIndInv, PTL DEF Spec

-----------------------------------------------------------------------------
(* The lifecycle *)

\* The initial state satisfies the inductive invariant.
LEMMA InitLifecycleInv == LifecycleInit => LifecycleInv
  <1> SUFFICES ASSUME LifecycleInit PROVE LifecycleInv
    OBVIOUS
  <1> USE NobodyAssumption DEF LifecycleInit
  <1>1. Len(components) = 0 /\ Len(started) = 0
    OBVIOUS
  <1>2. LifecycleTypeOK
    <2>1. components \in Seq(Components) /\ started \in Seq(Components)
      OBVIOUS
    <2>2. items \in [Callers -> Seq(Components)]
      OBVIOUS
    <2>3. running \in BOOLEAN
      OBVIOUS
    <2>4. /\ mu \in Callers \cup {Nobody} /\ left \in Nat
          /\ doing \in [Callers -> {"idle", "starting", "rollback", "stopping", "checking"}]
          /\ comp \in [Components -> {"new", "up", "down", "stuck"}]
          /\ asked \in [Callers -> Nat] /\ overtaken \in SUBSET Callers
      OBVIOUS
    <2> QED BY <2>1, <2>2, <2>3, <2>4 DEF LifecycleTypeOK
  <1>3. LockSound
    BY DEF LockSound, Busy
  <1>4. StartedSound
    BY <1>1 DEF StartedSound
  <1>5. LiveCount = 0
    BY <1>1 DEF LiveCount
  <1>6. UpSound
    BY <1>1, <1>5 DEF UpSound
  <1> QED BY <1>2, <1>3, <1>4, <1>6 DEF LifecycleInv

\* Add preserves the inductive invariant.
LEMMA AddStep ==
  ASSUME LifecycleInv, NEW g \in Callers, NEW c \in Components, Add(g, c)
  PROVE  LifecycleInv'
  <1> USE NobodyAssumption DEF LifecycleInv, LifecycleTypeOK, healthVars, Add
  <1>1. LifecycleTypeOK'
    OBVIOUS
  <1>2. LockSound'
    BY DEF LockSound, Busy
  <1>3. /\ Len(started) = 0 /\ LiveCount = 0
        /\ \A i \in 1..Len(components) : components'[i] = components[i]
        /\ components'[Len(components) + 1] = c /\ Len(components') = Len(components) + 1
    BY DEF LockSound, Busy, StartedSound, LiveCount
  <1>4. StartedSound'
    BY <1>3 DEF StartedSound
  <1>5. UpSound'
    BY <1>3 DEF UpSound, LiveCount
  <1> QED BY <1>1, <1>2, <1>4, <1>5

\* Taking the lock for Start preserves the inductive invariant.
LEMMA StartBeginStep ==
  ASSUME LifecycleInv, NEW g \in Callers, StartBegin(g)
  PROVE  LifecycleInv'
  <1> USE NobodyAssumption DEF LifecycleInv, LifecycleTypeOK, healthVars, StartBegin, Lock
  <1>1. LifecycleTypeOK'
    OBVIOUS
  <1>2. LockSound'
    BY DEF LockSound, Busy
  <1>3. StartedSound'
    BY DEF StartedSound
  <1>4. UpSound'
    BY DEF UpSound, LiveCount, LockSound, Busy
  <1> QED BY <1>1, <1>2, <1>3, <1>4

\* Starting the next component preserves the inductive invariant.
LEMMA StartComponentStep ==
  ASSUME LifecycleInv, NEW g \in Callers, StartComponent(g)
  PROVE  LifecycleInv'
  <1> USE NobodyAssumption DEF LifecycleInv, LifecycleTypeOK, healthVars, StartComponent, NextItem
  <1>1. NextItem \in Components /\ Len(started) + 1 \in 1..Len(components)
    OBVIOUS
  <1>2. LifecycleTypeOK'
    BY <1>1
  <1>3. LockSound'
    BY DEF LockSound, Busy
  <1>4. mu = g /\ ~running /\ \A h \in Callers : doing[h] \notin {"stopping", "rollback"}
    BY DEF LockSound, Busy
  <1>5. /\ Len(started') = Len(started) + 1 /\ started'[Len(started) + 1] = NextItem
        /\ \A i \in 1..Len(started) : started'[i] = started[i]
    BY <1>1
  <1>6. StartedSound'
    <2>1. components' = components /\ mu' = mu /\ running' = running
      OBVIOUS
    <2>2. \A i \in 1..Len(started') : started'[i] = components[i]
      BY <1>1, <1>5 DEF StartedSound
    <2> QED BY <1>1, <1>4, <1>5, <2>1, <2>2 DEF StartedSound
  <1>7. LiveCount = Len(started) /\ LiveCount' = Len(started) + 1
    BY <1>4, <1>5 DEF LiveCount
  <1>8. \A i \in 1..Len(components) : components[i] = NextItem <=> i = Len(started) + 1
    BY <1>1 DEF StartedSound
  <1>9. comp' = [comp EXCEPT ![NextItem] = "up"] /\ components' = components
    OBVIOUS
  <1>10. ASSUME NEW i \in 1..Len(components)
         PROVE  comp'[components[i]] = "up" <=> i <= Len(started) + 1
    <2>1. components[i] \in Components
      OBVIOUS
    <2>2. comp[components[i]] = "up" <=> i <= Len(started)
      BY <1>7 DEF UpSound
    <2>3. CASE i = Len(started) + 1
      BY <1>1, <1>8, <1>9, <2>3
    <2>4. CASE i # Len(started) + 1
      BY <1>8, <1>9, <2>1, <2>2, <2>4
    <2> QED BY <2>3, <2>4
  <1>11. ASSUME NEW c \in Components, comp'[c] = "up"
         PROVE  \E i \in 1..Len(components) : components[i] = c
    <2>1. CASE c = NextItem
      BY <1>1, <2>1
    <2>2. CASE c # NextItem
      BY <1>9, <1>11, <2>2 DEF UpSound
    <2> QED BY <2>1, <2>2
  <1>12. UpSound'
    BY <1>5, <1>7, <1>9, <1>10, <1>11 DEF UpSound
  <1> QED BY <1>2, <1>3, <1>6, <1>12

\* A component that fails to start preserves the inductive invariant.
LEMMA StartFailsStep ==
  ASSUME LifecycleInv, NEW g \in Callers, StartFails(g)
  PROVE  LifecycleInv'
  <1> USE NobodyAssumption DEF LifecycleInv, LifecycleTypeOK, healthVars, StartFails
  <1>1. LifecycleTypeOK'
    OBVIOUS
  <1>2. LockSound'
    BY DEF LockSound, Busy
  <1>3. StartedSound'
    BY DEF StartedSound
  <1>4. UpSound'
    BY DEF UpSound, LiveCount, LockSound, Busy
  <1> QED BY <1>1, <1>2, <1>3, <1>4

\* The end of a successful Start preserves the inductive invariant.
LEMMA StartEndStep ==
  ASSUME LifecycleInv, NEW g \in Callers, StartEnd(g)
  PROVE  LifecycleInv'
  <1> USE NobodyAssumption DEF LifecycleInv, LifecycleTypeOK, healthVars, StartEnd, Unlock
  <1>1. LifecycleTypeOK'
    OBVIOUS
  <1>2. LockSound'
    BY DEF LockSound, Busy
  <1>3. StartedSound'
    BY DEF StartedSound
  <1>4. UpSound'
    BY DEF UpSound, LiveCount, LockSound, Busy
  <1> QED BY <1>1, <1>2, <1>3, <1>4

\* Taking the lock for Stop preserves the inductive invariant.
LEMMA StopBeginStep ==
  ASSUME LifecycleInv, NEW g \in Callers, StopBegin(g)
  PROVE  LifecycleInv'
  <1> USE NobodyAssumption DEF LifecycleInv, LifecycleTypeOK, healthVars, StopBegin, Lock
  <1>1. LifecycleTypeOK'
    <2>1. left' \in Nat
      <3>1. Len(started) \in Nat /\ left' = Len(started)
        OBVIOUS
      <3> QED BY <3>1
    <2>2. running' \in BOOLEAN
      OBVIOUS
    <2>3. doing' \in [Callers -> {"idle", "starting", "rollback", "stopping", "checking"}]
      OBVIOUS
    <2> QED BY <2>1, <2>2, <2>3
  <1>2. LockSound'
    BY DEF LockSound, Busy
  <1>3. StartedSound'
    BY DEF StartedSound
  <1>4. UpSound'
    BY DEF UpSound, LiveCount, LockSound, Busy
  <1> QED BY <1>1, <1>2, <1>3, <1>4

\* Stopping the topmost component preserves the inductive invariant.
LEMMA StopComponentStep ==
  ASSUME LifecycleInv, NEW g \in Callers, StopComponent(g)
  PROVE  LifecycleInv'
  <1> USE NobodyAssumption DEF LifecycleInv, LifecycleTypeOK, healthVars, StopComponent
  <1>1. LiveCount = left /\ LiveCount' = left - 1 /\ left \in 1..Len(started)
    BY DEF LiveCount, UpSound
  <1>2. started[left] = components[left] /\ components[left] \in Components
    BY <1>1 DEF StartedSound
  <1>3. PICK after \in {"down", "stuck"} : comp' = [comp EXCEPT ![started[left]] = after]
    OBVIOUS
  <1>4. LifecycleTypeOK'
    BY <1>1, <1>2, <1>3
  <1>5. LockSound'
    BY DEF LockSound, Busy
  <1>6. StartedSound'
    BY DEF StartedSound
  <1>7. UpSound'
    BY <1>1, <1>2, <1>3 DEF UpSound, StartedSound
  <1> QED BY <1>4, <1>5, <1>6, <1>7

\* The end of stopStarted preserves the inductive invariant.
LEMMA StopEndStep ==
  ASSUME LifecycleInv, NEW g \in Callers, StopEnd(g)
  PROVE  LifecycleInv'
  <1> USE NobodyAssumption DEF LifecycleInv, LifecycleTypeOK, healthVars, StopEnd, Unlock
  <1>1. LifecycleTypeOK'
    <2>1. started' \in Seq(Components)
      OBVIOUS
    <2>2. doing' \in [Callers -> {"idle", "starting", "rollback", "stopping", "checking"}]
      OBVIOUS
    <2> QED BY <2>1, <2>2
  <1>2. mu = g /\ ~running
    BY DEF LockSound, Busy
  <1>3. LockSound'
    BY <1>2 DEF LockSound, Busy
  <1>4. StartedSound'
    BY <1>2 DEF StartedSound
  <1>5. LiveCount = 0 /\ LiveCount' = 0
    BY <1>3 DEF LiveCount, LockSound, Busy
  <1>6. UpSound'
    BY <1>5 DEF UpSound
  <1> QED BY <1>1, <1>3, <1>4, <1>6

\* Health changes nothing that Start and Stop rely on.
LEMMA HealthStep ==
  ASSUME LifecycleInv, NEW g \in Callers,
         HealthBegin(g) \/ HealthCheck(g) \/ HealthFails(g) \/ HealthOk(g)
  PROVE  LifecycleInv'
  <1> USE NobodyAssumption DEF LifecycleInv, LifecycleTypeOK, healthVars, HealthBegin, HealthCheck, HealthFails,
                               HealthOk, HealthReturns
  <1>1. LifecycleTypeOK'
    <2>1. CASE HealthBegin(g)
      BY <2>1
    <2>2. CASE HealthCheck(g)
      BY <2>2
    <2>3. CASE HealthFails(g) \/ HealthOk(g)
      <3>1. <<>> \in Seq(Components)
        OBVIOUS
      <3>2. items' \in [Callers -> Seq(Components)]
        BY <2>3, <3>1
      <3>3. doing' \in [Callers -> {"idle", "starting", "rollback", "stopping", "checking"}]
        BY <2>3
      <3>4. asked' = [asked EXCEPT ![g] = 0] /\ overtaken' = overtaken \ {g}
        BY <2>3
      <3>5. asked' \in [Callers -> Nat] /\ overtaken' \in SUBSET Callers
        BY <3>4
      <3> QED BY <2>3, <3>2, <3>3, <3>5
    <2> QED BY <2>1, <2>2, <2>3
  <1>2. \A h \in Callers : \A b \in Busy : doing'[h] = b <=> doing[h] = b
    BY DEF Busy
  <1>3. LockSound'
    BY <1>2 DEF LockSound, Busy
  <1>4. StartedSound'
    BY DEF StartedSound
  <1>5. LiveCount' = LiveCount
    BY <1>2 DEF LiveCount, Busy
  <1>6. UpSound'
    BY <1>5 DEF UpSound
  <1> QED BY <1>1, <1>3, <1>4, <1>6

\* Every step of the runtime, and stuttering, preserves the inductive invariant.
LEMMA StepLifecycleInv == LifecycleInv /\ [LifecycleNext]_runtimeVars => LifecycleInv'
  <1> SUFFICES ASSUME LifecycleInv, [LifecycleNext]_runtimeVars PROVE LifecycleInv'
    OBVIOUS
  <1>1. CASE LifecycleNext
    BY <1>1, AddStep, StartBeginStep, StartComponentStep, StartFailsStep, StartEndStep,
       StopBeginStep, StopComponentStep, StopEndStep, HealthStep DEF LifecycleNext, Turn
  <1>2. CASE UNCHANGED runtimeVars
    BY <1>2 DEF runtimeVars, healthVars, LifecycleInv, LifecycleTypeOK, LockSound, Busy, StartedSound, UpSound, LiveCount
  <1> QED BY <1>1, <1>2

\* The inductive invariant gives the two safety properties of the runs.
LEMMA LifecycleInvSafety == LifecycleInv => UpIsPrefix /\ AllOrNothing
  <1> SUFFICES ASSUME LifecycleInv PROVE UpIsPrefix /\ AllOrNothing
    OBVIOUS
  <1> USE NobodyAssumption DEF LifecycleInv, LifecycleTypeOK
  <1>1. UpIsPrefix
    <2> SUFFICES ASSUME NEW i \in 1..Len(components), NEW j \in 1..Len(components),
                        i < j, comp[components[j]] = "up"
                 PROVE  comp[components[i]] = "up"
      BY DEF UpIsPrefix
    <2>1. LiveCount \in Nat
      BY DEF LiveCount
    <2>2. j <= LiveCount
      BY DEF UpSound
    <2>3. i <= LiveCount
      BY <2>1, <2>2
    <2> QED BY <2>3 DEF UpSound
  <1>2. ASSUME mu = Nobody PROVE LiveCount = Len(started)
    BY <1>2 DEF LiveCount, LockSound, Busy
  <1>3. ASSUME mu = Nobody, running
        PROVE  started = components /\ \A i \in 1..Len(components) : comp[components[i]] = "up"
    <2>1. Len(started) = Len(components) /\ \A i \in 1..Len(started) : started[i] = components[i]
      BY <1>3 DEF StartedSound
    <2>2. started = components
      BY <2>1, SeqEqual
    <2>3. \A i \in 1..Len(components) : comp[components[i]] = "up"
      BY <1>2, <1>3, <2>1 DEF UpSound
    <2> QED BY <2>2, <2>3
  <1>4. ASSUME mu = Nobody, ~running
        PROVE  started = <<>> /\ \A c \in Components : comp[c] # "up"
    <2>1. Len(started) = 0
      BY <1>4 DEF StartedSound
    <2>2. started = <<>>
      BY <2>1
    <2>3. \A i \in 1..Len(components) : comp[components[i]] # "up"
      BY <1>2, <1>4, <2>1 DEF UpSound
    <2>4. \A c \in Components : comp[c] # "up"
      BY <2>3 DEF UpSound
    <2> QED BY <2>2, <2>4
  <1> QED BY <1>1, <1>3, <1>4 DEF AllOrNothing

(***************************************************************************)
(* For any number of components and callers: the components that are up    *)
(* are always a prefix of the registration order, and Start is all or      *)
(* nothing, with any failures of Start and Stop on the way.                *)
(***************************************************************************)
THEOREM StartStopSafety == LifecycleSpec => [](LifecycleTypeOK /\ UpIsPrefix /\ AllOrNothing)
  <1>1. LifecycleInv => LifecycleTypeOK /\ UpIsPrefix /\ AllOrNothing
    BY LifecycleInvSafety DEF LifecycleInv
  <1> QED BY <1>1, InitLifecycleInv, StepLifecycleInv, PTL DEF LifecycleSpec

\* The copies of the Health calls are sound in the initial state: there is none.
LEMMA InitCopySound == LifecycleInit => CopySound
  BY DEF LifecycleInit, CopySound

\* A call of Health that goes on sees what it saw, unless its Runtime is stopped.
LEMMA CopyKept ==
  ASSUME LifecycleInv, CopySound, LifecycleTypeOK',
         \A h \in Callers : doing'[h] = "checking" =>
            /\ doing[h] = "checking" /\ items'[h] = items[h] /\ asked'[h] = asked[h]
            /\ h \notin overtaken' => h \notin overtaken /\ running' /\ components' = components,
         Len(components) <= Len(components'),
         \A i \in 1..Len(components) : components'[i] = components[i],
         \A c \in Components : comp[c] # "new" => comp'[c] # "new"
  PROVE  CopySound'
  <1> USE DEF LifecycleInv, LifecycleTypeOK
  <1> SUFFICES ASSUME NEW h \in Callers, doing'[h] = "checking"
               PROVE  /\ h \notin overtaken' => running' /\ Len(items'[h]) = Len(components')
                      /\ asked'[h] <= Len(items'[h]) /\ Len(items'[h]) <= Len(components')
                      /\ \A i \in 1..Len(items'[h]) : /\ items'[h][i] = components'[i]
                                                     /\ comp'[items'[h][i]] # "new"
    BY DEF CopySound
  <1>1. doing[h] = "checking" /\ items'[h] = items[h] /\ asked'[h] = asked[h]
    OBVIOUS
  <1>2. /\ h \notin overtaken => running /\ Len(items[h]) = Len(components)
        /\ asked[h] <= Len(items[h]) /\ Len(items[h]) <= Len(components)
        /\ \A i \in 1..Len(items[h]) : items[h][i] = components[i] /\ comp[items[h][i]] # "new"
    BY <1>1 DEF CopySound
  <1>3. /\ items[h] \in Seq(Components) /\ Len(items[h]) \in Nat
        /\ Len(components) \in Nat /\ Len(components') \in Nat
    OBVIOUS
  <1>4. ASSUME NEW i \in 1..Len(items[h])
        PROVE  items[h][i] = components'[i] /\ comp'[items[h][i]] # "new"
    <2>1. i \in 1..Len(components) /\ items[h][i] \in Components
      BY <1>2, <1>3
    <2> QED BY <1>2, <2>1
  <1> QED BY <1>1, <1>2, <1>3, <1>4

\* Every step of the runtime, and stuttering, keeps the copies sound.
LEMMA StepCopySound ==
  ASSUME LifecycleInv, LifecycleInv', CopySound, [LifecycleNext]_runtimeVars
  PROVE  CopySound'
  <1> USE NobodyAssumption DEF LifecycleInv, LifecycleTypeOK
  <1>0. LifecycleTypeOK'
    BY DEF LifecycleInv
  <1>1. ASSUME NEW g \in Callers, NEW c \in Components, Add(g, c)
        PROVE  CopySound'
    <2>1. ~running /\ components' = Append(components, c)
      BY <1>1 DEF Add
    <2>2. /\ Len(components) <= Len(components')
          /\ \A i \in 1..Len(components) : components'[i] = components[i]
      BY <2>1
    <2>3. \A h \in Callers : doing[h] = "checking" => h \in overtaken
      BY <2>1 DEF CopySound
    <2>4. comp' = comp /\ doing' = doing /\ items' = items /\ asked' = asked /\ overtaken' = overtaken
      BY <1>1 DEF Add, healthVars
    <2> QED BY <1>0, <2>2, <2>3, <2>4, CopyKept
  <1>2. ASSUME NEW g \in Callers, StartBegin(g) \/ StartFails(g) \/ StartEnd(g) \/ StopEnd(g)
        PROVE  CopySound'
    <2>1. components' = components /\ comp' = comp /\ (running => running')
      BY <1>2 DEF StartBegin, StartFails, StartEnd, StopEnd
    <2>2. items' = items /\ asked' = asked /\ overtaken' = overtaken
      BY <1>2 DEF StartBegin, StartFails, StartEnd, StopEnd, healthVars
    <2>3. \A h \in Callers : doing'[h] = "checking" => doing[h] = "checking"
      BY <1>2 DEF StartBegin, StartFails, StartEnd, StopEnd, Lock, Unlock
    <2>4. \A h \in Callers : doing'[h] = "checking" /\ h \notin overtaken' => running'
      BY <2>1, <2>2, <2>3 DEF CopySound
    <2>5. Len(components) <= Len(components')
      BY <2>1
    <2> QED BY <1>0, <2>1, <2>2, <2>3, <2>4, <2>5, CopyKept
  <1>3. ASSUME NEW g \in Callers, StartComponent(g)
        PROVE  CopySound'
    <2>1. \A c \in Components : comp[c] # "new" => comp'[c] # "new"
      BY <1>3 DEF StartComponent
    <2>2. running' = running /\ components' = components /\ doing' = doing
      BY <1>3 DEF StartComponent
    <2>3. items' = items /\ asked' = asked /\ overtaken' = overtaken
      BY <1>3 DEF StartComponent, healthVars
    <2> QED BY <1>0, <2>1, <2>2, <2>3, CopyKept DEF CopySound
  <1>4. ASSUME NEW g \in Callers, StopComponent(g)
        PROVE  CopySound'
    <2>1. \A c \in Components : comp[c] # "new" => comp'[c] # "new"
      BY <1>4 DEF StopComponent
    <2>2. running' = running /\ components' = components /\ doing' = doing
      BY <1>4 DEF StopComponent
    <2>3. items' = items /\ asked' = asked /\ overtaken' = overtaken
      BY <1>4 DEF StopComponent, healthVars
    <2> QED BY <1>0, <2>1, <2>2, <2>3, CopyKept DEF CopySound
  <1>5. ASSUME NEW g \in Callers, StopBegin(g)
        PROVE  CopySound'
    <2>1. \A h \in Callers : doing'[h] = "checking" => doing[h] = "checking" /\ h \in overtaken'
      BY <1>5 DEF StopBegin, Lock
    <2> QED BY <1>0, <1>5, <2>1, CopyKept DEF StopBegin
  <1>6. ASSUME NEW g \in Callers, HealthFails(g) \/ HealthOk(g)
        PROVE  CopySound'
    <2>1. /\ \A h \in Callers : doing'[h] = "checking" => h # g /\ doing[h] = "checking"
          /\ \A h \in Callers : h # g => items'[h] = items[h] /\ asked'[h] = asked[h]
          /\ overtaken' = overtaken \ {g} /\ running' = running /\ components' = components
          /\ comp' = comp
      BY <1>6 DEF HealthFails, HealthOk, HealthReturns
    <2> QED BY <1>0, <2>1, CopyKept DEF CopySound
  <1>7. ASSUME NEW g \in Callers, HealthCheck(g)
        PROVE  CopySound'
    <2>1. /\ asked[g] < Len(items[g]) /\ asked' = [asked EXCEPT ![g] = @ + 1] /\ doing' = doing
          /\ items' = items /\ overtaken' = overtaken /\ running' = running
          /\ components' = components /\ comp' = comp
      BY <1>7 DEF HealthCheck
    <2>2. \A h \in Callers : doing[h] = "checking" => asked'[h] <= Len(items[h])
      BY <2>1 DEF CopySound
    <2> QED BY <2>1, <2>2 DEF CopySound
  <1>8. ASSUME NEW g \in Callers, HealthBegin(g)
        PROVE  CopySound'
    <2>1. /\ running /\ mu = Nobody /\ items' = [items EXCEPT ![g] = started]
          /\ doing' = [doing EXCEPT ![g] = "checking"] /\ asked' = [asked EXCEPT ![g] = 0]
          /\ overtaken' = overtaken /\ running' = running /\ components' = components /\ comp' = comp
      BY <1>8 DEF HealthBegin
    <2>2. /\ Len(started) = Len(components) /\ \A i \in 1..Len(started) : started[i] = components[i]
          /\ LiveCount = Len(started)
      BY <2>1 DEF StartedSound, LiveCount, LockSound, Busy
    <2>3. \A i \in 1..Len(started) : comp[started[i]] = "up"
      BY <2>2 DEF UpSound
    <2>4. asked'[g] = 0 /\ Len(started) \in Nat
      BY <2>1
    <2>5. \A h \in Callers : h # g => /\ doing'[h] = doing[h] /\ items'[h] = items[h]
                                      /\ asked'[h] = asked[h]
      BY <2>1
    <2>6. items'[g] = started
      BY <2>1
    <2> QED BY <2>1, <2>2, <2>3, <2>4, <2>5, <2>6 DEF CopySound
  <1>9. CASE UNCHANGED runtimeVars
    BY <1>9 DEF runtimeVars, CopySound
  <1>10. CASE LifecycleNext
    BY <1>1, <1>2, <1>3, <1>4, <1>5, <1>6, <1>7, <1>8, <1>10 DEF LifecycleNext, Turn
  <1> QED BY <1>9, <1>10

(***************************************************************************)
(* For any number of components and callers: the copy that Health goes     *)
(* through without the lock is the whole runtime, with every component up, *)
(* unless a Stop has overtaken the call, and otherwise a prefix of the     *)
(* components, all of which have been started once.                        *)
(***************************************************************************)
THEOREM HealthCopySound == LifecycleSpec => []HealthCopyIsWhole
  <1>1. ASSUME LifecycleInv, CopySound PROVE HealthCopyIsWhole
    <2> USE NobodyAssumption DEF LifecycleInv, LifecycleTypeOK
    <2>1. ASSUME NEW g \in Callers, doing[g] = "checking", g \notin overtaken
          PROVE  /\ items[g] = components
                 /\ \A i \in 1..Len(components) : comp[components[i]] = "up"
      <3>0. LifecycleInv /\ CopySound
        BY <1>1
      <3>1. /\ running /\ Len(items[g]) = Len(components)
            /\ \A i \in 1..Len(items[g]) : items[g][i] = components[i]
        BY <2>1, <3>0 DEF CopySound
      <3>2. items[g] = components
        BY <3>0, <3>1, SeqEqual
      <3>3. mu = Nobody
        BY <3>0, <3>1 DEF LockSound
      <3> QED BY <3>0, <3>1, <3>2, <3>3, LifecycleInvSafety DEF AllOrNothing
    <2> QED BY <2>1, <1>1 DEF HealthCopyIsWhole, CopySound
  <1>2. LifecycleInit => LifecycleInv /\ CopySound
    BY InitLifecycleInv, InitCopySound
  <1>3. LifecycleInv /\ CopySound /\ [LifecycleNext]_runtimeVars => (LifecycleInv /\ CopySound)'
    BY StepLifecycleInv, StepCopySound
  <1> QED BY <1>1, <1>2, <1>3, PTL DEF LifecycleSpec

-----------------------------------------------------------------------------
\* What the refinement mapping yields in each of the situations of the lock.
MappedState ==
    /\ mu = Nobody => /\ Mode = IF running THEN "running" ELSE "stopped"
                   /\ Live = started
    /\ \A g \in Callers : doing[g] = "starting" => Mode = "starting" /\ Live = started
    /\ \A g \in Callers : doing[g] \in {"stopping", "rollback"} =>
          /\ Mode = "stopping" /\ Live = SubSeq(started, 1, left)
          /\ left \in 0..Len(started)

\* The mapping is as described in every state of the inductive invariant.
LEMMA Mapping == LifecycleInv => MappedState
  <1> SUFFICES ASSUME LifecycleInv PROVE MappedState
    OBVIOUS
  <1> USE NobodyAssumption DEF LifecycleInv, LifecycleTypeOK
  <1>1. \A g, h \in Callers : doing[g] \in Busy /\ doing[h] \in Busy => g = h
    BY DEF LockSound
  <1>2. mu = Nobody => \A g \in Callers : doing[g] \notin Busy
    BY DEF LockSound
  <1>3. mu = Nobody => Mode = IF running THEN "running" ELSE "stopped"
    BY <1>2 DEF Mode, Busy
  <1>4. \A g \in Callers : doing[g] = "starting" => Mode = "starting"
    BY <1>1 DEF Mode, Busy
  <1>5. ASSUME NEW g \in Callers, doing[g] \in {"stopping", "rollback"}
        PROVE  Mode = "stopping" /\ left <= Len(started)
    <2>1. \A h \in Callers : doing[h] # "starting"
      BY <1>1, <1>5 DEF Busy
    <2>2. Mode = "stopping"
      BY <2>1, <1>5 DEF Mode
    <2>3. LiveCount = left
      BY <1>5 DEF LiveCount
    <2> QED BY <2>2, <2>3 DEF UpSound
  <1> QED BY <1>3, <1>4, <1>5 DEF MappedState, Live

\* The initial state of the runtime is an empty stack.
LEMMA InitRefines == LifecycleInit => Stack!StackInit
  <1> SUFFICES ASSUME LifecycleInit PROVE Stack!StackInit
    OBVIOUS
  <1>1. LifecycleInv /\ mu = Nobody /\ ~running /\ started = <<>> /\ components = <<>>
    BY InitLifecycleInv DEF LifecycleInit
  <1>2. Mode = "stopped" /\ Live = <<>>
    BY <1>1, Mapping DEF MappedState
  <1> QED BY <1>1, <1>2 DEF Stack!StackInit

\* Every step of the runtime is a step of the stack, or leaves it alone.
LEMMA StepRefines ==
  ASSUME LifecycleInv, LifecycleInv', LifecycleNext
  PROVE  [Stack!StackNext]_Stack!stackVars
  <1> USE NobodyAssumption
  <1>0. LifecycleTypeOK /\ LifecycleTypeOK' /\ LockSound /\ LockSound'
    BY DEF LifecycleInv
  <1>M. MappedState /\ MappedState'
    BY Mapping, PTL
  <1>1. ASSUME NEW g \in Callers, NEW c \in Components, Add(g, c)
        PROVE  Stack!Register(c)
    BY <1>1, <1>M DEF MappedState, Add, Stack!Register
  <1>2. ASSUME NEW g \in Callers, StartBegin(g)
        PROVE  Stack!BeginStart
    BY <1>0, <1>2, <1>M DEF MappedState, StartBegin, Lock, Stack!BeginStart, LifecycleTypeOK
  <1>3. ASSUME NEW g \in Callers, StartComponent(g)
        PROVE  Stack!Push
    BY <1>3, <1>M DEF MappedState, StartComponent, NextItem, Stack!Push
  <1>4. ASSUME NEW g \in Callers, StartFails(g)
        PROVE  Stack!BeginStop
    <2>1. doing'[g] = "rollback" /\ left' = Len(started) /\ started' = started
      BY <1>0, <1>4 DEF StartFails, LifecycleTypeOK
    <2>2. Live = started /\ Live' = SubSeq(started, 1, Len(started)) /\ Mode' = "stopping"
      BY <1>4, <1>M, <2>1 DEF MappedState, StartFails
    <2>3. Live' = Live
      BY <1>0, <2>2 DEF LifecycleTypeOK
    <2> QED BY <1>4, <2>2, <2>3 DEF StartFails, Stack!BeginStop
  <1>5. ASSUME NEW g \in Callers, StartEnd(g)
        PROVE  Stack!Complete
    BY <1>5, <1>M DEF MappedState, StartEnd, Unlock, Stack!Complete
  <1>6. ASSUME NEW g \in Callers, StopBegin(g)
        PROVE  Stack!BeginStop
    <2>1. doing'[g] = "stopping" /\ left' = Len(started) /\ started' = started /\ mu = Nobody
      BY <1>0, <1>6 DEF StopBegin, Lock, LifecycleTypeOK
    <2>2. Live = started /\ Live' = SubSeq(started, 1, Len(started)) /\ Mode' = "stopping"
      BY <1>M, <2>1 DEF MappedState
    <2>3. Live' = Live
      BY <1>0, <2>2 DEF LifecycleTypeOK
    <2> QED BY <1>6, <2>2, <2>3 DEF StopBegin, Stack!BeginStop
  <1>7. ASSUME NEW g \in Callers, StopComponent(g)
        PROVE  Stack!Pop
    <2>1. /\ doing[g] \in {"stopping", "rollback"} /\ doing' = doing /\ started' = started
          /\ left > 0 /\ left' = left - 1 /\ components' = components
      BY <1>7 DEF StopComponent
    <2>2. /\ Mode = "stopping" /\ Mode' = "stopping" /\ left \in 1..Len(started)
          /\ Live = SubSeq(started, 1, left) /\ Live' = SubSeq(started, 1, left - 1)
      BY <1>M, <2>1 DEF MappedState
    <2>3. Len(SubSeq(started, 1, left)) = left
      BY <1>0, <2>2 DEF LifecycleTypeOK
    <2>4. Len(Live) = left /\ Live # <<>>
      BY <2>2, <2>3
    <2>5. SubSeq(Live, 1, Len(Live) - 1) = SubSeq(started, 1, left - 1)
      BY <1>0, <2>2, <2>4 DEF LifecycleTypeOK
    <2> QED BY <2>1, <2>2, <2>4, <2>5 DEF Stack!Pop
  <1>8. ASSUME NEW g \in Callers, StopEnd(g)
        PROVE  Stack!EndStop
    <2>1. /\ doing[g] \in {"stopping", "rollback"} /\ mu' = Nobody /\ started' = <<>>
          /\ left = 0 /\ components' = components /\ running' = running
      BY <1>8 DEF StopEnd, Unlock
    <2>2. ~running
      BY <1>0, <2>1 DEF LockSound, Busy, LifecycleTypeOK
    <2>3. Mode = "stopping" /\ Live = SubSeq(started, 1, 0) /\ Mode' = "stopped" /\ Live' = <<>>
      BY <1>M, <2>1, <2>2 DEF MappedState
    <2>4. Live = <<>>
      BY <1>0, <2>3 DEF LifecycleTypeOK
    <2> QED BY <2>1, <2>3, <2>4 DEF Stack!EndStop
  <1>9. ASSUME NEW g \in Callers,
               HealthBegin(g) \/ HealthCheck(g) \/ HealthFails(g) \/ HealthOk(g)
        PROVE  UNCHANGED Stack!stackVars
    <2>1. /\ started' = started /\ left' = left /\ running' = running
          /\ components' = components
      BY <1>9 DEF HealthBegin, HealthCheck, HealthFails, HealthOk, HealthReturns
    <2>2. \A h \in Callers : \A b \in Busy : doing'[h] = b <=> doing[h] = b
      BY <1>0, <1>9 DEF HealthBegin, HealthCheck, HealthFails, HealthOk, HealthReturns, Busy, LifecycleTypeOK
    <2>3. Mode' = Mode
      BY <2>1, <2>2 DEF Mode, Busy
    <2>4. Live' = Live
      BY <2>1, <2>3 DEF Live
    <2> QED BY <2>1, <2>3, <2>4 DEF Stack!stackVars
  <1> QED
    BY <1>1, <1>2, <1>3, <1>4, <1>5, <1>6, <1>7, <1>8, <1>9
    DEF LifecycleNext, Turn, Stack!StackNext

(***************************************************************************)
(* The Runtime implements the stack of live components: with its lock, its *)
(* callers and its failures it only ever pushes the next component, pops   *)
(* the last one, and rests with all of them live or none.                  *)
(***************************************************************************)
THEOREM Refinement == LifecycleSpec => ImplementsStack
  <1>1. LifecycleInv /\ LifecycleInv' /\ [LifecycleNext]_runtimeVars => [Stack!StackNext]_Stack!stackVars
    <2> SUFFICES ASSUME LifecycleInv, LifecycleInv', [LifecycleNext]_runtimeVars
                 PROVE  [Stack!StackNext]_Stack!stackVars
      OBVIOUS
    <2>1. CASE LifecycleNext
      BY <2>1, StepRefines
    <2>2. CASE UNCHANGED runtimeVars
      BY <2>2 DEF runtimeVars, Stack!stackVars, Live, Mode
    <2> QED BY <2>1, <2>2
  <1> QED
    BY <1>1, InitRefines, InitLifecycleInv, StepLifecycleInv, PTL
    DEF LifecycleSpec, ImplementsStack, Stack!StackSpec

-----------------------------------------------------------------------------
(* The memory registry: reading events *)

\* One more event decides for its id, and for no other.
LEMMA OneMoreEvent ==
  ASSUME NEW p \in Seq(Event), NEW e \in Event, NEW v, NEW i
  PROVE  /\ e.id = i => LeavesWith(v, Append(p, e), i, e.address)
         /\ e.id # i => \A a : LeavesWith(v, p, i, a) => LeavesWith(v, Append(p, e), i, a)
  <1> DEFINE q == Append(p, e)
             n == Len(p)
             mine == {k \in DOMAIN p : p[k].id = i}
             ours == {k \in DOMAIN q : q[k].id = i}
  <1>1. /\ n \in Nat /\ DOMAIN p = 1..n /\ DOMAIN q = 1..(n + 1) /\ q[n + 1] = e
        /\ \A k \in 1..n : q[k] = p[k]
    OBVIOUS
  <1> HIDE DEF q, n
  <1>3. CASE e.id = i
    <2>1. n + 1 \in ours /\ \A k \in ours : k \in 1..(n + 1)
      BY <1>1, <1>3
    <2>2. \A k \in ours : (\A j \in ours : j <= k) => k = n + 1
      BY <1>1, <2>1
    <2>3. /\ ours = {} => v[i] = e.address
          /\ \A k \in ours : (\A j \in ours : j <= k) => q[k].address = e.address
      BY <1>1, <2>1, <2>2
    <2> QED BY <1>3, <2>3 DEF LeavesWith, q
  <1>4. ASSUME e.id # i, NEW a, LeavesWith(v, p, i, a)
        PROVE  LeavesWith(v, q, i, a)
    <2>0. /\ mine = {} => v[i] = a
          /\ \A k \in mine : (\A j \in mine : j <= k) => p[k].address = a
      BY <1>4 DEF LeavesWith
    <2>1. ours = mine
      BY <1>1, <1>4
    <2>2. \A k \in mine : q[k] = p[k]
      BY <1>1
    <2>3. /\ ours = {} => v[i] = a
          /\ \A k \in ours : (\A j \in ours : j <= k) => q[k].address = a
      BY <2>0, <2>1, <2>2
    <2> QED BY <2>3 DEF LeavesWith
  <1> QED BY <1>3, <1>4 DEF q

\* Applying the first event and then the others is applying them all.
LEMMA OneEventLess ==
  ASSUME NEW p \in Seq(Event), p # <<>>, NEW v \in Values, NEW i \in Ids, NEW a, LeavesWith(v, p, i, a)
  PROVE  LeavesWith(Apply(v, Head(p)), Tail(p), i, a)
  <1> DEFINE q == Tail(p)
             n == Len(p)
             e == Head(p)
             mine == {k \in DOMAIN p : p[k].id = i}
             ours == {k \in DOMAIN q : q[k].id = i}
  <1>1. /\ n \in Nat /\ n > 0 /\ DOMAIN p = 1..n /\ DOMAIN q = 1..(n - 1) /\ p[1] = e /\ e \in Event
        /\ \A k \in 1..(n - 1) : q[k] = p[k + 1]
    OBVIOUS
  <1>2. /\ mine = {} => v[i] = a
        /\ \A k \in mine : (\A j \in mine : j <= k) => p[k].address = a
    BY DEF LeavesWith
  <1>3. Apply(v, e)[i] = IF e.id = i THEN e.address ELSE v[i]
    BY <1>1 DEF Apply, Values, Event
  <1> HIDE DEF q, n, e
  <1>4. \A k \in mine : k = 1 \/ k - 1 \in ours
    BY <1>1
  <1>5. ASSUME ours = {} PROVE Apply(v, e)[i] = a
    <2>1. \A k \in mine : k = 1
      BY <1>4, <1>5
    <2>2. CASE e.id = i
      <3>1. 1 \in mine
        BY <1>1, <2>2
      <3>2. \A j \in mine : j <= 1
        BY <2>1
      <3> QED BY <1>1, <1>2, <1>3, <2>2, <3>1, <3>2
    <2>3. CASE e.id # i
      <3>1. 1 \notin mine
        BY <1>1, <2>3
      <3>2. mine = {}
        BY <2>1, <3>1
      <3> QED BY <1>2, <1>3, <2>3, <3>2
    <2> QED BY <2>2, <2>3
  <1>6. ASSUME NEW k \in ours, \A j \in ours : j <= k PROVE q[k].address = a
    <2>1. k \in 1..(n - 1) /\ k + 1 \in mine /\ q[k] = p[k + 1]
      BY <1>1
    <2>2. \A j \in mine : j <= k + 1
      BY <1>1, <1>4, <1>6, <2>1
    <2> QED BY <1>2, <2>1, <2>2
  <1>7. LeavesWith(Apply(v, e), q, i, a)
    BY <1>5, <1>6 DEF LeavesWith
  <1> QED BY <1>7 DEF e, q

\* What is under way changes only at its ends: where the registry sends to,
LEMMA SentAtEnd ==
  ASSUME NEW o \in Seq(Event), NEW m \in Seq(Event), NEW s \in Seq(Event), NEW e \in Event
  PROVE  /\ o \o m \o s \in Seq(Event)
         /\ o \o m \o Append(s, e) = Append(o \o m \o s, e)
  <1> DEFINE om == o \o m
  <1>1. om \in Seq(Event)
    OBVIOUS
  <1> HIDE DEF om
  <1>2. om \o s \in Seq(Event) /\ om \o Append(s, e) \in Seq(Event) /\ Append(om \o s, e) \in Seq(Event)
    BY <1>1
  <1>3. Len(om \o Append(s, e)) = Len(Append(om \o s, e))
    BY <1>1
  <1>4. \A k \in 1..Len(om \o Append(s, e)) : (om \o Append(s, e))[k] = Append(om \o s, e)[k]
    BY <1>1, <1>2, <1>3
  <1>5. om \o Append(s, e) = Append(om \o s, e)
    BY <1>2, <1>3, <1>4, SeqEqual
  <1> QED BY <1>2, <1>5 DEF om

\* where the consumer reads, and not when the forwarder moves an event.
LEMMA ReadAtFront ==
  ASSUME NEW o \in Seq(Event), o # <<>>, NEW m \in Seq(Event), NEW s \in Seq(Event)
  PROVE  /\ o \o m \o s \in Seq(Event) /\ o \o m \o s # <<>>
         /\ Head(o \o m \o s) = Head(o) /\ Tail(o \o m \o s) = Tail(o) \o m \o s
  <1> DEFINE p == o \o m \o s
             q == Tail(o) \o m \o s
  <1>1. Tail(o) \in Seq(Event) /\ Len(Tail(o)) = Len(o) - 1 /\ Len(o) > 0 /\ Len(o) \in Nat
    OBVIOUS
  <1>2. p \in Seq(Event) /\ Len(p) = Len(o) + Len(m) + Len(s) /\ p # <<>>
    OBVIOUS
  <1>3. q \in Seq(Event) /\ Len(q) = Len(o) - 1 + Len(m) + Len(s)
    BY <1>1
  <1>4. Head(p) = Head(o)
    OBVIOUS
  <1>5. Tail(p) \in Seq(Event) /\ Len(Tail(p)) = Len(q)
    BY <1>1, <1>2, <1>3
  <1>6. \A k \in 1..Len(q) : Tail(p)[k] = q[k]
    BY <1>1, <1>2, <1>3
  <1>7. Tail(p) = q
    BY <1>3, <1>5, <1>6, SeqEqual
  <1> QED BY <1>2, <1>4, <1>7

LEMMA MovedOn ==
  ASSUME NEW o \in Seq(Event), NEW s \in Seq(Event), NEW h \in Event
  PROVE  /\ s # <<>> => o \o <<>> \o s = o \o <<Head(s)>> \o Tail(s)
         /\ o \o <<h>> \o s = Append(o, h) \o <<>> \o s
  <1>1. ASSUME s # <<>> PROVE o \o <<>> \o s = o \o <<Head(s)>> \o Tail(s)
    <2> DEFINE x == <<Head(s)>>
               t == Tail(s)
    <2>1. x \in Seq(Event) /\ t \in Seq(Event) /\ s = x \o t /\ <<>> \in Seq(Event)
      BY <1>1
    <2> HIDE DEF x, t
    <2>2. o \o <<>> = o
      BY ConcatEmptySeq
    <2>3. (o \o x) \o t = o \o (x \o t)
      BY <2>1, ConcatAssociative
    <2> QED BY <2>1, <2>2, <2>3 DEF x, t
  <1>2. o \o <<h>> \o s = Append(o, h) \o <<>> \o s
    <2>1. Append(o, h) \o <<>> = Append(o, h) /\ Append(o, h) \in Seq(Event)
      BY ConcatEmptySeq
    <2>2. Append(o, h) = o \o <<h>>
      BY AppendIsConcat
    <2> QED BY <2>1, <2>2
  <1> QED BY <1>1, <1>2

-----------------------------------------------------------------------------
(* The memory registry: the inductive invariant *)

\* What a watch that runs knows and will learn.
Exact(w) ==
    (w \in watchers /\ forwarder[w] = "runs") =>
        \A i \in Ids \ missed[w] : LeavesWith(view[w], Pending(w), i, instances[i])

\* A watch begins with nothing under way and nothing known.
Unwatched(w) ==
    watch[w] = "none" => /\ w \notin watchers /\ forwarder[w] = "none" /\ hand[w] = Absent
                         /\ out[w] = <<>> /\ view[w] = None /\ missed[w] = {}

WatchSound(w) == Exact(w) /\ Unwatched(w)

MemoryInv == MemoryTypeOK /\ \A w \in Watchers : WatchSound(w)

\* The types of one watch.
LEMMA WatchTypes ==
  ASSUME MemoryTypeOK, NEW w \in Watchers
  PROVE  /\ out[w] \in Seq(Event) /\ source[w] \in Seq(Event) /\ hand[w] \in Event \cup {Absent}
         /\ view[w] \in Values /\ missed[w] \in SUBSET Ids /\ instances \in Values
         /\ (IF hand[w] = Absent THEN <<>> ELSE <<hand[w]>>) \in Seq(Event)
         /\ Pending(w) \in Seq(Event)
  <1>1. /\ out[w] \in Seq(Event) /\ source[w] \in Seq(Event) /\ hand[w] \in Event \cup {Absent}
        /\ view[w] \in Values /\ missed[w] \in SUBSET Ids /\ instances \in Values
    BY DEF MemoryTypeOK
  <1> DEFINE m == IF hand[w] = Absent THEN <<>> ELSE <<hand[w]>>
  <1>2. m \in Seq(Event)
    <2>1. CASE hand[w] = Absent
      BY <2>1
    <2>2. CASE hand[w] # Absent
      <3>1. hand[w] \in Event
        BY <1>1, <2>2
      <3> QED BY <2>2, <3>1
    <2> QED BY <2>1, <2>2
  <1> HIDE DEF m
  <1>3. out[w] \o m \o source[w] \in Seq(Event)
    BY <1>1, <1>2
  <1> QED BY <1>1, <1>2, <1>3 DEF Pending, m

\* A step that moves nothing of a watch leaves it sound.
LEMMA WatchStays ==
  ASSUME NEW w \in Watchers, WatchSound(w), instances' = instances,
         out'[w] = out[w], hand'[w] = hand[w], source'[w] = source[w], view'[w] = view[w], missed'[w] = missed[w],
         w \in watchers' => w \in watchers, forwarder'[w] = "runs" => forwarder[w] = "runs",
         watch'[w] = "none" => watch[w] = "none" /\ forwarder'[w] = forwarder[w]
  PROVE  WatchSound(w)'
  <1>1. Pending(w)' = Pending(w)
    BY DEF Pending
  <1>2. Exact(w)'
    BY <1>1 DEF WatchSound, Exact, LeavesWith
  <1>3. Unwatched(w)'
    BY DEF WatchSound, Unwatched, None
  <1> QED BY <1>2, <1>3 DEF WatchSound

-----------------------------------------------------------------------------
(* The memory registry: writes *)

\* A watch whose channel has room gets the event that a write publishes.
LEMMA PublishSound ==
  ASSUME MemoryInv, NEW e \in Event, publishLocked(e), UNCHANGED <<watchers, watch, capacity, discovery>>,
         instances' \in Values, instances'[e.id] = e.address,
         \A i \in Ids : i # e.id => instances'[i] = instances[i]
  PROVE  MemoryInv'
  <1>0. /\ MemoryTypeOK /\ UNCHANGED <<watchers, watch, capacity, hand, forwarder, out, view>>
        /\ \A w \in Watchers : WatchSound(w)
    BY DEF MemoryInv, discovery
  <1>1. /\ source' = [w \in Watchers |-> IF w \in watchers /\ ~Full(w) THEN Append(source[w], e) ELSE source[w]]
        /\ missed' = [w \in Watchers |-> IF w \notin watchers THEN missed[w]
                                         ELSE IF Full(w) THEN missed[w] \cup {e.id} ELSE missed[w] \ {e.id}]
    BY DEF publishLocked
  <1>2. e.id \in Ids
    BY DEF Event
  <1>3. ASSUME NEW w \in Watchers
        PROVE  /\ source'[w] \in Seq(Event) /\ missed'[w] \in SUBSET Ids /\ Len(source'[w]) <= capacity[w]
               /\ WatchSound(w)'
    <2>1. /\ source[w] \in Seq(Event) /\ missed[w] \in SUBSET Ids /\ Len(source[w]) <= capacity[w]
          /\ capacity[w] \in Nat /\ WatchSound(w) /\ out[w] \in Seq(Event) /\ Pending(w) \in Seq(Event)
          /\ (IF hand[w] = Absent THEN <<>> ELSE <<hand[w]>>) \in Seq(Event)
      BY <1>0, WatchTypes DEF MemoryTypeOK
    <2>2. CASE w \notin watchers
      <3>1. source'[w] = source[w] /\ missed'[w] = missed[w]
        BY <1>1, <2>2
      <3>2. Exact(w)'
        BY <1>0, <2>2 DEF Exact
      <3>3. Unwatched(w)'
        BY <1>0, <2>1, <3>1 DEF WatchSound, Unwatched, None
      <3> QED BY <2>1, <3>1, <3>2, <3>3 DEF WatchSound
    <2>3. CASE w \in watchers
      <3>0. watch'[w] # "none"
        BY <1>0, <2>1, <2>3 DEF WatchSound, Unwatched
      <3>1. Unwatched(w)'
        BY <3>0 DEF Unwatched
      <3>2. CASE Full(w)
        <4>1. source'[w] = source[w] /\ missed'[w] = missed[w] \cup {e.id}
          BY <1>1, <2>3, <3>2
        <4>2. Pending(w)' = Pending(w)
          BY <1>0, <4>1 DEF Pending
        <4>3. \A i \in Ids \ missed'[w] : i \in Ids \ missed[w] /\ instances'[i] = instances[i]
          BY <4>1
        <4>4. Exact(w)'
          BY <1>0, <2>1, <4>2, <4>3 DEF WatchSound, Exact, LeavesWith
        <4> QED BY <1>2, <2>1, <3>1, <4>1, <4>4 DEF WatchSound
      <3>3. CASE ~Full(w)
        <4>1. source'[w] = Append(source[w], e) /\ missed'[w] = missed[w] \ {e.id}
          BY <1>1, <2>3, <3>3
        <4>2. source'[w] \in Seq(Event) /\ Len(source'[w]) <= capacity[w]
          <5>1. Len(source[w]) \in Nat /\ Len(source[w]) # capacity[w] /\ Len(source'[w]) = Len(source[w]) + 1
            BY <2>1, <3>3, <4>1 DEF Full
          <5> QED BY <2>1, <4>1, <5>1
        <4>3. Pending(w)' = Append(Pending(w), e)
          <5> DEFINE m == IF hand[w] = Absent THEN <<>> ELSE <<hand[w]>>
          <5>1. m' = m /\ m \in Seq(Event)
            BY <1>0, <2>1
          <5> HIDE DEF m
          <5> DEFINE o == out[w]
                     c == source[w]
          <5>4. o \in Seq(Event) /\ c \in Seq(Event)
            BY <2>1
          <5> HIDE DEF o, c
          <5>5. o \o m \o Append(c, e) = Append(o \o m \o c, e)
            BY ONLY <5>1, <5>4, e \in Event, SentAtEnd
          <5>2. out[w] \o m \o Append(source[w], e) = Append(out[w] \o m \o source[w], e)
            BY <5>5 DEF o, c
          <5>3. Pending(w) = out[w] \o m \o source[w] /\ Pending(w)' = out'[w] \o m' \o source'[w]
            BY DEF Pending, m
          <5> QED BY <1>0, <4>1, <5>1, <5>2, <5>3
        <4>4. Exact(w)'
          <5> SUFFICES ASSUME forwarder[w] = "runs", NEW i \in Ids, i \notin missed'[w]
                       PROVE  LeavesWith(view[w], Append(Pending(w), e), i, instances'[i])
            BY <1>0, <4>3 DEF Exact
          <5>1. CASE i = e.id
            BY <2>1, <5>1, OneMoreEvent
          <5>2. CASE i # e.id
            <6>1. LeavesWith(view[w], Pending(w), i, instances[i])
              BY <2>1, <2>3, <4>1, <5>2 DEF WatchSound, Exact
            <6> QED BY <2>1, <5>2, <6>1, OneMoreEvent
          <5> QED BY <5>1, <5>2
        <4>5. missed'[w] \in SUBSET Ids
          BY <2>1, <4>1
        <4> QED BY <3>1, <4>2, <4>4, <4>5 DEF WatchSound
      <3> QED BY <3>2, <3>3
    <2> QED BY <2>2, <2>3
  <1>4. MemoryTypeOK'
    <2>1. source' \in [Watchers -> Seq(Event)] /\ missed' \in [Watchers -> SUBSET Ids]
      BY <1>1, <1>3
    <2> QED BY <1>0, <1>3, <2>1 DEF MemoryTypeOK
  <1> QED BY <1>3, <1>4 DEF MemoryInv

LEMMA RegisterSound ==
  ASSUME MemoryInv, NEW i \in Ids, NEW a \in Addresses, Register(i, a)
  PROVE  MemoryInv'
  <1> DEFINE e == [id |-> i, address |-> a]
  <1>1. /\ instances' = [instances EXCEPT ![i] = a] /\ publishLocked(e)
        /\ UNCHANGED <<watchers, watch, capacity, discovery>>
    BY DEF Register
  <1>2. instances \in [Ids -> Addresses \cup {Absent}]
    BY DEF MemoryInv, MemoryTypeOK, Values
  <1>3. e \in Event /\ e.id = i /\ e.address = a
    BY DEF Event
  <1>4. /\ instances' \in [Ids -> Addresses \cup {Absent}] /\ instances'[i] = a
        /\ \A j \in Ids : j # i => instances'[j] = instances[j]
    BY <1>1, <1>2
  <1> HIDE DEF e
  <1> QED BY <1>1, <1>3, <1>4, PublishSound DEF Values

LEMMA RenewSound ==
  ASSUME MemoryInv, NEW i \in Ids, renew(i)
  PROVE  MemoryInv'
  <1> DEFINE e == [id |-> i, address |-> instances[i]]
  <1>1. /\ instances' = instances /\ publishLocked(e)
        /\ UNCHANGED <<watchers, watch, capacity, discovery>>
    BY DEF renew
  <1>2. instances \in [Ids -> Addresses \cup {Absent}]
    BY DEF MemoryInv, MemoryTypeOK, Values
  <1>3. e \in Event /\ e.id = i /\ e.address = instances[i]
    BY <1>2 DEF Event
  <1> HIDE DEF e
  <1> QED BY <1>1, <1>2, <1>3, PublishSound DEF Values

LEMMA DeregisterSound ==
  ASSUME MemoryInv, NEW i \in Ids, deregister(i)
  PROVE  MemoryInv'
  <1> DEFINE e == [id |-> i, address |-> Absent]
  <1>1. /\ instances' = [instances EXCEPT ![i] = Absent] /\ publishLocked(e)
        /\ UNCHANGED <<watchers, watch, capacity, discovery>>
    BY DEF deregister
  <1>2. instances \in [Ids -> Addresses \cup {Absent}]
    BY DEF MemoryInv, MemoryTypeOK, Values
  <1>3. e \in Event /\ e.id = i /\ e.address = Absent
    BY DEF Event
  <1>4. /\ instances' \in [Ids -> Addresses \cup {Absent}] /\ instances'[i] = Absent
        /\ \A j \in Ids : j # i => instances'[j] = instances[j]
    BY <1>1, <1>2
  <1> HIDE DEF e
  <1> QED BY <1>1, <1>3, <1>4, PublishSound DEF Values

-----------------------------------------------------------------------------
(* The memory registry: watches *)

\* The snapshot of a new watch has one event of every instance there is.
LEMMA SnapshotIsComplete ==
  ASSUME NEW reg \in Values, NEW present, present = {i \in Ids : reg[i] # Absent}, NEW s \in SetToSeqs(present),
         NEW snap, snap = [k \in DOMAIN s |-> [id |-> s[k], address |-> reg[s[k]]]]
  PROVE  snap \in Seq(Event) /\ \A i \in Ids : LeavesWith(None, snap, i, reg[i])
  <1> DEFINE n == Cardinality(present)
  <1>1. IsFiniteSet(present) /\ n \in Nat
    BY IdsAssumption, FS_Subset, FS_CardinalityType
  <1>2. s \in [1..n -> present] /\ \A j, k \in 1..n : j # k => s[j] # s[k]
    BY DEF SetToSeqs
  <1>3. IsFiniteSet(1..n) /\ Cardinality(1..n) = n
    BY <1>1, FS_Interval
  <1>4. s \in Injection(1..n, present)
    BY <1>2 DEF Injection, IsInjective
  <1>5. s \in Surjection(1..n, present)
    BY <1>1, <1>3, <1>4, FS_Injection
  <1>6. \A i \in present : \E k \in 1..n : s[k] = i
    BY <1>5 DEF Surjection
  <1> HIDE DEF n
  <1>7. /\ DOMAIN s = 1..n /\ DOMAIN snap = 1..n
        /\ \A k \in 1..n : snap[k] = [id |-> s[k], address |-> reg[s[k]]] /\ s[k] \in Ids
    BY <1>2
  <1>8. \A k \in 1..n : snap[k] \in Event /\ snap[k].id = s[k] /\ snap[k].address = reg[s[k]]
    BY <1>7 DEF Event, Values
  <1>9. snap \in Seq(Event)
    BY <1>1, <1>7, <1>8
  <1>10. ASSUME NEW i \in Ids PROVE LeavesWith(None, snap, i, reg[i])
    <2> DEFINE mine == {k \in DOMAIN snap : snap[k].id = i}
    <2>1. \A k \in mine : snap[k].address = reg[i]
      BY <1>7, <1>8
    <2>2. mine = {} => i \notin present
      BY <1>6, <1>7, <1>8
    <2>3. mine = {} => None[i] = reg[i]
      BY <2>2 DEF None
    <2> QED BY <2>1, <2>3 DEF LeavesWith
  <1> QED BY <1>9, <1>10

LEMMA WatchBegins ==
  ASSUME MemoryInv, NEW w \in Watchers, Watch(w)
  PROVE  MemoryInv'
  <1> DEFINE present == {i \in Ids : instances[i] # Absent}
  <1>1. /\ watch[w] = "none"
        /\ \E s \in SetToSeqs(present) :
              source' = [source EXCEPT ![w] = [k \in DOMAIN s |-> [id |-> s[k], address |-> instances[s[k]]]]]
        /\ capacity' = [capacity EXCEPT ![w] = Len(source'[w]) + Slack]
        /\ watchers' = watchers \cup {w} /\ watch' = [watch EXCEPT ![w] = "open"]
        /\ forwarder' = [forwarder EXCEPT ![w] = "runs"]
        /\ UNCHANGED <<instances, hand, out, view, missed>>
    BY DEF Watch
  <1>2. MemoryTypeOK /\ WatchSound(w) /\ instances \in Values
    BY DEF MemoryInv, MemoryTypeOK
  <1>3. PICK s \in SetToSeqs(present) :
              source' = [source EXCEPT ![w] = [k \in DOMAIN s |-> [id |-> s[k], address |-> instances[s[k]]]]]
    BY <1>1
  <1> DEFINE snap == [k \in DOMAIN s |-> [id |-> s[k], address |-> instances[s[k]]]]
  <1>4. snap \in Seq(Event) /\ \A i \in Ids : LeavesWith(None, snap, i, instances[i])
    BY <1>2, SnapshotIsComplete
  <1>5. source' = [source EXCEPT ![w] = snap]
    BY <1>3
  <1> HIDE DEF snap, present
  <1>6. source \in [Watchers -> Seq(Event)] /\ capacity \in [Watchers -> Nat]
    BY <1>2 DEF MemoryTypeOK
  <1>7. /\ source' \in [Watchers -> Seq(Event)] /\ source'[w] = snap
        /\ \A x \in Watchers : x # w => source'[x] = source[x]
    BY <1>4, <1>5, <1>6
  <1>8. Len(snap) \in Nat /\ Len(snap) + Slack \in Nat /\ Len(snap) <= Len(snap) + Slack
    <2>1. Len(snap) \in Nat
      BY <1>4
    <2> DEFINE n == Len(snap)
    <2> HIDE DEF n
    <2>2. n \in Nat => n + Slack \in Nat /\ n <= n + Slack
      BY RoomAssumption
    <2> QED BY <2>1, <2>2 DEF n
  <1>9. /\ capacity' \in [Watchers -> Nat] /\ Len(source'[w]) <= capacity'[w]
        /\ \A x \in Watchers : x # w => capacity'[x] = capacity[x]
    BY <1>1, <1>6, <1>7, <1>8
  <1>10. MemoryTypeOK'
    <2>1. \A x \in Watchers : Len(source'[x]) <= capacity'[x] /\ Len(out'[x]) <= OutCapacity
      BY <1>1, <1>2, <1>7, <1>9 DEF MemoryTypeOK
    <2>2. watch' \in [Watchers -> {"none", "open", "cancelled", "removed", "closed"}]
          /\ forwarder' \in [Watchers -> {"none", "runs", "ended"}] /\ watchers' \subseteq Watchers
      BY <1>1, <1>2 DEF MemoryTypeOK
    <2> QED BY <1>1, <1>2, <1>7, <1>9, <2>1, <2>2 DEF MemoryTypeOK
  <1>11. /\ watch'[w] = "open" /\ forwarder'[w] = "runs"
         /\ \A x \in Watchers : x # w => watch'[x] = watch[x] /\ forwarder'[x] = forwarder[x]
    BY <1>1, <1>2 DEF MemoryTypeOK
  <1>12. WatchSound(w)'
    <2>1. hand[w] = Absent /\ out[w] = <<>> /\ view[w] = None
      BY <1>1, <1>2 DEF WatchSound, Unwatched
    <2>2. Pending(w)' = snap
      <3>1. Pending(w)' = out'[w] \o (IF hand'[w] = Absent THEN <<>> ELSE <<hand'[w]>>) \o source'[w]
        BY DEF Pending
      <3>2. Pending(w)' = <<>> \o <<>> \o snap
        BY <1>1, <1>7, <2>1, <3>1
      <3>3. <<>> \o <<>> = <<>> /\ <<>> \o snap = snap
        BY <1>4, ConcatEmptySeq
      <3> QED BY <3>2, <3>3
    <2>3. \A i \in Ids : LeavesWith(view'[w], Pending(w)', i, instances'[i])
      BY <1>1, <1>4, <2>1, <2>2
    <2>4. Exact(w)'
      BY <2>3 DEF Exact
    <2>5. Unwatched(w)'
      BY <1>11 DEF Unwatched
    <2> QED BY <2>4, <2>5 DEF WatchSound
  <1>13. ASSUME NEW x \in Watchers, x # w PROVE WatchSound(x)'
    BY <1>1, <1>7, <1>11, <1>13, WatchStays DEF MemoryInv
  <1> QED BY <1>10, <1>12, <1>13 DEF MemoryInv

\* The end of a watch moves no event.
LEMMA WatchEndsSound ==
  ASSUME MemoryInv, NEW w \in Watchers, Cancel(w) \/ removeWatcher(w) \/ CloseSource(w) \/ Leave(w)
  PROVE  MemoryInv'
  <1>1. /\ UNCHANGED <<instances, source, capacity, hand, out, view, missed>>
        /\ watchers' \subseteq watchers
        /\ \/ forwarder' = forwarder
           \/ forwarder[w] = "runs" /\ watch' = watch /\ forwarder' = [forwarder EXCEPT ![w] = "ended"]
        /\ \/ watch' = watch
           \/ watch[w] # "none" /\ \E to \in {"cancelled", "removed", "closed"} : watch' = [watch EXCEPT ![w] = to]
    BY DEF Cancel, removeWatcher, CloseSource, Leave, discovery
  <1>2. MemoryTypeOK
    BY DEF MemoryInv
  <1>3. /\ watch' \in [Watchers -> {"none", "open", "cancelled", "removed", "closed"}]
        /\ forwarder' \in [Watchers -> {"none", "runs", "ended"}]
        /\ \A x \in Watchers : /\ forwarder'[x] = "runs" => forwarder[x] = "runs"
                               /\ watch'[x] = "none" => watch[x] = "none"
                               /\ forwarder'[x] = forwarder[x] \/ (forwarder[x] = "runs" /\ watch'[x] = watch[x])
    BY <1>1, <1>2 DEF MemoryTypeOK
  <1>4. MemoryTypeOK'
    BY <1>1, <1>2, <1>3 DEF MemoryTypeOK
  <1>5. ASSUME NEW x \in Watchers PROVE WatchSound(x)'
    <2>1. WatchSound(x)
      BY DEF MemoryInv
    <2>2. watch'[x] = "none" => watch[x] = "none" /\ forwarder'[x] = forwarder[x]
      BY <1>3, <2>1 DEF WatchSound, Unwatched
    <2> QED BY <1>1, <1>3, <2>1, <2>2, WatchStays
  <1> QED BY <1>4, <1>5 DEF MemoryInv

\* What a step that moves an event of one watch has to show.
LEMMA MoveSound ==
  ASSUME MemoryInv, NEW w \in Watchers, NEW o \in Seq(Event), NEW h \in Event \cup {Absent}, NEW c \in Seq(Event),
         NEW v \in Values, Len(o) <= OutCapacity, Len(c) <= capacity[w],
         out' = [out EXCEPT ![w] = o], hand' = [hand EXCEPT ![w] = h], source' = [source EXCEPT ![w] = c],
         view' = [view EXCEPT ![w] = v], UNCHANGED <<instances, watchers, watch, capacity, forwarder, missed>>,
         watch[w] # "none",
         \A i \in Ids : \A a : LeavesWith(view[w], Pending(w), i, a) =>
             LeavesWith(v, o \o (IF h = Absent THEN <<>> ELSE <<h>>) \o c, i, a)
  PROVE  MemoryInv'
  <1>1. MemoryTypeOK /\ \A x \in Watchers : WatchSound(x)
    BY DEF MemoryInv
  <1>2. /\ out \in [Watchers -> Seq(Event)] /\ source \in [Watchers -> Seq(Event)]
        /\ hand \in [Watchers -> Event \cup {Absent}] /\ view \in [Watchers -> Values]
        /\ \A x \in Watchers : Len(source[x]) <= capacity[x] /\ Len(out[x]) <= OutCapacity
    BY <1>1 DEF MemoryTypeOK
  <1>3. /\ out' \in [Watchers -> Seq(Event)] /\ source' \in [Watchers -> Seq(Event)]
        /\ hand' \in [Watchers -> Event \cup {Absent}] /\ view' \in [Watchers -> Values]
        /\ out'[w] = o /\ hand'[w] = h /\ source'[w] = c /\ view'[w] = v
    BY <1>2
  <1>4. \A x \in Watchers : x # w => out'[x] = out[x] /\ hand'[x] = hand[x] /\ source'[x] = source[x] /\ view'[x] = view[x]
    BY <1>2
  <1>5. \A x \in Watchers : Len(source'[x]) <= capacity[x] /\ Len(out'[x]) <= OutCapacity
    BY <1>2, <1>3, <1>4
  <1>6. MemoryTypeOK'
    BY <1>1, <1>3, <1>5 DEF MemoryTypeOK
  <1>7. WatchSound(w)'
    <2>1. Pending(w)' = o \o (IF h = Absent THEN <<>> ELSE <<h>>) \o c
      BY <1>3 DEF Pending
    <2> DEFINE p == o \o (IF h = Absent THEN <<>> ELSE <<h>>) \o c
    <2>2. \A i \in Ids : \A a : LeavesWith(view[w], Pending(w), i, a) => LeavesWith(v, p, i, a)
      OBVIOUS
    <2>3. Pending(w)' = p
      BY <2>1
    <2> HIDE DEF p
    <2>4. Exact(w)'
      <3> SUFFICES ASSUME w \in watchers, forwarder[w] = "runs", NEW i \in Ids \ missed[w]
                   PROVE  LeavesWith(v, p, i, instances[i])
        BY <1>3, <2>3 DEF Exact
      <3>1. LeavesWith(view[w], Pending(w), i, instances[i])
        BY <1>1 DEF WatchSound, Exact
      <3> QED BY <2>2, <3>1
    <2>5. Unwatched(w)'
      BY DEF Unwatched
    <2> QED BY <2>4, <2>5 DEF WatchSound
  <1>8. ASSUME NEW x \in Watchers, x # w PROVE WatchSound(x)'
    BY <1>1, <1>4, <1>8, WatchStays
  <1> QED BY <1>6, <1>7, <1>8 DEF MemoryInv

LEMMA TakeSound ==
  ASSUME MemoryInv, NEW w \in Watchers, Take(w)
  PROVE  MemoryInv'
  <1>1. /\ forwarder[w] = "runs" /\ hand[w] = Absent /\ source[w] # <<>>
        /\ hand' = [hand EXCEPT ![w] = Head(source[w])] /\ source' = [source EXCEPT ![w] = Tail(source[w])]
        /\ UNCHANGED <<instances, watchers, watch, capacity, forwarder, out, view, missed>>
    BY DEF Take
  <1>2. MemoryTypeOK /\ WatchSound(w)
    BY DEF MemoryInv
  <1>3. /\ out \in [Watchers -> Seq(Event)] /\ view \in [Watchers -> Values] /\ capacity[w] \in Nat
        /\ Len(source[w]) <= capacity[w] /\ Len(out[w]) <= OutCapacity /\ source[w] \in Seq(Event)
    BY <1>2 DEF MemoryTypeOK
  <1>4. out' = [out EXCEPT ![w] = out[w]] /\ view' = [view EXCEPT ![w] = view[w]]
    BY <1>1, <1>3
  <1>5. watch[w] # "none"
    BY <1>1, <1>2 DEF WatchSound, Unwatched
  <1> DEFINE o == out[w]
             c == source[w]
             h == Head(c)
             t == Tail(c)
  <1>6. o \in Seq(Event) /\ c \in Seq(Event) /\ c # <<>>
    BY <1>1, <1>3
  <1> HIDE DEF o, c
  <1>7. h \in Event /\ t \in Seq(Event) /\ Len(t) = Len(c) - 1 /\ Len(c) \in Nat
    BY <1>6
  <1>8. h # Absent
    BY <1>7, AbsentAssumption
  <1>9. o \o <<>> \o c = o \o <<h>> \o t
    BY <1>6, <1>7, MovedOn
  <1>10. Pending(w) = o \o <<h>> \o t
    BY <1>1, <1>9 DEF Pending, o, c
  <1> HIDE DEF h, t
  <1>11. o \o (IF h = Absent THEN <<>> ELSE <<h>>) \o t = Pending(w)
    BY <1>8, <1>10
  <1>12. Len(t) <= capacity[w] /\ view[w] \in Values /\ Len(o) <= OutCapacity
    <2>1. Len(c) <= capacity[w] /\ capacity[w] \in Nat
      BY <1>3 DEF c
    <2> QED BY <1>3, <1>7, <2>1 DEF o
  <1>13. /\ hand' = [hand EXCEPT ![w] = h] /\ source' = [source EXCEPT ![w] = t]
         /\ out' = [out EXCEPT ![w] = o]
    BY <1>1, <1>4 DEF h, t, o, c
  <1>14. \A i \in Ids : \A a : LeavesWith(view[w], Pending(w), i, a) =>
             LeavesWith(view[w], o \o (IF h = Absent THEN <<>> ELSE <<h>>) \o t, i, a)
    BY <1>11
  <1> QED BY <1>1, <1>4, <1>5, <1>6, <1>7, <1>12, <1>13, <1>14, MoveSound

LEMMA SendSound ==
  ASSUME MemoryInv, NEW w \in Watchers, Send(w)
  PROVE  MemoryInv'
  <1>1. /\ forwarder[w] = "runs" /\ hand[w] # Absent /\ Len(out[w]) < OutCapacity
        /\ out' = [out EXCEPT ![w] = Append(out[w], hand[w])] /\ hand' = [hand EXCEPT ![w] = Absent]
        /\ UNCHANGED <<instances, watchers, watch, source, capacity, forwarder, view, missed>>
    BY DEF Send
  <1>2. MemoryTypeOK /\ WatchSound(w)
    BY DEF MemoryInv
  <1>3. /\ source \in [Watchers -> Seq(Event)] /\ view \in [Watchers -> Values] /\ out[w] \in Seq(Event)
        /\ Len(source[w]) <= capacity[w] /\ hand[w] \in Event
    BY <1>1, <1>2 DEF MemoryTypeOK
  <1>4. source' = [source EXCEPT ![w] = source[w]] /\ view' = [view EXCEPT ![w] = view[w]]
    BY <1>1, <1>3
  <1>5. watch[w] # "none"
    BY <1>1, <1>2 DEF WatchSound, Unwatched
  <1> DEFINE o == out[w]
             c == source[w]
             h == hand[w]
             q == Append(o, h)
  <1>6. o \in Seq(Event) /\ c \in Seq(Event) /\ h \in Event
    BY <1>3
  <1>7. Len(o) < OutCapacity
    BY <1>1
  <1> HIDE DEF o, c, h
  <1>8. q \in Seq(Event) /\ Len(q) <= OutCapacity
    <2>1. q \in Seq(Event) /\ Len(q) = Len(o) + 1 /\ Len(o) \in Nat
      BY <1>6
    <2> QED BY <1>7, <2>1, RoomAssumption
  <1>9. o \o <<h>> \o c = q \o <<>> \o c
    BY <1>6, MovedOn
  <1>10. Pending(w) = q \o <<>> \o c
    BY <1>1, <1>9 DEF Pending, o, c, h
  <1> HIDE DEF q
  <1>11. out' = [out EXCEPT ![w] = q] /\ source' = [source EXCEPT ![w] = c] /\ Len(c) <= capacity[w] /\ view[w] \in Values
    BY <1>1, <1>3, <1>4 DEF q, o, h, c
  <1>12. \A i \in Ids : \A a : LeavesWith(view[w], Pending(w), i, a) =>
             LeavesWith(view[w], q \o (IF Absent = Absent THEN <<>> ELSE <<Absent>>) \o c, i, a)
    BY <1>10
  <1> QED BY <1>1, <1>4, <1>5, <1>6, <1>8, <1>11, <1>12, MoveSound

LEMMA ReceiveSound ==
  ASSUME MemoryInv, NEW w \in Watchers, Receive(w)
  PROVE  MemoryInv'
  <1>1. /\ out[w] # <<>> /\ view' = [view EXCEPT ![w] = Apply(view[w], Head(out[w]))]
        /\ out' = [out EXCEPT ![w] = Tail(out[w])]
        /\ UNCHANGED <<instances, watchers, watch, source, capacity, hand, forwarder, missed>>
    BY DEF Receive
  <1>2. MemoryTypeOK /\ WatchSound(w)
    BY DEF MemoryInv
  <1>3. /\ source \in [Watchers -> Seq(Event)] /\ hand \in [Watchers -> Event \cup {Absent}]
        /\ out[w] \in Seq(Event) /\ Len(out[w]) <= OutCapacity /\ Len(source[w]) <= capacity[w]
    BY <1>2 DEF MemoryTypeOK
  <1>4. source' = [source EXCEPT ![w] = source[w]] /\ hand' = [hand EXCEPT ![w] = hand[w]]
    BY <1>1, <1>3
  <1>5. watch[w] # "none"
    BY <1>1, <1>2 DEF WatchSound, Unwatched
  <1> DEFINE o == out[w]
             c == source[w]
             m == IF hand[w] = Absent THEN <<>> ELSE <<hand[w]>>
             t == Tail(o)
             v == Apply(view[w], Head(o))
  <1>6. o \in Seq(Event) /\ c \in Seq(Event) /\ m \in Seq(Event) /\ o # <<>> /\ view[w] \in Values /\ hand[w] \in Event \cup {Absent}
    BY <1>1, <1>2, WatchTypes
  <1>7. Pending(w) = o \o m \o c
    BY DEF Pending
  <1>8. Len(o) <= OutCapacity
    BY <1>3
  <1> HIDE DEF o, c, m
  <1>9. /\ Pending(w) \in Seq(Event) /\ Pending(w) # <<>>
        /\ Head(Pending(w)) = Head(o) /\ Tail(Pending(w)) = t \o m \o c
    <2>1. /\ o \o m \o c \in Seq(Event) /\ o \o m \o c # <<>>
          /\ Head(o \o m \o c) = Head(o) /\ Tail(o \o m \o c) = Tail(o) \o m \o c
      <3>1. o \in Seq(Event) /\ m \in Seq(Event) /\ c \in Seq(Event) /\ o # <<>>
        BY <1>6
      <3> QED BY ONLY <3>1, ReadAtFront
    <2> QED BY <1>7, <2>1
  <1>10. Head(o) \in Event /\ t \in Seq(Event) /\ Len(t) <= OutCapacity
    <2>1. Head(o) \in Event /\ t \in Seq(Event) /\ Len(t) = Len(o) - 1 /\ Len(o) \in Nat
      BY <1>6
    <2> QED BY <1>8, <2>1, RoomAssumption
  <1>11. v \in Values
    BY <1>6, <1>10 DEF Apply, Values, Event
  <1>12. ASSUME NEW i \in Ids, NEW a, LeavesWith(view[w], Pending(w), i, a)
         PROVE  LeavesWith(v, t \o m \o c, i, a)
    BY <1>6, <1>9, <1>12, OneEventLess
  <1> HIDE DEF v, t
  <1>13. \A i \in Ids : \A a : LeavesWith(view[w], Pending(w), i, a) =>
             LeavesWith(v, t \o (IF hand[w] = Absent THEN <<>> ELSE <<hand[w]>>) \o c, i, a)
    BY <1>12 DEF m
  <1>14. /\ out' = [out EXCEPT ![w] = t] /\ source' = [source EXCEPT ![w] = c] /\ view' = [view EXCEPT ![w] = v]
         /\ Len(c) <= capacity[w]
    BY <1>1, <1>3, <1>4 DEF t, v, o, c
  <1> QED BY <1>1, <1>4, <1>5, <1>6, <1>10, <1>11, <1>13, <1>14, MoveSound

LEMMA InitMemoryInv == MemoryInit => MemoryInv
  <1> SUFFICES ASSUME MemoryInit PROVE MemoryInv
    OBVIOUS
  <1>1. None \in Values
    BY DEF None, Values
  <1>2. MemoryTypeOK
    BY <1>1, RoomAssumption DEF MemoryInit, MemoryTypeOK
  <1>3. \A w \in Watchers : WatchSound(w)
    BY DEF MemoryInit, WatchSound, Exact, Unwatched
  <1> QED BY <1>2, <1>3 DEF MemoryInv

LEMMA StepMemoryInv == MemoryInv /\ [MemoryNext]_memoryVars => MemoryInv'
  <1> SUFFICES ASSUME MemoryInv, [MemoryNext]_memoryVars PROVE MemoryInv'
    OBVIOUS
  <1>1. ASSUME NEW i \in Ids, renew(i) \/ deregister(i) \/ \E a \in Addresses : Register(i, a)
        PROVE  MemoryInv'
    BY <1>1, RenewSound, DeregisterSound, RegisterSound
  <1>2. ASSUME NEW w \in Watchers, \/ Watch(w) \/ Cancel(w) \/ removeWatcher(w) \/ CloseSource(w)
                                   \/ Take(w) \/ Send(w) \/ Leave(w) \/ Receive(w)
        PROVE  MemoryInv'
    BY <1>2, WatchBegins, WatchEndsSound, TakeSound, SendSound, ReceiveSound
  <1>3. CASE UNCHANGED memoryVars
    <2>1. UNCHANGED <<instances, watchers, watch, source, capacity, hand, forwarder, out, view, missed>>
      BY <1>3 DEF memoryVars, discovery
    <2>2. MemoryTypeOK'
      BY <2>1 DEF MemoryInv, MemoryTypeOK
    <2>3. ASSUME NEW w \in Watchers PROVE WatchSound(w)'
      BY <2>1, WatchStays DEF MemoryInv
    <2> QED BY <2>2, <2>3 DEF MemoryInv
  <1> QED BY <1>1, <1>2, <1>3 DEF MemoryNext

(***************************************************************************)
(* The state of the memory registry has its type; no channel is ever       *)
(* beyond its capacity.                                                    *)
(***************************************************************************)
THEOREM MemoryTypeCorrect == MemorySpec => []MemoryTypeOK
  <1>1. MemoryInv => MemoryTypeOK
    BY DEF MemoryInv
  <1> QED BY <1>1, InitMemoryInv, StepMemoryInv, PTL DEF MemorySpec

(***************************************************************************)
(* A watch on the memory registry, for any instances, any number of        *)
(* watches and channels of any size: what has been read and what is under  *)
(* way amount to what is registered, but for the ids whose latest event    *)
(* found the channel full.                                                 *)
(***************************************************************************)
THEOREM MemoryViewIsExact == MemorySpec => []ViewIsExact
  <1>1. MemoryInv => ViewIsExact
    BY DEF MemoryInv, MemoryTypeOK, WatchSound, Exact, ViewIsExact
  <1> QED BY <1>1, InitMemoryInv, StepMemoryInv, PTL DEF MemorySpec
=============================================================================
