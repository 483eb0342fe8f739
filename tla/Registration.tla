---------------------------- MODULE Registration -----------------------------
(***************************************************************************)
(* runtime/component/registration.go and runtime/registry/etcd.go: the     *)
(* component that keeps one service instance registered in etcd.           *)
(*                                                                         *)
(* Two goroutines use it: the lifecycle's, which runs Start and later Stop *)
(* ("main"), and the renew loop that Start spawns ("loop").  Every call to *)
(* etcd is an action: the server, its leases and the keepalive goroutine   *)
(* move between any two of them.  The instance id is stable within a       *)
(* process, so there is one key; its value is the lease it is attached to. *)
(*                                                                         *)
(* An etcd call that fails may have taken effect on the server or not.     *)
(* Failed calls, leases lost although they are kept alive and keys deleted *)
(* by an operator are counted together and bounded by MaxFaults.           *)
(***************************************************************************)
EXTENDS Naturals

CONSTANTS
    Leases,     \* lease ids; a lease also names the registration made with it
    Nil,        \* no lease
    MaxFaults   \* bound: failed calls, lost leases, deleted keys

ASSUME LeaseAssumption == Nil \notin Leases
ASSUME FaultAssumption == MaxFaults \in Nat

VARIABLES
    key,            \* etcd: the lease the instance key is attached to, or no key
    lease,          \* etcd: the state of each lease
    keep,           \* the leases a keepalive stream of this process refreshes
    registration,   \* RegistrationComponent.registration
    cancelled,      \* the renew loop's context is cancelled
    healthy,        \* RegistrationComponent.healthy
    pc,             \* where "main" and "loop" are
    fresh,          \* the lease a goroutine registers or deregisters
    failed,         \* Deregister: the delete of the key returned an error
    faults          \* faults so far

etcd == <<key, lease, keep>>
vars == <<etcd, registration, cancelled, healthy, pc, fresh, failed, faults>>

Procs == {"main", "loop"}

MainStates == {"down", "grant", "put", "undo", "notStarted", "up",
               "wait", "drain", "delete", "revoke", "stopped", "stopFailed"}
LoopStates == {"none", "tick", "renew", "check", "grant", "put", "undo", "exited"}

TypeOK ==
    /\ key \in Leases \cup {Nil}
    /\ lease \in [Leases -> {"none", "alive", "gone"}]
    /\ keep \in SUBSET Leases
    /\ registration \in Leases \cup {Nil}
    /\ cancelled \in BOOLEAN
    /\ healthy \in BOOLEAN
    /\ pc \in [Procs -> MainStates \cup LoopStates]
    /\ pc["main"] \in MainStates /\ pc["loop"] \in LoopStates
    /\ fresh \in [Procs -> Leases \cup {Nil}]
    /\ failed \in BOOLEAN
    /\ faults \in 0..MaxFaults
    /\ pc["main"] \in {"up", "wait"} => registration # Nil

Init ==
    /\ key = Nil
    /\ lease = [l \in Leases |-> "none"]
    /\ keep = {}
    /\ registration = Nil
    /\ cancelled = FALSE
    /\ healthy = FALSE
    /\ pc = [p \in Procs |-> IF p = "main" THEN "down" ELSE "none"]
    /\ fresh = [p \in Procs |-> Nil]
    /\ failed = FALSE
    /\ faults = 0

Goto(p, to) == pc' = [pc EXCEPT ![p] = to]

Fault == faults < MaxFaults /\ faults' = faults + 1

\* The server ends lease l: the key goes with it, and so does the keepalive.
EndLease(l) ==
    /\ lease' = [lease EXCEPT ![l] = "gone"]
    /\ key' = IF key = l THEN Nil ELSE key
    /\ keep' = keep \ {l}

-----------------------------------------------------------------------------
(* The renew loop's turn ends.  A loop that was cancelled meanwhile exits  *)
(* and marks nothing; otherwise it marks the outcome (markRecovered,       *)
(* markError) and waits for the next tick.                                 *)
LoopTurnEnds(ok) ==
    /\ pc' = [pc EXCEPT !["loop"] = IF cancelled THEN "exited" ELSE "tick"]
    /\ healthy' = IF cancelled THEN healthy ELSE ok

\* register() failed: Start fails; the loop's turn ends with an error.
RegisterFails(p) ==
    IF p = "main" THEN Goto("main", "notStarted") /\ UNCHANGED healthy
                  ELSE LoopTurnEnds(FALSE)

(* EtcdRegistry.Register, called by Start and by renewOrRegister: grant a  *)
(* lease, put the key with it, keep it alive.                              *)

RegisterGrant(p) ==
    /\ pc[p] = "grant"
    /\ \E l \in Leases :
          /\ lease[l] = "none"
          /\ lease' = [lease EXCEPT ![l] = "alive"]
          /\ fresh' = [fresh EXCEPT ![p] = l]
    /\ Goto(p, "put")
    /\ UNCHANGED <<key, keep, registration, cancelled, healthy, failed, faults>>

\* A lease granted although the call failed holds no key and expires unseen.
RegisterGrantFails(p) ==
    /\ pc[p] = "grant"
    /\ Fault
    /\ RegisterFails(p)
    /\ UNCHANGED <<etcd, registration, cancelled, fresh, failed>>

\* Mutant: renewOrRegister does not store the new registration.
RegisterPutNotStored(p) ==
    /\ pc[p] = "put"
    /\ lease[fresh[p]] = "alive"
    /\ key' = fresh[p]
    /\ keep' = keep \cup {fresh[p]}
    /\ registration' = IF p = "main" THEN fresh[p] ELSE registration
    /\ fresh' = [fresh EXCEPT ![p] = Nil]
    /\ pc' = IF p = "main" THEN [q \in Procs |-> IF q = "main" THEN "up" ELSE "tick"]
             ELSE [pc EXCEPT !["loop"] = IF cancelled THEN "exited" ELSE "tick"]
    /\ healthy' = TRUE
    /\ UNCHANGED <<lease, cancelled, failed, faults>>

(* The put, and the keepalive stream on the lease, which only starts a     *)
(* goroutine of the client.  Start then stores the registration and spawns *)
(* the loop; renewOrRegister replaces the registration by the new one.     *)
RegisterPut(p) ==
    /\ pc[p] = "put"
    /\ lease[fresh[p]] = "alive"
    /\ key' = fresh[p]
    /\ keep' = keep \cup {fresh[p]}
    /\ registration' = fresh[p]
    /\ fresh' = [fresh EXCEPT ![p] = Nil]
    /\ IF p = "main"
       THEN /\ pc' = [q \in Procs |-> IF q = "main" THEN "up" ELSE "tick"]
            /\ healthy' = TRUE
       ELSE /\ pc' = [pc EXCEPT !["loop"] = IF cancelled THEN "exited" ELSE "tick"]
            /\ healthy' = TRUE
    /\ UNCHANGED <<lease, cancelled, failed, faults>>

(* The put, or the keepalive after it, returns an error: because the lease *)
(* is gone, or because of a fault, with or without effect on the server.   *)
RegisterPutFails(p) ==
    /\ pc[p] = "put"
    /\ \/ lease[fresh[p]] = "gone" /\ UNCHANGED <<key, faults>>
       \/ Fault /\ lease[fresh[p]] = "alive" /\ key' \in {key, fresh[p]}
    /\ Goto(p, "undo")
    /\ UNCHANGED <<lease, keep, registration, cancelled, healthy, fresh, failed>>

\* Revoke(context.Background(), lease), whose error is ignored.
RegisterUndo(p) ==
    /\ pc[p] = "undo"
    /\ \/ EndLease(fresh[p]) /\ UNCHANGED faults
       \/ Fault /\ UNCHANGED etcd
    /\ RegisterFails(p)
    /\ fresh' = [fresh EXCEPT ![p] = Nil]
    /\ UNCHANGED <<registration, cancelled, failed>>

-----------------------------------------------------------------------------
StartCall ==
    /\ pc["main"] = "down"
    /\ Goto("main", "grant")
    /\ UNCHANGED <<etcd, registration, cancelled, healthy, fresh, failed, faults>>

\* Stop cancels the renew loop and waits for it to exit, or for its context.
StopCall ==
    /\ pc["main"] = "up"
    /\ cancelled' = TRUE
    /\ Goto("main", "wait")
    /\ UNCHANGED <<etcd, registration, healthy, fresh, failed, faults>>

StopWaitTimesOut ==
    /\ pc["main"] = "wait"
    /\ Goto("main", "stopFailed")
    /\ UNCHANGED <<etcd, registration, cancelled, healthy, fresh, failed, faults>>

\* Mutant: Stop does not wait for the renew loop.
StopTakesAtOnce ==
    /\ pc["main"] = "wait"
    /\ fresh' = [fresh EXCEPT !["main"] = registration]
    /\ registration' = Nil
    /\ healthy' = FALSE
    /\ keep' = keep \ {registration}
    /\ Goto("main", "drain")
    /\ UNCHANGED <<key, lease, cancelled, failed, faults>>

\* The loop has exited: take the registration and call Deregister, which
\* first ends the keepalive stream.
StopTakes ==
    /\ pc["main"] = "wait"
    /\ pc["loop"] = "exited"
    /\ fresh' = [fresh EXCEPT !["main"] = registration]
    /\ registration' = Nil
    /\ healthy' = FALSE
    /\ keep' = keep \ {registration}
    /\ Goto("main", "drain")
    /\ UNCHANGED <<key, lease, cancelled, failed, faults>>

\* Deregister waits until the keepalive channel is drained, or for its context.
DeregisterDrained ==
    /\ pc["main"] = "drain"
    /\ \E to \in {"delete", "stopFailed"} : Goto("main", to)
    /\ UNCHANGED <<etcd, registration, cancelled, healthy, fresh, failed, faults>>

\* The key is deleted whichever lease it is attached to.
DeregisterDelete ==
    /\ pc["main"] = "delete"
    /\ \/ key' = Nil /\ UNCHANGED <<failed, faults>>
       \/ Fault /\ failed' = TRUE /\ key' \in {key, Nil}
    /\ Goto("main", "revoke")
    /\ UNCHANGED <<lease, keep, registration, cancelled, healthy, fresh>>

\* A lease that is already gone (ErrLeaseNotFound) counts as revoked.
DeregisterRevoke ==
    /\ pc["main"] = "revoke"
    /\ \/ /\ EndLease(fresh["main"])
          /\ Goto("main", IF failed THEN "stopFailed" ELSE "stopped")
          /\ UNCHANGED faults
       \/ /\ Fault
          /\ EndLease(fresh["main"]) \/ UNCHANGED etcd
          /\ Goto("main", "stopFailed")
    /\ UNCHANGED <<registration, cancelled, healthy, fresh, failed>>

-----------------------------------------------------------------------------
(* renewLoop and renewOrRegister *)

LoopTick ==
    /\ pc["loop"] = "tick"
    /\ Goto("loop", IF cancelled THEN "exited" ELSE "renew")
    /\ UNCHANGED <<etcd, registration, cancelled, healthy, fresh, failed, faults>>

(* Renew: KeepAliveOnce.  A lease that is gone means ErrRegistrationExpired. *)
(* Without a registration the turn ends with an error.                     *)
LoopRenew ==
    /\ pc["loop"] = "renew"
    /\ IF registration = Nil
       THEN LoopTurnEnds(FALSE)
       ELSE /\ Goto("loop", IF lease[registration] = "alive" THEN "check" ELSE "grant")
            /\ UNCHANGED healthy
    /\ UNCHANGED <<etcd, registration, cancelled, fresh, failed, faults>>

\* Mutant: Renew does not look whether the key is still there.
LoopCheckSkipped ==
    /\ pc["loop"] = "check"
    /\ LoopTurnEnds(TRUE)
    /\ UNCHANGED <<etcd, registration, cancelled, fresh, failed, faults>>

\* Renew: count the key.  A key that is missing means ErrRegistrationExpired.
LoopCheck ==
    /\ pc["loop"] = "check"
    /\ IF key # Nil THEN LoopTurnEnds(TRUE)
                    ELSE Goto("loop", "grant") /\ UNCHANGED healthy
    /\ UNCHANGED <<etcd, registration, cancelled, fresh, failed, faults>>

\* Any other error of Renew is not an expiry: nothing is registered again.
LoopRenewFails ==
    /\ pc["loop"] \in {"renew", "check"}
    /\ Fault
    /\ LoopTurnEnds(FALSE)
    /\ UNCHANGED <<etcd, registration, cancelled, fresh, failed>>

-----------------------------------------------------------------------------
(* The etcd server and its operators *)

\* A lease that nobody refreshes and nobody is registering with expires.
Unattended(l) == lease[l] = "alive" /\ l \notin keep /\ \A p \in Procs :
                     pc[p] \in {"put", "undo"} => fresh[p] # l

LeaseExpires(l) ==
    /\ Unattended(l)
    /\ EndLease(l)
    /\ UNCHANGED <<registration, cancelled, healthy, pc, fresh, failed, faults>>

\* The process and the server cannot talk for longer than the lease's TTL.
LeaseLost(l) ==
    /\ lease[l] = "alive" /\ ~Unattended(l)
    /\ Fault
    /\ EndLease(l)
    /\ UNCHANGED <<registration, cancelled, healthy, pc, fresh, failed>>

\* EtcdRegistry.Delete, called by an operator's tool from another process.
Delete ==
    /\ key # Nil
    /\ Fault
    /\ key' = Nil
    /\ UNCHANGED <<lease, keep, registration, cancelled, healthy, pc, fresh, failed>>

LoopTurn ==
    \/ LoopTick \/ LoopRenew \/ LoopCheck \/ LoopRenewFails
    \/ RegisterGrant("loop") \/ RegisterGrantFails("loop") \/ RegisterPut("loop")
    \/ RegisterPutFails("loop") \/ RegisterUndo("loop")

MainTurn ==
    \/ RegisterGrant("main") \/ RegisterGrantFails("main") \/ RegisterPut("main")
    \/ RegisterPutFails("main") \/ RegisterUndo("main")
    \/ StopTakes \/ DeregisterDrained \/ DeregisterDelete \/ DeregisterRevoke

Next ==
    \/ StartCall \/ StopCall \/ StopWaitTimesOut
    \/ MainTurn \/ LoopTurn
    \/ Delete
    \/ \E l \in Leases : LeaseExpires(l) \/ LeaseLost(l)

(***************************************************************************)
(* The ticker ticks, an etcd call returns (registrationRenewTimeout), both *)
(* goroutines get to run, and the server expires leases nobody refreshes.  *)
(* Nobody has to call Start or Stop, and no context has to time out.       *)
(***************************************************************************)
Fairness ==
    /\ WF_vars(LoopTurn)
    /\ WF_vars(MainTurn)
    /\ \A l \in Leases : WF_vars(LeaseExpires(l))

Spec == Init /\ [][Next]_vars /\ Fairness

-----------------------------------------------------------------------------
(***************************************************************************)
(* A Stop that returned nil has deregistered the instance, and nothing     *)
(* brings it back: no re-registration by the renew loop and no put that    *)
(* failed earlier; and the component does not look healthy afterwards.     *)
(***************************************************************************)
StoppedStaysGone == pc["main"] = "stopped" => key = Nil /\ ~healthy

(***************************************************************************)
(* A key that this process keeps alive belongs to the registration that    *)
(* Stop will deregister.  Any other key, put by a registration attempt     *)
(* that failed, is left to expire.                                         *)
(***************************************************************************)
KeptKeyIsRegistered == (key # Nil /\ key \in keep) => registration = key

(***************************************************************************)
(* CHANGELOG: re-register automatically when the etcd lease or the key is  *)
(* lost.  While the component is up, a lost key comes back.                *)
(***************************************************************************)
LostKeyComesBack == (pc["main"] = "up" /\ key = Nil) ~> (key # Nil \/ pc["main"] # "up")
=============================================================================
