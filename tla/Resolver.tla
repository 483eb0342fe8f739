------------------------------ MODULE Resolver ------------------------------
(***************************************************************************)
(* runtime/grpcclient/resolver.go on top of runtime/discovery/etcd.go: the *)
(* gRPC resolver of one service.  Its run goroutine resolves once, then    *)
(* watches and applies events; every ResolveNow starts a goroutine that    *)
(* resolves again.  They share the map instances under a lock, and each    *)
(* pushes the addresses it computed to the gRPC connection after the       *)
(* unlock.                                                                 *)
(*                                                                         *)
(* The discovery is EtcdDiscovery, which this module extends: cancelled is *)
(* the resolver's context, and view, what the events received add up to,   *)
(* is history here, since the resolver keeps a map of its own.  An address *)
(* is the value of its instance; loadSnapshot has dropped the instances    *)
(* without one, and EtcdDiscovery has skipped the events about them that   *)
(* apply ignores.  ReportError tells gRPC of an error and changes nothing  *)
(* the resolver reads: it is left out.                                     *)
(***************************************************************************)
EXTENDS EtcdDiscovery

CONSTANTS
    Run,            \* the run goroutine
    Refreshers      \* bound: goroutines of ResolveNow at one time

ASSUME RunAssumption == Run \notin Refreshers

VARIABLES
    at,             \* where each goroutine is
    hand,           \* what it has read, or is about to push
    instances,      \* serviceResolver.instances
    addresses,      \* gRPC: the addresses of the last UpdateState
    ghosts,         \* history: instances run resolved of which no event has been received
    resolveNow      \* history: gRPC has called ResolveNow

serviceResolver == <<at, hand, instances, addresses>>
past == <<ghosts, resolveNow>>
resolverVars == <<vars, serviceResolver, past>>

Threads == {Run} \cup Refreshers

ResolverTypeOK ==
    /\ TypeOK
    /\ at \in [Threads -> {"start", "idle", "resolved", "update", "watch", "loop", "gone"}]
    /\ at[Run] # "idle" /\ \A t \in Refreshers : at[t] \in {"idle", "resolved", "update"}
    /\ hand \in [Threads -> Values]
    /\ instances \in Values /\ addresses \in Values
    /\ ghosts \subseteq Keys /\ resolveNow \in BOOLEAN

\* Build: the run goroutine is started.
ResolverInit ==
    /\ Init
    /\ instances = Empty
    /\ at = [t \in Threads |-> IF t = Run THEN "start" ELSE "idle"]
    /\ hand = [t \in Threads |-> Empty]
    /\ addresses = Empty
    /\ ghosts = {} /\ resolveNow = FALSE

-----------------------------------------------------------------------------
(* refresh: Resolve reads the store.  A refresher begins with ResolveNow.  *)
refresh(t) ==
    /\ at[t] \in {"start", "idle"} /\ ~cancelled
    /\ Loads(store)
    /\ hand' = [hand EXCEPT ![t] = Listed(store)]
    /\ at' = [at EXCEPT ![t] = "resolved"]
    /\ ghosts' = IF t = Run THEN {k \in Keys : Listed(store)[k] # 0} ELSE ghosts
    /\ resolveNow' = (resolveNow \/ t # Run)
    /\ UNCHANGED <<vars, instances, addresses>>

\* A load by run fails: a malformed value, an error, the timeout, or a cancelled context.
CallFails ==
    /\ cancelled \/ ~Loads(store) \/ failures < MaxFailures
    /\ failures' = IF cancelled \/ ~Loads(store) THEN failures ELSE failures + 1
    /\ UNCHANGED <<etcdVars, pc, snapshot, fresh, position, todo, out, capacity, cancelled, status, skips, missed, view>>

(* Resolve fails: run goes on to the watch.  A refresher changes nothing.  *)
refreshFails ==
    /\ at[Run] = "start"
    /\ CallFails
    /\ at' = [at EXCEPT ![Run] = "watch"]
    /\ UNCHANGED <<hand, instances, addresses, past>>

\* Mutant: what was resolved is added to what is known.
replaceMerges(t) ==
    /\ at[t] = "resolved"
    /\ instances' = [k \in Keys |-> IF hand[t][k] # 0 THEN hand[t][k] ELSE instances[k]]
    /\ hand' = [hand EXCEPT ![t] = instances']
    /\ at' = [at EXCEPT ![t] = "update"]
    /\ UNCHANGED <<vars, addresses, past>>

(* replace, up to the unlock: what was resolved is now what is known.      *)
replace(t) ==
    /\ at[t] = "resolved"
    /\ instances' = hand[t]
    /\ at' = [at EXCEPT ![t] = "update"]
    /\ UNCHANGED <<vars, hand, addresses, past>>

(* update: the addresses computed under the lock are pushed to gRPC.       *)
update(t) ==
    /\ at[t] = "update"
    /\ addresses' = hand[t]
    /\ hand' = [hand EXCEPT ![t] = Empty]
    /\ at' = [at EXCEPT ![t] = IF t # Run THEN "idle" ELSE IF pc = "none" THEN "watch" ELSE "loop"]
    /\ UNCHANGED <<vars, instances, past>>

\* run: Watch, whose first events are the instances of that moment.
watch ==
    /\ at[Run] = "watch" /\ ~cancelled
    /\ Watch
    /\ at' = [at EXCEPT ![Run] = "loop"]
    /\ UNCHANGED <<hand, instances, addresses, past>>

\* run: Watch fails, and run returns for good.
runFails ==
    /\ at[Run] = "watch"
    /\ CallFails
    /\ at' = [at EXCEPT ![Run] = "gone"]
    /\ UNCHANGED <<hand, instances, addresses, past>>

\* Mutant: the addresses are computed before the event is applied.
applyPushesOld ==
    /\ at[Run] = "loop"
    /\ Receive
    /\ instances' = applySnapshotEvent(instances, Head(out))
    /\ hand' = [hand EXCEPT ![Run] = instances]
    /\ at' = [at EXCEPT ![Run] = "update"]
    /\ ghosts' = ghosts \ {Head(out).key}
    /\ UNCHANGED <<addresses, resolveNow>>

(* apply, up to the unlock: the next event is received and stored in       *)
(* instances, and the addresses are computed.                              *)
apply ==
    /\ at[Run] = "loop"
    /\ Receive
    /\ instances' = applySnapshotEvent(instances, Head(out))
    /\ hand' = [hand EXCEPT ![Run] = instances']
    /\ at' = [at EXCEPT ![Run] = "update"]
    /\ ghosts' = ghosts \ {Head(out).key}
    /\ UNCHANGED <<addresses, resolveNow>>

\* run returns when its context is done, or its channel closed (by the same context).
runEnds ==
    /\ at[Run] = "loop" /\ cancelled
    /\ at' = [at EXCEPT ![Run] = "gone"]
    /\ UNCHANGED <<vars, hand, instances, addresses, past>>

Close ==
    /\ ~cancelled
    /\ cancelled' = TRUE
    /\ UNCHANGED <<etcdVars, pc, snapshot, fresh, position, todo, out, capacity, status, failures, skips, missed, view>>
    /\ UNCHANGED <<serviceResolver, past>>

run == refresh(Run) \/ refreshFails \/ replace(Run) \/ update(Run) \/ watch \/ runFails \/ apply \/ runEnds

ResolveNow(t) == refresh(t) \/ replace(t) \/ update(t)

ResolverNext ==
    \/ (Environment \/ watchLoop) /\ UNCHANGED <<serviceResolver, past>>
    \/ run
    \/ \E t \in Refreshers : ResolveNow(t)
    \/ Close

(***************************************************************************)
(* The goroutines run when they can.  Nobody has to call ResolveNow, but a *)
(* refresh that has resolved goes on.                                      *)
(***************************************************************************)
ResolverFairness ==
    /\ WF_resolverVars(run)
    /\ WF_resolverVars(watchLoop /\ UNCHANGED <<serviceResolver, past>>)
    /\ \A t \in Refreshers : WF_resolverVars(replace(t) \/ update(t))

ResolverSpec == ResolverInit /\ [][ResolverNext]_resolverVars /\ ResolverFairness

-----------------------------------------------------------------------------
\* The resolver has taken everything that discovery has told and will tell.
Quiet ==
    /\ at[Run] = "loop" /\ ~cancelled
    /\ pc = "watch" /\ todo = <<>> /\ out = <<>>
    /\ position = Len(history)

(***************************************************************************)
(* Without ResolveNow, a resolver that has taken all events has pushed     *)
(* exactly the registered instances, through failed calls and reconnects;  *)
(* the only exceptions are an instance that went away between run's        *)
(* Resolve and its Watch, and of which no event has come, and one whose    *)
(* last event was skipped.  No other registered instance is ever missing   *)
(* or out of date.                                                         *)
(***************************************************************************)
OnlyGhosts ==
    (Quiet /\ ~resolveNow) =>
        \A k \in Keys : \/ addresses[k] = Listed(store)[k]
                        \/ k \in missed
                        \/ k \in ghosts /\ Listed(store)[k] = 0

\* etcd is final, run waits for events or is gone, the feed is drained, and a
\* refresh that has read etcd is alone.
LoneRefresh ==
    /\ Len(history) = MaxRevision
    /\ at[Run] \in {"loop", "gone"}
    /\ todo = <<>> /\ out = <<>> /\ (pc # "none" => position = Len(history) /\ missed = {})
    /\ \E t \in Refreshers :
          /\ at[t] = "resolved" /\ Loads(store) /\ hand[t] = Listed(store)
          /\ \A o \in Refreshers \ {t} : at[o] = "idle"

(***************************************************************************)
(* A refresh repairs: whatever concurrent refreshes, late pushes, ghosts   *)
(* or a watch that ended for good have left, one ResolveNow that runs      *)
(* alone after the last write makes the addresses right, for good, also    *)
(* when more refreshes and reloads follow it.  Beside a busy run it may    *)
(* not: each pushes after its unlock, and the older addresses can win.     *)
(***************************************************************************)
RefreshRepairs == [](LoneRefresh => <>[](addresses = Listed(store) \/ cancelled))
=============================================================================
