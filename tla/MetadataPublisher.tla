-------------------------- MODULE MetadataPublisher ---------------------------
(***************************************************************************)
(* servicekit/metadata.go: the component that writes a publication to etcd *)
(* when a service starts and repairs it periodically.                      *)
(*                                                                         *)
(* Two processes publish to the same keys: "new", whose publication the    *)
(* declarations of GatewayPublication make, and "old", another version of  *)
(* the service with the publication Old.  In each of them the lifecycle's  *)
(* goroutine runs Start and Stop, and the loop that Start spawns runs      *)
(* reconcile; Start's own reconcile is over by then.  Every call to etcd   *)
(* is an action.  A call that fails may have taken effect; failed calls,   *)
(* crashes and keys deleted by an operator are bounded by MaxFaults.       *)
(***************************************************************************)
EXTENDS GatewayPublication

CONSTANTS
    Old,        \* the keys "old" publishes, in the order of its reconcile
    MaxFaults   \* bound: failed calls, crashes, deleted keys

VARIABLES
    items,      \* descriptors, then routes, of each publisher: keys in order
    etcd,       \* key -> who wrote it and as which item, or Nil
    pc,         \* the lifecycle's goroutine
    loop,       \* the reconcile loop
    rec,        \* the item a running reconcile is at, and what it does to it
    cancelled,  \* the loop's context is cancelled
    published,  \* MetadataPublisher.published
    faults

publishing == <<items, etcd, pc, loop, rec, cancelled, published, faults>>
vars == <<declaring, publishing>>

Publishers == {"new", "old"}
Descriptor == <<"descriptor">>
Keys == {Descriptor} \cup {<<"route", defaultGatewayRouteID(m).name>> : m \in RPCs \cup Methods}
        \cup {<<"route", id.name>> : id \in Ids}

\* The older version publishes its descriptor, if it has one, before its routes.
ASSUME OldAssumption ==
    /\ Old \in Seq(Keys) /\ Len(Old) \in 1..(MaxSpecs + 1)
    /\ \A i \in 2..Len(Old) : Old[i] # Descriptor
ASSUME NilAssumption == Nil \notin Publishers \X Nat
ASSUME MaxFaultsAssumption == MaxFaults \in Nat

Values == {Nil} \cup Publishers \X (1..(MaxSpecs + 1))

TypeOK ==
    /\ DOMAIN items = Publishers /\ \A p \in Publishers : items[p] \in Seq(Keys)
    /\ etcd \in [Keys -> Values]
    /\ pc \in [Publishers -> {"none", "ready", "starting", "up", "notStarted",
                              "stopping", "stopped", "stopFailed", "crashed"}]
    /\ loop \in [Publishers -> {"none", "tick", "reconcile", "exited"}]
    /\ rec \in [Publishers -> [at : 0..(MaxSpecs + 2), do : {"get", "put"}]]
    /\ cancelled \in [Publishers -> BOOLEAN]
    /\ published \in [Publishers -> BOOLEAN]
    /\ faults \in 0..MaxFaults

Idle == [at |-> 0, do |-> "get"]

Init ==
    /\ DeclareInit
    /\ items = [p \in Publishers |-> IF p = "old" THEN Old ELSE <<>>]
    /\ etcd = [k \in Keys |-> Nil]
    /\ pc = [p \in Publishers |-> IF p = "old" THEN "ready" ELSE "none"]
    /\ loop = [p \in Publishers |-> "none"]
    /\ rec = [p \in Publishers |-> Idle]
    /\ cancelled = [p \in Publishers |-> FALSE]
    /\ published = [p \in Publishers |-> FALSE]
    /\ faults = 0

Fault == faults < MaxFaults /\ faults' = faults + 1

\* strings.Trim(id, "/"): ids that differ in slashes only have one key.
metadataRouteKey(id) == <<"route", id.name>>

(* The descriptors and the routes of the publication are copied, and the   *)
(* declarations go out of scope.                                           *)
NewMetadataPublisher ==
    /\ outcome = "accepted"
    /\ pc["new"] = "none"
    /\ LET descriptors == IF \E i \in DOMAIN specs : isDescriptorRoute(specs[i])
                          THEN <<Descriptor>> ELSE <<>>
       IN items' = [items EXCEPT !["new"] =
              descriptors \o [i \in DOMAIN routes |-> metadataRouteKey(routes[i].id)]]
    /\ pc' = [pc EXCEPT !["new"] = "ready"]
    /\ heap' = <<>> /\ specs' = <<>> /\ routes' = <<>> /\ mods' = 0 /\ file' = TRUE
    /\ outcome' = "handed over"
    /\ UNCHANGED <<etcd, loop, rec, cancelled, published, faults>>

-----------------------------------------------------------------------------
(* reconcile and putIfChanged *)

Item(p) == items[p][rec[p].at]
Value(p) == <<p, rec[p].at>>

(* reconcile has returned.  Start fails or goes on to spawn the loop.  The *)
(* loop exits if it was cancelled meanwhile, and otherwise waits for the   *)
(* next tick; an error leaves published as it is.                          *)
ReconcileEnds(p, ok) ==
    /\ rec' = [rec EXCEPT ![p] = Idle]
    /\ IF pc[p] = "starting"
       THEN /\ pc' = [pc EXCEPT ![p] = IF ok THEN "up" ELSE "notStarted"]
            /\ loop' = [loop EXCEPT ![p] = IF ok THEN "tick" ELSE "none"]
            /\ published' = [published EXCEPT ![p] = ok]
       ELSE /\ loop' = [loop EXCEPT ![p] = IF cancelled[p] THEN "exited" ELSE "tick"]
            /\ published' = [published EXCEPT ![p] = IF cancelled[p] THEN @ ELSE @ \/ ok]
            /\ UNCHANGED pc

\* The item is done: the next one, or the end of the reconcile.
NextItem(p) ==
    IF rec[p].at = Len(items[p])
    THEN ReconcileEnds(p, TRUE)
    ELSE /\ rec' = [rec EXCEPT ![p] = [at |-> @.at + 1, do |-> "get"]]
         /\ UNCHANGED <<pc, loop, published>>

Working(p, do) == rec[p].at > 0 /\ rec[p].do = do

\* Mutant: any value under the key will do.
PutIfMissing(p) ==
    /\ Working(p, "get")
    /\ IF etcd[Item(p)] # Nil
       THEN NextItem(p)
       ELSE rec' = [rec EXCEPT ![p].do = "put"] /\ UNCHANGED <<pc, loop, published>>
    /\ UNCHANGED <<declaring, items, etcd, cancelled, faults>>

PutIfChangedGet(p) ==
    /\ Working(p, "get")
    /\ IF etcd[Item(p)] = Value(p)
       THEN NextItem(p)
       ELSE rec' = [rec EXCEPT ![p].do = "put"] /\ UNCHANGED <<pc, loop, published>>
    /\ UNCHANGED <<declaring, items, etcd, cancelled, faults>>

PutIfChangedPut(p) ==
    /\ Working(p, "put")
    /\ etcd' = [etcd EXCEPT ![Item(p)] = Value(p)]
    /\ NextItem(p)
    /\ UNCHANGED <<declaring, items, cancelled, faults>>

\* Mutant: a put that fails does not end the reconcile.
PutErrorIgnored(p) ==
    /\ rec[p].at > 0
    /\ Fault
    /\ NextItem(p)
    /\ UNCHANGED <<declaring, items, etcd, cancelled>>

\* Get or Put returns an error; the put may have been done all the same.
ReconcileFails(p) ==
    /\ rec[p].at > 0
    /\ Fault
    /\ \/ UNCHANGED etcd
       \/ Working(p, "put") /\ etcd' = [etcd EXCEPT ![Item(p)] = Value(p)]
    /\ ReconcileEnds(p, FALSE)
    /\ UNCHANGED <<declaring, items, cancelled>>

-----------------------------------------------------------------------------
\* What "new" declares is independent of "old", and made before either starts.
Start(p) ==
    /\ pc[p] = "ready" /\ outcome = "handed over"
    /\ pc' = [pc EXCEPT ![p] = "starting"]
    /\ rec' = [rec EXCEPT ![p].at = 1]
    /\ UNCHANGED <<declaring, items, etcd, loop, cancelled, published, faults>>

\* reconcileLoop: a tick, unless the context has ended, begins a reconcile
\* under a context of its own.
LoopTick(p) ==
    /\ loop[p] = "tick"
    /\ IF cancelled[p]
       THEN loop' = [loop EXCEPT ![p] = "exited"] /\ UNCHANGED rec
       ELSE loop' = [loop EXCEPT ![p] = "reconcile"] /\ rec' = [rec EXCEPT ![p].at = 1]
    /\ UNCHANGED <<declaring, items, etcd, pc, cancelled, published, faults>>

StopCall(p) ==
    /\ pc[p] = "up"
    /\ pc' = [pc EXCEPT ![p] = "stopping"]
    /\ cancelled' = [cancelled EXCEPT ![p] = TRUE]
    /\ UNCHANGED <<declaring, items, etcd, loop, rec, published, faults>>

\* Mutant: Stop does not wait for the loop.
StopAtOnce(p) ==
    /\ pc[p] = "stopping"
    /\ pc' = [pc EXCEPT ![p] = "stopped"]
    /\ published' = [published EXCEPT ![p] = FALSE]
    /\ UNCHANGED <<declaring, items, etcd, loop, rec, cancelled, faults>>

StopReturns(p) ==
    /\ pc[p] = "stopping"
    /\ loop[p] = "exited"
    /\ pc' = [pc EXCEPT ![p] = "stopped"]
    /\ published' = [published EXCEPT ![p] = FALSE]
    /\ UNCHANGED <<declaring, items, etcd, loop, rec, cancelled, faults>>

\* Stop's context ends first: published stays, and the loop ends by itself.
StopTimesOut(p) ==
    /\ pc[p] = "stopping"
    /\ pc' = [pc EXCEPT ![p] = "stopFailed"]
    /\ UNCHANGED <<declaring, items, etcd, loop, rec, cancelled, published, faults>>

Crash(p) ==
    /\ pc[p] \in {"starting", "up", "stopping"}
    /\ Fault
    /\ pc' = [pc EXCEPT ![p] = "crashed"]
    /\ loop' = [loop EXCEPT ![p] = "exited"]
    /\ rec' = [rec EXCEPT ![p] = Idle]
    /\ published' = [published EXCEPT ![p] = FALSE]
    /\ UNCHANGED <<declaring, items, etcd, cancelled>>

\* An operator deletes a route.
DeleteRoute(k) ==
    /\ k # Descriptor /\ etcd[k] # Nil
    /\ Fault
    /\ etcd' = [etcd EXCEPT ![k] = Nil]
    /\ UNCHANGED <<declaring, items, pc, loop, rec, cancelled, published>>

Declaration == (Declare \/ Modify \/ Publish) /\ UNCHANGED publishing

LoopStep(p) == LoopTick(p) \/ PutIfChangedGet(p) \/ PutIfChangedPut(p)

Next ==
    \/ Declaration
    \/ NewMetadataPublisher
    \/ \E p \in Publishers :
          \/ Start(p) \/ LoopStep(p) \/ ReconcileFails(p)
          \/ StopCall(p) \/ StopReturns(p) \/ StopTimesOut(p) \/ Crash(p)
    \/ \E k \in Keys : DeleteRoute(k)

(***************************************************************************)
(* The ticker ticks and an etcd call returns within the 30 seconds of its  *)
(* context, so a running reconcile goes on, and so does a Stop whose loop  *)
(* has ended.  Nobody has to start or stop a publisher.                    *)
(***************************************************************************)
Spec == Init /\ [][Next]_vars
             /\ \A p \in Publishers : WF_vars(LoopStep(p)) /\ WF_vars(StopReturns(p))

-----------------------------------------------------------------------------
IsRouteOf(p, k) == etcd[k] # Nil /\ etcd[k][1] = p /\ k # Descriptor

(***************************************************************************)
(* A gateway that finds a route finds its descriptor: reconcile writes the *)
(* descriptors first, and a publisher that fails or crashes half way, or   *)
(* whose put is lost, never leaves a route behind without one.             *)
(***************************************************************************)
RouteHasDescriptor ==
    \A p \in Publishers, k \in Keys :
        (IsRouteOf(p, k) /\ Descriptor \in Range(items[p])) => etcd[Descriptor] # Nil

(***************************************************************************)
(* A publisher whose Stop returned nil, or whose Start failed, writes      *)
(* nothing any more, though its reconcile runs under a context that Stop   *)
(* does not cancel: the process that replaces it has the keys to itself.   *)
(***************************************************************************)
StoppedIsSilent ==
    [][\A k \in Keys : (etcd'[k] # etcd[k] /\ etcd'[k] # Nil) =>
          pc[etcd'[k][1]] \notin {"stopped", "notStarted", "crashed"}]_vars

Over(p) == pc[p] \in {"none", "ready", "stopped", "notStarted", "crashed"}
Other(p) == CHOOSE q \in Publishers : q # p

(***************************************************************************)
(* After a rollout, in either direction, etcd converges to the publication *)
(* of the version that stays, whatever the two versions overwrote of each  *)
(* other and whatever was lost.  Ids that differ only in slashes share a   *)
(* key, which their routes then overwrite for ever.                        *)
(***************************************************************************)
Converges ==
    \A p \in Publishers :
        <>[](pc[p] = "up" /\ Over(Other(p)) /\ IsInjective(items[p]))
        => <>[](\A i \in DOMAIN items[p] : etcd[items[p][i]] = <<p, i>>)
=============================================================================
