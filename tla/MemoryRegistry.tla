---------------------------- MODULE MemoryRegistry ----------------------------
(***************************************************************************)
(* runtime/registry/memory.go and runtime/discovery/memory.go: the         *)
(* registry of a monolith, for one service, and the watches on it.         *)
(*                                                                         *)
(* The registry writes under its lock, and sends each event to the channel *)
(* of every watcher without waiting: a full channel loses it.  A goroutine *)
(* of the discovery forwards the events to a second channel, which the     *)
(* consumer reads; another one waits for the end of the watch's context.   *)
(*                                                                         *)
(* An instance is its id and its address; LastSeen and the other fields    *)
(* are copied along.  An event has the address that it leaves its id with, *)
(* Absent if it is a removal.  Instances, Instance, Services and Resolve only *)
(* read, and a call whose context has ended changes nothing.               *)
(***************************************************************************)
EXTENDS Naturals, Sequences, FiniteSets, SequencesExt

CONSTANTS
    Ids, Addresses,
    Watchers,
    Slack,          \* the room of a watcher's channel beyond its snapshot: 8
    OutCapacity,    \* the room of the discovery's channel: 8
    Absent          \* no address, no event

ASSUME IdsAssumption == IsFiniteSet(Ids)
ASSUME RoomAssumption == Slack \in Nat /\ OutCapacity \in Nat \ {0}

VARIABLES
    instances,  \* MemoryRegistry.instances: the address of each id, or Absent
    watchers,   \* MemoryRegistry.watchers
    watch,      \* how far each watch is
    source,     \* the channel the registry sends to
    capacity,   \* its capacity
    hand,       \* the event the forwarder has received and not sent
    forwarder,  \* whether the forwarder runs; out is closed when it ends
    out,        \* the channel of the discovery
    view,       \* the consumer: what the events it has read amount to
    missed      \* history: ids whose latest event was lost on the way to a watcher

discovery == <<hand, forwarder, out, view>>
memoryVars == <<instances, watchers, watch, source, capacity, discovery, missed>>

Values == [Ids -> Addresses \cup {Absent}]
None == [i \in Ids |-> Absent]
Event == [id : Ids, address : Addresses \cup {Absent}]

ASSUME AbsentAssumption == Absent \notin Event

MemoryTypeOK ==
    /\ instances \in Values /\ watchers \subseteq Watchers
    /\ watch \in [Watchers -> {"none", "open", "cancelled", "removed", "closed"}]
    /\ source \in [Watchers -> Seq(Event)] /\ capacity \in [Watchers -> Nat]
    /\ hand \in [Watchers -> Event \cup {Absent}]
    /\ forwarder \in [Watchers -> {"none", "runs", "ended"}]
    /\ out \in [Watchers -> Seq(Event)] /\ view \in [Watchers -> Values]
    /\ missed \in [Watchers -> SUBSET Ids]
    /\ \A w \in Watchers : Len(source[w]) <= capacity[w] /\ Len(out[w]) <= OutCapacity

\* NewMemoryRegistry
MemoryInit ==
    /\ instances = None /\ watchers = {}
    /\ watch = [w \in Watchers |-> "none"]
    /\ source = [w \in Watchers |-> <<>>] /\ capacity = [w \in Watchers |-> 0]
    /\ hand = [w \in Watchers |-> Absent] /\ forwarder = [w \in Watchers |-> "none"]
    /\ out = [w \in Watchers |-> <<>>] /\ view = [w \in Watchers |-> None]
    /\ missed = [w \in Watchers |-> {}]

-----------------------------------------------------------------------------
(* Writes, each under the registry's lock *)

Full(w) == Len(source[w]) = capacity[w]

\* publishLocked: a watcher whose channel is full does not get the event.
publishLocked(e) ==
    /\ source' = [w \in Watchers |-> IF w \in watchers /\ ~Full(w) THEN Append(source[w], e) ELSE source[w]]
    /\ missed' = [w \in Watchers |-> IF w \notin watchers THEN missed[w]
                                     ELSE IF Full(w) THEN missed[w] \cup {e.id} ELSE missed[w] \ {e.id}]

Register(i, a) ==
    /\ instances' = [instances EXCEPT ![i] = a]
    /\ publishLocked([id |-> i, address |-> a])
    /\ UNCHANGED <<watchers, watch, capacity, discovery>>

\* renew: an error if the instance is not there.
renew(i) ==
    /\ instances[i] # Absent
    /\ publishLocked([id |-> i, address |-> instances[i]])
    /\ UNCHANGED <<instances, watchers, watch, capacity, discovery>>

\* deregister, through Delete or by any registration of the id, an older one
\* included: nothing if the instance is not there.
deregister(i) ==
    /\ instances[i] # Absent
    /\ instances' = [instances EXCEPT ![i] = Absent]
    /\ publishLocked([id |-> i, address |-> Absent])
    /\ UNCHANGED <<watchers, watch, capacity, discovery>>

-----------------------------------------------------------------------------
(* Watches *)

\* Watch, of the discovery and of the registry: the channel has room for the
\* snapshot, which is sent in the order of a map, that is in any order.
Watch(w) ==
    /\ watch[w] = "none"
    /\ LET present == {i \in Ids : instances[i] # Absent} IN
       \E s \in SetToSeqs(present) :
          source' = [source EXCEPT ![w] = [k \in DOMAIN s |-> [id |-> s[k], address |-> instances[s[k]]]]]
    /\ capacity' = [capacity EXCEPT ![w] = Len(source'[w]) + Slack]
    /\ watchers' = watchers \cup {w}
    /\ watch' = [watch EXCEPT ![w] = "open"]
    /\ forwarder' = [forwarder EXCEPT ![w] = "runs"]
    /\ UNCHANGED <<instances, hand, out, view, missed>>

Cancel(w) ==
    /\ watch[w] = "open" /\ watch' = [watch EXCEPT ![w] = "cancelled"]
    /\ UNCHANGED <<instances, watchers, source, capacity, discovery, missed>>

\* The goroutine of Watch takes the channel off the list, then closes it.
removeWatcher(w) ==
    /\ watch[w] = "cancelled" /\ watch' = [watch EXCEPT ![w] = "removed"]
    /\ watchers' = watchers \ {w}
    /\ UNCHANGED <<instances, source, capacity, discovery, missed>>

CloseSource(w) ==
    /\ watch[w] = "removed" /\ watch' = [watch EXCEPT ![w] = "closed"]
    /\ UNCHANGED <<instances, watchers, source, capacity, discovery, missed>>

Cancelled(w) == watch[w] \notin {"none", "open"}

\* The forwarder receives the next event,
Take(w) ==
    /\ forwarder[w] = "runs" /\ hand[w] = Absent /\ source[w] # <<>>
    /\ hand' = [hand EXCEPT ![w] = Head(source[w])]
    /\ source' = [source EXCEPT ![w] = Tail(@)]
    /\ UNCHANGED <<instances, watchers, watch, capacity, forwarder, out, view, missed>>

\* Mutant: the forwarder does not wait for the consumer either.
SendOrDrop(w) ==
    /\ forwarder[w] = "runs" /\ hand[w] # Absent
    /\ out' = [out EXCEPT ![w] = IF Len(@) < OutCapacity THEN Append(@, hand[w]) ELSE @]
    /\ hand' = [hand EXCEPT ![w] = Absent]
    /\ UNCHANGED <<instances, watchers, watch, source, capacity, forwarder, view, missed>>

\* sends it when there is room,
Send(w) ==
    /\ forwarder[w] = "runs" /\ hand[w] # Absent /\ Len(out[w]) < OutCapacity
    /\ out' = [out EXCEPT ![w] = Append(@, hand[w])]
    /\ hand' = [hand EXCEPT ![w] = Absent]
    /\ UNCHANGED <<instances, watchers, watch, source, capacity, forwarder, view, missed>>

\* Mutant: only the end of the source ends the forwarder.
LeavesAtEnd(w) ==
    /\ forwarder[w] = "runs"
    /\ hand[w] = Absent /\ source[w] = <<>> /\ watch[w] = "closed"
    /\ forwarder' = [forwarder EXCEPT ![w] = "ended"]
    /\ UNCHANGED <<instances, watchers, watch, source, capacity, hand, out, view, missed>>

\* or leaves: while it waits for room, when the context has ended, and when
\* the source is closed and empty.
Leave(w) ==
    /\ forwarder[w] = "runs"
    /\ \/ hand[w] # Absent /\ Cancelled(w)
       \/ hand[w] = Absent /\ source[w] = <<>> /\ watch[w] = "closed"
    /\ forwarder' = [forwarder EXCEPT ![w] = "ended"]
    /\ UNCHANGED <<instances, watchers, watch, source, capacity, hand, out, view, missed>>

\* What an event does to the consumer's view.
Apply(v, e) == [v EXCEPT ![e.id] = e.address]

Receive(w) ==
    /\ out[w] # <<>>
    /\ view' = [view EXCEPT ![w] = Apply(@, Head(out[w]))]
    /\ out' = [out EXCEPT ![w] = Tail(@)]
    /\ UNCHANGED <<instances, watchers, watch, source, capacity, hand, forwarder, missed>>

-----------------------------------------------------------------------------
MemoryNext ==
    \/ \E i \in Ids : renew(i) \/ deregister(i) \/ \E a \in Addresses : Register(i, a)
    \/ \E w \in Watchers : \/ Watch(w) \/ Cancel(w) \/ removeWatcher(w) \/ CloseSource(w)
                           \/ Take(w) \/ Send(w) \/ Leave(w) \/ Receive(w)

(* Goroutines run on; nobody has to read, to cancel or to write.  The      *)
(* forwarder that waits for room and for the context takes either.         *)
MemorySpec ==
    /\ MemoryInit /\ [][MemoryNext]_memoryVars
    /\ \A w \in Watchers : /\ WF_memoryVars(removeWatcher(w)) /\ WF_memoryVars(CloseSource(w))
                           /\ WF_memoryVars(Take(w)) /\ WF_memoryVars(Send(w) \/ Leave(w))

-----------------------------------------------------------------------------
\* The events under way to the consumer of a watch.
Pending(w) == out[w] \o (IF hand[w] = Absent THEN <<>> ELSE <<hand[w]>>) \o source[w]

\* Whoever knows v and applies the events in order ends up with a for i: the
\* last event of i decides, or v if there is none.
LeavesWith(v, events, i, a) ==
    LET mine == {k \in DOMAIN events : events[k].id = i} IN
    /\ mine = {} => v[i] = a
    /\ \A k \in mine : (\A j \in mine : j <= k) => events[k].address = a

(***************************************************************************)
(* What a watcher knows once it has read all that is under way to it, in   *)
(* order, is what is registered, but for the ids whose latest event found  *)
(* its channel full.  So the snapshot and the events after it leave no gap *)
(* and repeat nothing wrongly, the forwarder loses nothing, and an event   *)
(* that gets through repairs an earlier loss.  (A removal that was lost is *)
(* not followed by a renewal: the watcher keeps that instance.)            *)
(***************************************************************************)
ViewIsExact ==
    \A w \in watchers : forwarder[w] = "runs" =>
        \A i \in Ids \ missed[w] : LeavesWith(view[w], Pending(w), i, instances[i])

\* A watch whose context has ended closes its channel to the consumer, also
\* when that one no longer reads and the channel is full.
WatchEnds == \A w \in Watchers : Cancelled(w) ~> forwarder[w] = "ended"
=============================================================================
