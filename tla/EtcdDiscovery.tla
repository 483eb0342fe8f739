---------------------------- MODULE EtcdDiscovery ----------------------------
(***************************************************************************)
(* runtime/discovery/etcd.go: a watch of the instances of one service.     *)
(* Watch loads a snapshot of the service's keys and emits it as added      *)
(* events; watchLoop follows the etcd watch from the next revision on and, *)
(* whenever that watch ends or fails, loads a new snapshot and emits the   *)
(* difference.  The consumer only ever sees the events.                    *)
(*                                                                         *)
(* etcd is external: a history of puts and deletes, one revision each,     *)
(* that a watch delivers in order from the revision it asks for.  A value  *)
(* is identified by the revision that wrote it, or is one of the odd ones  *)
(* that another writer may put under the prefix: a value that does not     *)
(* decode, or an instance without an address.  The backoff delays are      *)
(* left out (time is not modelled), and so is the revision that watchOnce  *)
(* returns: watchLoop overwrites it with the revision of the next snapshot *)
(* before it is used.                                                      *)
(***************************************************************************)
EXTENDS Naturals, Sequences, FiniteSets

CONSTANTS
    Keys,           \* instance ids, which are numbers because the code sorts them
    Spare,          \* free places of the channel beside the first snapshot (8 in the code)
    MaxRevision,    \* bound: writes to etcd
    MaxFailures,    \* bound: interrupted watches and failed loads
    MaxSkips,       \* bound: deletes whose previous value is compacted
    Malformed,      \* values that UnmarshalInstance refuses
    Blank,          \* values of instances whose address is blank
    MaxOdd          \* bound: writes of such values

ASSUME KeysAssumption == Keys \subseteq Nat /\ IsFiniteSet(Keys)
ASSUME BoundsAssumption ==
    Spare \in Nat /\ MaxRevision \in Nat /\ MaxFailures \in Nat /\ MaxSkips \in Nat /\ MaxOdd \in Nat
ASSUME OddAssumption == \A v \in 0..MaxRevision : v \notin Malformed /\ v \notin Blank

VARIABLES
    history,        \* etcd: the writes, val = 0 for a delete, and the store after each
    store,          \* etcd: the current value of every key, 0 when absent
    pc,             \* the watch: "none", "watch", "recover", "resync" or "closed"
    snapshot,       \* watchLoop: the instances it believes in
    fresh,          \* watchLoop: nextSnapshot, while its difference is emitted
    position,       \* the last revision the watch has delivered or the snapshot has
    todo,           \* events the loop has still to send
    out,            \* the channel
    capacity,       \* its capacity
    cancelled,      \* the caller's context
    status,         \* statuses[service]: running, stale (with LastError)
    failures,       \* failures so far
    skips,          \* deletes without a previous value so far
    missed,         \* history: the keys whose last event since the load was skipped
    view            \* the consumer: what the events received so far add up to

etcdVars == <<history, store>>
watchVars == <<pc, snapshot, fresh, position, todo, out, capacity, cancelled, status, failures, skips, missed>>
vars == <<etcdVars, watchVars, view>>

Empty == [k \in Keys |-> 0]
Odd == Malformed \cup Blank
Val == 0..MaxRevision \cup Odd
Values == [Keys -> Val]
Event == [type : {"added", "updated", "removed"}, key : Keys, val : Val]

TypeOK ==
    /\ history \in Seq([key : Keys, val : Val, after : Values])
    /\ store \in Values /\ snapshot \in Values /\ fresh \in Values /\ view \in Values
    /\ pc \in {"none", "watch", "recover", "resync", "closed"}
    /\ position \in 0..Len(history)
    /\ todo \in Seq(Event) /\ out \in Seq(Event)
    /\ capacity \in Nat /\ Len(out) <= capacity
    /\ cancelled \in BOOLEAN /\ missed \in SUBSET Keys
    /\ status \in [running : BOOLEAN, stale : BOOLEAN]
    /\ failures \in 0..MaxFailures /\ skips \in 0..MaxSkips

Init ==
    /\ history = <<>> /\ store = Empty
    /\ pc = "none" /\ snapshot = Empty /\ fresh = Empty /\ position = 0
    /\ todo = <<>> /\ out = <<>> /\ capacity = 0
    /\ cancelled = FALSE /\ status = [running |-> FALSE, stale |-> FALSE]
    /\ failures = 0 /\ skips = 0 /\ missed = {}
    /\ view = Empty

-----------------------------------------------------------------------------
(* etcd: an instance registers or renews its value, or its key goes away.  *)
Write(k, v) ==
    /\ Len(history) < MaxRevision
    /\ store' = [store EXCEPT ![k] = v]
    /\ history' = Append(history, [key |-> k, val |-> v, after |-> store'])
    /\ UNCHANGED <<watchVars, view>>

Put(k) == Write(k, Len(history) + 1)

PutOdd(k) ==
    /\ Cardinality({n \in 1..Len(history) : history[n].val \in Odd}) < MaxOdd
    /\ \E v \in Odd : Write(k, v)

Delete(k) == store[k] # 0 /\ Write(k, 0)

-----------------------------------------------------------------------------
(* The keys in sorted order: the i-th one has i - 1 smaller ones. *)
sortedKeys(ks) ==
    [i \in 1..Cardinality(ks) |-> CHOOSE k \in ks : Cardinality({j \in ks : j < k}) = i - 1]

sortedSnapshotKeys(s) == sortedKeys({k \in Keys : s[k] # 0})

\* The event for the value of k in s.
EventOf(type, s, k) == [type |-> type, key |-> k, val |-> s[k]]

\* The events for the keys of next that old does not have, or has otherwise.
changedEvents(old, next) ==
    LET changed == sortedKeys({k \in Keys : next[k] # 0 /\ next[k] # old[k]})
    IN  [i \in 1..Len(changed) |->
            EventOf(IF old[changed[i]] = 0 THEN "added" ELSE "updated", next, changed[i])]

\* Mutant: only the keys of the new snapshot are compared.
diffWithoutRemoved(old, next) == changedEvents(old, next)

(* Removed events for the keys that are gone, then added and updated ones. *)
emitSnapshotDiff(old, next) ==
    LET removed == sortedKeys({k \in Keys : old[k] # 0 /\ next[k] = 0})
    IN  [i \in 1..Len(removed) |-> EventOf("removed", old, removed[i])]
        \o changedEvents(old, next)

(* What an event makes of a snapshot. *)
ValueOf(e) == IF e.type = "removed" THEN 0 ELSE e.val
applySnapshotEvent(s, e) == [s EXCEPT ![e.key] = ValueOf(e)]

\* The event for the n-th write: a put of an existing key is a modification,
\* a delete carries the previous value.  before is the store without that write.
decodeEvent(n, before) ==
    LET w == history[n]
    IN  IF w.val = 0 THEN EventOf("removed", before, w.key)
        ELSE [type |-> IF before[w.key] = 0 THEN "added" ELSE "updated",
              key |-> w.key, val |-> w.val]

\* The store after the first n writes.
StateAt(n) == IF n = 0 THEN Empty ELSE history[n].after

\* The value that decodeEvent reads for the n-th write: a delete's previous one.
Payload(n) == IF history[n].val = 0 THEN StateAt(n - 1)[history[n].key] ELSE history[n].val

\* loadSnapshot returns an error when a value under the prefix does not decode,
Loads(s) == \A k \in Keys : s[k] \notin Malformed

\* and drops the instances without an address.
Listed(s) == [k \in Keys |-> IF s[k] \in Odd THEN 0 ELSE s[k]]

\* The status record after a load, an event, an error and the end of the loop.
markWatchLoaded == [running |-> TRUE, stale |-> FALSE]
markWatchEvent == [running |-> TRUE, stale |-> FALSE]
markWatchError == [running |-> TRUE, stale |-> TRUE]
markWatchStopped == [status EXCEPT !.running = FALSE]

-----------------------------------------------------------------------------
(***************************************************************************)
(* Watch: the snapshot goes into a channel that is large enough for it,    *)
(* and the loop starts and marks the service loaded.  A failed load is     *)
(* returned to the caller and leaves nothing behind.                       *)
(***************************************************************************)
Watch ==
    /\ pc = "none"
    /\ Loads(store)
    /\ snapshot' = Listed(store)
    /\ position' = Len(history)
    /\ out' = [i \in 1..Len(sortedSnapshotKeys(Listed(store))) |->
                  EventOf("added", Listed(store), sortedSnapshotKeys(Listed(store))[i])]
    /\ capacity' = Len(out') + Spare
    /\ pc' = "watch"
    /\ status' = markWatchLoaded
    /\ UNCHANGED <<etcdVars, fresh, todo, cancelled, failures, skips, missed, view>>

(* watchOnce: the next event is applied to the snapshot, marked, and sent. *)
watchOnce ==
    /\ pc = "watch" /\ todo = <<>>
    /\ position < Len(history)
    /\ Payload(position + 1) \notin Odd
    /\ LET e == decodeEvent(position + 1, StateAt(position))
       IN  /\ snapshot' = applySnapshotEvent(snapshot, e)
           /\ todo' = <<e>>
    /\ position' = position + 1
    /\ status' = markWatchEvent
    /\ missed' = missed \ {history[position + 1].key}
    /\ UNCHANGED <<etcdVars, pc, fresh, out, capacity, cancelled, failures, skips, view>>

(***************************************************************************)
(* An event that does not decode is skipped: its value is of another       *)
(* format, or it is a delete whose previous value etcd has compacted.  An  *)
(* instance without an address is decoded and sent, but the snapshot and   *)
(* the consumer ignore it, so that it is skipped here as well.             *)
(***************************************************************************)
watchOnceSkips ==
    /\ pc = "watch" /\ todo = <<>>
    /\ position < Len(history)
    /\ \/ Payload(position + 1) \in Odd /\ skips' = skips
       \/ /\ Payload(position + 1) \notin Odd /\ history[position + 1].val = 0
          /\ skips < MaxSkips /\ skips' = skips + 1
    /\ missed' = missed \cup {history[position + 1].key}
    /\ position' = position + 1
    /\ UNCHANGED <<etcdVars, pc, snapshot, fresh, todo, out, capacity, cancelled, status, failures, view>>

\* sendEvent: blocks while the channel is full.
sendEvent ==
    /\ todo # <<>>
    /\ pc \in {"watch", "resync"}
    /\ Len(out) < capacity
    /\ out' = Append(out, Head(todo))
    /\ todo' = Tail(todo)
    /\ UNCHANGED <<etcdVars, pc, snapshot, fresh, position, capacity, cancelled, status, failures, skips, missed, view>>

\* Mutant: the failure is not marked.
watchFailsUnmarked ==
    /\ pc = "watch" /\ todo = <<>>
    /\ failures < MaxFailures
    /\ failures' = failures + 1
    /\ pc' = "recover"
    /\ UNCHANGED <<etcdVars, snapshot, fresh, position, todo, out, capacity, cancelled, status, skips, missed, view>>

\* The etcd watch fails, is compacted away, or its channel closes.
watchFails ==
    /\ pc = "watch" /\ todo = <<>>
    /\ failures < MaxFailures
    /\ failures' = failures + 1
    /\ pc' = "recover"
    /\ status' = markWatchError
    /\ UNCHANGED <<etcdVars, snapshot, fresh, position, todo, out, capacity, cancelled, skips, missed, view>>

(* loadSnapshot returns an error: every time while a malformed value is    *)
(* under the prefix, else because etcd does.                               *)
loadFails ==
    /\ pc = "recover"
    /\ \/ ~Loads(store) /\ failures' = failures
       \/ Loads(store) /\ failures < MaxFailures /\ failures' = failures + 1
    /\ status' = markWatchError
    /\ UNCHANGED <<etcdVars, pc, snapshot, fresh, position, todo, out, capacity, cancelled, skips, missed, view>>

\* Mutant: a reload that resumes where the old watch stopped.
loadSnapshotOldRevision ==
    /\ pc = "recover"
    /\ Loads(store)
    /\ fresh' = Listed(store)
    /\ missed' = {}
    /\ todo' = emitSnapshotDiff(snapshot, Listed(store))
    /\ pc' = "resync"
    /\ UNCHANGED <<etcdVars, snapshot, position, out, capacity, cancelled, status, failures, skips, view>>

(* A new snapshot is loaded; its revision is where the watch will resume.  *)
loadSnapshot ==
    /\ pc = "recover"
    /\ Loads(store)
    /\ fresh' = Listed(store)
    /\ position' = Len(history)
    /\ missed' = {}
    /\ todo' = emitSnapshotDiff(snapshot, Listed(store))
    /\ pc' = "resync"
    /\ UNCHANGED <<etcdVars, snapshot, out, capacity, cancelled, status, failures, skips, view>>

\* The difference is sent: the new snapshot replaces the old one.
resynced ==
    /\ pc = "resync" /\ todo = <<>>
    /\ snapshot' = fresh
    /\ pc' = "watch"
    /\ status' = markWatchLoaded
    /\ UNCHANGED <<etcdVars, fresh, position, todo, out, capacity, cancelled, failures, skips, missed, view>>

cancel ==
    /\ pc # "none" /\ ~cancelled
    /\ cancelled' = TRUE
    /\ UNCHANGED <<etcdVars, pc, snapshot, fresh, position, todo, out, capacity, status, failures, skips, missed, view>>

\* The loop sees the context at one of its selects; the channel is closed.
watchStops ==
    /\ cancelled /\ pc \in {"watch", "recover", "resync"}
    /\ pc' = "closed"
    /\ status' = markWatchStopped
    /\ UNCHANGED <<etcdVars, snapshot, fresh, position, todo, out, capacity, cancelled, failures, skips, missed, view>>

\* The consumer takes the next event.
Receive ==
    /\ out # <<>>
    /\ view' = applySnapshotEvent(view, Head(out))
    /\ out' = Tail(out)
    /\ UNCHANGED <<etcdVars, pc, snapshot, fresh, position, todo, capacity, cancelled, status, failures, skips, missed>>

watchLoop ==
    \/ watchOnce \/ watchOnceSkips \/ sendEvent
    \/ watchFails \/ loadFails \/ loadSnapshot \/ resynced \/ watchStops

Environment == \E k \in Keys : Put(k) \/ PutOdd(k) \/ Delete(k)

Next == Environment \/ Watch \/ watchLoop \/ cancel \/ Receive

(***************************************************************************)
(* The loop's goroutine runs when it can, and the consumer reads its       *)
(* channel (the resolver's run loop does nothing else).                    *)
(***************************************************************************)
Fairness == WF_vars(watchLoop) /\ WF_vars(Receive)

Spec == Init /\ [][Next]_vars /\ Fairness

-----------------------------------------------------------------------------
\* Status.Healthy.
Healthy == status.running /\ ~status.stale

\* Whoever holds the instances of held and receives these events ends with
\* the instances of goal: the last event of a key decides.
LeadsTo(held, events, goal) ==
    \A k \in Keys :
        LET mine == {i \in DOMAIN events : events[i].key = k} IN
        /\ mine = {} => held[k] = goal[k]
        /\ \A i \in mine : (\A j \in mine : j <= i) => ValueOf(events[i]) = goal[k]

(***************************************************************************)
(* The events are the snapshot: what the consumer has received, what is in *)
(* the channel and what the loop still has to send add up to exactly the   *)
(* instances the loop believes in, across reconnects, skipped events and a *)
(* full channel.  A later difference is therefore right for the consumer.  *)
(***************************************************************************)
EventsAreSnapshot ==
    pc # "closed" => LeadsTo(view, out \o todo, IF pc = "resync" THEN fresh ELSE snapshot)

(***************************************************************************)
(* No gap between a snapshot and the watch that follows it: while the loop *)
(* watches, its snapshot has of every key what etcd held at the position   *)
(* of the watch.  Only a key whose last event since the load was skipped   *)
(* may differ, and the next event of that key that is not heals it.        *)
(***************************************************************************)
SnapshotIsHistory ==
    pc = "watch" => \A k \in Keys : k \in missed \/ snapshot[k] = Listed(StateAt(position))[k]

(***************************************************************************)
(* A healthy status is honest: the service is reported healthy only while  *)
(* the loop follows a live watch, never between a failure and the end of   *)
(* the resynchronisation.                                                  *)
(***************************************************************************)
HealthyIsHonest == Healthy => pc = "watch"

(***************************************************************************)
(* The consumer catches up: once etcd stops changing, a watch that is not  *)
(* cancelled ends with exactly the registered instances, through failures  *)
(* of the watch and of the reload at any point.  Two things keep it apart: *)
(* a key stays as it was when its last event was skipped and no reload has *)
(* come since, and no reload comes while a malformed value is under the    *)
(* prefix, so that a watch that broke then stays broken for every key.     *)
(***************************************************************************)
CatchesUp ==
    <>[](\/ pc = "none" \/ cancelled
         \/ pc = "recover" /\ ~Loads(store)
         \/ \A k \in Keys : k \in missed \/ view[k] = Listed(store)[k])
=============================================================================
