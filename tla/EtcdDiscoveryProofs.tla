-------------------------- MODULE EtcdDiscoveryProofs --------------------------
(***************************************************************************)
(* Proofs about the watch of runtime/discovery/etcd.go, for any set of     *)
(* instances and any number of writes, failures and skipped events; then   *)
(* about the resolver of runtime/grpcclient/resolver.go that follows it.   *)
(***************************************************************************)
EXTENDS Resolver, FiniteSetTheorems, SequenceTheorems, TLAPS

-----------------------------------------------------------------------------
(* Sorted keys *)

\* Every key has a place of its own among the sorted ones, and every place a key.
LEMMA RankIsBijective ==
  ASSUME NEW ks \in SUBSET Keys
  PROVE  /\ Cardinality(ks) \in Nat
         /\ \A k \in ks : /\ Cardinality({x \in ks : x < k}) \in Nat
                          /\ Cardinality({x \in ks : x < k}) + 1 \in 1..Cardinality(ks)
         /\ \A j, k \in ks : Cardinality({x \in ks : x < j}) = Cardinality({x \in ks : x < k}) => j = k
         /\ \A i \in 1..Cardinality(ks) : \E k \in ks : Cardinality({x \in ks : x < k}) = i - 1
  <1> DEFINE n == Cardinality(ks)
             Below(k) == {x \in ks : x < k}
             rank == [k \in ks |-> Cardinality(Below(k)) + 1]
  <1>1. IsFiniteSet(ks) /\ ks \subseteq Nat /\ n \in Nat
    BY KeysAssumption, FS_Subset, FS_CardinalityType
  <1>2. ASSUME NEW k \in ks
        PROVE  IsFiniteSet(Below(k)) /\ Cardinality(Below(k)) \in Nat /\ Cardinality(Below(k)) < n
    <2>1. Below(k) \subseteq ks \ {k}
      BY <1>1
    <2>2. IsFiniteSet(ks \ {k}) /\ Cardinality(ks \ {k}) = n - 1
      BY <1>1, FS_RemoveElement
    <2>3. IsFiniteSet(Below(k)) /\ Cardinality(Below(k)) <= Cardinality(ks \ {k})
      BY <2>1, <2>2, FS_Subset
    <2>4. Cardinality(Below(k)) \in Nat
      BY <2>3, FS_CardinalityType
    <2> QED BY <1>1, <2>2, <2>3, <2>4
  <1>3. ASSUME NEW j \in ks, NEW k \in ks, j < k
        PROVE  Cardinality(Below(j)) < Cardinality(Below(k))
    <2>1. \A x \in ks : x \in Nat
      BY <1>1
    <2>2. j \notin Below(j) /\ j \in Below(k) /\ \A x \in Below(j) : x \in Below(k)
      BY <1>3, <2>1
    <2> DEFINE closed == Below(j) \cup {j}
    <2>3. Cardinality(closed) = Cardinality(Below(j)) + 1
      BY <1>2, <2>2, FS_AddElement
    <2>4. closed \in SUBSET Below(k) /\ IsFiniteSet(Below(k))
      BY <1>2, <2>2
    <2>5. Cardinality(closed) <= Cardinality(Below(k))
      BY <2>4, FS_Subset
    <2>6. Cardinality(Below(j)) \in Nat /\ Cardinality(Below(k)) \in Nat
      BY <1>2
    <2> HIDE DEF closed, Below
    <2> QED BY <2>3, <2>5, <2>6
  <1>4. rank \in [ks -> 1..n]
    BY <1>1, <1>2
  <1>5. ASSUME NEW j \in ks, NEW k \in ks, Cardinality(Below(j)) = Cardinality(Below(k)) PROVE j = k
    <2>1. j \in Nat /\ k \in Nat
      BY <1>1
    <2>2. j < k \/ k < j \/ j = k
      BY <2>1
    <2>3. Cardinality(Below(j)) \in Nat
      BY <1>2
    <2> QED BY <1>3, <1>5, <2>2, <2>3
  <1>6. rank \in Injection(ks, 1..n)
    <2>1. ASSUME NEW j \in ks, NEW k \in ks, rank[j] = rank[k]
          PROVE  Cardinality(Below(j)) = Cardinality(Below(k))
      <3>1. Cardinality(Below(j)) \in Nat /\ Cardinality(Below(k)) \in Nat
        BY <1>2
      <3>2. Cardinality(Below(j)) + 1 = Cardinality(Below(k)) + 1
        BY <2>1
      <3> HIDE DEF Below
      <3> QED BY <3>1, <3>2
    <2> QED BY <1>4, <1>5, <2>1 DEF Injection, IsInjective
  <1>7. IsFiniteSet(1..n) /\ Cardinality(1..n) = n
    BY <1>1, FS_Interval
  <1>8. rank \in Surjection(ks, 1..n)
    BY <1>6, <1>7, FS_Injection
  <1>9. \A i \in 1..n : \E k \in ks : rank[k] = i
    BY <1>8 DEF Surjection
  <1>10. \A i \in 1..n : \E k \in ks : Cardinality(Below(k)) = i - 1
    <2> SUFFICES ASSUME NEW i \in 1..n PROVE \E k \in ks : Cardinality(Below(k)) = i - 1
      OBVIOUS
    <2>1. PICK k \in ks : rank[k] = i
      BY <1>9
    <2>2. Cardinality(Below(k)) + 1 = i /\ Cardinality(Below(k)) \in Nat
      BY <1>2, <2>1
    <2> HIDE DEF Below
    <2> QED BY <2>2
  <1>11. \A k \in ks : Cardinality(Below(k)) \in Nat /\ Cardinality(Below(k)) + 1 \in 1..n
    BY <1>1, <1>2
  <1> QED BY <1>1, <1>5, <1>10, <1>11

\* sortedKeys enumerates a set of keys.
LEMMA SortedKeys ==
  ASSUME NEW ks \in SUBSET Keys
  PROVE  /\ sortedKeys(ks) \in Seq(ks)
         /\ \A k \in ks : \E i \in 1..Len(sortedKeys(ks)) : sortedKeys(ks)[i] = k
  <1> DEFINE n == Cardinality(ks)
             Rank(k) == Cardinality({x \in ks : x < k})
  <1>1. /\ n \in Nat /\ \A k \in ks : Rank(k) \in Nat /\ Rank(k) + 1 \in 1..n
        /\ \A j, k \in ks : Rank(j) = Rank(k) => j = k
        /\ \A i \in 1..n : \E k \in ks : Rank(k) = i - 1
    BY RankIsBijective
  <1>2. sortedKeys(ks) = [i \in 1..n |-> CHOOSE k \in ks : Rank(k) = i - 1]
    BY DEF sortedKeys
  <1> HIDE DEF n, Rank
  <1>3. \A i \in 1..n : sortedKeys(ks)[i] \in ks /\ Rank(sortedKeys(ks)[i]) = i - 1
    BY <1>1, <1>2
  <1>4. sortedKeys(ks) \in Seq(ks) /\ Len(sortedKeys(ks)) = n
    BY <1>1, <1>2, <1>3
  <1>5. ASSUME NEW k \in ks PROVE sortedKeys(ks)[Rank(k) + 1] = k
    <2>1. Rank(k) + 1 \in 1..n /\ Rank(k) \in Nat
      BY <1>1
    <2>2. Rank(sortedKeys(ks)[Rank(k) + 1]) = Rank(k)
      BY <1>3, <2>1
    <2> QED BY <1>1, <1>3, <2>1, <2>2
  <1> QED BY <1>1, <1>4, <1>5

-----------------------------------------------------------------------------
(* Events *)

\* Absence is a value, and not an odd one.
LEMMA ZeroIsValue == 0 \in Val /\ 0 \notin Odd
  <1>1. 0 \in 0..MaxRevision
    BY BoundsAssumption
  <1> QED BY <1>1, OddAssumption DEF Val, Odd

\* What a load lists is a snapshot.
LEMMA ListedTypes ==
  ASSUME NEW s \in Values
  PROVE  Listed(s) \in Values
  BY ZeroIsValue DEF Listed, Values

\* Events that carry the values of goal, one for every key that differs.
Tells(events, known, goal) ==
    /\ events \in Seq(Event)
    /\ \A i \in 1..Len(events) : ValueOf(events[i]) = goal[events[i].key]
    /\ \A k \in Keys : goal[k] # known[k] => \E i \in 1..Len(events) : events[i].key = k

\* The difference of two snapshots tells whoever knows the old one the new one.
LEMMA DiffTells ==
  ASSUME NEW old \in Values, NEW next \in Values
  PROVE  Tells(emitSnapshotDiff(old, next), old, next)
  <1> DEFINE gone == {k \in Keys : old[k] # 0 /\ next[k] = 0}
             new == {k \in Keys : next[k] # 0 /\ next[k] # old[k]}
             r == sortedKeys(gone)
             c == sortedKeys(new)
             removed == [i \in 1..Len(r) |-> EventOf("removed", old, r[i])]
             changed == [i \in 1..Len(c) |-> EventOf(IF old[c[i]] = 0 THEN "added" ELSE "updated", next, c[i])]
  <1>1. emitSnapshotDiff(old, next) = removed \o changed
    BY DEF emitSnapshotDiff, changedEvents
  <1>2. r \in Seq(gone) /\ \A k \in gone : \E i \in 1..Len(r) : r[i] = k
    BY SortedKeys
  <1>3. c \in Seq(new) /\ \A k \in new : \E i \in 1..Len(c) : c[i] = k
    BY SortedKeys
  <1> HIDE DEF r, c
  <1>4. /\ Len(r) \in Nat /\ Len(c) \in Nat
        /\ \A i \in 1..Len(r) : r[i] \in Keys /\ old[r[i]] \in Val /\ next[r[i]] = 0
        /\ \A i \in 1..Len(c) : c[i] \in Keys /\ next[c[i]] \in Val
    <2>1. Len(r) \in Nat /\ Len(c) \in Nat
      BY <1>2, <1>3
    <2>2. (\A i \in 1..Len(r) : r[i] \in gone) /\ (\A i \in 1..Len(c) : c[i] \in new)
      BY <1>2, <1>3
    <2>3. \A k \in gone : k \in Keys /\ old[k] \in Val /\ next[k] = 0
      BY DEF Values
    <2>4. \A k \in new : k \in Keys /\ next[k] \in Val
      BY DEF Values
    <2> QED BY <2>1, <2>2, <2>3, <2>4
  <1>5. /\ removed \in Seq(Event) /\ Len(removed) = Len(r)
        /\ \A i \in 1..Len(r) : removed[i].key = r[i] /\ ValueOf(removed[i]) = next[r[i]]
    BY <1>4 DEF Event, EventOf, ValueOf
  <1>6. /\ changed \in Seq(Event) /\ Len(changed) = Len(c)
        /\ \A i \in 1..Len(c) : changed[i].key = c[i] /\ ValueOf(changed[i]) = next[c[i]]
    BY <1>4 DEF Event, EventOf, ValueOf
  <1>7. \A k \in Keys : next[k] # old[k] => k \in gone \/ k \in new
    BY DEF Values
  <1> HIDE DEF removed, changed, gone, new
  <1> DEFINE d == removed \o changed
  <1>8. /\ d \in Seq(Event) /\ Len(d) = Len(r) + Len(c)
        /\ \A i \in 1..Len(r) : d[i] = removed[i]
        /\ \A i \in 1..Len(c) : d[Len(r) + i] = changed[i]
    <2>1. removed \in Seq(Event) /\ changed \in Seq(Event)
      BY <1>5, <1>6
    <2>2. /\ d \in Seq(Event) /\ Len(d) = Len(removed) + Len(changed)
          /\ \A i \in 1..Len(removed) : d[i] = removed[i]
          /\ \A i \in 1..Len(changed) : d[Len(removed) + i] = changed[i]
      BY <2>1
    <2> QED BY <1>5, <1>6, <2>2
  <1> HIDE DEF d
  <1>9. ASSUME NEW i \in 1..Len(d) PROVE ValueOf(d[i]) = next[d[i].key]
    <2>1. CASE i <= Len(r)
      <3>1. i \in 1..Len(r)
        BY <1>4, <1>8, <2>1
      <3> QED BY <1>5, <1>8, <3>1
    <2>2. CASE ~(i <= Len(r))
      <3>1. PICK j \in 1..Len(c) : i = Len(r) + j
        <4>1. i - Len(r) \in 1..Len(c) /\ i = Len(r) + (i - Len(r))
          BY <1>4, <1>8, <2>2
        <4> QED BY <4>1
      <3>2. d[i] = changed[j]
        BY <1>8, <3>1
      <3> QED BY <1>6, <3>2
    <2> QED BY <2>1, <2>2
  <1>10. ASSUME NEW k \in gone PROVE \E i \in 1..Len(d) : d[i].key = k
    <2>1. PICK i \in 1..Len(r) : r[i] = k
      BY <1>2
    <2>2. i \in 1..Len(d) /\ d[i].key = k
      BY <1>4, <1>5, <1>8, <2>1
    <2> QED BY <2>2
  <1>11. ASSUME NEW k \in new PROVE \E i \in 1..Len(d) : d[i].key = k
    <2>1. PICK i \in 1..Len(c) : c[i] = k
      BY <1>3
    <2>2. Len(r) + i \in 1..Len(d)
      BY <1>4, <1>8
    <2>3. d[Len(r) + i].key = k
      BY <1>6, <1>8, <2>1
    <2> QED BY <2>2, <2>3
  <1> QED BY <1>1, <1>7, <1>8, <1>9, <1>10, <1>11 DEF Tells, d

\* The first snapshot is told to a consumer that knows nothing.
LEMMA FirstSnapshotTells ==
  ASSUME NEW s \in Values
  PROVE  LET keys == sortedSnapshotKeys(s)
         IN  Tells([i \in 1..Len(keys) |-> EventOf("added", s, keys[i])], Empty, s)
  <1> DEFINE ks == {k \in Keys : s[k] # 0}
             keys == sortedSnapshotKeys(s)
             d == [i \in 1..Len(keys) |-> EventOf("added", s, keys[i])]
  <1>1. keys \in Seq(ks) /\ \A k \in ks : \E i \in 1..Len(keys) : keys[i] = k
    BY SortedKeys DEF sortedSnapshotKeys
  <1> HIDE DEF keys
  <1>2. Len(keys) \in Nat /\ \A i \in 1..Len(keys) : keys[i] \in Keys /\ s[keys[i]] \in Val
    BY <1>1 DEF Values
  <1>3. /\ d \in Seq(Event) /\ Len(d) = Len(keys)
        /\ \A i \in 1..Len(keys) : d[i].key = keys[i] /\ ValueOf(d[i]) = s[keys[i]]
    BY <1>2 DEF Event, EventOf, ValueOf
  <1> HIDE DEF d
  <1>4. Tells(d, Empty, s)
    BY <1>1, <1>3 DEF Tells, Empty
  <1> QED BY <1>4 DEF d, keys

\* One event tells what it makes of a snapshot.
LEMMA EventTells ==
  ASSUME NEW known \in Values, NEW e \in Event
  PROVE  Tells(<<e>>, known, applySnapshotEvent(known, e)) /\ applySnapshotEvent(known, e) \in Values
  <1> DEFINE goal == applySnapshotEvent(known, e)
  <1>1. e.key \in Keys /\ ValueOf(e) \in Val
    BY ZeroIsValue DEF Event, ValueOf
  <1>2. goal \in Values /\ goal[e.key] = ValueOf(e) /\ \A k \in Keys : k # e.key => goal[k] = known[k]
    BY <1>1 DEF applySnapshotEvent, Values
  <1> HIDE DEF goal
  <1>3. <<e>> \in Seq(Event) /\ Len(<<e>>) = 1 /\ <<e>>[1] = e
    OBVIOUS
  <1>4. Tells(<<e>>, known, goal)
    BY <1>2, <1>3 DEF Tells
  <1> QED BY <1>2, <1>4 DEF goal

\* Events that are sent after others lead on to what they tell.
LEMMA LeadsOn ==
  ASSUME NEW held, NEW events \in Seq(Event), NEW known, LeadsTo(held, events, known),
         NEW d, NEW goal, Tells(d, known, goal)
  PROVE  LeadsTo(held, events \o d, goal)
  <1> SUFFICES ASSUME NEW k \in Keys
               PROVE  LET mine == {i \in DOMAIN (events \o d) : (events \o d)[i].key = k} IN
                      /\ mine = {} => held[k] = goal[k]
                      /\ \A i \in mine : (\A j \in mine : j <= i) => ValueOf((events \o d)[i]) = goal[k]
    BY DEF LeadsTo
  <1> DEFINE all == events \o d
             n == Len(events)
             mine == {i \in DOMAIN all : all[i].key = k}
  <1>1. d \in Seq(Event)
    BY DEF Tells
  <1>2. /\ n \in Nat /\ Len(d) \in Nat /\ DOMAIN events = 1..n /\ DOMAIN all = 1..(n + Len(d))
        /\ \A i \in 1..n : all[i] = events[i]
        /\ \A i \in 1..Len(d) : all[n + i] = d[i]
    BY <1>1
  <1> HIDE DEF all, n
  <1>3. CASE \E i \in 1..Len(d) : d[i].key = k
    <2>1. PICK m \in 1..Len(d) : d[m].key = k
      BY <1>3
    <2>2. n + m \in mine
      BY <1>2, <2>1
    <2>3. ASSUME NEW i \in mine, \A j \in mine : j <= i PROVE ValueOf(all[i]) = goal[k]
      <3>1. i \in 1..(n + Len(d)) /\ n + m <= i /\ all[i].key = k
        BY <1>2, <2>2, <2>3
      <3>2. i - n \in 1..Len(d) /\ i = n + (i - n)
        BY <1>2, <3>1
      <3>3. all[i] = d[i - n]
        BY <1>2, <3>2
      <3> QED BY <3>1, <3>2, <3>3 DEF Tells
    <2> QED BY <2>2, <2>3 DEF all
  <1>4. CASE \A i \in 1..Len(d) : d[i].key # k
    <2>1. goal[k] = known[k]
      BY <1>4 DEF Tells
    <2>2. mine = {i \in DOMAIN events : events[i].key = k}
      <3>1. ASSUME NEW i \in mine PROVE i \in DOMAIN events /\ events[i].key = k
        <4>1. i \in 1..(n + Len(d)) /\ all[i].key = k
          BY <1>2
        <4>2. ~(i > n)
          <5> SUFFICES ASSUME i > n PROVE FALSE
            BY <1>2, <4>1
          <5>1. i - n \in 1..Len(d) /\ all[n + (i - n)] = d[i - n] /\ i = n + (i - n)
            BY <1>2, <4>1
          <5> QED BY <1>4, <4>1, <5>1
        <4> QED BY <1>2, <4>1, <4>2
      <3>2. ASSUME NEW i \in DOMAIN events, events[i].key = k PROVE i \in mine
        BY <1>2, <3>2
      <3> QED BY <3>1, <3>2
    <2>3. \A i \in mine : all[i] = events[i]
      BY <1>2, <2>2
    <2> QED BY <2>1, <2>2, <2>3 DEF LeadsTo, all
  <1> QED BY <1>3, <1>4

\* The consumer takes the first event.
LEMMA LeadsToTail ==
  ASSUME NEW held \in Values, NEW events \in Seq(Event), events # <<>>, NEW goal, LeadsTo(held, events, goal)
  PROVE  LeadsTo(applySnapshotEvent(held, Head(events)), Tail(events), goal)
  <1> DEFINE e == Head(events)
             rest == Tail(events)
             n == Len(events)
             now == applySnapshotEvent(held, e)
  <1>1. /\ n \in Nat \ {0} /\ DOMAIN events = 1..n /\ DOMAIN rest = 1..(n - 1)
        /\ e = events[1] /\ e \in Event
        /\ \A i \in 1..(n - 1) : rest[i] = events[i + 1]
    OBVIOUS
  <1>2. now[e.key] = ValueOf(e) /\ \A k \in Keys : k # e.key => now[k] = held[k]
    BY <1>1 DEF applySnapshotEvent, Values, Event
  <1> HIDE DEF e, rest, n, now
  <1> SUFFICES ASSUME NEW k \in Keys
               PROVE  LET mine == {i \in DOMAIN rest : rest[i].key = k} IN
                      /\ mine = {} => now[k] = goal[k]
                      /\ \A i \in mine : (\A j \in mine : j <= i) => ValueOf(rest[i]) = goal[k]
    BY DEF LeadsTo, e, rest, now
  <1> DEFINE old == {i \in DOMAIN events : events[i].key = k}
             mine == {i \in DOMAIN rest : rest[i].key = k}
  <1>3. /\ old = {} => held[k] = goal[k]
        /\ \A i \in old : (\A j \in old : j <= i) => ValueOf(events[i]) = goal[k]
    BY DEF LeadsTo
  <1>4. \A i \in mine : i \in 1..(n - 1) /\ i + 1 \in old
    BY <1>1
  <1>5. \A i \in old : i \in 1..n /\ (i = 1 => e.key = k) /\ (i # 1 => i - 1 \in mine)
    BY <1>1
  <1>6. e.key = k => 1 \in old
    BY <1>1
  <1>7. ASSUME mine = {} PROVE now[k] = goal[k]
    <2>1. CASE e.key = k
      <3>1. 1 \in old /\ \A j \in old : j <= 1
        BY <1>5, <1>6, <1>7, <2>1
      <3> QED BY <1>1, <1>2, <1>3, <2>1, <3>1
    <2>2. CASE e.key # k
      BY <1>2, <1>3, <1>5, <1>7, <2>2
    <2> QED BY <2>1, <2>2
  <1>8. ASSUME NEW i \in mine, \A j \in mine : j <= i PROVE ValueOf(rest[i]) = goal[k]
    <2>1. i \in 1..(n - 1) /\ i + 1 \in old /\ rest[i] = events[i + 1]
      BY <1>1, <1>4
    <2>2. ASSUME NEW j \in old PROVE j <= i + 1
      <3>1. j \in 1..n /\ (j # 1 => j - 1 <= i)
        BY <1>5, <1>8
      <3> QED BY <1>1, <2>1, <3>1
    <2> QED BY <1>3, <2>1, <2>2
  <1> QED BY <1>7, <1>8

-----------------------------------------------------------------------------
(* The invariant *)

\* Every revision is the one before it with one key written.
HistorySound ==
    /\ store = StateAt(Len(history))
    /\ \A n \in 1..Len(history) :
          history[n].after = [StateAt(n - 1) EXCEPT ![history[n].key] = history[n].val]

\* What the loop has done where it is: nothing before Watch, everything sent
\* before it reloads, and a reload is a revision of etcd.
LoopSound ==
    /\ pc = "none" => out = <<>> /\ todo = <<>> /\ snapshot = Empty
    /\ pc = "recover" => todo = <<>>
    /\ pc = "resync" => fresh = Listed(StateAt(position))

\* The status that goes with it.
StatusSound ==
    /\ pc \in {"none", "closed"} => ~status.running
    /\ pc \in {"recover", "resync"} => status.stale

Goal == IF pc = "resync" THEN fresh ELSE snapshot

IndInv ==
    /\ TypeOK /\ HistorySound /\ LoopSound /\ StatusSound
    /\ SnapshotIsHistory /\ EventsAreSnapshot

\* The invariant about events, before and after a step.
LEMMA EventsGoal ==
  /\ EventsAreSnapshot <=> (pc # "closed" => LeadsTo(view, out \o todo, Goal))
  /\ EventsAreSnapshot' <=> (pc' # "closed" => LeadsTo(view', out' \o todo', Goal'))
  <1>1. EventsAreSnapshot <=> (pc # "closed" => LeadsTo(view, out \o todo, Goal))
    BY DEF EventsAreSnapshot, Goal
  <1>2. EventsAreSnapshot' <=> (pc' # "closed" => LeadsTo(view', out' \o todo', Goal'))
    BY DEF EventsAreSnapshot, Goal, LeadsTo, ValueOf
  <1> QED BY <1>1, <1>2

\* The revisions that etcd has had stay.
LEMMA RevisionsStay ==
  ASSUME UNCHANGED history
  PROVE  \A n : StateAt(n)' = StateAt(n)
  BY DEF StateAt, Empty

\* The types of the revisions.
LEMMA RevisionTypes ==
  ASSUME TypeOK, NEW n \in 0..Len(history)
  PROVE  StateAt(n) \in Values
  <1>1. Empty \in Values
    BY ZeroIsValue DEF Empty, Values
  <1>2. ASSUME n # 0 PROVE history[n] \in [key : Keys, val : Val, after : Values]
    <2>1. n \in 1..Len(history)
      BY <1>2
    <2>2. history \in Seq([key : Keys, val : Val, after : Values])
      BY DEF TypeOK
    <2> QED BY <2>1, <2>2, ElementOfSeq
  <1> QED BY <1>1, <1>2 DEF StateAt

\* The initial state satisfies the invariant.
LEMMA InitInv == Init => IndInv
  <1> SUFFICES ASSUME Init PROVE IndInv
    OBVIOUS
  <1>1. Empty \in Values
    BY ZeroIsValue DEF Empty, Values
  <1>2. TypeOK
    <2>1. cancelled \in BOOLEAN /\ missed \in SUBSET Keys /\ status \in [running : BOOLEAN, stale : BOOLEAN]
      BY DEF Init
    <2>2. history \in Seq([key : Keys, val : Val, after : Values]) /\ todo \in Seq(Event) /\ out \in Seq(Event)
      BY DEF Init
    <2>3. position \in 0..Len(history) /\ capacity \in Nat /\ Len(out) <= capacity
      BY DEF Init
    <2>4. failures \in 0..MaxFailures /\ skips \in 0..MaxSkips
      BY BoundsAssumption DEF Init
    <2> QED BY <1>1, <2>1, <2>2, <2>3, <2>4 DEF Init, TypeOK
  <1>3. HistorySound /\ LoopSound /\ StatusSound /\ SnapshotIsHistory
    BY DEF Init, HistorySound, LoopSound, StatusSound, SnapshotIsHistory, StateAt, Listed, Odd
  <1>4. EventsAreSnapshot
    <2>1. out \o todo = <<>> /\ view = Empty /\ Goal = Empty
      BY DEF Init, Goal
    <2>2. LeadsTo(Empty, <<>>, Empty)
      BY DEF LeadsTo
    <2> QED BY <2>1, <2>2, EventsGoal
  <1> QED BY <1>2, <1>3, <1>4 DEF IndInv

\* A write makes a new revision and touches nothing of the watch.
LEMMA WriteStep ==
  ASSUME IndInv, NEW k \in Keys, NEW v \in Val, Write(k, v)
  PROVE  IndInv'
  <1> USE DEF IndInv
  <1> DEFINE w == [key |-> k, val |-> v, after |-> store']
             n == Len(history)
  <1>1. /\ store' = [store EXCEPT ![k] = v] /\ history' = Append(history, w)
        /\ UNCHANGED <<pc, snapshot, fresh, position, todo, out, capacity, cancelled, status,
                       failures, skips, missed, view>>
    BY DEF Write, watchVars
  <1>2. store' \in Values
    BY <1>1 DEF TypeOK, Values
  <1>3. w \in [key : Keys, val : Val, after : Values]
    BY <1>2
  <1>4. /\ history' \in Seq([key : Keys, val : Val, after : Values])
        /\ n \in Nat /\ Len(history') = n + 1 /\ history'[n + 1] = w
        /\ \A i \in 1..n : history'[i] = history[i]
    BY <1>1, <1>3 DEF TypeOK
  <1>5. w.key = k /\ w.val = v /\ w.after = store'
    OBVIOUS
  <1> HIDE DEF w
  <1>6. TypeOK'
    <2>1. position' \in 0..Len(history')
      BY <1>1, <1>4 DEF TypeOK
    <2>2. cancelled' \in BOOLEAN /\ missed' \in SUBSET Keys
      BY <1>1 DEF TypeOK
    <2> QED BY <1>1, <1>2, <1>4, <2>1, <2>2 DEF TypeOK
  <1>7. \A i \in 0..n : StateAt(i)' = StateAt(i)
    BY <1>4 DEF StateAt, Empty
  <1>8. HistorySound'
    <2>1. StateAt(Len(history))' = store'
      <3>1. StateAt(Len(history))' = IF Len(history') = 0 THEN Empty ELSE history'[Len(history')].after
        BY DEF StateAt, Empty
      <3> QED BY <1>4, <1>5, <3>1
    <2>2. ASSUME NEW i \in 1..(n + 1)
          PROVE  history'[i].after = [StateAt(i - 1)' EXCEPT ![history'[i].key] = history'[i].val]
      <3>1. CASE i = n + 1
        <4>1. i - 1 = n /\ n \in 0..n
          BY <1>4, <3>1
        <4>2. StateAt(i - 1)' = store
          BY <1>7, <4>1 DEF HistorySound
        <4> QED BY <1>1, <1>4, <1>5, <3>1, <4>2
      <3>2. CASE i # n + 1
        <4>1. i \in 1..n /\ i - 1 \in 0..n
          BY <1>4, <3>2
        <4> QED BY <1>4, <1>7, <4>1 DEF HistorySound
      <3> QED BY <3>1, <3>2
    <2> QED BY <1>4, <2>1, <2>2 DEF HistorySound
  <1>9. StateAt(position)' = StateAt(position)
    <2>1. position \in 0..n
      BY DEF TypeOK
    <2>2. StateAt(position)' = IF position' = 0 THEN Empty ELSE history'[position'].after
      BY DEF StateAt, Empty
    <2> QED BY <1>1, <1>4, <2>1, <2>2 DEF StateAt
  <1>10. LoopSound' /\ StatusSound' /\ SnapshotIsHistory'
    BY <1>1, <1>9 DEF LoopSound, StatusSound, SnapshotIsHistory, Empty, Listed, Odd
  <1>11. EventsAreSnapshot'
    BY <1>1, EventsGoal DEF Goal
  <1> QED BY <1>6, <1>8, <1>10, <1>11

\* Watch: the first snapshot is a revision, and its events lead to it.
LEMMA WatchStep ==
  ASSUME IndInv, Watch
  PROVE  IndInv'
  <1> USE DEF IndInv
  <1> DEFINE new == Listed(store)
             keys == sortedSnapshotKeys(new)
             d == [i \in 1..Len(keys) |-> EventOf("added", new, keys[i])]
  <1>1. /\ pc = "none" /\ pc' = "watch" /\ snapshot' = new /\ position' = Len(history) /\ out' = d
        /\ capacity' = Len(d) + Spare /\ status' = [running |-> TRUE, stale |-> FALSE]
        /\ UNCHANGED <<history, store, fresh, todo, cancelled, failures, skips, missed, view>>
    BY DEF Watch, etcdVars, markWatchLoaded
  <1>2. new \in Values
    BY ListedTypes DEF TypeOK
  <1>3. Tells(d, Empty, new)
    BY <1>2, FirstSnapshotTells
  <1> HIDE DEF d
  <1>4. d \in Seq(Event)
    BY <1>3 DEF Tells
  <1>5. TypeOK'
    <2>1. capacity' \in Nat /\ Len(out') <= capacity' /\ position' \in 0..Len(history')
      BY <1>1, <1>4, BoundsAssumption DEF TypeOK
    <2>2. status' \in [running : BOOLEAN, stale : BOOLEAN]
      BY <1>1
    <2>3. cancelled' \in BOOLEAN /\ missed' \in SUBSET Keys
      BY <1>1 DEF TypeOK
    <2> QED BY <1>1, <1>2, <1>4, <2>1, <2>2, <2>3 DEF TypeOK
  <1>6. \A n : StateAt(n)' = StateAt(n)
    BY <1>1, RevisionsStay
  <1>7. HistorySound'
    <2>1. StateAt(Len(history))' = StateAt(Len(history))
      BY <1>1 DEF StateAt, Empty
    <2> QED BY <1>1, <1>6, <2>1 DEF HistorySound
  <1>8. SnapshotIsHistory'
    <2>1. StateAt(position)' = StateAt(Len(history))
      BY <1>1 DEF StateAt, Empty
    <2> QED BY <1>1, <2>1 DEF HistorySound, SnapshotIsHistory, Listed, Odd
  <1>9. LoopSound' /\ StatusSound'
    BY <1>1 DEF LoopSound, StatusSound, Listed, Odd
  <1>10. EventsAreSnapshot'
    <2>1. out = <<>> /\ todo = <<>> /\ Goal = Empty /\ out \o todo = <<>>
      BY <1>1 DEF LoopSound, Goal, Listed, Odd
    <2>2. LeadsTo(view, <<>>, Empty)
      BY <1>1, <2>1, EventsGoal
    <2>3. <<>> \in Seq(Event)
      OBVIOUS
    <2>4. LeadsTo(view, <<>> \o d, new)
      BY <1>3, <2>2, <2>3, LeadsOn
    <2>5. <<>> \o d = d /\ out' \o todo' = d /\ Goal' = new /\ view' = view
      BY <1>1, <1>4, <2>1 DEF Goal
    <2> QED BY <2>4, <2>5, EventsGoal
  <1> QED BY <1>5, <1>7, <1>8, <1>9, <1>10

\* The first event of a sequence may be sent before the rest.
LEMMA MoveHead ==
  ASSUME NEW S, NEW s \in Seq(S), NEW t \in Seq(S), t # <<>>
  PROVE  /\ Append(s, Head(t)) \in Seq(S) /\ Tail(t) \in Seq(S)
         /\ Len(Append(s, Head(t))) = Len(s) + 1
         /\ Append(s, Head(t)) \o Tail(t) = s \o t
  <1> DEFINE a == Append(s, Head(t)) \o Tail(t)
             b == s \o t
             n == Len(s)
             m == Len(t)
  <1>1. /\ n \in Nat /\ m \in Nat \ {0} /\ Head(t) = t[1] /\ Head(t) \in S
        /\ Tail(t) \in Seq(S) /\ Len(Tail(t)) = m - 1 /\ \A i \in 1..(m - 1) : Tail(t)[i] = t[i + 1]
        /\ Append(s, Head(t)) \in Seq(S) /\ Len(Append(s, Head(t))) = n + 1
    OBVIOUS
  <1>2. a \in Seq(S) /\ b \in Seq(S) /\ Len(a) = n + m /\ Len(b) = n + m
    BY <1>1
  <1>3. ASSUME NEW i \in 1..(n + m) PROVE a[i] = b[i]
    <2>1. CASE i <= n
      BY <1>1, <2>1
    <2>2. CASE i = n + 1
      BY <1>1, <2>2
    <2>3. CASE i > n + 1
      <3>1. i - (n + 1) \in 1..(m - 1) /\ i - n \in 1..m
        BY <1>1, <2>3
      <3> QED BY <1>1, <2>3, <3>1
    <2> QED BY <1>1, <2>1, <2>2, <2>3
  <1>4. a = b
    BY <1>2, <1>3, SeqEqual
  <1> QED BY <1>1, <1>4

\* The etcd part of the invariant, in a step that is not a write.
LEMMA HistoryStays ==
  ASSUME HistorySound, UNCHANGED <<history, store>>
  PROVE  HistorySound'
  <1>1. \A n : StateAt(n)' = StateAt(n)
    BY RevisionsStay
  <1>2. StateAt(Len(history))' = StateAt(Len(history))
    BY DEF StateAt, Empty
  <1> QED BY <1>1, <1>2 DEF HistorySound

\* The event that the watch delivers next, and what it makes of the revision before.
LEMMA NextEvent ==
  ASSUME TypeOK, HistorySound, position < Len(history)
  PROVE  LET e == decodeEvent(position + 1, StateAt(position)) IN
         /\ e \in Event /\ e.key = history[position + 1].key
         /\ ValueOf(e) = history[position + 1].val
         /\ StateAt(position + 1) = [StateAt(position) EXCEPT ![e.key] = ValueOf(e)]
         /\ StateAt(position) \in Values
  <1> DEFINE n == position + 1
             w == history[n]
             before == StateAt(position)
             e == decodeEvent(n, before)
  <1>1. n \in 1..Len(history) /\ position \in 0..Len(history) /\ n - 1 = position /\ n # 0
    BY DEF TypeOK
  <1>2. w \in [key : Keys, val : Val, after : Values]
    <2>1. history \in Seq([key : Keys, val : Val, after : Values])
      BY DEF TypeOK
    <2> QED BY <1>1, <2>1, ElementOfSeq
  <1>3. before \in Values
    BY <1>1, RevisionTypes
  <1>4. w.after = [before EXCEPT ![w.key] = w.val]
    BY <1>1 DEF HistorySound
  <1>5. StateAt(n) = w.after
    BY <1>1 DEF StateAt
  <1> HIDE DEF n, w, before
  <1>6. e \in Event /\ e.key = w.key /\ ValueOf(e) = w.val
    <2>1. w.key \in Keys /\ w.val \in Val /\ before[w.key] \in Val
      BY <1>2, <1>3 DEF Values
    <2>2. CASE w.val = 0
      <3>1. e = [type |-> "removed", key |-> w.key, val |-> before[w.key]]
        BY <2>2 DEF decodeEvent, EventOf, w
      <3> QED BY <2>1, <2>2, <3>1 DEF Event, ValueOf
    <2>3. CASE w.val # 0
      <3>1. e = [type |-> IF before[w.key] = 0 THEN "added" ELSE "updated", key |-> w.key, val |-> w.val]
        BY <2>3 DEF decodeEvent, w
      <3> QED BY <2>1, <2>3, <3>1 DEF Event, ValueOf
    <2> QED BY <2>2, <2>3
  <1> HIDE DEF e
  <1>7. StateAt(n) = [before EXCEPT ![e.key] = ValueOf(e)]
    BY <1>4, <1>5, <1>6
  <1> QED BY <1>3, <1>6, <1>7 DEF e, before, n, w

\* watchOnce: the event of the next revision, applied and sent.
LEMMA WatchOnceStep ==
  ASSUME IndInv, watchOnce
  PROVE  IndInv'
  <1> USE DEF IndInv
  <1> DEFINE e == decodeEvent(position + 1, StateAt(position))
  <1>1. /\ pc = "watch" /\ todo = <<>> /\ position < Len(history)
        /\ snapshot' = applySnapshotEvent(snapshot, e) /\ todo' = <<e>> /\ position' = position + 1
        /\ status' = [running |-> TRUE, stale |-> FALSE]
        /\ missed' = missed \ {history[position + 1].key} /\ Payload(position + 1) \notin Odd
        /\ UNCHANGED <<history, store, pc, fresh, out, capacity, cancelled, failures, skips, view>>
    BY DEF watchOnce, etcdVars, markWatchEvent
  <1>2. /\ e \in Event /\ e.key = history[position + 1].key /\ ValueOf(e) = history[position + 1].val
        /\ StateAt(position + 1) = [StateAt(position) EXCEPT ![e.key] = ValueOf(e)]
        /\ StateAt(position) \in Values
    BY <1>1, NextEvent
  <1> HIDE DEF e
  <1>3. snapshot \in Values
    BY DEF TypeOK
  <1>4. Tells(<<e>>, snapshot, snapshot') /\ snapshot' \in Values
    BY <1>1, <1>2, <1>3, EventTells
  <1>5. TypeOK'
    <2>1. position' \in 0..Len(history')
      BY <1>1 DEF TypeOK
    <2>2. status' \in [running : BOOLEAN, stale : BOOLEAN]
      BY <1>1
    <2>3. cancelled' \in BOOLEAN /\ missed' \in SUBSET Keys
      BY <1>1 DEF TypeOK
    <2>4. todo' \in Seq(Event)
      BY <1>1, <1>2
    <2> QED BY <1>1, <1>4, <2>1, <2>2, <2>3, <2>4 DEF TypeOK
  <1>6. HistorySound'
    BY <1>1, HistoryStays
  <1>7. SnapshotIsHistory'
    <2>1. StateAt(position)' = StateAt(position + 1)
      BY <1>1 DEF StateAt, Empty
    <2>2. ValueOf(e) \notin Odd
      BY <1>1, <1>2, ZeroIsValue DEF Payload
    <2>3. e.key \in Keys
      BY <1>2 DEF Event
    <2> SUFFICES ASSUME NEW k \in Keys, k \notin missed'
                 PROVE  snapshot'[k] = IF StateAt(position + 1)[k] \in Odd THEN 0 ELSE StateAt(position + 1)[k]
      BY <2>1 DEF SnapshotIsHistory, Listed, Odd
    <2>4. CASE k = e.key
      <3>1. snapshot'[k] = ValueOf(e) /\ StateAt(position + 1)[k] = ValueOf(e)
        BY <1>1, <1>2, <1>3, <2>3, <2>4 DEF applySnapshotEvent, Values
      <3> QED BY <2>2, <3>1
    <2>5. CASE k # e.key
      <3>1. snapshot'[k] = snapshot[k] /\ StateAt(position + 1)[k] = StateAt(position)[k]
        BY <1>1, <1>2, <1>3, <2>3, <2>5 DEF applySnapshotEvent, Values
      <3>2. k \notin missed
        BY <1>1, <1>2, <2>5
      <3>3. snapshot[k] = Listed(StateAt(position))[k]
        BY <1>1, <3>2 DEF SnapshotIsHistory
      <3> QED BY <3>1, <3>3 DEF Listed
    <2> QED BY <2>4, <2>5
  <1>8. LoopSound' /\ StatusSound'
    BY <1>1 DEF LoopSound, StatusSound, Listed, Odd
  <1>9. EventsAreSnapshot'
    <2>1. out \in Seq(Event) /\ out \o todo = out
      BY <1>1 DEF TypeOK
    <2>2. LeadsTo(view, out, snapshot)
      BY <1>1, <2>1, EventsGoal DEF Goal
    <2>3. LeadsTo(view, out \o <<e>>, snapshot')
      BY <1>4, <2>1, <2>2, LeadsOn
    <2>4. Goal' = snapshot' /\ out' \o todo' = out \o <<e>>
      BY <1>1 DEF Goal
    <2> QED BY <1>1, <2>3, <2>4, EventsGoal
  <1> QED BY <1>5, <1>6, <1>7, <1>8, <1>9

\* An event is skipped: its key is no longer what the revision has, and missed says so.
LEMMA SkipStep ==
  ASSUME IndInv, watchOnceSkips
  PROVE  IndInv'
  <1> USE DEF IndInv
  <1>1. /\ pc = "watch" /\ todo = <<>> /\ position < Len(history)
        /\ skips' = skips \/ (skips < MaxSkips /\ skips' = skips + 1)
        /\ missed' = missed \cup {history[position + 1].key} /\ position' = position + 1
        /\ UNCHANGED <<history, store, pc, snapshot, fresh, todo, out, capacity, cancelled, status, failures, view>>
    BY DEF watchOnceSkips, etcdVars
  <1> DEFINE e == decodeEvent(position + 1, StateAt(position))
  <1>0. /\ e.key = history[position + 1].key /\ e.key \in Keys
        /\ StateAt(position + 1) = [StateAt(position) EXCEPT ![e.key] = ValueOf(e)]
        /\ StateAt(position) \in Values
    BY <1>1, NextEvent DEF Event
  <1> HIDE DEF e
  <1>2. TypeOK'
    <2>1. position' \in 0..Len(history')
      BY <1>1 DEF TypeOK
    <2>2. skips' \in 0..MaxSkips
      BY <1>1, BoundsAssumption DEF TypeOK
    <2>3. cancelled' \in BOOLEAN /\ missed' \in SUBSET Keys
      BY <1>0, <1>1 DEF TypeOK
    <2> QED BY <1>1, <2>1, <2>2, <2>3 DEF TypeOK
  <1>3. HistorySound'
    BY <1>1, HistoryStays
  <1>4. LoopSound' /\ StatusSound' /\ SnapshotIsHistory'
    <2>1. LoopSound' /\ StatusSound'
      BY <1>1 DEF LoopSound, StatusSound
    <2>2. StateAt(position)' = StateAt(position + 1)
      BY <1>1 DEF StateAt, Empty
    <2> SUFFICES ASSUME NEW k \in Keys, k \notin missed'
                 PROVE  snapshot'[k] = IF StateAt(position + 1)[k] \in Odd THEN 0 ELSE StateAt(position + 1)[k]
      BY <2>1, <2>2 DEF SnapshotIsHistory, Listed, Odd
    <2>3. k # e.key /\ k \notin missed
      BY <1>0, <1>1
    <2>4. StateAt(position + 1)[k] = StateAt(position)[k]
      BY <1>0, <2>3 DEF Values
    <2>5. snapshot[k] = Listed(StateAt(position))[k]
      BY <1>1, <2>3 DEF SnapshotIsHistory
    <2> QED BY <1>1, <2>4, <2>5 DEF Listed
  <1>5. EventsAreSnapshot'
    BY <1>1, EventsGoal DEF Goal
  <1> QED BY <1>2, <1>3, <1>4, <1>5

\* sendEvent: an event moves from the loop to the channel, which had room.
LEMMA SendStep ==
  ASSUME IndInv, sendEvent
  PROVE  IndInv'
  <1> USE DEF IndInv
  <1>1. /\ todo # <<>> /\ pc \in {"watch", "resync"} /\ Len(out) < capacity
        /\ out' = Append(out, Head(todo)) /\ todo' = Tail(todo)
        /\ UNCHANGED <<history, store, pc, snapshot, fresh, position, capacity, cancelled, status,
                       failures, skips, missed, view>>
    BY DEF sendEvent, etcdVars
  <1>2. todo \in Seq(Event) /\ out \in Seq(Event) /\ capacity \in Nat
    BY DEF TypeOK
  <1>3. /\ out' \in Seq(Event) /\ todo' \in Seq(Event) /\ Len(out') <= capacity
        /\ out' \o todo' = out \o todo
    BY <1>1, <1>2, MoveHead
  <1>4. TypeOK'
    <2>1. cancelled' \in BOOLEAN /\ missed' \in SUBSET Keys
      BY <1>1 DEF TypeOK
    <2> QED BY <1>1, <1>3, <2>1 DEF TypeOK
  <1>5. HistorySound'
    BY <1>1, HistoryStays
  <1>6. StateAt(position)' = StateAt(position)
    BY <1>1 DEF StateAt, Empty
  <1>7. LoopSound' /\ StatusSound' /\ SnapshotIsHistory'
    BY <1>1, <1>6 DEF LoopSound, StatusSound, SnapshotIsHistory, Listed, Odd
  <1>8. EventsAreSnapshot'
    BY <1>1, <1>3, EventsGoal DEF Goal
  <1> QED BY <1>4, <1>5, <1>7, <1>8

\* A failed watch, or a failed reload, changes the place and the status only.
LEMMA FailureStep ==
  ASSUME IndInv, watchFails \/ loadFails
  PROVE  IndInv'
  <1> USE DEF IndInv
  <1>1. /\ todo = <<>> /\ pc \in {"watch", "recover"} /\ pc' = "recover"
        /\ failures' = failures \/ (failures < MaxFailures /\ failures' = failures + 1)
        /\ status' = [running |-> TRUE, stale |-> TRUE]
        /\ UNCHANGED <<history, store, snapshot, fresh, position, todo, out, capacity, cancelled,
                       skips, missed, view>>
    BY DEF watchFails, loadFails, LoopSound, etcdVars, markWatchError, Listed, Odd
  <1>2. TypeOK'
    <2>1. failures' \in 0..MaxFailures
      BY <1>1, BoundsAssumption DEF TypeOK
    <2>2. status' \in [running : BOOLEAN, stale : BOOLEAN]
      BY <1>1
    <2>3. cancelled' \in BOOLEAN /\ missed' \in SUBSET Keys
      BY <1>1 DEF TypeOK
    <2> QED BY <1>1, <2>1, <2>2, <2>3 DEF TypeOK
  <1>3. HistorySound'
    BY <1>1, HistoryStays
  <1>4. LoopSound' /\ StatusSound' /\ SnapshotIsHistory'
    BY <1>1 DEF LoopSound, StatusSound, SnapshotIsHistory, Listed, Odd
  <1>5. EventsAreSnapshot'
    BY <1>1, EventsGoal DEF Goal
  <1> QED BY <1>2, <1>3, <1>4, <1>5

\* loadSnapshot: the difference against the old snapshot leads to the new one.
LEMMA LoadStep ==
  ASSUME IndInv, loadSnapshot
  PROVE  IndInv'
  <1> USE DEF IndInv
  <1> DEFINE new == Listed(store)
             d == emitSnapshotDiff(snapshot, new)
  <1>1. /\ pc = "recover" /\ pc' = "resync" /\ fresh' = new /\ position' = Len(history)
        /\ missed' = {} /\ todo' = d
        /\ UNCHANGED <<history, store, snapshot, out, capacity, cancelled, status, failures, skips, view>>
    BY DEF loadSnapshot, etcdVars
  <1>2. new \in Values /\ snapshot \in Values
    BY ListedTypes DEF TypeOK
  <1>3. Tells(d, snapshot, new)
    BY <1>2, DiffTells
  <1> HIDE DEF d
  <1>4. d \in Seq(Event)
    BY <1>3 DEF Tells
  <1>5. TypeOK'
    <2>1. position' \in 0..Len(history')
      BY <1>1 DEF TypeOK
    <2>2. cancelled' \in BOOLEAN /\ missed' \in SUBSET Keys
      BY <1>1 DEF TypeOK
    <2> QED BY <1>1, <1>2, <1>4, <2>1, <2>2 DEF TypeOK
  <1>6. HistorySound'
    BY <1>1, HistoryStays
  <1>7. LoopSound'
    <2>1. StateAt(position)' = StateAt(Len(history))
      BY <1>1 DEF StateAt, Empty
    <2> QED BY <1>1, <2>1 DEF HistorySound, LoopSound, Listed, Odd
  <1>8. StatusSound' /\ SnapshotIsHistory'
    BY <1>1 DEF StatusSound, SnapshotIsHistory, Listed, Odd
  <1>9. EventsAreSnapshot'
    <2>1. out \in Seq(Event) /\ out \o todo = out
      BY <1>1 DEF LoopSound, TypeOK, Listed, Odd
    <2>2. LeadsTo(view, out, snapshot)
      BY <1>1, <2>1, EventsGoal DEF Goal
    <2>3. LeadsTo(view, out \o d, new)
      BY <1>3, <2>1, <2>2, LeadsOn
    <2>4. Goal' = new /\ out' \o todo' = out \o d
      BY <1>1 DEF Goal
    <2> QED BY <1>1, <2>3, <2>4, EventsGoal
  <1> QED BY <1>5, <1>6, <1>7, <1>8, <1>9

\* The difference is sent, and the loop watches from the revision it loaded.
LEMMA ResyncedStep ==
  ASSUME IndInv, resynced
  PROVE  IndInv'
  <1> USE DEF IndInv
  <1>1. /\ pc = "resync" /\ todo = <<>> /\ snapshot' = fresh /\ pc' = "watch"
        /\ status' = [running |-> TRUE, stale |-> FALSE]
        /\ UNCHANGED <<history, store, fresh, position, todo, out, capacity, cancelled, failures,
                       skips, missed, view>>
    BY DEF resynced, etcdVars, markWatchLoaded
  <1>2. TypeOK'
    <2>1. status' \in [running : BOOLEAN, stale : BOOLEAN]
      BY <1>1
    <2>2. cancelled' \in BOOLEAN /\ missed' \in SUBSET Keys
      BY <1>1 DEF TypeOK
    <2> QED BY <1>1, <2>1, <2>2 DEF TypeOK
  <1>3. HistorySound'
    BY <1>1, HistoryStays
  <1>4. StateAt(position)' = StateAt(position)
    BY <1>1 DEF StateAt, Empty
  <1>5. LoopSound' /\ StatusSound' /\ SnapshotIsHistory'
    BY <1>1, <1>4 DEF LoopSound, StatusSound, SnapshotIsHistory, Listed, Odd
  <1>6. EventsAreSnapshot'
    BY <1>1, EventsGoal DEF Goal
  <1> QED BY <1>2, <1>3, <1>5, <1>6

\* The caller cancels, or the loop sees that it did and closes the channel.
LEMMA CancelStep ==
  ASSUME IndInv, cancel \/ watchStops
  PROVE  IndInv'
  <1> USE DEF IndInv
  <1>1. /\ UNCHANGED <<history, store, snapshot, fresh, position, todo, out, capacity, failures,
                       skips, missed, view>>
        /\ cancelled' \in BOOLEAN
        /\ \/ pc' = pc /\ status' = status
           \/ pc' = "closed" /\ status' = [status EXCEPT !.running = FALSE]
    BY DEF cancel, watchStops, etcdVars, markWatchStopped, TypeOK
  <1>2. TypeOK'
    <2>1. status' \in [running : BOOLEAN, stale : BOOLEAN]
      BY <1>1 DEF TypeOK
    <2>2. missed' \in SUBSET Keys
      BY <1>1 DEF TypeOK
    <2>3. pc' \in {"none", "watch", "recover", "resync", "closed"}
      BY <1>1 DEF TypeOK
    <2> QED BY <1>1, <2>1, <2>2, <2>3 DEF TypeOK
  <1>3. HistorySound'
    BY <1>1, HistoryStays
  <1>4. StateAt(position)' = StateAt(position)
    BY <1>1 DEF StateAt, Empty
  <1>5. Empty' = Empty
    BY DEF Empty
  <1>6. status \in [running : BOOLEAN, stale : BOOLEAN]
    BY DEF TypeOK
  <1>7. LoopSound' /\ SnapshotIsHistory'
    BY <1>1, <1>4, <1>5 DEF LoopSound, SnapshotIsHistory, Listed, Odd
  <1>8. StatusSound'
    BY <1>1, <1>6 DEF StatusSound
  <1>9. EventsAreSnapshot'
    BY <1>1, EventsGoal DEF Goal
  <1> QED BY <1>2, <1>3, <1>7, <1>8, <1>9

\* The consumer takes an event: it holds what that event tells.
LEMMA ReceiveStep ==
  ASSUME IndInv, Receive
  PROVE  IndInv'
  <1> USE DEF IndInv
  <1>1. /\ out # <<>> /\ view' = applySnapshotEvent(view, Head(out)) /\ out' = Tail(out)
        /\ UNCHANGED <<history, store, pc, snapshot, fresh, position, todo, capacity, cancelled,
                       status, failures, skips, missed>>
    BY DEF Receive, etcdVars
  <1>2. todo \in Seq(Event) /\ out \in Seq(Event) /\ view \in Values /\ capacity \in Nat /\ Len(out) <= capacity
    BY DEF TypeOK
  <1>3. /\ out' \in Seq(Event) /\ Len(out') <= capacity /\ Head(out) \in Event
        /\ out \o todo \in Seq(Event) /\ out \o todo # <<>>
        /\ Head(out \o todo) = Head(out) /\ Tail(out \o todo) = out' \o todo
    BY <1>1, <1>2
  <1>4. view' \in Values
    BY <1>1, <1>2, <1>3, EventTells
  <1>5. TypeOK'
    <2>1. cancelled' \in BOOLEAN /\ missed' \in SUBSET Keys
      BY <1>1 DEF TypeOK
    <2> QED BY <1>1, <1>3, <1>4, <2>1 DEF TypeOK
  <1>6. HistorySound'
    BY <1>1, HistoryStays
  <1>7. StateAt(position)' = StateAt(position)
    BY <1>1 DEF StateAt, Empty
  <1>8. LoopSound' /\ StatusSound' /\ SnapshotIsHistory'
    BY <1>1, <1>7 DEF LoopSound, StatusSound, SnapshotIsHistory, Listed, Odd
  <1>9. EventsAreSnapshot'
    <2>1. Goal' = Goal
      BY <1>1 DEF Goal
    <2> SUFFICES ASSUME pc # "closed" PROVE LeadsTo(view', out' \o todo', Goal')
      BY <1>1, EventsGoal
    <2>2. LeadsTo(view, out \o todo, Goal)
      BY EventsGoal
    <2>3. LeadsTo(applySnapshotEvent(view, Head(out \o todo)), Tail(out \o todo), Goal)
      BY <1>2, <1>3, <2>2, LeadsToTail
    <2> QED BY <1>1, <1>3, <2>1, <2>3
  <1> QED BY <1>5, <1>6, <1>8, <1>9

\* Every step preserves the invariant.
LEMMA NextInv == IndInv /\ [Next]_vars => IndInv'
  <1> SUFFICES ASSUME IndInv, [Next]_vars PROVE IndInv'
    OBVIOUS
  <1>1. ASSUME NEW k \in Keys, Put(k) PROVE IndInv'
    <2>1. Len(history) + 1 \in 0..MaxRevision
      BY <1>1, BoundsAssumption DEF Put, Write, IndInv, TypeOK
    <2> QED BY <1>1, <2>1, WriteStep DEF Put, Val
  <1>2. ASSUME NEW k \in Keys, Delete(k) PROVE IndInv'
    BY <1>2, ZeroIsValue, WriteStep DEF Delete
  <1>8. ASSUME NEW k \in Keys, PutOdd(k) PROVE IndInv'
    <2>1. PICK v \in Odd : Write(k, v)
      BY <1>8 DEF PutOdd
    <2>2. v \in Val
      BY DEF Val
    <2> QED BY <2>1, <2>2, WriteStep
  <1>3. CASE Watch
    BY <1>3, WatchStep
  <1>4. CASE watchLoop
    BY <1>4, WatchOnceStep, SkipStep, SendStep, FailureStep, LoadStep, ResyncedStep, CancelStep DEF watchLoop
  <1>5. CASE cancel
    BY <1>5, CancelStep
  <1>6. CASE Receive
    BY <1>6, ReceiveStep
  <1>7. CASE UNCHANGED vars
    <2> USE DEF IndInv
    <2>1. UNCHANGED <<history, store, pc, snapshot, fresh, position, todo, out, capacity, cancelled,
                      status, failures, skips, missed, view>>
      BY <1>7 DEF vars, etcdVars, watchVars
    <2>2. TypeOK'
      BY <2>1 DEF TypeOK
    <2>3. HistorySound'
      BY <2>1, HistoryStays
    <2>4. StateAt(position)' = StateAt(position)
      BY <2>1 DEF StateAt, Empty
    <2>5. LoopSound' /\ StatusSound' /\ SnapshotIsHistory'
      BY <2>1, <2>4 DEF LoopSound, StatusSound, SnapshotIsHistory, Empty, Listed, Odd
    <2>6. EventsAreSnapshot'
      BY <2>1, EventsGoal DEF Goal
    <2> QED BY <2>2, <2>3, <2>5, <2>6
  <1> QED BY <1>1, <1>2, <1>3, <1>4, <1>5, <1>6, <1>7, <1>8 DEF Next, Environment

-----------------------------------------------------------------------------
(* The invariant holds in every state. *)
THEOREM Invariant == Spec => []IndInv
  BY InitInv, NextInv, PTL DEF Spec

(***************************************************************************)
(* Type correctness, for any instances and any history of etcd: the        *)
(* channel never holds more than its capacity and the watch is never ahead *)
(* of etcd.                                                                *)
(***************************************************************************)
THEOREM TypeCorrect == Spec => []TypeOK
  <1>1. IndInv => TypeOK
    BY DEF IndInv
  <1> QED BY <1>1, Invariant, PTL

(***************************************************************************)
(* What watchLoop has sent and has still to send always adds up, for a     *)
(* consumer that only sees the events, to the instances the loop believes  *)
(* in: emitSnapshotDiff, run against the old snapshot, is right for what   *)
(* the consumer holds, however far behind it is.                           *)
(***************************************************************************)
THEOREM EventsTellSnapshot == Spec => []EventsAreSnapshot
  <1>1. IndInv => EventsAreSnapshot
    BY DEF IndInv
  <1> QED BY <1>1, Invariant, PTL

(***************************************************************************)
(* Between the load of a snapshot and the watch that starts at the next    *)
(* revision no write is lost and none is applied twice.                    *)
(***************************************************************************)
THEOREM NoGapInHistory == Spec => []SnapshotIsHistory
  <1>1. IndInv => SnapshotIsHistory
    BY DEF IndInv
  <1> QED BY <1>1, Invariant, PTL

(***************************************************************************)
(* Status reports a service healthy only while its loop follows a watch.   *)
(***************************************************************************)
THEOREM HonestStatus == Spec => []HealthyIsHonest
  <1>1. IndInv => HealthyIsHonest
    BY DEF IndInv, TypeOK, StatusSound, HealthyIsHonest, Healthy
  <1> QED BY <1>1, Invariant, PTL

-----------------------------------------------------------------------------
(* The resolver *)

\* run resolves before it watches, and of a ghost it has received nothing.
RunSound ==
    /\ at[Run] \in {"start", "resolved"} => pc = "none"
    /\ at[Run] = "start" => ghosts = {}
    /\ \A k \in ghosts : view[k] = 0

\* Without ResolveNow run is alone: its map is what the events add up to, but
\* for the ghosts, and gRPC has the map or is about to get it.
RunAlone ==
    /\ \A t \in Refreshers : at[t] = "idle"
    /\ \A k \in Keys \ ghosts : instances[k] = view[k]
    /\ at[Run] = "resolved" => \A k \in Keys \ ghosts : hand[Run][k] = 0
    /\ IF at[Run] = "update" THEN hand[Run] = instances ELSE addresses = instances

ResolverInv ==
    /\ IndInv /\ ResolverTypeOK /\ RunSound
    /\ ~resolveNow => RunAlone

\* Before Watch no event has been received.
LEMMA NothingHeard ==
  ASSUME IndInv, pc = "none"
  PROVE  \A k \in Keys : view[k] = 0
  <1>1. out = <<>> /\ todo = <<>> /\ snapshot = Empty /\ out \o todo = <<>>
    BY DEF IndInv, LoopSound, Listed, Odd
  <1>2. LeadsTo(view, <<>>, Empty)
    BY <1>1, EventsGoal DEF IndInv, Goal
  <1>3. ASSUME NEW k \in Keys PROVE view[k] = Empty[k]
    <2>1. {i \in DOMAIN <<>> : <<>>[i].key = k} = {}
      OBVIOUS
    <2> QED BY <1>2, <2>1 DEF LeadsTo
  <1> QED BY <1>3 DEF Empty

\* Close, or a call of run that fails, changes the context or a counter only.
LEMMA FeedStays ==
  ASSUME IndInv,
         UNCHANGED <<history, store, pc, snapshot, fresh, position, todo, out, capacity, status,
                     skips, missed, view>>,
         cancelled' \in BOOLEAN, failures' \in 0..MaxFailures
  PROVE  IndInv'
  <1> USE DEF IndInv
  <1>1. TypeOK'
    <2>1. missed' \in SUBSET Keys /\ status' \in [running : BOOLEAN, stale : BOOLEAN]
      BY DEF TypeOK
    <2> QED BY <2>1 DEF TypeOK
  <1>2. HistorySound'
    BY HistoryStays
  <1>3. StateAt(position)' = StateAt(position)
    BY DEF StateAt, Empty
  <1>4. LoopSound' /\ StatusSound' /\ SnapshotIsHistory'
    BY <1>3 DEF LoopSound, StatusSound, SnapshotIsHistory, Empty, Listed, Odd
  <1>5. EventsAreSnapshot'
    BY EventsGoal DEF Goal
  <1> QED BY <1>1, <1>2, <1>4, <1>5

\* A failed call leaves the feed as it is.
LEMMA CallFailsStep ==
  ASSUME IndInv, CallFails
  PROVE  IndInv' /\ UNCHANGED <<history, store, pc, snapshot, fresh, position, todo, out, view>>
  <1>1. /\ failures' = failures \/ (failures < MaxFailures /\ failures' = failures + 1)
        /\ UNCHANGED <<history, store, pc, snapshot, fresh, position, todo, out, capacity, cancelled,
                       status, skips, missed, view>>
    BY DEF CallFails, etcdVars
  <1>2. failures' \in 0..MaxFailures
    BY <1>1, BoundsAssumption DEF IndInv, TypeOK
  <1>3. cancelled' \in BOOLEAN
    BY <1>1 DEF IndInv, TypeOK
  <1> QED BY <1>1, <1>2, <1>3, FeedStays

\* The initial state satisfies the invariant.
LEMMA ResolverInitInv == ResolverInit => ResolverInv
  <1> SUFFICES ASSUME ResolverInit PROVE ResolverInv
    OBVIOUS
  <1>1. IndInv /\ TypeOK
    BY InitInv DEF ResolverInit, IndInv
  <1>2. Empty \in Values
    BY ZeroIsValue DEF Empty, Values
  <1>3. at \in [Threads -> {"start", "idle", "resolved", "update", "watch", "loop", "gone"}]
    BY DEF ResolverInit
  <1>4. at[Run] = "start" /\ \A t \in Refreshers : at[t] = "idle"
    BY RunAssumption DEF ResolverInit, Threads
  <1>5. hand \in [Threads -> Values] /\ instances = Empty /\ addresses = Empty /\ ghosts = {}
    BY <1>2 DEF ResolverInit
  <1>6. resolveNow \in BOOLEAN
    BY DEF ResolverInit
  <1>7. ResolverTypeOK
    BY <1>1, <1>2, <1>3, <1>4, <1>5, <1>6 DEF ResolverTypeOK
  <1>8. pc = "none" /\ view = Empty
    BY DEF ResolverInit, Init
  <1>9. RunSound /\ RunAlone
    BY <1>4, <1>5, <1>8 DEF RunSound, RunAlone, Empty
  <1> QED BY <1>1, <1>7, <1>9 DEF ResolverInv

\* A step of etcd or of watchLoop: the resolver does not see it yet.
LEMMA FeedStep ==
  ASSUME ResolverInv, Environment \/ watchLoop, UNCHANGED <<serviceResolver, past>>
  PROVE  ResolverInv'
  <1>1. UNCHANGED <<at, hand, instances, addresses, ghosts, resolveNow>>
    BY DEF serviceResolver, past
  <1>2. IndInv' /\ TypeOK'
    BY NextInv DEF ResolverInv, IndInv, Next
  <1>3. view' = view /\ (pc = "none" => pc' = "none")
    <2>1. CASE Environment
      BY <2>1 DEF Environment, Put, PutOdd, Delete, Write, watchVars
    <2>2. CASE watchLoop
      BY <2>2 DEF watchLoop, watchOnce, watchOnceSkips, sendEvent, watchFails, loadFails, loadSnapshot, resynced, watchStops
    <2> QED BY <2>1, <2>2
  <1>4. resolveNow' \in BOOLEAN
    BY <1>1 DEF ResolverInv, ResolverTypeOK
  <1>5. ResolverTypeOK'
    BY <1>1, <1>2, <1>4 DEF ResolverInv, ResolverTypeOK
  <1>6. RunSound'
    BY <1>1, <1>3 DEF ResolverInv, RunSound
  <1>7. ~resolveNow' => RunAlone'
    BY <1>1, <1>3 DEF ResolverInv, RunAlone
  <1> QED BY <1>2, <1>5, <1>6, <1>7 DEF ResolverInv

\* Nothing of the discovery moves.
LEMMA FeedIdle ==
  ASSUME IndInv, UNCHANGED vars
  PROVE  /\ IndInv' /\ TypeOK'
         /\ UNCHANGED <<history, store, pc, snapshot, fresh, position, todo, out, view>>
  <1>1. IndInv' /\ TypeOK'
    BY NextInv DEF IndInv
  <1> QED BY <1>1 DEF vars, etcdVars, watchVars

\* Resolve: what run reads first are the ghosts, and a refresher ends RunAlone.
LEMMA RefreshStep ==
  ASSUME ResolverInv, NEW t \in Threads, refresh(t)
  PROVE  ResolverInv'
  <1>1. /\ at[t] \in {"start", "idle"} /\ hand' = [hand EXCEPT ![t] = Listed(store)]
        /\ at' = [at EXCEPT ![t] = "resolved"]
        /\ ghosts' = IF t = Run THEN {k \in Keys : Listed(store)[k] # 0} ELSE ghosts
        /\ UNCHANGED <<vars, instances, addresses>>
    BY DEF refresh
  <1>2. (resolveNow' <=> (resolveNow \/ t # Run)) /\ resolveNow' \in BOOLEAN
    BY DEF refresh, ResolverInv, ResolverTypeOK
  <1>3. IndInv' /\ TypeOK' /\ UNCHANGED <<store, pc, view>>
    BY <1>1, FeedIdle DEF ResolverInv
  <1>4. Listed(store) \in Values /\ hand \in [Threads -> Values] /\ Run \in Threads /\ Refreshers \subseteq Threads
    BY ListedTypes DEF ResolverInv, ResolverTypeOK, TypeOK, Threads
  <1>5. /\ at \in [Threads -> {"start", "idle", "resolved", "update", "watch", "loop", "gone"}]
        /\ at[Run] # "idle" /\ \A r \in Refreshers : at[r] \in {"idle", "resolved", "update"}
    BY DEF ResolverInv, ResolverTypeOK
  <1>6. ResolverTypeOK'
    <2>1. at' \in [Threads -> {"start", "idle", "resolved", "update", "watch", "loop", "gone"}]
      BY <1>1, <1>5
    <2>2. at'[Run] # "idle" /\ \A r \in Refreshers : at'[r] \in {"idle", "resolved", "update"}
      BY <1>1, <1>4, <1>5
    <2>3. hand' \in [Threads -> Values]
      BY <1>1, <1>4
    <2>4. ghosts' \subseteq Keys /\ instances' \in Values /\ addresses' \in Values
      BY <1>1 DEF ResolverInv, ResolverTypeOK
    <2> QED BY <1>2, <1>3, <2>1, <2>2, <2>3, <2>4 DEF ResolverTypeOK
  <1>7. CASE t = Run
    <2>1. at[Run] = "start" /\ pc = "none" /\ ghosts = {} /\ at'[Run] = "resolved"
      BY <1>1, <1>4, <1>5, <1>7 DEF ResolverInv, RunSound
    <2>2. \A k \in Keys : view[k] = 0
      BY <2>1, NothingHeard DEF ResolverInv
    <2>3. RunSound'
      BY <1>1, <1>3, <1>7, <2>1, <2>2 DEF RunSound
    <2>4. ASSUME ~resolveNow PROVE RunAlone'
      <3>1. RunAlone
        BY <2>4 DEF ResolverInv
      <3>2. \A r \in Refreshers : at'[r] = at[r]
        BY <1>1, <1>4, <1>5, <1>7, RunAssumption
      <3>3. hand'[Run] = Listed(store)
        BY <1>1, <1>4, <1>7
      <3> QED BY <1>1, <1>3, <1>7, <2>1, <3>1, <3>2, <3>3 DEF RunAlone
    <2> QED BY <1>2, <1>3, <1>6, <1>7, <2>3, <2>4 DEF ResolverInv
  <1>8. CASE t # Run
    <2>1. at'[Run] = at[Run]
      BY <1>1, <1>4, <1>5, <1>8
    <2>2. RunSound'
      BY <1>1, <1>3, <1>8, <2>1 DEF ResolverInv, RunSound
    <2> QED BY <1>2, <1>3, <1>6, <1>8, <2>2 DEF ResolverInv
  <1> QED BY <1>7, <1>8

\* A failed Resolve or Watch moves run on, or ends it.
LEMMA RunCallFailsStep ==
  ASSUME ResolverInv, refreshFails \/ runFails
  PROVE  ResolverInv'
  <1>1. /\ at[Run] \in {"start", "watch"} /\ CallFails
        /\ UNCHANGED <<hand, instances, addresses, ghosts, resolveNow>>
    BY DEF refreshFails, runFails, past
  <1>2. PICK a \in {"watch", "gone"} : at' = [at EXCEPT ![Run] = a]
    BY DEF refreshFails, runFails
  <1>3. IndInv' /\ TypeOK' /\ UNCHANGED <<store, pc, view>>
    BY <1>1, CallFailsStep DEF ResolverInv, IndInv
  <1>4. /\ at \in [Threads -> {"start", "idle", "resolved", "update", "watch", "loop", "gone"}]
        /\ \A r \in Refreshers : at[r] \in {"idle", "resolved", "update"}
        /\ Run \in Threads /\ Refreshers \subseteq Threads
    BY DEF ResolverInv, ResolverTypeOK, Threads
  <1>5. at'[Run] = a /\ \A r \in Refreshers : at'[r] = at[r]
    BY <1>2, <1>4, RunAssumption
  <1>6. at' \in [Threads -> {"start", "idle", "resolved", "update", "watch", "loop", "gone"}]
    BY <1>2, <1>4
  <1>7. resolveNow' \in BOOLEAN
    BY <1>1 DEF ResolverInv, ResolverTypeOK
  <1>8. ResolverTypeOK'
    BY <1>1, <1>3, <1>4, <1>5, <1>6, <1>7 DEF ResolverInv, ResolverTypeOK
  <1>9. RunSound'
    BY <1>1, <1>3, <1>5 DEF ResolverInv, RunSound
  <1>10. ~resolveNow' => RunAlone'
    BY <1>1, <1>3, <1>5 DEF ResolverInv, RunAlone
  <1> QED BY <1>3, <1>8, <1>9, <1>10 DEF ResolverInv

\* replace: the map is what was read; for run, the ghosts and nothing else.
LEMMA ReplaceStep ==
  ASSUME ResolverInv, NEW t \in Threads, replace(t)
  PROVE  ResolverInv'
  <1>1. /\ at[t] = "resolved" /\ instances' = hand[t] /\ at' = [at EXCEPT ![t] = "update"]
        /\ UNCHANGED <<vars, hand, addresses, ghosts, resolveNow>>
    BY DEF replace, past
  <1>2. IndInv' /\ TypeOK' /\ UNCHANGED <<store, pc, view>>
    BY <1>1, FeedIdle DEF ResolverInv
  <1>3. /\ at \in [Threads -> {"start", "idle", "resolved", "update", "watch", "loop", "gone"}]
        /\ at[Run] # "idle" /\ \A r \in Refreshers : at[r] \in {"idle", "resolved", "update"}
        /\ Run \in Threads /\ Refreshers \subseteq Threads /\ hand \in [Threads -> Values]
    BY DEF ResolverInv, ResolverTypeOK, Threads
  <1>4. at'[t] = "update" /\ \A r \in Threads : r # t => at'[r] = at[r]
    BY <1>1, <1>3
  <1>5. ResolverTypeOK'
    <2>1. at' \in [Threads -> {"start", "idle", "resolved", "update", "watch", "loop", "gone"}]
      BY <1>1, <1>3
    <2>2. at'[Run] # "idle" /\ \A r \in Refreshers : at'[r] \in {"idle", "resolved", "update"}
      BY <1>3, <1>4
    <2>3. resolveNow' \in BOOLEAN
      BY <1>1 DEF ResolverInv, ResolverTypeOK
    <2>4. instances' \in Values
      BY <1>1, <1>3
    <2> QED BY <1>1, <1>2, <2>1, <2>2, <2>3, <2>4 DEF ResolverInv, ResolverTypeOK
  <1>6. RunSound'
    BY <1>1, <1>2, <1>3, <1>4 DEF ResolverInv, RunSound
  <1>7. ASSUME ~resolveNow PROVE RunAlone'
    <2>1. RunAlone
      BY <1>7 DEF ResolverInv
    <2>2. t = Run
      BY <1>1, <2>1 DEF RunAlone, Threads
    <2>3. \A k \in Keys : view[k] = 0
      BY <1>1, <2>2, NothingHeard DEF ResolverInv, RunSound
    <2>4. \A r \in Refreshers : at'[r] = "idle"
      BY <1>3, <1>4, <2>1, <2>2, RunAssumption DEF RunAlone
    <2> QED BY <1>1, <1>2, <1>4, <2>1, <2>2, <2>3, <2>4 DEF RunAlone
  <1> QED BY <1>1, <1>2, <1>5, <1>6, <1>7 DEF ResolverInv

\* update: gRPC gets what was computed under the lock.
LEMMA UpdateStep ==
  ASSUME ResolverInv, NEW t \in Threads, update(t)
  PROVE  ResolverInv'
  <1>1. /\ at[t] = "update" /\ addresses' = hand[t] /\ hand' = [hand EXCEPT ![t] = Empty]
        /\ UNCHANGED <<vars, instances, ghosts, resolveNow>>
    BY DEF update, past
  <1>2. PICK a \in {"idle", "watch", "loop"} : at' = [at EXCEPT ![t] = a] /\ (a = "idle" <=> t # Run)
    BY DEF update
  <1>3. IndInv' /\ TypeOK' /\ UNCHANGED <<store, pc, view>>
    BY <1>1, FeedIdle DEF ResolverInv
  <1>4. /\ at \in [Threads -> {"start", "idle", "resolved", "update", "watch", "loop", "gone"}]
        /\ at[Run] # "idle" /\ \A r \in Refreshers : at[r] \in {"idle", "resolved", "update"}
        /\ Run \in Threads /\ Refreshers \subseteq Threads /\ hand \in [Threads -> Values]
    BY DEF ResolverInv, ResolverTypeOK, Threads
  <1>5. at'[t] = a /\ \A r \in Threads : r # t => at'[r] = at[r]
    BY <1>2, <1>4
  <1>6. Empty \in Values
    BY ZeroIsValue DEF Empty, Values
  <1>7. ResolverTypeOK'
    <2>1. at' \in [Threads -> {"start", "idle", "resolved", "update", "watch", "loop", "gone"}]
      BY <1>2, <1>4
    <2>2. at'[Run] # "idle" /\ \A r \in Refreshers : at'[r] \in {"idle", "resolved", "update"}
      BY <1>2, <1>4, <1>5, RunAssumption
    <2>3. resolveNow' \in BOOLEAN
      BY <1>1 DEF ResolverInv, ResolverTypeOK
    <2>4. addresses' \in Values /\ hand' \in [Threads -> Values]
      BY <1>1, <1>4, <1>6
    <2> QED BY <1>1, <1>3, <2>1, <2>2, <2>3, <2>4 DEF ResolverInv, ResolverTypeOK
  <1>8. RunSound'
    BY <1>1, <1>2, <1>3, <1>4, <1>5 DEF ResolverInv, RunSound
  <1>9. ASSUME ~resolveNow PROVE RunAlone'
    <2>1. RunAlone
      BY <1>9 DEF ResolverInv
    <2>2. t = Run
      BY <1>1, <2>1 DEF RunAlone, Threads
    <2>3. \A r \in Refreshers : at'[r] = "idle"
      BY <1>4, <1>5, <2>1, <2>2, RunAssumption DEF RunAlone
    <2>4. addresses' = instances'
      BY <1>1, <2>1, <2>2 DEF RunAlone
    <2> QED BY <1>1, <1>2, <1>3, <1>5, <2>1, <2>2, <2>3, <2>4 DEF RunAlone
  <1> QED BY <1>1, <1>3, <1>7, <1>8, <1>9 DEF ResolverInv

\* Watch, apply, the end of run and Close move run, or nothing of the resolver.
LEMMA RunMoves ==
  ASSUME ResolverInv, NEW a \in {"loop", "update", "gone"}, at' = [at EXCEPT ![Run] = a]
  PROVE  /\ at' \in [Threads -> {"start", "idle", "resolved", "update", "watch", "loop", "gone"}]
         /\ at'[Run] = a /\ \A r \in Refreshers : at'[r] = at[r] /\ at'[r] \in {"idle", "resolved", "update"}
  <1>1. /\ at \in [Threads -> {"start", "idle", "resolved", "update", "watch", "loop", "gone"}]
        /\ \A r \in Refreshers : at[r] \in {"idle", "resolved", "update"}
        /\ Run \in Threads /\ Refreshers \subseteq Threads
    BY DEF ResolverInv, ResolverTypeOK, Threads
  <1> QED BY <1>1, RunAssumption

\* run watches: of what it knows nothing has changed.
LEMMA RunWatchStep ==
  ASSUME ResolverInv, watch
  PROVE  ResolverInv'
  <1>1. /\ at[Run] = "watch" /\ Watch /\ at' = [at EXCEPT ![Run] = "loop"]
        /\ UNCHANGED <<hand, instances, addresses, ghosts, resolveNow>>
    BY DEF watch, past
  <1>2. IndInv' /\ TypeOK' /\ view' = view
    BY <1>1, WatchStep DEF ResolverInv, IndInv, Watch
  <1>3. /\ at' \in [Threads -> {"start", "idle", "resolved", "update", "watch", "loop", "gone"}]
        /\ at'[Run] = "loop" /\ \A r \in Refreshers : at'[r] = at[r] /\ at'[r] \in {"idle", "resolved", "update"}
    BY <1>1, RunMoves
  <1>4. resolveNow' \in BOOLEAN
    BY <1>1 DEF ResolverInv, ResolverTypeOK
  <1>5. ResolverTypeOK'
    BY <1>1, <1>2, <1>3, <1>4 DEF ResolverInv, ResolverTypeOK
  <1>6. RunSound'
    BY <1>1, <1>2, <1>3 DEF ResolverInv, RunSound
  <1>7. ~resolveNow' => RunAlone'
    BY <1>1, <1>2, <1>3 DEF ResolverInv, RunAlone
  <1> QED BY <1>2, <1>5, <1>6, <1>7 DEF ResolverInv

\* apply: the event goes into the map, and its instance is no ghost any more.
LEMMA ApplyStep ==
  ASSUME ResolverInv, apply
  PROVE  ResolverInv'
  <1> DEFINE e == Head(out)
  <1>1. /\ at[Run] = "loop" /\ Receive /\ at' = [at EXCEPT ![Run] = "update"]
        /\ instances' = applySnapshotEvent(instances, e)
        /\ hand' = [hand EXCEPT ![Run] = instances']
        /\ ghosts' = ghosts \ {e.key}
        /\ UNCHANGED <<addresses, resolveNow>>
    BY DEF apply
  <1>2. IndInv' /\ TypeOK'
    BY <1>1, ReceiveStep DEF ResolverInv, IndInv
  <1>3. out # <<>> /\ view' = applySnapshotEvent(view, e) /\ pc' = pc
    BY <1>1 DEF Receive
  <1>4. e \in Event
    BY <1>3 DEF ResolverInv, ResolverTypeOK, TypeOK
  <1>5. /\ at' \in [Threads -> {"start", "idle", "resolved", "update", "watch", "loop", "gone"}]
        /\ at'[Run] = "update" /\ \A r \in Refreshers : at'[r] = at[r] /\ at'[r] \in {"idle", "resolved", "update"}
    BY <1>1, RunMoves
  <1>6. instances \in Values /\ view \in Values /\ hand \in [Threads -> Values] /\ Run \in Threads /\ ghosts \subseteq Keys
    BY DEF ResolverInv, ResolverTypeOK, TypeOK, Threads
  <1>7. instances' \in Values
    BY <1>1, <1>4, <1>6, EventTells
  <1>8. hand' \in [Threads -> Values] /\ hand'[Run] = instances'
    BY <1>1, <1>6, <1>7
  <1>9. resolveNow' \in BOOLEAN
    BY <1>1 DEF ResolverInv, ResolverTypeOK
  <1>10. e.key \in Keys
    BY <1>4 DEF Event
  <1>11. /\ \A k \in Keys : k # e.key => instances'[k] = instances[k] /\ view'[k] = view[k]
         /\ instances'[e.key] = view'[e.key]
    BY <1>1, <1>3, <1>6, <1>10 DEF applySnapshotEvent, Values
  <1> HIDE DEF e
  <1>12. ResolverTypeOK'
    BY <1>1, <1>2, <1>5, <1>7, <1>8, <1>9 DEF ResolverInv, ResolverTypeOK
  <1>13. RunSound'
    BY <1>1, <1>3, <1>5, <1>6, <1>11 DEF ResolverInv, RunSound
  <1>14. ~resolveNow' => RunAlone'
    BY <1>1, <1>5, <1>8, <1>11 DEF ResolverInv, RunAlone
  <1> QED BY <1>2, <1>12, <1>13, <1>14 DEF ResolverInv

\* run returns, or gRPC closes the resolver.
LEMMA EndStep ==
  ASSUME ResolverInv, runEnds \/ Close
  PROVE  ResolverInv'
  <1>1. IndInv' /\ TypeOK' /\ UNCHANGED <<pc, view, hand, instances, addresses, ghosts, resolveNow>>
    <2>1. CASE runEnds
      BY <2>1, FeedIdle DEF ResolverInv, runEnds, past
    <2>2. CASE Close
      <3>1. /\ cancelled' \in BOOLEAN
            /\ UNCHANGED <<history, store, pc, snapshot, fresh, position, todo, out, capacity, status,
                           failures, skips, missed, view, hand, instances, addresses, ghosts, resolveNow>>
        BY <2>2 DEF Close, etcdVars, serviceResolver, past
      <3>2. failures' \in 0..MaxFailures
        BY <3>1 DEF ResolverInv, IndInv, TypeOK
      <3>3. IndInv'
        BY <3>1, <3>2, FeedStays DEF ResolverInv
      <3> QED BY <3>1, <3>3 DEF IndInv
    <2> QED BY <2>1, <2>2
  <1>2. \/ at' = at
        \/ at[Run] = "loop" /\ at' = [at EXCEPT ![Run] = "gone"]
    BY DEF runEnds, Close, serviceResolver
  <1>3. resolveNow' \in BOOLEAN
    BY <1>1 DEF ResolverInv, ResolverTypeOK
  <1>4. CASE at' = at
    BY <1>1, <1>3, <1>4 DEF ResolverInv, ResolverTypeOK, RunSound, RunAlone
  <1>5. CASE at[Run] = "loop" /\ at' = [at EXCEPT ![Run] = "gone"]
    <2>1. /\ at' \in [Threads -> {"start", "idle", "resolved", "update", "watch", "loop", "gone"}]
          /\ at'[Run] = "gone" /\ \A r \in Refreshers : at'[r] = at[r] /\ at'[r] \in {"idle", "resolved", "update"}
      BY <1>5, RunMoves
    <2>2. ResolverTypeOK'
      BY <1>1, <1>3, <2>1 DEF ResolverInv, ResolverTypeOK
    <2>3. RunSound' /\ (~resolveNow' => RunAlone')
      BY <1>1, <1>5, <2>1 DEF ResolverInv, RunSound, RunAlone
    <2> QED BY <1>1, <2>2, <2>3 DEF ResolverInv
  <1> QED BY <1>2, <1>4, <1>5

\* Every step preserves the invariant.
LEMMA ResolverNextInv == ResolverInv /\ [ResolverNext]_resolverVars => ResolverInv'
  <1> SUFFICES ASSUME ResolverInv, [ResolverNext]_resolverVars PROVE ResolverInv'
    OBVIOUS
  <1>1. Run \in Threads /\ Refreshers \subseteq Threads
    BY DEF Threads
  <1>2. CASE (Environment \/ watchLoop) /\ UNCHANGED <<serviceResolver, past>>
    BY <1>2, FeedStep
  <1>3. CASE run
    BY <1>1, <1>3, RefreshStep, RunCallFailsStep, ReplaceStep, UpdateStep, RunWatchStep, ApplyStep, EndStep DEF run
  <1>4. ASSUME NEW t \in Refreshers, ResolveNow(t) PROVE ResolverInv'
    BY <1>1, <1>4, RefreshStep, ReplaceStep, UpdateStep DEF ResolveNow
  <1>5. CASE Close
    BY <1>5, EndStep
  <1>6. CASE UNCHANGED resolverVars
    <2>1. UNCHANGED <<at, hand, instances, addresses, ghosts, resolveNow>> /\ UNCHANGED vars
      BY <1>6 DEF resolverVars, serviceResolver, past
    <2>2. IndInv' /\ TypeOK' /\ UNCHANGED <<pc, view>>
      BY <2>1, FeedIdle DEF ResolverInv
    <2>3. resolveNow' \in BOOLEAN
      BY <2>1 DEF ResolverInv, ResolverTypeOK
    <2> QED BY <2>1, <2>2, <2>3 DEF ResolverInv, ResolverTypeOK, RunSound, RunAlone
  <1> QED BY <1>2, <1>3, <1>4, <1>5, <1>6 DEF ResolverNext

\* A resolver that has taken all events: the events add up to the store.
LEMMA QuietIsExact ==
  ASSUME ResolverInv, Quiet
  PROVE  \A k \in Keys : k \in missed \/ view[k] = Listed(store)[k]
  <1>1. pc = "watch" /\ todo = <<>> /\ out = <<>> /\ position = Len(history)
    BY DEF Quiet
  <1>2. \A k \in Keys : k \in missed \/ snapshot[k] = Listed(store)[k]
    BY <1>1 DEF ResolverInv, IndInv, SnapshotIsHistory, HistorySound
  <1>3. out \o todo = <<>> /\ Goal = snapshot
    BY <1>1 DEF Goal
  <1>4. LeadsTo(view, <<>>, snapshot)
    BY <1>1, <1>3, EventsGoal DEF ResolverInv, IndInv
  <1>5. ASSUME NEW k \in Keys PROVE view[k] = snapshot[k]
    <2>1. {i \in DOMAIN <<>> : <<>>[i].key = k} = {}
      OBVIOUS
    <2> QED BY <1>4, <2>1 DEF LeadsTo
  <1> QED BY <1>2, <1>5

-----------------------------------------------------------------------------
(* The resolver's invariant holds in every state. *)
THEOREM ResolverInvariant == ResolverSpec => []ResolverInv
  BY ResolverInitInv, ResolverNextInv, PTL DEF ResolverSpec

(***************************************************************************)
(* The feed of the resolver keeps what discovery promises: with run as its *)
(* consumer, a context that may be closed at any time and failed calls, no *)
(* write is lost between a snapshot and the watch that follows it.         *)
(***************************************************************************)
THEOREM ResolverFeedHasNoGap == ResolverSpec => []SnapshotIsHistory
  <1>1. ResolverInv => SnapshotIsHistory
    BY DEF ResolverInv, IndInv
  <1> QED BY <1>1, ResolverInvariant, PTL

(***************************************************************************)
(* Without ResolveNow, the addresses that run has pushed when it has taken *)
(* all events are the registered instances, but for an instance that went  *)
(* away between its Resolve and its Watch, and one whose last event was    *)
(* skipped: for any number of instances, writes, malformed values, failed  *)
(* calls and reconnects.                                                   *)
(***************************************************************************)
THEOREM ResolverOnlyGhosts == ResolverSpec => []OnlyGhosts
  <1>1. ResolverInv => OnlyGhosts
    <2> SUFFICES ASSUME ResolverInv, Quiet, ~resolveNow, NEW k \in Keys
                 PROVE  \/ addresses[k] = Listed(store)[k]
                        \/ k \in missed
                        \/ k \in ghosts /\ Listed(store)[k] = 0
      BY DEF OnlyGhosts
    <2>1. k \in missed \/ view[k] = Listed(store)[k]
      BY QuietIsExact
    <2>2. addresses = instances /\ (k \notin ghosts => instances[k] = view[k])
      BY DEF ResolverInv, RunAlone, Quiet
    <2>3. k \in ghosts => view[k] = 0
      BY DEF ResolverInv, RunSound
    <2> QED BY <2>1, <2>2, <2>3
  <1> QED BY <1>1, ResolverInvariant, PTL
=============================================================================
