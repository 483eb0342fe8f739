-------------------------- MODULE ConfigLoadingProofs --------------------------
(***************************************************************************)
(* Proofs about how processes find and seed their configuration            *)
(* (runtime/config/source.go and the loaders of servicekit), for any       *)
(* number of processes, inputs, loads and faults.                          *)
(***************************************************************************)
EXTENDS ConfigLoading, TLAPS

-----------------------------------------------------------------------------
(* Sources *)

Fields == {"provider", "root", "key", "endpoints", "prefix"}

\* What Normalize returns for a provider that is supported.
Settled(s) ==
    /\ DOMAIN s = Fields
    /\ s.provider \in {"file", "etcd"} /\ s.key # <<>>
    /\ s.provider = "etcd" => s.endpoints # "" /\ s.prefix # ""

\* Two sources that agree but for Root, which the policy does not hold.
Alike(a, b) ==
    /\ DOMAIN a = Fields /\ DOMAIN b = Fields
    /\ a.provider = b.provider /\ a.key = b.key /\ a.endpoints = b.endpoints /\ a.prefix = b.prefix

Bare(s) == [s EXCEPT !.root = ""]

\* Normalize fills in a supported provider's defaults.
LEMMA NormalizeSettles ==
  ASSUME NEW s, DOMAIN s = Fields, s.provider \in {"", "file", "etcd"}
  PROVE  Settled(Normalize(s))
  <1>1. DefaultRuntimeKey # <<>>
    BY DEF DefaultRuntimeKey
  <1>2. DefaultEtcdEndpoint # "" /\ ConfigPrefix # ""
    BY DEF DefaultEtcdEndpoint, ConfigPrefix
  <1> DEFINE t == Normalize(s)
  <1>3. DOMAIN t = Fields
    BY DEF Normalize, Fields
  <1>4. /\ t.provider = firstNonEmpty(s.provider, "file")
        /\ t.key = firstNonEmptyPath(s.key, DefaultRuntimeKey)
        /\ t.provider = "etcd" => /\ t.endpoints = firstNonEmpty(s.endpoints, DefaultEtcdEndpoint)
                                  /\ t.prefix = firstNonEmpty(s.prefix, ConfigPrefix)
    BY DEF Normalize, Fields, firstNonEmpty
  <1> HIDE DEF t
  <1>5. Settled(t)
    BY <1>1, <1>2, <1>3, <1>4 DEF Settled, firstNonEmpty, firstNonEmptyPath
  <1> QED BY <1>5 DEF t

\* Normalize changes nothing in what it has returned.
LEMMA NormalizeAgain ==
  ASSUME NEW s, Settled(s)
  PROVE  Alike(Normalize(s), s)
  BY DEF Settled, Alike, Normalize, Fields, firstNonEmpty, firstNonEmptyPath

\* Nothing on the way of ResolveSource looks at Root.
LEMMA AlikeStays ==
  ASSUME NEW a, NEW b, Alike(a, b)
  PROVE  /\ Alike(Normalize(a), Normalize(b))
         /\ \A env : Alike(ApplyEnv(a, env), ApplyEnv(b, env))
         /\ \A dir : Alike(ResolveBaseDir(a, dir), ResolveBaseDir(b, dir))
         /\ Bare(a) = Bare(b)
  <1>1. Alike(Normalize(a), Normalize(b))
    BY DEF Alike, Normalize, Fields
  <1>2. ASSUME NEW env PROVE Alike(ApplyEnv(a, env), ApplyEnv(b, env))
    BY DEF Alike, ApplyEnv, Fields
  <1>3. ASSUME NEW dir PROVE Alike(ResolveBaseDir(a, dir), ResolveBaseDir(b, dir))
    BY DEF Alike, ResolveBaseDir, Fields
  <1>4. Bare(a) = Bare(b)
    BY DEF Alike, Bare, Fields
  <1> QED BY <1>1, <1>2, <1>3, <1>4

\* What a process falls back to is in order.
LEMMA FallbackSettled ==
  ASSUME NEW i \in Inputs
  PROVE  Settled(DefaultSources[i])
  <1> DEFINE b == bootstrap(i)
  <1>1. DOMAIN ZeroSource = Fields /\ ZeroSource.provider = ""
    BY DEF ZeroSource, Fields
  <1>2. /\ DOMAIN b.config = Fields /\ b.config.provider \in {"", "file", "etcd"}
        /\ DOMAIN b.center.default = Fields /\ b.center.default.provider \in {"", "file", "etcd"}
    <2>1. b = i.boot \/ b = ZeroBootstrap
      BY DEF bootstrap
    <2> HIDE DEF b
    <2>2. CASE b = i.boot
      BY <1>1, <2>2, InputAssumption
    <2>3. CASE b = ZeroBootstrap
      <3>1. b.config = ZeroSource /\ b.center.default = ZeroSource
        BY <2>3 DEF ZeroBootstrap, ZeroCenter
      <3> QED BY <1>1, <3>1
    <2> QED BY <2>1, <2>2, <2>3
  <1> HIDE DEF b
  <1> DEFINE d == IF isZero(b.center.default) THEN b.config ELSE b.center.default
             e == IF isZero(d) THEN [ZeroSource EXCEPT !.provider = "file", !.key = DefaultRuntimeKey] ELSE d
  <1>3. DOMAIN e = Fields /\ e.provider \in {"", "file", "etcd"}
    BY <1>1, <1>2 DEF Fields
  <1> HIDE DEF d, e
  <1>4. PICK prefix : configCenter(b) =
           [prefix |-> prefix,
            default |-> Normalize([e EXCEPT !.prefix = prefix, !.endpoints = firstNonEmpty(@, DefaultEtcdEndpoint)])]
    BY DEF configCenter, normalizeCenter, d, e
  <1> DEFINE f == [e EXCEPT !.prefix = prefix, !.endpoints = firstNonEmpty(@, DefaultEtcdEndpoint)]
  <1>5. DOMAIN f = Fields /\ f.provider \in {"", "file", "etcd"}
    BY <1>3 DEF Fields
  <1> HIDE DEF f
  <1>6. Settled(Normalize(f))
    BY <1>5, NormalizeSettles
  <1> DEFINE g == [Normalize(f) EXCEPT !.prefix = prefix]
  <1>7. DOMAIN g = Fields /\ g.provider \in {"", "file", "etcd"}
    BY <1>6 DEF Settled, Fields
  <1>8. Settled(Normalize(g))
    BY <1>7, NormalizeSettles
  <1>9. DefaultSources[i] = Normalize(g)
    BY <1>4 DEF DefaultSources, defaultSource, b, f
  <1> QED BY <1>8, <1>9

\* What a policy lacks, and where the config center is, comes from the fallback.
LEMMA MergeFields ==
  ASSUME NEW v, NEW f
  PROVE  /\ DOMAIN mergeFallback(v, f) = Fields
         /\ mergeFallback(v, f).provider = firstNonEmpty(v.provider, f.provider)
         /\ mergeFallback(v, f).key = firstNonEmptyPath(v.key, f.key)
         /\ mergeFallback(v, f).endpoints = f.endpoints
         /\ mergeFallback(v, f).prefix = f.prefix
  <1>1. DOMAIN ZeroSource = Fields
    BY DEF ZeroSource, Fields
  <1> QED BY <1>1 DEF mergeFallback, Fields

\* A policy that was made from a default source, with a key that can be read
\* back, is read as it was written, whatever the reader falls back to.
LEMMA PolicyRoundTrip ==
  ASSUME NEW s, Settled(s), Legible(encodePolicySource(s).key), NEW f, Settled(f)
  PROVE  encodePolicySource(decodePolicySource(encodePolicySource(s), f)) = encodePolicySource(s)
  <1> DEFINE v == encodePolicySource(s)
             m == mergeFallback(v, f)
  <1>1. v = [provider |-> s.provider, key |-> s.key]
    BY NormalizeAgain DEF encodePolicySource, Alike
  <1>5. [v EXCEPT !.key = scalar(@)] = v
    BY <1>1 DEF Legible, scalar
  <1>2. DOMAIN m = Fields /\ m.provider = s.provider /\ m.key = s.key
    <2>1. v.provider = s.provider /\ v.key = s.key
      BY <1>1
    <2> HIDE DEF v
    <2>2. DOMAIN m = Fields /\ m.provider = firstNonEmpty(v.provider, f.provider) /\ m.key = firstNonEmptyPath(v.key, f.key)
      BY MergeFields
    <2> HIDE DEF m
    <2> QED BY <2>1, <2>2 DEF Settled, firstNonEmpty, firstNonEmptyPath
  <1> HIDE DEF m
  <1>3. Settled(Normalize(m)) /\ Normalize(m).provider = s.provider /\ Normalize(m).key = s.key
    <2>1. Settled(Normalize(m))
      BY <1>2, NormalizeSettles DEF Settled
    <2>2. Normalize(m).provider = s.provider /\ Normalize(m).key = s.key
      BY <1>2 DEF Normalize, Fields, Settled, firstNonEmpty, firstNonEmptyPath
    <2> QED BY <2>1, <2>2
  <1>4. encodePolicySource(Normalize(m)) = [provider |-> s.provider, key |-> s.key]
    BY <1>3, NormalizeAgain DEF encodePolicySource, Alike
  <1> QED BY <1>1, <1>4, <1>5 DEF decodePolicySource, m

\* A process that reads back what it has created gets the source it had, but
\* for Root, if the key can be read back.
LEMMA CreatedAsRead ==
  ASSUME NEW s, Settled(s), Legible(encodePolicySource(s).key)
  PROVE  Alike(decodePolicySource(encodePolicySource(s), s), s)
  <1> DEFINE v == encodePolicySource(s)
             m == mergeFallback(v, s)
  <1>1. v = [provider |-> s.provider, key |-> s.key]
    BY NormalizeAgain DEF encodePolicySource, Alike
  <1>4. [v EXCEPT !.key = scalar(@)] = v
    BY <1>1 DEF Legible, scalar
  <1>2. Alike(m, s)
    <2>1. v.provider = s.provider /\ v.key = s.key
      BY <1>1
    <2> HIDE DEF v
    <2>2. /\ DOMAIN m = Fields /\ m.provider = firstNonEmpty(v.provider, s.provider)
          /\ m.key = firstNonEmptyPath(v.key, s.key) /\ m.endpoints = s.endpoints /\ m.prefix = s.prefix
      BY MergeFields
    <2> HIDE DEF m
    <2> QED BY <2>1, <2>2 DEF Settled, firstNonEmpty, firstNonEmptyPath, Alike
  <1>3. Alike(Normalize(m), Normalize(s))
    BY <1>2, AlikeStays
  <1> QED BY <1>3, <1>4, NormalizeAgain DEF decodePolicySource, Alike

-----------------------------------------------------------------------------
(* The invariant *)

JobKeys(p) == {KeysOf(Job(p))[j] : j \in 1..Len(KeysOf(Job(p)))}

\* The keys that the load of p has not read yet.
Ahead(p) == {KeysOf(Job(p))[j] : j \in at[p]..Len(KeysOf(Job(p)))}

Loading(p) == pc[p] \in {"get", "seed", "reget"}
FileOnly(p) == Job(p) # "policy" /\ LocalKind(p) = "file"
Overrides(p) == Job(p) = "policy" /\ hasSourceEnvOverride(input[p].env)

\* What ResolveSource makes of the policy that is stored.
PolicySource(p) == ResolvedSource(p, decodePolicySource(store["policy"], fallback(p)))

Domains ==
    /\ DOMAIN at = Procs /\ DOMAIN used = Procs /\ DOMAIN result = Procs /\ DOMAIN last = Procs
    /\ \A p \in Procs : DOMAIN used[p] = Keys

\* Only a process that asks the config center is on its way through the keys.
LoadingAsks == \A p \in Procs : Loading(p) => ~FileOnly(p) /\ ~Overrides(p)

\* Without an operator, the policy is the seed of some process.
PolicyIsSeed ==
    store["policy"] # Nil => \E i \in Inputs : store["policy"] = encodePolicySource(DefaultSources[i])

\* What a process uses is what is stored: nobody changes a key that has a value.
UsedIsStored(p) ==
    \A k \in Keys : (~FileOnly(p) /\ used[p][k] # Nil) => used[p][k] = store[k] /\ k \in JobKeys(p)

\* The same of its last load, and the source it resolved is the stored policy's.
LastIsStored(p) ==
    last[p] # Nil =>
        /\ FileOnly(p) => last[p].used = LocalConfig(p)
        /\ ~FileOnly(p) => \A k \in Keys : last[p].used[k] # Nil => last[p].used[k] = store[k] /\ k \in JobKeys(p)
        /\ Job(p) # "policy" => last[p].result = Nil
        /\ Overrides(p) => last[p].used = Nothing /\ last[p].result = ResolvedSource(p, fallback(p))
        /\ (Job(p) = "policy" /\ ~Overrides(p)) =>
              store["policy"] # Nil /\ Bare(last[p].result) = Bare(PolicySource(p))

\* A load has found so far what the last one found.
LoadRepeats(p) ==
    (Loading(p) /\ last[p] # Nil) =>
        \A k \in Keys : last[p].used[k] # Nil => used[p][k] = last[p].used[k] \/ k \in Ahead(p)

Sound(p) == UsedIsStored(p) /\ LastIsStored(p) /\ LoadRepeats(p)

\* No operator has edited a key, and the policy can be read back.
Trusted == edits = 0 /\ ReadAsWritten

IndInv ==
    /\ TypeOK /\ Domains /\ LoadingAsks
    /\ Trusted => PolicyIsSeed /\ \A p \in Procs : Sound(p)

\* No key that has a value is changed.
Kept == \A k \in Keys : store[k] # Nil => store'[k] = store[k]

\* A load that succeeds finds what the one before it found.
Steady(p) ==
    (last[p] # Nil /\ last'[p] # last[p] /\ Trusted') =>
        /\ \A k \in Keys : last[p].used[k] # Nil => last'[p].used[k] = last[p].used[k]
        /\ last[p].result # Nil => Bare(last'[p].result) = Bare(last[p].result)

-----------------------------------------------------------------------------
(* Keys and inputs *)

\* A step of a process does not make what is stored trustworthy.
LEMMA TrustedBefore ==
  ASSUME Kept, UNCHANGED edits, Trusted'
  PROVE  Trusted
  BY DEF Kept, Trusted, ReadAsWritten, Keys

\* The keys of a job, and where a process is among them.
LEMMA KeyFacts ==
  ASSUME TypeOK, NEW p \in Procs
  PROVE  /\ Len(KeysOf(Job(p))) \in Nat /\ at[p] \in 1..Len(KeysOf(Job(p)))
         /\ 1 \in DOMAIN KeysOf(Job(p)) /\ DOMAIN KeysOf(Job(p)) = 1..Len(KeysOf(Job(p)))
         /\ Key(p) \in Keys /\ Key(p) \in JobKeys(p)
         /\ Job(p) = "policy" => Key(p) = "policy" /\ Len(KeysOf(Job(p))) = 1
         /\ Key(p) = "policy" => Job(p) = "policy"
  <1>1. Job(p) \in {"policy", "managed", "convention"} /\ at[p] \in DOMAIN KeysOf(Job(p))
    BY InputAssumption DEF TypeOK, Job
  <1> HIDE DEF Job
  <1>2. CASE Job(p) = "policy"
    <2>1. KeysOf(Job(p)) = <<"policy">>
      BY <1>2 DEF KeysOf
    <2> QED BY <1>1, <1>2, <2>1 DEF Key, JobKeys, Keys
  <1>3. CASE Job(p) = "managed"
    <2>1. KeysOf(Job(p)) = <<"managed">>
      BY <1>3 DEF KeysOf
    <2> QED BY <1>1, <1>3, <2>1 DEF Key, JobKeys, Keys
  <1>4. CASE Job(p) = "convention"
    <2>1. KeysOf(Job(p)) = <<"runtime", "logger", "service">>
      BY <1>4 DEF KeysOf
    <2> QED BY <1>1, <1>4, <2>1 DEF Key, JobKeys, Keys
  <1> QED BY <1>1, <1>2, <1>3, <1>4

\* What a process was started with stays.
LEMMA InputKept ==
  ASSUME UNCHANGED input, NEW p \in Procs
  PROVE  /\ Job(p)' = Job(p) /\ FileOnly(p)' = FileOnly(p) /\ Overrides(p)' = Overrides(p)
         /\ JobKeys(p)' = JobKeys(p) /\ LocalConfig(p)' = LocalConfig(p) /\ fallback(p)' = fallback(p)
         /\ \A s : ResolvedSource(p, s)' = ResolvedSource(p, s)
  BY DEF Job, FileOnly, Overrides, LocalKind, JobKeys, LocalConfig, HasLocal, Local, fallback, ResolvedSource

\* The stored policy leads to the same source as long as it stays.
LEMMA PolicySourceKept ==
  ASSUME UNCHANGED input, NEW p \in Procs, store'["policy"] = store["policy"]
  PROVE  PolicySource(p)' = PolicySource(p)
  BY DEF PolicySource, fallback, ResolvedSource

\* A process that does not move keeps what it knows.
LEMMA StaysSound ==
  ASSUME NEW p \in Procs, UNCHANGED input, Kept,
         at'[p] = at[p], used'[p] = used[p], last'[p] = last[p], Loading(p)' => Loading(p), Sound(p)
  PROVE  Sound(p)'
  <1> USE InputKept DEF Sound
  <1>1. UsedIsStored(p)'
    BY DEF UsedIsStored, Kept
  <1>2. LastIsStored(p)'
    <2>1. "policy" \in Keys /\ (store["policy"] # Nil => PolicySource(p)' = PolicySource(p))
      BY PolicySourceKept DEF Kept, Keys
    <2>2. \A k \in Keys : store[k] # Nil => store'[k] = store[k]
      BY DEF Kept
    <2>3. Bare(PolicySource(p))' = Bare(PolicySource(p)')
      BY DEF Bare
    <2>4. Bare(last[p].result)' = Bare(last[p].result)
      BY DEF Bare
    <2> QED BY <2>1, <2>2, <2>3, <2>4 DEF LastIsStored
  <1>3. LoadRepeats(p)'
    <2>1. Ahead(p)' = Ahead(p)
      BY DEF Ahead
    <2> QED BY <2>1 DEF LoadRepeats
  <1> QED BY <1>1, <1>2, <1>3

-----------------------------------------------------------------------------
(* The steps of a process *)

\* One process moves, and the keys that have a value stay.
LEMMA OneMoves ==
  ASSUME IndInv, NEW p \in Procs, UNCHANGED <<input, edits>>, TypeOK', Domains', Kept,
         \A q \in Procs : q # p => /\ at'[q] = at[q] /\ used'[q] = used[q]
                                  /\ last'[q] = last[q] /\ pc'[q] = pc[q],
         Loading(p)' => ~FileOnly(p) /\ ~Overrides(p),
         Trusted' => PolicyIsSeed' /\ Sound(p)'
  PROVE  IndInv'
  <1>1. \A q \in Procs : FileOnly(q)' = FileOnly(q) /\ Overrides(q)' = Overrides(q)
    BY InputKept
  <1>2. \A q \in Procs : q # p => Loading(q)' = Loading(q)
    BY DEF Loading
  <1>3. LoadingAsks'
    BY <1>1, <1>2 DEF IndInv, LoadingAsks
  <1>4. Trusted' => \A q \in Procs : q # p => Sound(q)'
    BY <1>2, StaysSound, TrustedBefore DEF IndInv
  <1> QED BY <1>3, <1>4 DEF IndInv

\* The types of a step of a process.
LEMMA MoveTypes ==
  ASSUME TypeOK, Domains, NEW p \in Procs, UNCHANGED input, DOMAIN store' = Keys, ready' \in BOOLEAN,
         NEW to \in {"idle", "get", "seed", "reget", "done", "failed"}, Goto(p, to),
         DOMAIN at' = Procs, DOMAIN used' = Procs, DOMAIN result' = Procs, DOMAIN last' = Procs,
         \A q \in Procs : q # p => at'[q] = at[q] /\ used'[q] = used[q],
         at'[p] \in DOMAIN KeysOf(Job(p)), DOMAIN used'[p] = Keys,
         loads' \in [Procs -> 0..MaxLoads], edits' \in 0..MaxEdits, faults' \in 0..MaxFaults
  PROVE  TypeOK' /\ Domains' /\ pc'[p] = to /\ \A q \in Procs : q # p => pc'[q] = pc[q]
  <1>1. pc' \in [Procs -> {"idle", "get", "seed", "reget", "done", "failed"}]
    BY DEF TypeOK, Goto
  <1>2. pc'[p] = to /\ \A q \in Procs : q # p => pc'[q] = pc[q]
    BY DEF TypeOK, Goto
  <1>3. \A q \in Procs : at'[q] \in DOMAIN KeysOf(Job(q))'
    <2>1. \A q \in Procs : Job(q)' = Job(q) /\ DOMAIN KeysOf(Job(q))' = DOMAIN KeysOf(Job(q))
      BY DEF Job
    <2> QED BY <2>1 DEF TypeOK
  <1>4. TypeOK'
    BY <1>1, <1>3 DEF TypeOK
  <1>5. Domains'
    BY DEF Domains
  <1> QED BY <1>2, <1>4, <1>5

\* An error return: what was used stays, also if the seed was written.
LEMMA FailsStep ==
  ASSUME IndInv, NEW p \in Procs, Fails(p), UNCHANGED <<input, edits>>,
         DOMAIN store' = Keys, ready' \in BOOLEAN, Kept, Trusted' => PolicyIsSeed',
         loads' \in [Procs -> 0..MaxLoads], faults' \in 0..MaxFaults
  PROVE  IndInv' /\ \A q \in Procs : Steady(q)
  <1> USE DEF IndInv
  <1>1. Goto(p, "failed") /\ UNCHANGED <<at, used, result, last>>
    BY DEF Fails
  <1>2. TypeOK' /\ Domains' /\ pc'[p] = "failed" /\ \A q \in Procs : q # p => pc'[q] = pc[q]
    <2>1. at[p] \in DOMAIN KeysOf(Job(p)) /\ edits' \in 0..MaxEdits
      BY DEF TypeOK
    <2> QED BY <1>1, <2>1, MoveTypes DEF Domains
  <1>3. ~Loading(p)'
    BY <1>2 DEF Loading
  <1>4. Trusted' => Sound(p)'
    BY <1>1, <1>3, StaysSound, TrustedBefore
  <1>5. IndInv'
    BY <1>1, <1>2, <1>3, <1>4, OneMoves
  <1> QED BY <1>1, <1>5 DEF Steady

\* A load that goes on to seed, or to read again what was seeded.
LEMMA GotoStep ==
  ASSUME IndInv, NEW p \in Procs, NEW to \in {"seed", "reget"}, Goto(p, to), Loading(p),
         UNCHANGED <<at, used, result, last, ready, input, counters>>,
         DOMAIN store' = Keys, Kept, Trusted' => PolicyIsSeed'
  PROVE  IndInv' /\ \A q \in Procs : Steady(q)
  <1> USE DEF IndInv
  <1>1. UNCHANGED <<loads, edits, faults>>
    BY DEF counters
  <1>2. TypeOK' /\ Domains' /\ \A q \in Procs : q # p => pc'[q] = pc[q]
    <2>1. at[p] \in DOMAIN KeysOf(Job(p)) /\ edits' \in 0..MaxEdits /\ faults' \in 0..MaxFaults
      BY <1>1 DEF TypeOK
    <2>2. ready' \in BOOLEAN
      BY DEF TypeOK
    <2>3. loads' \in [Procs -> 0..MaxLoads]
      BY <1>1 DEF TypeOK
    <2> QED BY <2>1, <2>2, <2>3, MoveTypes DEF Domains
  <1>3. Trusted' => Sound(p)'
    BY <1>1, StaysSound, TrustedBefore
  <1>4. IndInv'
    BY <1>1, <1>2, <1>3, OneMoves DEF LoadingAsks
  <1> QED BY <1>4 DEF Steady

\* A load that goes to the config center begins with the first key.
LEMMA AskStep ==
  ASSUME IndInv, NEW p \in Procs, Ask(p), ~FileOnly(p), ~Overrides(p),
         UNCHANGED <<store, ready, input, edits, faults>>, loads' \in [Procs -> 0..MaxLoads]
  PROVE  IndInv' /\ \A q \in Procs : Steady(q)
  <1> USE DEF IndInv
  <1>1. /\ Goto(p, "get") /\ UNCHANGED <<result, last>>
        /\ at' = [at EXCEPT ![p] = 1] /\ used' = [used EXCEPT ![p] = Nothing]
    BY DEF Ask
  <1>2. /\ DOMAIN at' = Procs /\ DOMAIN used' = Procs /\ at'[p] = 1 /\ used'[p] = Nothing
        /\ \A q \in Procs : q # p => at'[q] = at[q] /\ used'[q] = used[q]
    BY <1>1 DEF Domains
  <1>3. TypeOK' /\ Domains' /\ \A q \in Procs : q # p => pc'[q] = pc[q]
    <2>1. at'[p] \in DOMAIN KeysOf(Job(p)) /\ DOMAIN used'[p] = Keys
      BY <1>2, KeyFacts DEF Nothing
    <2>2. edits' \in 0..MaxEdits /\ faults' \in 0..MaxFaults /\ DOMAIN store' = Keys
      BY DEF TypeOK
    <2>3. ready' \in BOOLEAN
      BY DEF TypeOK
    <2> QED BY <1>1, <1>2, <2>1, <2>2, <2>3, MoveTypes DEF Domains
  <1>4. Kept
    BY DEF Kept
  <1>5. ASSUME Trusted' PROVE PolicyIsSeed' /\ Sound(p)'
    <2>5. Trusted
      BY <1>4, <1>5, TrustedBefore
    <2>1. PolicyIsSeed'
      BY <2>5 DEF PolicyIsSeed, DefaultSources
    <2>2. UsedIsStored(p)'
      BY <1>2 DEF UsedIsStored, Nothing
    <2>3. LastIsStored(p)'
      <3>1. PolicySource(p)' = PolicySource(p)
        BY PolicySourceKept
      <3>2. Bare(PolicySource(p))' = Bare(PolicySource(p)') /\ Bare(last[p].result)' = Bare(last[p].result)
        BY <1>1 DEF Bare
      <3> QED BY <1>1, <2>5, <3>1, <3>2, InputKept DEF Sound, LastIsStored
    <2>4. LoadRepeats(p)'
      <3>1. Ahead(p)' = JobKeys(p)
        BY <1>2, InputKept DEF Ahead, JobKeys
      <3> QED BY <1>1, <2>5, <3>1 DEF Sound, LastIsStored, LoadRepeats
    <2> QED BY <2>1, <2>2, <2>3, <2>4 DEF Sound
  <1>6. IndInv'
    BY <1>2, <1>1, <1>3, <1>4, <1>5, OneMoves
  <1> QED BY <1>1, <1>6 DEF Steady

\* A load that succeeds, with what its job has to find.
LEMMA SucceedsStep ==
  ASSUME IndInv, NEW p \in Procs, NEW u, NEW s, Succeeds(p, u, s), DOMAIN u = Keys,
         UNCHANGED <<input, edits>>, DOMAIN store' = Keys, ready' \in BOOLEAN, Kept,
         loads' \in [Procs -> 0..MaxLoads], faults' \in 0..MaxFaults,
         Trusted' => /\ PolicyIsSeed'
                     /\ FileOnly(p) => u = LocalConfig(p)
                     /\ ~FileOnly(p) => \A k \in Keys : u[k] # Nil => u[k] = store'[k] /\ k \in JobKeys(p)
                     /\ Job(p) # "policy" => s = Nil
                     /\ Overrides(p) => u = Nothing /\ s = ResolvedSource(p, fallback(p))
                     /\ (Job(p) = "policy" /\ ~Overrides(p)) =>
                           store'["policy"] # Nil /\ Bare(s) = Bare(PolicySource(p)')
                     /\ last[p] # Nil => \A k \in Keys : last[p].used[k] # Nil => u[k] = last[p].used[k]
  PROVE  IndInv' /\ \A q \in Procs : Steady(q)
  <1> USE DEF IndInv
  <1>1. /\ Goto(p, "done") /\ UNCHANGED at
        /\ used' = [used EXCEPT ![p] = u] /\ result' = [result EXCEPT ![p] = s]
        /\ last' = [last EXCEPT ![p] = [used |-> u, result |-> s]]
    BY DEF Succeeds
  <1>2. /\ DOMAIN used' = Procs /\ DOMAIN last' = Procs /\ DOMAIN result' = Procs
        /\ used'[p] = u /\ last'[p] = [used |-> u, result |-> s]
        /\ \A q \in Procs : q # p => used'[q] = used[q] /\ last'[q] = last[q]
    BY <1>1 DEF Domains
  <1>3. last'[p].used = u /\ last'[p].result = s
    BY <1>2
  <1>4. TypeOK' /\ Domains' /\ pc'[p] = "done" /\ \A q \in Procs : q # p => pc'[q] = pc[q]
    <2>1. at[p] \in DOMAIN KeysOf(Job(p)) /\ edits' \in 0..MaxEdits
      BY DEF TypeOK
    <2> QED BY <1>1, <1>2, <2>1, MoveTypes DEF Domains
  <1>5. ~Loading(p)'
    BY <1>4 DEF Loading
  <1>6. ASSUME Trusted' PROVE Sound(p)'
    <2>1. UsedIsStored(p)'
      BY <1>2, <1>6, InputKept DEF UsedIsStored
    <2>2. LastIsStored(p)'
      <3>1. Bare(PolicySource(p))' = Bare(PolicySource(p)') /\ Bare(last[p].result)' = Bare(s) /\ Nothing' = Nothing
        BY <1>3 DEF Bare, Nothing, Keys
      <3> QED BY <1>3, <1>6, <3>1, InputKept DEF LastIsStored
    <2>3. LoadRepeats(p)'
      BY <1>5 DEF LoadRepeats
    <2> QED BY <2>1, <2>2, <2>3 DEF Sound
  <1>7. IndInv'
    BY <1>1, <1>2, <1>4, <1>5, <1>6, OneMoves
  <1>8. Steady(p)
    <2> SUFFICES ASSUME last[p] # Nil, Trusted'
                 PROVE  /\ \A k \in Keys : last[p].used[k] # Nil => u[k] = last[p].used[k]
                        /\ last[p].result # Nil => Bare(s) = Bare(last[p].result)
      BY <1>3 DEF Steady
    <2>1. LastIsStored(p)
      BY TrustedBefore DEF Sound
    <2>2. (Job(p) = "policy" /\ ~Overrides(p)) => PolicySource(p)' = PolicySource(p)
      BY <2>1, PolicySourceKept DEF LastIsStored, Kept, Keys
    <2> QED BY <2>1, <2>2 DEF LastIsStored
  <1>9. \A q \in Procs : q # p => Steady(q)
    BY <1>2 DEF Steady
  <1> QED BY <1>7, <1>8, <1>9

\* A load has dealt with a key: v is what is stored, or nothing is stored.
LEMMA AdvanceStep ==
  ASSUME IndInv, NEW p \in Procs, Loading(p), NEW v, NEW s, Advance(p, v, s),
         UNCHANGED <<ready, input, counters>>, DOMAIN store' = Keys, Kept,
         Trusted' => /\ PolicyIsSeed'
                     /\ v # Nil => v = store'[Key(p)]
                     /\ v = Nil => store[Key(p)] = Nil
                     /\ Job(p) # "policy" => s = Nil
                     /\ Job(p) = "policy" => store'["policy"] # Nil /\ Bare(s) = Bare(PolicySource(p)')
  PROVE  IndInv' /\ \A q \in Procs : Steady(q)
  <1> USE DEF IndInv
  <1> DEFINE u == [used[p] EXCEPT ![Key(p)] = v]
             n == Len(KeysOf(Job(p)))
  <1>1. UNCHANGED <<loads, edits, faults>>
    BY DEF counters
  <1>2. loads' \in [Procs -> 0..MaxLoads]
    BY <1>1 DEF TypeOK
  <1>3. edits' \in 0..MaxEdits /\ faults' \in 0..MaxFaults
    BY <1>1 DEF TypeOK
  <1>4. ready' \in BOOLEAN
    BY DEF TypeOK
  <1>5. ~FileOnly(p) /\ ~Overrides(p)
    BY DEF LoadingAsks
  <1>6. n \in Nat /\ at[p] \in 1..n /\ DOMAIN KeysOf(Job(p)) = 1..n /\ Key(p) \in Keys /\ Key(p) \in JobKeys(p)
    BY KeyFacts
  <1>7. DOMAIN u = Keys /\ u[Key(p)] = v /\ \A k \in Keys : k # Key(p) => u[k] = used[p][k]
    BY <1>6 DEF Domains
  <1>8. \/ /\ at[p] < n /\ Goto(p, "get") /\ UNCHANGED <<result, last>>
           /\ at' = [at EXCEPT ![p] = @ + 1] /\ used' = [used EXCEPT ![p] = u]
        \/ Fails(p)
        \/ ~(at[p] < n) /\ Succeeds(p, u, s)
    BY DEF Advance
  <1> HIDE DEF u
  <1>9. ASSUME Trusted', NEW k \in Keys, u[k] # Nil PROVE u[k] = store'[k] /\ k \in JobKeys(p)
    <2>1. Sound(p)
      BY <1>1, <1>9, TrustedBefore
    <2> QED BY <1>5, <1>6, <1>7, <1>9, <2>1 DEF Sound, UsedIsStored, Kept
  <1>10. ASSUME Trusted', last[p] # Nil, NEW k \in Keys, last[p].used[k] # Nil
         PROVE  u[k] = last[p].used[k] \/ (k # Key(p) /\ k \in Ahead(p))
    <2>2. Sound(p)
      BY <1>1, <1>10, TrustedBefore
    <2>1. last[p].used[k] = store[k] /\ store'[k] = store[k]
      BY <1>5, <1>10, <2>2 DEF Sound, LastIsStored, Kept
    <2> QED BY <1>7, <1>10, <2>1, <2>2 DEF Sound, LoadRepeats
  <1>11. CASE at[p] < n /\ Goto(p, "get") /\ UNCHANGED <<result, last>>
              /\ at' = [at EXCEPT ![p] = @ + 1] /\ used' = [used EXCEPT ![p] = u]
    <2>1. /\ DOMAIN at' = Procs /\ DOMAIN used' = Procs /\ at'[p] = at[p] + 1 /\ used'[p] = u
          /\ \A q \in Procs : q # p => at'[q] = at[q] /\ used'[q] = used[q]
      BY <1>11 DEF Domains
    <2>2. at'[p] \in DOMAIN KeysOf(Job(p)) /\ DOMAIN used'[p] = Keys
      BY <1>6, <1>7, <1>11, <2>1
    <2>3. TypeOK' /\ Domains' /\ \A q \in Procs : q # p => pc'[q] = pc[q]
      BY <1>2, <1>3, <1>4, <1>11, <2>1, <2>2, MoveTypes DEF Domains
    <2>4. ASSUME Trusted' PROVE Sound(p)'
      <3>1. UsedIsStored(p)'
        BY <1>9, <2>1, <2>4, InputKept DEF UsedIsStored
      <3>2. LastIsStored(p)'
        <4>1. Sound(p) /\ Loading(p)
          BY <1>1, <2>4, TrustedBefore
        <4>2. \A k \in Keys : store[k] # Nil => store'[k] = store[k]
          BY DEF Kept
        <4>3. "policy" \in Keys /\ (store["policy"] # Nil => PolicySource(p)' = PolicySource(p))
          BY <4>2, PolicySourceKept DEF Keys
        <4>4. /\ Bare(PolicySource(p))' = Bare(PolicySource(p)')
              /\ Bare(last[p].result)' = Bare(last[p].result) /\ Nothing' = Nothing
          BY <1>11 DEF Bare, Nothing, Keys
        <4> QED BY <1>11, <4>1, <4>2, <4>3, <4>4, InputKept DEF Sound, LastIsStored
      <3>3. LoadRepeats(p)'
        <4>1. ASSUME NEW k \in Ahead(p), k # Key(p) PROVE k \in Ahead(p)'
          <5>1. PICK j \in at[p]..n : k = KeysOf(Job(p))[j]
            BY <4>1 DEF Ahead
          <5>2. j # at[p]
            BY <4>1, <5>1 DEF Key
          <5>3. j \in at'[p]..n
            BY <1>6, <2>1, <5>1, <5>2
          <5> QED BY <5>1, <5>3, InputKept DEF Ahead
        <4> QED BY <1>10, <1>11, <2>1, <2>4, <4>1 DEF LoadRepeats
      <3> QED BY <3>1, <3>2, <3>3 DEF Sound
    <2>5. IndInv'
      BY <1>1, <1>5, <1>11, <2>1, <2>3, <2>4, OneMoves
    <2> QED BY <1>11, <2>5 DEF Steady
  <1>12. CASE Fails(p)
    BY <1>1, <1>2, <1>3, <1>4, <1>12, FailsStep
  <1>13. CASE ~(at[p] < n) /\ Succeeds(p, u, s)
    <2>1. \A k \in Ahead(p) : k = Key(p)
      BY <1>6, <1>13 DEF Ahead, Key
    <2> QED BY <1>1, <1>2, <1>3, <1>4, <1>5, <1>7, <1>9, <1>10, <1>13, <2>1, SucceedsStep
  <1> QED BY <1>8, <1>11, <1>12, <1>13

-----------------------------------------------------------------------------
(* Calls to etcd *)

\* What a seed does to the store, whether or not the answer arrives.
LEMMA SeedPut ==
  ASSUME IndInv, NEW p \in Procs, UNCHANGED <<input, edits>>,
         store' = [store EXCEPT ![Key(p)] = IF @ = Nil THEN Seed(p) ELSE @]
  PROVE  /\ DOMAIN store' = Keys /\ Kept
         /\ store'[Key(p)] = IF store[Key(p)] = Nil THEN Seed(p) ELSE store[Key(p)]
         /\ Trusted' => PolicyIsSeed'
  <1>1. Key(p) \in Keys /\ DOMAIN store = Keys /\ input[p] \in Inputs
    BY KeyFacts DEF IndInv, TypeOK
  <1>2. DOMAIN store' = Keys /\ store'[Key(p)] = IF store[Key(p)] = Nil THEN Seed(p) ELSE store[Key(p)]
    BY <1>1
  <1>3. \A k \in Keys : k # Key(p) => store'[k] = store[k]
    BY <1>1
  <1>4. Kept
    BY <1>2, <1>3 DEF Kept
  <1>5. ASSUME Trusted' PROVE PolicyIsSeed'
    <2>1. CASE store["policy"] # Nil \/ Key(p) # "policy"
      <3>1. store'["policy"] = store["policy"]
        BY <1>3, <1>4, <2>1 DEF Kept, Keys
      <3> QED BY <1>4, <1>5, <3>1, TrustedBefore DEF IndInv, PolicyIsSeed, DefaultSources
    <2>2. CASE store["policy"] = Nil /\ Key(p) = "policy"
      <3>1. store'["policy"] = encodePolicySource(DefaultSources[input[p]])
        BY <1>2, <2>2 DEF Seed, fallback
      <3>2. DefaultSources' = DefaultSources
        BY DEF DefaultSources
      <3> QED BY <1>1, <3>1, <3>2 DEF PolicyIsSeed
    <2> QED BY <2>1, <2>2
  <1> QED BY <1>2, <1>4, <1>5

\* A step that leaves the store alone.
LEMMA StoreStays ==
  ASSUME IndInv, UNCHANGED <<store, edits>>
  PROVE  DOMAIN store' = Keys /\ Kept /\ (Trusted' => PolicyIsSeed')
  <1>1. DOMAIN store' = Keys /\ Kept
    BY DEF IndInv, TypeOK, Kept
  <1> QED BY <1>1, TrustedBefore DEF IndInv, PolicyIsSeed, DefaultSources

\* A value that was read is what is stored, and the policy is read as written.
LEMMA TakeStep ==
  ASSUME IndInv, NEW p \in Procs, Loading(p), store[Key(p)] # Nil, Take(p, store[Key(p)]),
         UNCHANGED <<store, ready, input, counters>>
  PROVE  IndInv' /\ \A q \in Procs : Steady(q)
  <1>1. UNCHANGED <<loads, edits, faults>>
    BY DEF counters
  <1>2. DOMAIN store' = Keys /\ Kept /\ (Trusted' => PolicyIsSeed')
    BY <1>1, StoreStays
  <1>3. TypeOK /\ input[p] \in Inputs /\ loads' \in [Procs -> 0..MaxLoads]
    BY <1>1 DEF IndInv, TypeOK
  <1>4. ready' \in BOOLEAN /\ faults' \in 0..MaxFaults
    BY <1>1 DEF IndInv, TypeOK
  <1> DEFINE v == store[Key(p)]
             s == decodePolicySource(v, fallback(p))
  <1>5. CASE Fails(p)
    BY <1>1, <1>2, <1>3, <1>4, <1>5, FailsStep
  <1>6. CASE Key(p) = "policy" /\ Advance(p, encodePolicySource(s), ResolvedSource(p, s))
    <2>1. Job(p) = "policy" /\ ResolvedSource(p, s) = PolicySource(p)
      BY <1>3, <1>6, KeyFacts DEF PolicySource
    <2>2. PolicySource(p)' = PolicySource(p)
      BY PolicySourceKept
    <2>3. ASSUME Trusted' PROVE encodePolicySource(s) = v
      <3>3. Trusted
        BY <1>1, <1>2, <2>3, TrustedBefore
      <3>1. PICK i \in Inputs : v = encodePolicySource(DefaultSources[i])
        BY <1>6, <3>3 DEF IndInv, PolicyIsSeed
      <3>2. Settled(DefaultSources[i]) /\ Settled(fallback(p))
        BY <1>3, FallbackSettled DEF fallback
      <3>4. Legible(v.key)
        BY <1>6, <3>3 DEF Trusted, ReadAsWritten
      <3> QED BY <3>1, <3>2, <3>4, PolicyRoundTrip
    <2> HIDE DEF s
    <2> QED BY <1>1, <1>2, <1>6, <2>1, <2>2, <2>3, AdvanceStep
  <1>7. CASE Key(p) # "policy" /\ Advance(p, v, Nil)
    <2>1. Job(p) # "policy"
      BY <1>3, <1>7, KeyFacts
    <2> QED BY <1>1, <1>2, <1>7, <2>1, AdvanceStep
  <1> QED BY <1>5, <1>6, <1>7 DEF Take, TakePolicy

\* Nothing was there to read.
LEMMA NotFoundStep ==
  ASSUME IndInv, NEW p \in Procs, Loading(p), store[Key(p)] = Nil, NotFound(p),
         UNCHANGED <<store, ready, input, counters>>
  PROVE  IndInv' /\ \A q \in Procs : Steady(q)
  <1>1. UNCHANGED <<loads, edits, faults>>
    BY DEF counters
  <1>2. DOMAIN store' = Keys /\ Kept /\ (Trusted' => PolicyIsSeed')
    BY <1>1, StoreStays
  <1>3. TypeOK /\ loads' \in [Procs -> 0..MaxLoads]
    BY <1>1 DEF IndInv, TypeOK
  <1>4. ready' \in BOOLEAN /\ faults' \in 0..MaxFaults
    BY <1>1 DEF IndInv, TypeOK
  <1>5. CASE Fails(p)
    BY <1>1, <1>2, <1>3, <1>4, <1>5, FailsStep
  <1>6. CASE Key(p) \in Optional /\ Advance(p, Nil, Nil)
    <2>1. Job(p) # "policy"
      BY <1>3, <1>6, KeyFacts DEF Optional
    <2> QED BY <1>1, <1>2, <1>6, <2>1, AdvanceStep
  <1> QED BY <1>5, <1>6 DEF NotFound

LEMMA EtcdGetStep ==
  ASSUME IndInv, NEW p \in Procs, EtcdGet(p)
  PROVE  IndInv' /\ \A q \in Procs : Steady(q)
  <1>1. Loading(p) /\ UNCHANGED <<store, ready, input, counters>>
    BY DEF EtcdGet, Loading
  <1>2. DOMAIN store' = Keys /\ Kept /\ (Trusted' => PolicyIsSeed')
    BY <1>1, StoreStays DEF counters
  <1>3. CASE store[Key(p)] # Nil /\ Take(p, store[Key(p)])
    BY <1>1, <1>3, TakeStep
  <1>4. CASE store[Key(p)] = Nil /\ NotFound(p)
    BY <1>1, <1>4, NotFoundStep
  <1>5. CASE Fails(p)
    <2>1. loads' \in [Procs -> 0..MaxLoads] /\ faults' \in 0..MaxFaults /\ UNCHANGED edits
      BY <1>1 DEF IndInv, TypeOK, counters
    <2>2. ready' \in BOOLEAN
      BY <1>1 DEF IndInv, TypeOK
    <2> QED BY <1>1, <1>2, <1>5, <2>1, <2>2, FailsStep
  <1>6. CASE Goto(p, "seed") /\ UNCHANGED <<at, used, result, last>>
    BY <1>1, <1>2, <1>6, GotoStep
  <1> QED BY <1>3, <1>4, <1>5, <1>6 DEF EtcdGet

\* Who creates the policy goes on with the source that it would read back.
LEMMA PutIfAbsentStep ==
  ASSUME IndInv, NEW p \in Procs, PutIfAbsent(p)
  PROVE  IndInv' /\ \A q \in Procs : Steady(q)
  <1>1. /\ Loading(p) /\ UNCHANGED <<ready, input, counters, edits>>
        /\ store' = [store EXCEPT ![Key(p)] = IF @ = Nil THEN Seed(p) ELSE @]
    BY DEF PutIfAbsent, Loading, counters
  <1>2. /\ DOMAIN store' = Keys /\ Kept /\ (Trusted' => PolicyIsSeed')
        /\ store'[Key(p)] = IF store[Key(p)] = Nil THEN Seed(p) ELSE store[Key(p)]
    BY <1>1, SeedPut
  <1>3. CASE Key(p) = "policy" /\ store["policy"] = Nil /\ Advance(p, Seed(p), ResolvedSource(p, fallback(p)))
    <2> DEFINE f == fallback(p)
               d == decodePolicySource(encodePolicySource(f), f)
               i == input[p]
    <2>1. TypeOK /\ i \in Inputs /\ f = DefaultSources[i]
      BY DEF IndInv, TypeOK, fallback
    <2>2. Job(p) = "policy"
      BY <1>3, <2>1, KeyFacts
    <2>3. Seed(p) = encodePolicySource(f) /\ Seed(p) # Nil /\ store'["policy"] = Seed(p)
      BY <1>2, <1>3, <2>1, NilAssumption DEF Seed
    <2>4. Settled(f)
      BY <2>1, FallbackSettled
    <2>5. PolicySource(p)' = ResolvedSource(p, d)
      BY <1>1, <2>3, InputKept DEF PolicySource
    <2> HIDE DEF f
    <2>6. ASSUME Trusted' PROVE Alike(d, f)
      <3>1. Legible(encodePolicySource(f).key)
        BY <2>3, <2>6 DEF Trusted, ReadAsWritten
      <3> QED BY <2>4, <3>1, CreatedAsRead
    <2> HIDE DEF d
    <2>7. ASSUME Trusted' PROVE Bare(ResolvedSource(p, d)) = Bare(ResolvedSource(p, f))
      <3>1. Alike(ApplyEnv(d, i.env), ApplyEnv(f, i.env))
        BY <2>6, <2>7, AlikeStays
      <3>2. Alike(Normalize(ApplyEnv(d, i.env)), Normalize(ApplyEnv(f, i.env)))
        BY <3>1, AlikeStays
      <3>3. Alike(ResolvedSource(p, d), ResolvedSource(p, f))
        BY <3>2, AlikeStays DEF ResolvedSource
      <3> QED BY <3>3, AlikeStays
    <2> QED BY <1>1, <1>2, <1>3, <2>2, <2>3, <2>5, <2>7, AdvanceStep DEF f
  <1>4. CASE Goto(p, "reget") /\ UNCHANGED <<at, used, result, last>>
    BY <1>1, <1>2, <1>4, GotoStep
  <1> QED BY <1>3, <1>4 DEF PutIfAbsent

LEMMA EtcdReGetStep ==
  ASSUME IndInv, NEW p \in Procs, EtcdReGet(p)
  PROVE  IndInv' /\ \A q \in Procs : Steady(q)
  <1>1. Loading(p) /\ UNCHANGED <<store, ready, input, counters>>
    BY DEF EtcdReGet, Loading
  <1>2. CASE store[Key(p)] # Nil /\ Take(p, store[Key(p)])
    BY <1>1, <1>2, TakeStep
  <1>3. CASE store[Key(p)] = Nil /\ NotFound(p)
    BY <1>1, <1>3, NotFoundStep
  <1> QED BY <1>2, <1>3 DEF EtcdReGet

\* A call that fails may have taken effect.
LEMMA EtcdCallFailsStep ==
  ASSUME IndInv, NEW p \in Procs, EtcdCallFails(p)
  PROVE  Kept /\ IndInv' /\ \A q \in Procs : Steady(q)
  <1>1. Fails(p) /\ UNCHANGED <<ready, input, loads, edits>> /\ faults < MaxFaults /\ faults' = faults + 1
    BY DEF EtcdCallFails
  <1>2. DOMAIN store' = Keys /\ Kept /\ (Trusted' => PolicyIsSeed')
    <2>1. CASE UNCHANGED store
      BY <1>1, <2>1, StoreStays
    <2>2. CASE store' = [store EXCEPT ![Key(p)] = IF @ = Nil THEN Seed(p) ELSE @]
      BY <1>1, <2>2, SeedPut
    <2> QED BY <2>1, <2>2 DEF EtcdCallFails
  <1>3. loads' \in [Procs -> 0..MaxLoads]
    BY <1>1 DEF IndInv, TypeOK
  <1>4. faults' \in 0..MaxFaults
    BY <1>1, BoundsAssumption DEF IndInv, TypeOK
  <1>5. ready' \in BOOLEAN
    BY <1>1 DEF IndInv, TypeOK
  <1> QED BY <1>1, <1>2, <1>3, <1>4, <1>5, FailsStep

-----------------------------------------------------------------------------
(* The other steps *)

\* File-mode takes the local files, as every load before it did.
LEMMA ComposeLocalStep ==
  ASSUME IndInv, NEW p \in Procs, composeLocal(p), FileOnly(p),
         UNCHANGED <<store, ready, input, edits, faults>>, loads' \in [Procs -> 0..MaxLoads]
  PROVE  IndInv' /\ \A q \in Procs : Steady(q)
  <1>1. DOMAIN store' = Keys /\ Kept /\ (Trusted' => PolicyIsSeed')
    BY StoreStays
  <1>2. ready' \in BOOLEAN /\ faults' \in 0..MaxFaults
    BY DEF IndInv, TypeOK
  <1>3. CASE Fails(p)
    BY <1>1, <1>2, <1>3, FailsStep
  <1>4. CASE Succeeds(p, LocalConfig(p), Nil)
    <2>1. DOMAIN LocalConfig(p) = Keys
      BY DEF LocalConfig
    <2>2. Job(p) # "policy" /\ ~Overrides(p)
      BY DEF FileOnly, Overrides
    <2>3. Trusted' => LastIsStored(p)
      BY <1>1, TrustedBefore DEF IndInv, Sound
    <2>4. (Trusted' /\ last[p] # Nil) => last[p].used = LocalConfig(p)
      BY <2>3 DEF LastIsStored
    <2> QED BY <1>1, <1>2, <1>4, <2>1, <2>2, <2>4, SucceedsStep
  <1> QED BY <1>3, <1>4 DEF composeLocal

LEMMA StartLoadStep ==
  ASSUME IndInv, NEW p \in Procs, StartLoad(p)
  PROVE  Kept /\ IndInv' /\ \A q \in Procs : Steady(q)
  <1>1. /\ UNCHANGED <<store, ready, input, edits, faults>>
        /\ loads[p] < MaxLoads /\ loads' = [loads EXCEPT ![p] = @ + 1]
    BY DEF StartLoad
  <1>2. loads' \in [Procs -> 0..MaxLoads]
    BY <1>1, BoundsAssumption DEF IndInv, TypeOK
  <1>3. DOMAIN store' = Keys /\ Kept /\ (Trusted' => PolicyIsSeed')
    BY <1>1, StoreStays
  <1>4. ready' \in BOOLEAN /\ faults' \in 0..MaxFaults
    BY <1>1 DEF IndInv, TypeOK
  <1>5. CASE Fails(p)
    BY <1>1, <1>2, <1>3, <1>4, <1>5, FailsStep
  <1>6. CASE Job(p) = "policy" /\ ResolveSource(p)
    <2>1. ~FileOnly(p)
      BY <1>6 DEF FileOnly
    <2>2. CASE Overrides(p) /\ Succeeds(p, Nothing, ResolvedSource(p, fallback(p)))
      <3>1. DOMAIN Nothing = Keys /\ \A k \in Keys : Nothing[k] = Nil
        BY DEF Nothing
      <3>2. Trusted' => LastIsStored(p)
        BY <1>1, <1>3, TrustedBefore DEF IndInv, Sound
      <3>3. (Trusted' /\ last[p] # Nil) => last[p].used = Nothing
        BY <2>2, <3>2 DEF LastIsStored
      <3> QED BY <1>1, <1>2, <1>3, <1>4, <1>6, <2>1, <2>2, <3>1, <3>3, SucceedsStep
    <2>3. CASE ~Overrides(p) /\ Ask(p)
      BY <1>1, <1>2, <2>1, <2>3, <1>3, AskStep
    <2> QED BY <1>3, <1>5, <1>6, <2>2, <2>3 DEF ResolveSource, Overrides
  <1>7. CASE Job(p) # "policy" /\ LocalKind(p) = "file" /\ composeLocal(p)
    BY <1>1, <1>2, <1>3, <1>7, ComposeLocalStep DEF FileOnly
  <1>8. CASE Job(p) # "policy" /\ LocalKind(p) # "file" /\ Ask(p)
    BY <1>1, <1>2, <1>3, <1>8, AskStep DEF FileOnly, Overrides
  <1> QED BY <1>5, <1>6, <1>7, <1>8 DEF StartLoad, loadManagedConfig, loadConventionConfig

\* A step that no process takes.
LEMMA NobodyMoves ==
  ASSUME IndInv, UNCHANGED <<input, pc, at, used, result, last, loads>>, DOMAIN store' = Keys,
         ready' \in BOOLEAN, edits' \in 0..MaxEdits, faults' \in 0..MaxFaults,
         (edits' = edits /\ UNCHANGED store) \/ edits' # 0
  PROVE  IndInv' /\ \A q \in Procs : Steady(q)
  <1>1. \A q \in Procs : Job(q)' = Job(q) /\ FileOnly(q)' = FileOnly(q) /\ Overrides(q)' = Overrides(q)
    BY InputKept
  <1>2. TypeOK'
    <2>1. \A q \in Procs : at'[q] \in DOMAIN KeysOf(Job(q))'
      <3>1. \A q \in Procs : DOMAIN KeysOf(Job(q))' = DOMAIN KeysOf(Job(q))
        BY DEF Job
      <3> QED BY <3>1 DEF IndInv, TypeOK
    <2>2. loads' \in [Procs -> 0..MaxLoads]
      BY DEF IndInv, TypeOK
    <2>3. pc' \in [Procs -> {"idle", "get", "seed", "reget", "done", "failed"}] /\ input' \in [Procs -> Inputs]
      BY DEF IndInv, TypeOK
    <2> QED BY <2>1, <2>2, <2>3 DEF TypeOK
  <1>3. Domains' /\ LoadingAsks'
    BY <1>1 DEF IndInv, Domains, LoadingAsks, Loading
  <1>4. ASSUME Trusted' PROVE PolicyIsSeed' /\ \A q \in Procs : Sound(q)'
    <2>1. Trusted /\ UNCHANGED <<store, edits>>
      BY <1>4 DEF Trusted, ReadAsWritten
    <2>2. Kept /\ PolicyIsSeed'
      BY <1>4, <2>1, StoreStays
    <2>3. \A q \in Procs : Loading(q)' = Loading(q)
      BY DEF Loading
    <2> QED BY <2>1, <2>2, <2>3, StaysSound DEF IndInv
  <1>5. IndInv'
    BY <1>2, <1>3, <1>4 DEF IndInv
  <1> QED BY <1>5 DEF Steady

-----------------------------------------------------------------------------
(* The invariant holds *)

LEMMA InitInv == Init => IndInv
  <1> SUFFICES ASSUME Init PROVE IndInv
    OBVIOUS
  <1>1. TypeOK
    <2>1. \A p \in Procs : at[p] \in DOMAIN KeysOf(Job(p))
      <3> SUFFICES ASSUME NEW p \in Procs PROVE 1 \in DOMAIN KeysOf(Job(p))
        BY DEF Init
      <3>1. Job(p) \in {"policy", "managed", "convention"}
        BY InputAssumption DEF Init, Job
      <3> HIDE DEF Job
      <3>2. KeysOf(Job(p)) \in {<<"policy">>, <<"managed">>, <<"runtime", "logger", "service">>}
        BY <3>1 DEF KeysOf
      <3> QED BY <3>2
    <2>2. loads \in [Procs -> 0..MaxLoads] /\ edits \in 0..MaxEdits /\ faults \in 0..MaxFaults
      BY BoundsAssumption DEF Init
    <2>3. DOMAIN store = Keys /\ pc \in [Procs -> {"idle", "get", "seed", "reget", "done", "failed"}]
      BY DEF Init, Nothing
    <2>4. ready \in BOOLEAN /\ input \in [Procs -> Inputs]
      BY DEF Init
    <2> QED BY <2>1, <2>2, <2>3, <2>4 DEF TypeOK
  <1>2. Domains
    BY DEF Init, Domains, Nothing
  <1>3. \A p \in Procs : ~Loading(p)
    BY DEF Init, Loading
  <1>4. PolicyIsSeed
    BY DEF Init, PolicyIsSeed, Nothing, Keys
  <1>5. \A p \in Procs : Sound(p)
    BY <1>3 DEF Init, Sound, UsedIsStored, LastIsStored, LoadRepeats, Nothing
  <1> QED BY <1>1, <1>2, <1>3, <1>4, <1>5 DEF IndInv, LoadingAsks

\* Every step keeps the invariant, repeats what was loaded before, and, but
\* for an operator's, changes no key that has a value.
LEMMA NextInv ==
  ASSUME IndInv, [Next]_vars
  PROVE  IndInv' /\ (\A q \in Procs : Steady(q)) /\ (edits' = edits => Kept)
  <1>1. ASSUME NEW p \in Procs, StartLoad(p)
        PROVE  IndInv' /\ (\A q \in Procs : Steady(q)) /\ Kept
    BY <1>1, StartLoadStep
  <1>2. ASSUME NEW p \in Procs, EtcdGet(p)
        PROVE  IndInv' /\ (\A q \in Procs : Steady(q)) /\ Kept
    BY <1>2, EtcdGetStep DEF EtcdGet, Kept
  <1>3. ASSUME NEW p \in Procs, PutIfAbsent(p)
        PROVE  IndInv' /\ (\A q \in Procs : Steady(q)) /\ Kept
    <2>1. UNCHANGED <<input, edits>> /\ store' = [store EXCEPT ![Key(p)] = IF @ = Nil THEN Seed(p) ELSE @]
      BY <1>3 DEF PutIfAbsent, counters
    <2> QED BY <1>3, <2>1, SeedPut, PutIfAbsentStep
  <1>4. ASSUME NEW p \in Procs, EtcdReGet(p)
        PROVE  IndInv' /\ (\A q \in Procs : Steady(q)) /\ Kept
    BY <1>4, EtcdReGetStep DEF EtcdReGet, Kept
  <1>5. ASSUME NEW p \in Procs, EtcdCallFails(p)
        PROVE  IndInv' /\ (\A q \in Procs : Steady(q)) /\ Kept
    BY <1>5, EtcdCallFailsStep
  <1>6. CASE ServerDown
    <2>1. /\ UNCHANGED <<store, input, pc, at, used, result, last, loads, edits>>
          /\ faults < MaxFaults /\ faults' = faults + 1
      BY <1>6 DEF ServerDown
    <2>2. ready' \in BOOLEAN
      BY <1>6 DEF ServerDown
    <2>3. edits' \in 0..MaxEdits /\ faults' \in 0..MaxFaults /\ DOMAIN store' = Keys
      BY <2>1, BoundsAssumption DEF IndInv, TypeOK
    <2> QED BY <2>1, <2>2, <2>3, NobodyMoves DEF Kept
  <1>7. CASE ServerUp
    <2>1. UNCHANGED <<store, input, pc, at, used, result, last, loads, edits, faults>>
      BY <1>7 DEF ServerUp, counters
    <2>2. ready' \in BOOLEAN
      BY <1>7 DEF ServerUp
    <2>3. edits' \in 0..MaxEdits /\ faults' \in 0..MaxFaults /\ DOMAIN store' = Keys
      BY <2>1 DEF IndInv, TypeOK
    <2> QED BY <2>1, <2>2, <2>3, NobodyMoves DEF Kept
  <1>8. CASE Edit
    <2>1. UNCHANGED <<ready, input, pc, at, used, result, last, loads, faults>> /\ edits < MaxEdits /\ edits' = edits + 1
      BY <1>8 DEF Edit
    <2>2. DOMAIN store' = Keys
      BY <1>8 DEF Edit, IndInv, TypeOK
    <2>3. ready' \in BOOLEAN
      BY <2>1 DEF IndInv, TypeOK
    <2>4. edits' \in 0..MaxEdits /\ faults' \in 0..MaxFaults /\ edits' # 0 /\ edits' # edits
      BY <2>1, BoundsAssumption DEF IndInv, TypeOK
    <2> QED BY <2>1, <2>2, <2>3, <2>4, NobodyMoves
  <1>9. CASE UNCHANGED vars
    <2>1. UNCHANGED <<store, ready, input, pc, at, used, result, last, loads, edits, faults>>
      BY <1>9 DEF vars, counters
    <2>2. ready' \in BOOLEAN
      BY <2>1 DEF IndInv, TypeOK
    <2>3. edits' \in 0..MaxEdits /\ faults' \in 0..MaxFaults /\ DOMAIN store' = Keys
      BY <2>1 DEF IndInv, TypeOK
    <2> QED BY <2>1, <2>2, <2>3, NobodyMoves DEF Kept
  <1> QED BY <1>1, <1>2, <1>3, <1>4, <1>5, <1>6, <1>7, <1>8, <1>9 DEF Next, Load

\* The invariant of config loading: as long as no operator edits the config
\* center, what a process uses, and what its last load took, is what is stored.
THEOREM Invariant == Spec => []IndInv
  BY InitInv, NextInv, PTL DEF Spec

\* Every variable has its type.
THEOREM TypeCorrect == Spec => []TypeOK
  <1>1. IndInv => TypeOK
    BY DEF IndInv
  <1> QED BY <1>1, Invariant, PTL

\* Any number of processes that find a key missing and seed it, each with its
\* own local value, go on with the same value (putIfAbsent and the second read
\* in resolvePolicySource and the loaders' seed functions).
THEOREM SeedersAgree == Spec => []SeedsAgree
  <1>1. IndInv => SeedsAgree
    <2> SUFFICES ASSUME IndInv, Trusted, NEW p \in Procs, NEW q \in Procs, NEW k \in Keys,
                        used[p][k] # Nil, Job(p) # "policy" => LocalKind(p) # "file",
                        used[q][k] # Nil, Job(q) # "policy" => LocalKind(q) # "file"
                 PROVE  used[p][k] = used[q][k]
      BY DEF SeedsAgree, Trusted
    <2>1. UsedIsStored(p) /\ UsedIsStored(q)
      BY DEF IndInv, Sound
    <2> QED BY <2>1 DEF UsedIsStored, FileOnly
  <1> QED BY <1>1, Invariant, PTL

\* No load overwrites a value: a seed is a transaction on the key's create
\* revision (EtcdProvider.PutIfAbsent).
THEOREM LoadsNeverOverwrite == Spec => NeverOverwrites
  <1>1. IndInv /\ [Next]_vars => [edits' = edits => \A k \in Keys : store[k] # Nil => store'[k] = store[k]]_vars
    BY NextInv DEF Kept
  <1> QED BY <1>1, Invariant, PTL DEF Spec, NeverOverwrites

\* A process that loads again gets what it got before, whether its last load
\* created the policy or read it.
THEOREM ReloadsAreStable == Spec => RestartIsStable
  <1>1. IndInv /\ [Next]_vars =>
          [\A p \in Procs :
             (last[p] # Nil /\ last'[p] # last[p] /\ (edits = 0 /\ ReadAsWritten)') =>
                /\ \A k \in Keys : last[p].used[k] # Nil => last'[p].used[k] = last[p].used[k]
                /\ last[p].result # Nil =>
                      [last'[p].result EXCEPT !.root = ""] = [last[p].result EXCEPT !.root = ""]]_vars
    BY NextInv DEF Steady, Bare, Trusted
  <1> QED BY <1>1, Invariant, PTL DEF Spec, RestartIsStable
=============================================================================
