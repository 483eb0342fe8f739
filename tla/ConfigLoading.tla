---------------------------- MODULE ConfigLoading -----------------------------
(***************************************************************************)
(* How processes that start, or rebuild a generation, find their           *)
(* configuration in etcd and seed what is missing from their local files:  *)
(* ResolveSource (job "policy"), the managed config loader ("managed") and *)
(* the convention config loader ("convention"), on EtcdProvider.           *)
(*                                                                         *)
(* All three do the same to every key: get it, put the local value if it   *)
(* is absent, and read it again.  Every call to etcd is an action, for     *)
(* which the server has to be ready.  A call that fails may have taken     *)
(* effect.  An operator may put and delete keys.                           *)
(*                                                                         *)
(* A fragment is the process whose local file it comes from, or "operator" *)
(* and what loading makes of it: "broken" does not decode; a runtime       *)
(* fragment or a managed config names the provider "file" or "etcd", or is *)
(* "incomplete"; other fragments are "valid" or "invalid".  A policy is a  *)
(* provider and a key, as they are written; the provider "broken", and a   *)
(* key that is unreadable, make one that does not decode.                  *)
(***************************************************************************)
EXTENDS ConfigSource

CONSTANTS
    Nil,
    Procs,
    Inputs,     \* what a process may be started with
    Edits,      \* what an operator may put: pairs of a key and a value
    MaxLoads,   \* bound: loads of a process
    MaxEdits,   \* bound: puts and deletes of an operator
    MaxFaults   \* bound: failed calls

ASSUME BoundsAssumption == MaxLoads \in Nat /\ MaxEdits \in Nat /\ MaxFaults \in Nat

\* A bootstrap file names a provider that Source.Validate accepts, or none.
ASSUME InputAssumption ==
    \A i \in Inputs :
        /\ i.job \in {"policy", "managed", "convention"}
        /\ \A s \in {i.boot.config, i.boot.center.default} :
              DOMAIN s = DOMAIN ZeroSource /\ s.provider \in {"", "file", "etcd"}

VARIABLES
    store,      \* the config center: key -> value
    ready,      \* the etcd server answers
    input,      \* what each process was started with
    pc,         \* what the process does next
    at,         \* the key it is at
    used,       \* what this load has taken from each key
    result,     \* the source that ResolveSource returned
    last,       \* used and result of the last load that succeeded
    loads, edits, faults

counters == <<loads, edits, faults>>
vars == <<store, ready, input, pc, at, used, result, last, counters>>

Keys == {"policy", "managed", "runtime", "logger", "service"}
Optional == {"logger"}

\* The keys in the order they are loaded; logger.yaml stands for it and for
\* registry.yaml and the six files of infra/, which are optional too.
KeysOf(job) == CASE job = "policy" -> <<"policy">>
                 [] job = "managed" -> <<"managed">>
                 [] job = "convention" -> <<"runtime", "logger", "service">>

Job(p) == input[p].job
Key(p) == KeysOf(Job(p))[at[p]]
Nothing == [k \in Keys |-> Nil]

TypeOK ==
    /\ DOMAIN store = Keys
    /\ ready \in BOOLEAN
    /\ input \in [Procs -> Inputs]
    /\ pc \in [Procs -> {"idle", "get", "seed", "reget", "done", "failed"}]
    /\ \A p \in Procs : at[p] \in DOMAIN KeysOf(Job(p))
    /\ loads \in [Procs -> 0..MaxLoads] /\ edits \in 0..MaxEdits /\ faults \in 0..MaxFaults

(* loadSourceBootstrap: a bootstrap file that nobody asked for may be      *)
(* missing; one that is there must decode.                                 *)
explicit(i) == i.path # <<>>
bootstrapPath(i) ==
    resolveBootstrapPath(i.files, firstNonEmptyPath(i.path, DefaultBootstrapPath), i.root, i.cwd)
baseDir(i) == IF bootstrapPath(i) = <<>> THEN <<>> ELSE Front(bootstrapPath(i))
bootstrap(i) == IF bootstrapPath(i) = <<>> THEN ZeroBootstrap ELSE i.boot
bootstrapFails(i) == IF bootstrapPath(i) = <<>> THEN explicit(i) ELSE ~i.bootDecodes

DefaultSources == [i \in Inputs |-> defaultSource(configCenter(bootstrap(i)))]
fallback(p) == DefaultSources[input[p]]

\* The etcd that defaultSourceStore asks for the policy.
Center(p) == [endpoints |-> fallback(p).endpoints, prefix |-> fallback(p).prefix]

\* Jobs, and config centers (endpoints and prefix), have keys of their own: only
\* processes with one job and one center are looked at together.
Init ==
    /\ store = Nothing
    /\ ready = TRUE
    /\ input \in [Procs -> Inputs] /\ \A p, q \in Procs : Job(p) = Job(q) /\ Center(p) = Center(q)
    /\ pc = [p \in Procs |-> "idle"]
    /\ at = [p \in Procs |-> 1]
    /\ used = [p \in Procs |-> Nothing]
    /\ result = [p \in Procs |-> Nil]
    /\ last = [p \in Procs |-> Nil]
    /\ loads = [p \in Procs |-> 0] /\ edits = 0 /\ faults = 0

Goto(p, to) == pc' = [pc EXCEPT ![p] = to]

-----------------------------------------------------------------------------
(* The local side *)

ASSUME NilAssumption == \A i \in Inputs : encodePolicySource(DefaultSources[i]) # Nil

\* ApplyEnv, Normalize and ResolveBaseDir end ResolveSource on both its ways.
ResolvedSource(p, s) ==
    ResolveBaseDir(Normalize(ApplyEnv(s, input[p].env)), baseDir(input[p]))

Local(p, k) == [by |-> p, kind |-> input[p].local[k]]
HasLocal(p, k) == input[p].local[k] # "missing"

\* The value that a process would seed.
Seed(p) == IF Key(p) = "policy" THEN encodePolicySource(fallback(p)) ELSE Local(p, Key(p))

\* The managed loader validates what it seeds; the policy is always in order,
\* and the convention loader seeds its files as they are.
validateSeedConfig(p) == Key(p) = "managed" => input[p].local["managed"] = "etcd"

CanSeed(p) == Key(p) = "policy" \/ HasLocal(p, Key(p))

\* runtime.yaml and the managed config are read from the local file first,
\* which says whether there is a config center at all.
LocalKind(p) == input[p].local[KeysOf(Job(p))[1]]

-----------------------------------------------------------------------------
Fails(p) ==
    /\ Goto(p, "failed")
    /\ UNCHANGED <<at, used, result, last>>

\* The load succeeds with u, and for ResolveSource with the source s.
Succeeds(p, u, s) ==
    /\ Goto(p, "done")
    /\ used' = [used EXCEPT ![p] = u]
    /\ result' = [result EXCEPT ![p] = s]
    /\ last' = [last EXCEPT ![p] = [used |-> u, result |-> s]]
    /\ UNCHANGED at

\* mergeServiceFragment and validateConventionConfig, at the end.
validateConventionConfig(u) == \A k \in {"logger", "service"} : u[k] = Nil \/ u[k].kind = "valid"

\* What file-mode takes, without asking etcd: the local files.
LocalConfig(p) == [k \in Keys |-> IF k \in Range(KeysOf(Job(p))) /\ HasLocal(p, k) THEN Local(p, k) ELSE Nil]

composeLocal(p) ==
    LET u == LocalConfig(p) IN
    IF Job(p) = "convention" /\ (u["service"] = Nil \/ ~validateConventionConfig(u))
    THEN Fails(p) ELSE Succeeds(p, u, Nil)

\* The load goes to the config center.
Ask(p) ==
    /\ Goto(p, "get")
    /\ at' = [at EXCEPT ![p] = 1]
    /\ used' = [used EXCEPT ![p] = Nothing]
    /\ UNCHANGED <<result, last>>

\* The environment may settle the source without a policy.
ResolveSource(p) ==
    IF bootstrapFails(input[p]) THEN Fails(p)
    ELSE IF hasSourceEnvOverride(input[p].env) THEN Succeeds(p, Nothing, ResolvedSource(p, fallback(p)))
    ELSE Ask(p)

loadManagedConfig(p) ==
    \/ LocalKind(p) \in {"missing", "broken"} /\ Fails(p)
    \/ LocalKind(p) = "file" /\ composeLocal(p)
    \/ LocalKind(p) \in {"etcd", "incomplete"} /\ Ask(p)

loadConventionConfig(p) ==
    \/ LocalKind(p) \in {"missing", "broken", "incomplete"} /\ Fails(p)
    \/ LocalKind(p) = "file" /\ composeLocal(p)
    \/ LocalKind(p) = "etcd" /\ Ask(p)

StartLoad(p) ==
    /\ pc[p] \in {"idle", "done", "failed"}
    /\ loads[p] < MaxLoads /\ loads' = [loads EXCEPT ![p] = @ + 1]
    /\ \/ Job(p) = "policy" /\ ResolveSource(p)
       \/ Job(p) = "managed" /\ loadManagedConfig(p)
       \/ Job(p) = "convention" /\ loadConventionConfig(p)
    /\ UNCHANGED <<store, ready, input, edits, faults>>

\* The load goes on to its next key, or is over.
Advance(p, v, s) ==
    LET u == [used[p] EXCEPT ![Key(p)] = v] IN
    IF at[p] < Len(KeysOf(Job(p)))
    THEN /\ Goto(p, "get")
         /\ at' = [at EXCEPT ![p] = @ + 1]
         /\ used' = [used EXCEPT ![p] = u]
         /\ UNCHANGED <<result, last>>
    ELSE IF Job(p) = "convention" /\ ~validateConventionConfig(u) THEN Fails(p) ELSE Succeeds(p, u, s)

Decodes(p, v) == IF Key(p) = "policy" THEN v.provider # "broken" /\ v.key \notin Unreadable
                 ELSE v.kind # "broken"

\* The runtime fragment is validated as soon as it is read.
validateConventionRuntime(p, v) == Key(p) = "runtime" => v.kind \in {"file", "etcd"}

\* The end of resolvePolicySource, and of ResolveSource.
TakePolicy(p, v) ==
    \E s \in {decodePolicySource(v, fallback(p))} : Advance(p, encodePolicySource(s), ResolvedSource(p, s))

\* A value was read from etcd.
Take(p, v) ==
    IF ~Decodes(p, v) \/ ~validateConventionRuntime(p, v) THEN Fails(p)
    ELSE IF Key(p) = "policy" THEN TakePolicy(p, v) ELSE Advance(p, v, Nil)

\* ErrConfigNotFound: an optional fragment is left out.
NotFound(p) == IF Key(p) \in Optional THEN Advance(p, Nil, Nil) ELSE Fails(p)

-----------------------------------------------------------------------------
(* Calls to etcd *)

\* Load, or Get.
EtcdGet(p) ==
    /\ pc[p] = "get" /\ ready
    /\ LET v == store[Key(p)] IN
       IF v # Nil THEN Take(p, v)
       ELSE IF input[p].disableAutoSeed \/ ~CanSeed(p) THEN NotFound(p)
       ELSE IF ~validateSeedConfig(p) THEN Fails(p)
       ELSE Goto(p, "seed") /\ UNCHANGED <<at, used, result, last>>
    /\ UNCHANGED <<store, ready, input, counters>>

\* Mutant: the seed replaces what is there.
SeedOverwrites(p) ==
    /\ pc[p] = "seed" /\ ready
    /\ store' = [store EXCEPT ![Key(p)] = Seed(p)]
    /\ IF Key(p) = "policy"
       THEN Advance(p, Seed(p), ResolvedSource(p, fallback(p)))
       ELSE Goto(p, "reget") /\ UNCHANGED <<at, used, result, last>>
    /\ UNCHANGED <<ready, input, counters>>

\* Mutant: a process goes on with its own value although another one was first.
SeedNotReread(p) ==
    /\ pc[p] = "seed" /\ ready
    /\ store' = [store EXCEPT ![Key(p)] = IF @ = Nil THEN Seed(p) ELSE @]
    /\ IF Key(p) = "policy"
       THEN Advance(p, Seed(p), ResolvedSource(p, fallback(p)))
       ELSE Advance(p, Seed(p), Nil)
    /\ UNCHANGED <<ready, input, counters>>

(* PutIfAbsent: a transaction on the key's create revision.  Only          *)
(* resolvePolicySource looks at the answer: who created the policy does    *)
(* not read it again.                                                      *)
PutIfAbsent(p) ==
    /\ pc[p] = "seed" /\ ready
    /\ store' = [store EXCEPT ![Key(p)] = IF @ = Nil THEN Seed(p) ELSE @]
    /\ IF Key(p) = "policy" /\ store["policy"] = Nil
       THEN Advance(p, Seed(p), ResolvedSource(p, fallback(p)))
       ELSE Goto(p, "reget") /\ UNCHANGED <<at, used, result, last>>
    /\ UNCHANGED <<ready, input, counters>>

\* The second read, which finds nothing if an operator was faster.
EtcdReGet(p) ==
    /\ pc[p] = "reget" /\ ready
    /\ IF store[Key(p)] # Nil THEN Take(p, store[Key(p)]) ELSE NotFound(p)
    /\ UNCHANGED <<store, ready, input, counters>>

\* A call returns an error other than ErrConfigNotFound, or the context ends,
\* be it while waitReady waits for the server.
EtcdCallFails(p) ==
    /\ pc[p] \in {"get", "seed", "reget"}
    /\ faults < MaxFaults /\ faults' = faults + 1
    /\ \/ UNCHANGED store
       \/ pc[p] = "seed" /\ ready /\ store' = [store EXCEPT ![Key(p)] = IF @ = Nil THEN Seed(p) ELSE @]
    /\ Fails(p)
    /\ UNCHANGED <<ready, input, loads, edits>>

ServerDown == ready /\ faults < MaxFaults /\ ready' = FALSE /\ faults' = faults + 1
              /\ UNCHANGED <<store, input, pc, at, used, result, last, loads, edits>>
ServerUp == ~ready /\ ready' = TRUE
            /\ UNCHANGED <<store, input, pc, at, used, result, last, counters>>

\* EtcdProvider.Put and Delete, called by an operator's tool.
Edit ==
    /\ edits < MaxEdits /\ edits' = edits + 1
    /\ \/ \E p \in Procs, e \in Edits :
             e[1] \in Range(KeysOf(Job(p))) /\ store' = [store EXCEPT ![e[1]] = e[2]]
       \/ \E k \in Keys : store[k] # Nil /\ store' = [store EXCEPT ![k] = Nil]
    /\ UNCHANGED <<ready, input, pc, at, used, result, last, loads, faults>>

Load(p) == EtcdGet(p) \/ PutIfAbsent(p) \/ EtcdReGet(p)

Next ==
    \/ \E p \in Procs : StartLoad(p) \/ Load(p) \/ EtcdCallFails(p)
    \/ ServerDown \/ ServerUp \/ Edit

Spec == Init /\ [][Next]_vars

-----------------------------------------------------------------------------
\* The key of the policy that is stored, if there is one, can be read back.
ReadAsWritten == store["policy"] # Nil => Legible(store["policy"].key)

(***************************************************************************)
(* Processes that find a key missing and seed it at the same time, each    *)
(* with its own local value, all go on with the same value, also when the  *)
(* answer to the seed was lost.  An optional fragment may be left out by a *)
(* process that has no local file for it.  encodePolicySource quotes       *)
(* nothing: the creator of a policy whose key YAML does not read back goes *)
(* on with the key, everybody else with what YAML makes of it.             *)
(***************************************************************************)
SeedsAgree ==
    (edits = 0 /\ ReadAsWritten) =>
        \A p, q \in Procs, k \in Keys :
            LET FromStore(r) == /\ r \in Procs /\ used[r][k] # Nil
                                /\ Job(r) # "policy" => LocalKind(r) # "file"
            IN FromStore(p) /\ FromStore(q) => used[p][k] = used[q][k]

(***************************************************************************)
(* A load changes no key that has a value: what an operator, or another    *)
(* process, wrote is never overwritten by a local default.                 *)
(***************************************************************************)
NeverOverwrites ==
    [][edits' = edits => \A k \in Keys : store[k] # Nil => store'[k] = store[k]]_vars

(***************************************************************************)
(* A process that loads again, after a restart or for a rebuild, gets what *)
(* it got before as long as no operator changes it; only a fragment that   *)
(* was missing may have been seeded by somebody else.  The source comes    *)
(* from two different ways through resolvePolicySource, created and read   *)
(* back, which agree but for Root, which the policy does not hold, and for *)
(* a key that YAML does not read back as it was written.                   *)
(***************************************************************************)
RestartIsStable ==
    [][\A p \in Procs :
         (last[p] # Nil /\ last'[p] # last[p] /\ (edits = 0 /\ ReadAsWritten)') =>
            /\ \A k \in Keys : last[p].used[k] # Nil => last'[p].used[k] = last[p].used[k]
            /\ last[p].result # Nil =>
                  [last'[p].result EXCEPT !.root = ""] = [last[p].result EXCEPT !.root = ""]]_vars
=============================================================================
