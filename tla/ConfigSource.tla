----------------------------- MODULE ConfigSource -----------------------------
(***************************************************************************)
(* runtime/config/source.go: where the runtime configuration is loaded     *)
(* from.  A bootstrap file gives a default source, environment variables   *)
(* override it, and a policy in the config center may replace it.          *)
(*                                                                         *)
(* A path is the sequence of its elements, an absolute one begins with     *)
(* "/"; <<>> and "" are empty strings.                                     *)
(***************************************************************************)
EXTENDS Naturals, Sequences, SequencesExt, FiniteSetsExt

\* External: how YAML reads a key that is written without quotes.
CONSTANTS
    Misread,        \* keys it reads as something else ("run #1" as "run"): key -> what it reads
    Unreadable      \* keys that make the text no YAML ("run: 1")

ASSUME YamlAssumption == \A k \in DOMAIN Misread : Misread[k] # k /\ k \notin Unreadable

Legible(key) == key \notin DOMAIN Misread /\ key \notin Unreadable
scalar(key) == IF key \in DOMAIN Misread THEN Misread[key] ELSE key

DefaultBootstrapPath == <<"configs", "bootstrap.yaml">>
DefaultRuntimeKey == <<"configs", "runtime.yaml">>
DefaultEtcdEndpoint == "localhost"
ConfigPrefix == "runtime/config"

ZeroSource == [provider |-> "", root |-> "", key |-> <<>>, endpoints |-> "", prefix |-> ""]
ZeroCenter == [prefix |-> "", default |-> ZeroSource]
ZeroBootstrap == [config |-> ZeroSource, center |-> ZeroCenter]

isZero(s) == s = ZeroSource
IsAbs(path) == path # <<>> /\ Head(path) = "/"
firstNonEmpty(a, b) == IF a = "" THEN b ELSE a
firstNonEmptyPath(a, b) == IF a = <<>> THEN b ELSE a

(* Source.Normalize.  Trimming and lower-casing are left out. *)
Normalize(s) ==
    LET provider == firstNonEmpty(s.provider, "file")
        key == IF provider \in {"file", "etcd"} THEN firstNonEmptyPath(s.key, DefaultRuntimeKey) ELSE s.key
    IN IF provider = "etcd"
       THEN [s EXCEPT !.provider = provider, !.key = key,
                      !.endpoints = firstNonEmpty(@, DefaultEtcdEndpoint), !.prefix = firstNonEmpty(@, ConfigPrefix)]
       ELSE [s EXCEPT !.provider = provider, !.key = key]

\* ConfigCenterSource.normalize
normalizeCenter(c) ==
    LET prefix == firstNonEmpty(c.prefix, ConfigPrefix)
        default == IF isZero(c.default)
                   THEN [ZeroSource EXCEPT !.provider = "file", !.key = DefaultRuntimeKey]
                   ELSE c.default
    IN [prefix |-> prefix,
        default |-> Normalize([default EXCEPT !.prefix = prefix,
                                              !.endpoints = firstNonEmpty(@, DefaultEtcdEndpoint)])]

\* Bootstrap.configCenter: what the center lacks is taken from config.
configCenter(b) ==
    LET prefix == IF isZero(b.config) THEN b.center.prefix
                  ELSE firstNonEmpty(b.center.prefix, b.config.prefix)
        default == IF isZero(b.center.default) THEN b.config ELSE b.center.default
    IN normalizeCenter([prefix |-> prefix, default |-> default])

defaultSource(c) == Normalize([c.default EXCEPT !.prefix = c.prefix])

hasSourceEnvOverride(env) == env.provider # "" \/ env.key # <<>> \/ env.path # <<>>

\* CONFIG_PATH names a file: it is no key of the config center.
ApplyEnv(s, env) ==
    LET provider == firstNonEmpty(env.provider, s.provider)
        file == IF provider = "etcd" THEN s.key ELSE firstNonEmptyPath(env.path, s.key)
    IN [s EXCEPT !.provider = provider,
                 !.key = firstNonEmptyPath(env.key, file),
                 !.endpoints = firstNonEmpty(env.endpoints, @),
                 !.prefix = firstNonEmpty(env.prefix, @)]

\* A relative file key is bound to the directory of the bootstrap file; a
\* key that begins with that directory's own name, to its parent.
ResolveBaseDir(s, baseDir) ==
    IF s.provider # "file" \/ s.key = <<>> \/ IsAbs(s.key) \/ baseDir = <<>> THEN s
    ELSE [s EXCEPT !.key = IF Len(@) > 1 /\ Head(@) = Last(baseDir)
                           THEN Front(baseDir) \o @ ELSE baseDir \o @]

(* resolveBootstrapPath: the bootstrap file, or <<>>.  A relative path is  *)
(* put below the root that the environment names, and if it is still       *)
(* relative it is looked for in the working directory cwd and upwards.     *)
(* files are the bootstrap files that exist.                               *)
resolveBootstrapPath(files, path, root, cwd) ==
    LET wanted == IF IsAbs(path) THEN path ELSE root \o path
        found == files \cap IF IsAbs(wanted) THEN {wanted}
                            ELSE {SubSeq(cwd, 1, n) \o wanted : n \in DOMAIN cwd}
    IN IF found = {} THEN <<>>
       ELSE CHOOSE f \in found : \A g \in found : Len(g) <= Len(f)

\* The text of a policy: a provider and a key, both without quotes.
encodePolicySource(s) == [provider |-> Normalize(s).provider, key |-> Normalize(s).key]

\* Mutant: the policy's reader forgets where the config center is.
MergeKeyOnly(policy, fallback) ==
    [ZeroSource EXCEPT !.provider = firstNonEmpty(policy.provider, fallback.provider),
                       !.key = firstNonEmptyPath(policy.key, fallback.key)]

mergeFallback(policy, fallback) ==
    [ZeroSource EXCEPT !.provider = firstNonEmpty(policy.provider, fallback.provider),
                       !.key = firstNonEmptyPath(policy.key, fallback.key),
                       !.endpoints = fallback.endpoints,
                       !.prefix = fallback.prefix]

\* Of a text that decodes.
decodePolicySource(policy, fallback) ==
    Normalize(mergeFallback([policy EXCEPT !.key = scalar(@)], fallback))
=============================================================================
