------------------------------- MODULE MCConfig -------------------------------
\* What two processes may be started with: bootstrap files and environments
\* that lead to different sources, and complete, incomplete, invalid and
\* missing local files.
EXTENDS ConfigLoading, TLC

NoEnv == [provider |-> "", key |-> <<>>, path |-> <<>>, endpoints |-> "", prefix |-> ""]
NoFiles == [k \in Keys |-> "missing"]
Base == [job |-> "policy", local |-> NoFiles, boot |-> ZeroBootstrap,
         files |-> {<<"/", "app", "configs", "bootstrap.yaml">>}, path |-> <<>>, root |-> <<>>,
         cwd |-> <<"/", "app", "cmd", "svc">>, bootDecodes |-> TRUE, env |-> NoEnv, disableAutoSeed |-> FALSE]

Etcd == [ZeroSource EXCEPT !.provider = "etcd", !.key = <<"k">>, !.prefix = "p"]
File == [ZeroSource EXCEPT !.provider = "file", !.root = "r"]

\* Keys that YAML reads back differently: a comment, nothing at all, and an error.
MCMisread == <<"run #1.yaml">> :> <<"run">> @@ <<"~">> :> <<>>
MCUnreadable == {<<"run: 1.yaml">>}

\* The default source of two config centers, and bootstrap files that are
\* elsewhere, missing or broken.
PolicyInputs ==
    {[Base EXCEPT !.boot.center = [prefix |-> "p", default |-> [File EXCEPT !.key = key]]] :
         key \in {<<>>, <<"run #1.yaml">>, <<"~">>, <<"run: 1.yaml">>}}
    \cup
    {[Base EXCEPT !.boot.config = Etcd],
     [Base EXCEPT !.boot.center.prefix = "p", !.boot.config = Etcd, !.env.endpoints = "x"],
     [Base EXCEPT !.boot.config = File, !.env.path = <<"my.yaml">>],
     [Base EXCEPT !.boot.config = [File EXCEPT !.key = <<"configs", "a.yaml">>],
                  !.root = <<"/", "app">>, !.cwd = <<"/">>],
     [Base EXCEPT !.files = {}],
     [Base EXCEPT !.path = <<"other", "bootstrap.yaml">>],
     [Base EXCEPT !.bootDecodes = FALSE]}

Managed(kind) == [Base EXCEPT !.job = "managed", !.local["managed"] = kind]
ManagedInputs == {Managed(k) : k \in {"file", "etcd", "incomplete", "broken"}}
                 \cup {[Managed("etcd") EXCEPT !.disableAutoSeed = TRUE]}

Convention(r, l, s) ==
    [Base EXCEPT !.job = "convention",
                 !.local = [NoFiles EXCEPT !["runtime"] = r, !["logger"] = l, !["service"] = s]]
ConventionInputs ==
    {Convention("etcd", "valid", "valid"), Convention("etcd", "missing", "valid"),
     Convention("etcd", "broken", "missing"),
     Convention("file", "valid", "valid"), Convention("incomplete", "valid", "valid")}

MCInputs == PolicyInputs \cup ManagedInputs \cup ConventionInputs

Operator(kind) == [by |-> "operator", kind |-> kind]
MCEdits ==
    {<<"policy", [provider |-> "file", key |-> <<>>]>>, <<"policy", [provider |-> "broken", key |-> <<>>]>>,
     <<"managed", Operator("file")>>, <<"managed", Operator("broken")>>,
     <<"runtime", Operator("incomplete")>>, <<"logger", Operator("valid")>>, <<"service", Operator("invalid")>>}
=============================================================================
