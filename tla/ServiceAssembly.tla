---------------------------- MODULE ServiceAssembly ---------------------------
(***************************************************************************)
(* One generation of a managed service, from newServiceLifecycle to the    *)
(* end of Stop: the resources and components that assembly creates, the    *)
(* hook of the service that runs in between, the servers, the handlers of  *)
(* requests and a goroutine of the hook that use the infra container, and  *)
(* what the error paths, Start, its rollback and Stop release.             *)
(*                                                                         *)
(* The lifecycle runs its components in order, here without callers that   *)
(* overlap; Registration, MetadataPublisher and ClientManager look inside  *)
(* three of the components, which are one step here.                       *)
(***************************************************************************)
EXTENDS InfraContainer, AddressResolution

CONSTANTS
    Configs,        \* configurations, with what the service's hook does
    Environments,   \* what the machine may say of its addresses
    Background      \* the goroutine that the hook starts: one of Callers

ASSUME BackgroundAssumption == Background \in Callers

Handlers == Callers \ {Background}
Servers == {"grpc", "http", "user_http"}

ASSUME ServersAssumption == Nil \notin Servers

\* What assembly adds before it calls the hook; lifecycle.Add refuses the hook
\* a name that is taken.
Basics == {"etcd_client", "grpc_clients", "infra", "configs"}
Others == {"grpc", "user_http", "registry", "gateway_metadata", "bound_addresses"}

ASSUME HookAssumption == \A c \in Configs : c.hook.adds \in Seq(Others)

\* A component of the hook that takes one of these names meets the one that
\* assembly adds.
ASSUME NamesAssumption ==
    \A c \in Configs : /\ "registry" \in Range(c.hook.adds) => c.registry
                       /\ "bound_addresses" \in Range(c.hook.adds) => c.onBound

\* isUsableAdvertiseIP refuses an unspecified IP.
ASSUME EnvironmentsAssumption ==
    \A env \in Environments :
        /\ env.interfaces \in Seq(Range(env.interfaces))
        /\ \A ip \in Range(env.interfaces) \cup Range(env.probe) : ip.usable => ~isWildcardListenHost(ip)

ASSUME EndpointsAssumption == \A c \in Configs : Endpoints(c) \in Seq(Range(Endpoints(c)))

VARIABLES
    cfg,
    phase,      \* what the generation is doing
    names,      \* the components added to the lifecycle
    step,       \* assembly: the next step; lifecycle: the component at hand
    sub,        \* where the Start or Stop of the component at hand is
    ctx,        \* the context of the call that runs
    res,        \* etcd client, gRPC clients and the etcd client of Configs
    server,     \* "none", or where the goroutine that serves is
    down,       \* servers that were told to stop
    bound,      \* the addresses of the listeners
    instance,   \* this generation in the registry
    identity,   \* what targeted commands are matched with
    reported,   \* what OnBound was told
    busy,       \* the server whose request each handler is in
    spawned     \* the hook has started its goroutine

assembly == <<cfg, phase, names, step, sub, ctx>>
serving == <<server, down, bound>>
published == <<instance, identity, reported>>
vars == <<infraVars, assembly, res, serving, published, busy, spawned>>

Unregistered == [state |-> "none", addr |-> [grpc |-> NoAddress, http |-> NoAddress]]

Init ==
    /\ NewInfraContainer
    /\ cfg \in Configs
    /\ phase = "assembling" /\ names = <<>> /\ step = 1 /\ sub = "begin" /\ ctx = "live"
    /\ res = [r \in {"etcd", "clients", "configs"} |-> "none"]
    /\ server = [s \in Servers |-> "none"] /\ down = {}
    /\ bound = [grpc |-> NoAddress, http |-> NoAddress]
    /\ instance = Unregistered /\ identity = Unregistered.addr /\ reported = Unregistered.addr
    /\ busy = [c \in Callers |-> Nil] /\ spawned = FALSE

-----------------------------------------------------------------------------
(* Assembly: newServiceLifecycle and AddToLifecycle *)

\* The steps that cfg leads to, in order.
Plan ==
    <<"spec">> \o (IF cfg.registry THEN <<"etcd_client", "grpc_clients">> ELSE <<>>)
    \o <<"infra", "configs", "hook", "grpc">>
    \o (IF cfg.registry THEN <<"registry">> ELSE <<>>)
    \o (IF cfg.registry /\ cfg.routes THEN <<"gateway_metadata">> ELSE <<>>)
    \o (IF cfg.onBound THEN <<"bound_addresses">> ELSE <<>>)

\* Close of Configs, Clients, or a client of etcd.
Release(S) == res' = [r \in DOMAIN res |-> IF r \in S THEN "closed" ELSE res[r]]

\* Mutant: a failed step returns without the deferred close of the infra container.
FailKeepsInfra ==
    /\ phase' = "failed"
    /\ Release({r \in DOMAIN res : res[r] # "none"})
    /\ UNCHANGED <<infraVars, cfg, names, step, sub, ctx>>

\* An error return: AddToLifecycle closes Configs, newServiceLifecycle the
\* clients and etcd, and its deferred function the infra container.
AssemblyFails ==
    /\ phase' = "failing"
    /\ Release({r \in DOMAIN res : res[r] # "none"})
    /\ CloseTakes
    /\ UNCHANGED <<cfg, names, step, sub, ctx>>

FailureReturns ==
    /\ phase = "failing"
    /\ \/ CloseNext /\ UNCHANGED phase
       \/ closing = {} /\ phase' = "failed" /\ UNCHANGED infraVars
    /\ UNCHANGED <<cfg, names, step, sub, ctx, res, serving, published, busy, spawned>>

\* lifecycle.Add refuses a name that is taken; the hook may have taken it.
Taken(n) == n \in Range(names)

Added(new) ==
    /\ names' = names \o new
    /\ IF step = Len(Plan) THEN phase' = "built" /\ step' = 0 ELSE phase' = phase /\ step' = step + 1
    /\ UNCHANGED <<cfg, sub, ctx>>

\* NewConfigs: an etcd provider has a client of its own, created on first
\* use, unless there is one to share.
OwnsClient == cfg.provider = "etcd" /\ ~cfg.registry

\* The hook: Init or InitDistributed.  It may add components, and start a
\* goroutine that reads Configs and uses the infra container.
Hook ==
    /\ spawned' = cfg.hook.spawns
    /\ IF cfg.hook.fails THEN AssemblyFails
       ELSE Added(cfg.hook.adds) /\ UNCHANGED <<infraVars, res>>

\* Each of these adds one component, or fails.
addGRPCService == ~Taken("grpc") /\ cfg.grpc # NoAddress
addServiceRegistration == ~Taken("registry")
addGatewayMetadata == ~Taken("gateway_metadata") /\ cfg.publishes
addBoundAddressReporter == ~Taken("bound_addresses")

Adds(n) == CASE n = "grpc" -> addGRPCService
             [] n = "registry" -> addServiceRegistration
             [] n = "gateway_metadata" -> addGatewayMetadata
             [] n = "bound_addresses" -> addBoundAddressReporter
             [] OTHER -> ~Taken(n)

NewSpec == cfg.spec

Opens(r) == res' = [res EXCEPT ![r] = "open"]

AssemblyStep ==
    /\ phase = "assembling"
    /\ LET n == Plan[step] IN
       \/ /\ n = "spec"                        \* before anything exists
          /\ IF NewSpec THEN Added(<<>>) /\ UNCHANGED <<infraVars, res>> ELSE AssemblyFails
          /\ UNCHANGED spawned
       \/ n = "hook" /\ Hook
       \/ /\ n = "etcd_client"                 \* NewClientAndWait
          /\ \/ AssemblyFails
             \/ Opens("etcd") /\ Added(<<n>>) /\ UNCHANGED infraVars
          /\ UNCHANGED spawned
       \/ /\ n = "grpc_clients"
          /\ Opens("clients") /\ Added(<<n>>) /\ UNCHANGED <<infraVars, spawned>>
       \/ /\ n = "configs"
          /\ IF cfg.provider = "unsupported" THEN AssemblyFails
             ELSE /\ Added(<<n>>)
                  /\ res' = [res EXCEPT !["configs"] = IF OwnsClient THEN "idle" ELSE "none"]
                  /\ UNCHANGED infraVars
          /\ UNCHANGED spawned
       \/ /\ n \notin {"spec", "hook", "etcd_client", "grpc_clients", "configs"}
          /\ IF Adds(n) THEN Added(<<n>>) /\ UNCHANGED <<infraVars, res>> ELSE AssemblyFails
          /\ UNCHANGED spawned
    /\ UNCHANGED <<serving, published, busy>>

\* The goroutine of the hook reads Configs.  ensureClient makes a client where
\* there is none, also after Close: nobody closes that one.
ConfigsLoad ==
    /\ spawned /\ OwnsClient
    /\ res' = [res EXCEPT !["configs"] = IF @ \in {"idle", "open"} THEN "open" ELSE "reopened"]
    /\ UNCHANGED <<infraVars, assembly, serving, published, busy, spawned>>

\* The manager gives a generation up that it has built, because the one
\* before it did not stop.
Drop ==
    /\ phase = "built" /\ phase' = "dropped"
    /\ UNCHANGED <<infraVars, cfg, names, step, sub, ctx, res, serving, published, busy, spawned>>

-----------------------------------------------------------------------------
(* Servers: GRPCService with its two listeners, and HTTPComponent *)

\* The goroutine calls Serve, which closes the listener of a server that has
\* been stopped in the meantime.
Serve(s) ==
    /\ server[s] = "spawned"
    /\ server' = [server EXCEPT ![s] = IF s \in down THEN "closed" ELSE "serving"]
    /\ UNCHANGED <<infraVars, assembly, res, down, bound, published, busy, spawned>>

\* Serve returns an error, which is logged.
ServeFails(s) ==
    /\ server[s] = "serving"
    /\ server' = [server EXCEPT ![s] = "died"]
    /\ UNCHANGED <<infraVars, assembly, res, down, bound, published, busy, spawned>>

\* What Shutdown, GracefulStop and Stop do at once.
StopServing(s) ==
    /\ down' = down \cup {s}
    /\ server' = [server EXCEPT ![s] = IF @ = "serving" THEN "closed" ELSE @]

Idle(s) == \A h \in Handlers : busy[h] # s

HandlerBegins(h) ==
    /\ busy[h] = Nil
    /\ \E s \in Servers : server[s] = "serving" /\ busy' = [busy EXCEPT ![h] = s]
    /\ UNCHANGED <<infraVars, assembly, res, serving, published, spawned>>

HandlerEnds(h) ==
    /\ busy[h] # Nil /\ ~InCall(h)
    /\ busy' = [busy EXCEPT ![h] = Nil]
    /\ call' = [call EXCEPT ![h] = NoCall]
    /\ UNCHANGED <<closed, slot, closing, open, made, assembly, res, serving, published, spawned>>

\* A handler, or the goroutine of the hook, uses the infra container.
UseInfra(c) ==
    /\ IF c = Background THEN spawned ELSE busy[c] # Nil
    /\ Use(c)
    /\ UNCHANGED <<assembly, res, serving, published, busy, spawned>>

-----------------------------------------------------------------------------
(* Start, and what each component's Start does *)

StartCall ==
    /\ phase = "built"
    /\ phase' = "starting" /\ step' = 1 /\ ctx' = "live"
    /\ UNCHANGED <<infraVars, cfg, names, sub, res, serving, published, busy, spawned>>

Component == names[step]
Alive == ctx = "live"

\* The component at hand has started, or has failed and what was started
\* before it is stopped; or its Start, or its Stop, goes on.
Started == /\ sub' = "begin"
           /\ IF step = Len(names) THEN phase' = "up" /\ step' = 0 ELSE phase' = phase /\ step' = step + 1
StartFails == phase' = "rollback" /\ step' = step - 1 /\ sub' = "begin"
GoesOn(where) == step' = step /\ sub' = where

\* CloseComponent.Start, Clients.Start
StartPlain ==
    /\ Component \in Basics
    /\ IF Alive THEN Started ELSE StartFails
    /\ UNCHANGED <<serving, published>>

\* net.Listen: the system picks the port for port 0, or an empty one, another
\* for each listener.
Picked(l) == IF l = "grpc" THEN "picked_grpc" ELSE "picked_http"
Bound(l, a) == IF a.port \in {"", "0"} THEN JoinHostPort(a.host, Picked(l)) ELSE a

\* GRPCService.Start up to startHTTP: the goroutine of the server may serve
\* from here on.
StartGRPCServer ==
    /\ sub = "begin"
    /\ \/ StartFails /\ UNCHANGED serving
       \/ /\ bound' = [bound EXCEPT !.grpc = Bound("grpc", cfg.grpc)]
          /\ server' = [server EXCEPT !["grpc"] = "spawned"]
          /\ UNCHANGED down
          /\ IF cfg.http = NoAddress THEN Started ELSE GoesOn("http") /\ UNCHANGED phase

\* A handler that cannot be registered, or an address that cannot be listened
\* on, is an error; Start then stops the gRPC server without waiting for the
\* RPCs that have begun.
startHTTP ==
    /\ sub = "http"
    /\ \/ StartFails /\ StopServing("grpc") /\ UNCHANGED bound
       \/ /\ bound' = [bound EXCEPT !.http = Bound("http", cfg.http)]
          /\ server' = [server EXCEPT !["http"] = "spawned"]
          /\ Started /\ UNCHANGED down

StartGRPC == Component = "grpc" /\ (StartGRPCServer \/ startHTTP) /\ UNCHANGED published

\* HTTPComponent.Start
StartHTTP ==
    /\ Component = "user_http"
    /\ \/ StartFails /\ UNCHANGED serving
       \/ /\ Alive /\ Started
          /\ server' = [server EXCEPT !["user_http"] = "spawned"]
          /\ UNCHANGED <<down, bound>>
    /\ UNCHANGED published

\* The instance factory of addServiceRegistration resolves the addresses and
\* sets the identity; Register, which may fail, puts the key.
StartRegistration ==
    /\ Component = "registry"
    /\ \E env \in Environments :
          \/ resolutionFails(cfg, env) /\ StartFails /\ UNCHANGED <<instance, identity>>
          \/ /\ ~resolutionFails(cfg, env)
             /\ identity' = resolveAllWithBound(cfg, bound, env)
             /\ \/ StartFails /\ UNCHANGED instance
                \/ Alive /\ Started /\ instance' = [state |-> "kept", addr |-> identity']
    /\ UNCHANGED <<serving, reported>>

\* MetadataPublisher.Start: the first reconcile.
StartMetadata ==
    /\ Component = "gateway_metadata"
    /\ StartFails \/ (Alive /\ Started)
    /\ UNCHANGED <<serving, published>>

\* boundAddressComponent.Start resolves the addresses again.
StartBound ==
    /\ Component = "bound_addresses"
    /\ \E env \in Environments :
          \/ (~Alive \/ resolutionFails(cfg, env)) /\ StartFails /\ UNCHANGED reported
          \/ /\ Alive /\ ~resolutionFails(cfg, env) /\ Started
             /\ reported' = resolveAllWithBound(cfg, bound, env)
    /\ UNCHANGED <<serving, instance, identity>>

StartComponent ==
    /\ phase = "starting"
    /\ StartPlain \/ StartGRPC \/ StartHTTP \/ StartRegistration \/ StartMetadata \/ StartBound
    /\ UNCHANGED <<infraVars, cfg, names, ctx, res, busy, spawned>>

-----------------------------------------------------------------------------
(* Stop, the rollback of Start, and what each component's Stop does *)

StopCall ==
    /\ phase = "up"
    /\ phase' = "stopping" /\ step' = Len(names) /\ ctx' = "live"
    /\ UNCHANGED <<infraVars, cfg, names, sub, res, serving, published, busy, spawned>>

CtxEnds ==
    /\ phase \in {"starting", "rollback", "stopping"} /\ Alive
    /\ ctx' = "ended"
    /\ UNCHANGED <<infraVars, cfg, phase, names, step, sub, res, serving, published, busy, spawned>>

Stopped == step' = step - 1 /\ sub' = "begin"

\* Clients.Stop closes, whether the context has ended or not.
StopClients == Release({"clients"})

\* CloseComponent.Stop does nothing once the context has ended.
StopPlain ==
    /\ \/ /\ Component \in {"etcd_client", "configs"} /\ Alive
          /\ Release({IF Component = "configs" THEN "configs" ELSE "etcd"} \cap {r \in DOMAIN res : res[r] # "none"})
       \/ Component \in {"etcd_client", "configs"} /\ ~Alive /\ UNCHANGED res
       \/ Component = "grpc_clients" /\ StopClients
    /\ Stopped
    /\ UNCHANGED <<infraVars, serving, instance>>

\* CloseComponent.Stop with InfraContainer.Close
StopInfra ==
    /\ Component = "infra"
    /\ \/ sub = "begin" /\ ~Alive /\ Stopped /\ UNCHANGED infraVars
       \/ sub = "begin" /\ Alive /\ CloseTakes /\ GoesOn("closing")
       \/ sub = "closing" /\ CloseNext /\ GoesOn("closing")
       \/ sub = "closing" /\ closing = {} /\ Stopped /\ UNCHANGED infraVars
    /\ UNCHANGED <<res, serving, instance>>

\* HTTPComponent.Stop: nothing to do for a server that has died.
StopHTTP ==
    /\ Component = "user_http"
    /\ \/ sub = "begin" /\ server["user_http"] = "died" /\ Stopped /\ UNCHANGED <<server, down>>
       \/ sub = "begin" /\ server["user_http"] # "died" /\ StopServing("user_http") /\ GoesOn("wait")
       \/ sub = "wait" /\ (Idle("user_http") \/ ~Alive) /\ Stopped /\ UNCHANGED <<server, down>>
    /\ UNCHANGED <<infraVars, res, bound, instance>>

\* Mutant: GracefulStop without the context.
WaitsForAll ==
    /\ Component = "grpc"
    /\ \/ sub = "begin" /\ cfg.http # NoAddress /\ StopServing("http") /\ GoesOn("http")
       \/ sub = "begin" /\ cfg.http = NoAddress /\ StopServing("grpc") /\ GoesOn("grpc")
       \/ sub = "http" /\ (Idle("http") \/ ~Alive) /\ StopServing("grpc") /\ GoesOn("grpc")
       \/ sub = "grpc" /\ Idle("grpc") /\ Stopped /\ UNCHANGED <<server, down>>
    /\ UNCHANGED <<infraVars, res, bound, instance>>

\* Mutant: Stop at once instead of GracefulStop.
WaitsForNone ==
    /\ Component = "grpc"
    /\ \/ sub = "begin" /\ cfg.http # NoAddress /\ StopServing("http") /\ GoesOn("http")
       \/ sub = "begin" /\ cfg.http = NoAddress /\ StopServing("grpc") /\ GoesOn("grpc")
       \/ sub = "http" /\ (Idle("http") \/ ~Alive) /\ StopServing("grpc") /\ GoesOn("grpc")
       \/ sub = "grpc" /\ Stopped /\ UNCHANGED <<server, down>>
    /\ UNCHANGED <<infraVars, res, bound, instance>>

(* GRPCService.Stop: Shutdown of the HTTP server waits for its requests,   *)
(* then GracefulStop for the RPCs, both until the context ends.            *)
StopGRPC ==
    /\ Component = "grpc"
    /\ \/ sub = "begin" /\ cfg.http # NoAddress /\ StopServing("http") /\ GoesOn("http")
       \/ sub = "begin" /\ cfg.http = NoAddress /\ StopServing("grpc") /\ GoesOn("grpc")
       \/ sub = "http" /\ (Idle("http") \/ ~Alive) /\ StopServing("grpc") /\ GoesOn("grpc")
       \/ sub = "grpc" /\ (Idle("grpc") \/ ~Alive) /\ Stopped /\ UNCHANGED <<server, down>>
    /\ UNCHANGED <<infraVars, res, bound, instance>>

\* A Deregister that fails has stopped the keepalive, and leaves the key to its
\* lease.  A Stop whose context ends while it waits for the renew loop has not
\* come to Deregister: nobody renews the registration, but its keepalive, which
\* has a context of its own, goes on for as long as the etcd client is open.
Leaves(state) == instance' = [instance EXCEPT !.state = IF @ = "kept" THEN state ELSE @]

StopRegistration ==
    /\ Component = "registry"
    /\ \/ Alive /\ res["etcd"] = "open" /\ instance' = Unregistered
       \/ Leaves("lapsing")
       \/ ~Alive /\ Leaves("left")
    /\ Stopped
    /\ UNCHANGED <<infraVars, res, serving>>

LeaseExpires ==
    /\ instance.state = "lapsing" /\ instance' = Unregistered
    /\ UNCHANGED <<infraVars, assembly, res, serving, identity, reported, busy, spawned>>

\* MetadataPublisher.Stop waits for its loop, boundAddressComponent.Stop does nothing.
StopQuiet ==
    /\ Component \in {"gateway_metadata", "bound_addresses"}
    /\ Stopped
    /\ UNCHANGED <<infraVars, res, serving, instance>>

StopComponent ==
    /\ phase \in {"rollback", "stopping"} /\ step > 0
    /\ StopPlain \/ StopInfra \/ StopHTTP \/ StopGRPC \/ StopRegistration \/ StopQuiet
    /\ UNCHANGED <<cfg, phase, names, ctx, identity, reported, busy, spawned>>

StopReturns ==
    /\ phase \in {"rollback", "stopping"} /\ step = 0
    /\ phase' = IF phase = "rollback" THEN "startFailed" ELSE "stopped"
    /\ UNCHANGED <<infraVars, cfg, names, step, sub, ctx, res, serving, published, busy, spawned>>

-----------------------------------------------------------------------------
Next ==
    \/ AssemblyStep \/ FailureReturns \/ Drop
    \/ StartCall \/ StartComponent \/ StopCall \/ StopComponent \/ StopReturns \/ CtxEnds
    \/ \E s \in Servers : Serve(s) \/ ServeFails(s)
    \/ \E h \in Handlers : HandlerBegins(h) \/ HandlerEnds(h)
    \/ \E c \in Callers : UseInfra(c)
    \/ ConfigsLoad \/ LeaseExpires

(* Stop goes on while it can, and its context ends: the manager and the    *)
(* process give it a timeout.  Nothing is said of handlers, which may      *)
(* never return.                                                           *)
Spec ==
    /\ Init /\ [][Next]_vars
    /\ WF_vars(StopComponent) /\ WF_vars(StopReturns)
    /\ WF_vars(phase = "stopping" /\ CtxEnds)

-----------------------------------------------------------------------------
(***************************************************************************)
(* When a generation is over, because its assembly or its Start has failed *)
(* or because Stop has returned, all that it opened is closed: the etcd    *)
(* client, the gRPC clients, Configs, the infra clients that goroutines    *)
(* create in the meantime, the listeners whose goroutine had not begun to  *)
(* serve, and its registration is not kept alive.  A context that ends     *)
(* during Start or Stop is the only excuse: CloseComponent.Stop then       *)
(* returns without closing, and the registration may be left.  A Configs   *)
(* that is used after its Close opens a client again ("reopened"), and a   *)
(* generation that is dropped keeps what it has.                           *)
(***************************************************************************)
NothingLeaks ==
    (phase = "failed" \/ (phase \in {"startFailed", "stopped"} /\ Alive)) =>
        /\ \A r \in DOMAIN res : res[r] \notin {"open", "idle"}
        /\ \A id \in open : \E c \in Callers : call[c].at = "dialed" /\ call[c].client = id
        /\ \A s \in Servers : server[s] # "serving" /\ (server[s] = "spawned" => s \in down)
        /\ instance.state \notin {"kept", "left"}

(***************************************************************************)
(* A request that is served while the generation stops, or while a failed  *)
(* Start is rolled back, keeps its infra clients: the container is closed  *)
(* after the servers have drained, unless the context ended while they     *)
(* did.  Two cases have no such promise: HTTPComponent does not wait for   *)
(* the requests of a server that has died, and a GRPCService whose         *)
(* startHTTP fails does not wait for the RPCs that have begun.             *)
(***************************************************************************)
HandlersKeepInfra ==
    \A h \in Handlers :
        (/\ busy[h] # Nil /\ Alive
         /\ ~(busy[h] = "user_http" /\ server["user_http"] = "died")
         /\ ~(busy[h] = "grpc" /\ cfg.http # NoAddress /\ bound.http = NoAddress)) =>
            /\ call[h].at # "refused"
            /\ call[h].at = "returned" => call[h].client \in open

(***************************************************************************)
(* While an instance is kept alive in the registry its gRPC server has not *)
(* been told to stop, but for a registration that Stop gave up, and the    *)
(* address is one that others can reach: the port its own listener is      *)
(* bound to, also if the system picked it, and a host that is the          *)
(* configured one or an allowed local IP.  OnBound, which resolves the     *)
(* addresses a second time, is told the same ports, and commands find the  *)
(* instance under the address it is registered with.  Two cases have no    *)
(* such promise.  A Stop whose context ended while it waited for the renew *)
(* loop leaves the key alive ("left"), and the server is stopped.  And of  *)
(* a listen address whose port is left empty, net.Listen picks the port,   *)
(* and resolveListen returns the address as it is configured.              *)
(***************************************************************************)
RegisteredIsReachable ==
    instance.state \in {"kept", "left"} =>
        /\ server["grpc"] # "none"
        /\ "grpc" \in down => instance.state = "left" /\ ~Alive
        /\ identity = instance.addr
        /\ (cfg.advertiseGRPC = NoAddress /\ cfg.grpc.port # "") =>
              /\ instance.addr.grpc.port = bound.grpc.port
              /\ ~isWildcardListenHost(instance.addr.grpc.host)
              /\ isWildcardListenHost(cfg.grpc.host) => /\ instance.addr.grpc.host.usable
                                                        /\ ipAllowedByCIDRs(instance.addr.grpc.host, cfg.cidrs)
        /\ (cfg.http # NoAddress /\ cfg.advertiseHTTP = NoAddress /\ cfg.http.port # "") =>
              instance.addr.http.port = bound.http.port
        /\ reported # Unregistered.addr =>
              /\ reported.grpc.port = instance.addr.grpc.port
              /\ reported.http.port = instance.addr.http.port

\* Stop returns, whatever the handlers do.
StopEnds == phase = "stopping" ~> phase = "stopped"
=============================================================================
