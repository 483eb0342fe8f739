# A TLA+ verification of runtime-sdk

runtime-sdk is a Go SDK for micro-services: it assembles a service from
components, starts and stops them in order, registers the service in etcd,
finds other services there, and rebuilds the running service when an
administrator asks for it. This directory models the parts of it whose
correctness depends on the order in which goroutines, etcd and failures act,
checks the models with TLC and proves their safety properties with TLAPS.

`PROJECT.json` lists the components, the runs, the map from definitions to
source lines, the hazards and the theorems. Paths below are relative to the
repository.

## 1. Inventory

| Component | State it keeps | Operations | What makes it correct |
|---|---|---|---|
| Connection manager, `runtime/grpcclient/manager.go` | cached connections, dials in flight, `closed` | `Conn`, `waitDial`, `Close` | one dial per service at a time; no open connection is lost; nothing enters the cache after `Close`; every waiter is woken |
| Lifecycle, `runtime/lifecycle/lifecycle.go` | components, started components, `running` | `Add`, `Start`, `Stop`, `Health` | start in order, stop in reverse, start all or nothing |
| DataPlane manager, `servicekit/dataplane.go` | current generation, status | `Start`, `Rebuild`, `Stop`, `Status`, `Health` | no running generation is forgotten; the status names the current one |
| Generation numbers, `servicekit/service_dataplane.go` | one atomic counter | `nextGenerationSequence` | numbers are distinct and follow real time although the clock does not |
| Registration, `runtime/component/registration.go`, `runtime/registry/etcd.go` | the registration, health, the renew loop | `Start`, renew loop, `Stop` | a lost key comes back, a stopped service stays out of etcd |
| etcd discovery, `runtime/discovery/etcd.go` | one loop per watch, its snapshot and revision, status | `Resolve`, `Watch`, `Status` | the events add up to what etcd holds, across broken watches |
| gRPC resolver, `runtime/grpcclient/resolver.go` | known instances | `run`, `ResolveNow`, `Close` | gRPC ends with the registered addresses |
| Managed process, `servicekit/runner.go`, `control.go`, `process_control.go`, `runtime/control/control.go` | the control watcher, its etcd client | `Run`, command handling, shutdown | targeted rebuilds hit their target; shutdown ends and leaves nothing |
| Metadata publisher, `servicekit/metadata.go` | published flag, reconcile loop | `Start`, reconcile, `Stop` | a route never without its descriptor; no write after `Stop`; etcd converges to what the service declares |
| Route metadata, `runtime/gatewaymeta` | the declarations of a service, which share pointers | constructors, modifiers, `NewGatewayPublication` | what is published is valid and free of conflicts, and no longer changes |
| Memory registry and discovery, `runtime/registry/memory.go`, `runtime/discovery/memory.go` | instances, watcher channels | `Register`, `renew`, `deregister`, `Watch` | a watcher sees every change that fits its channel; a cancelled watch ends |
| Config loading, `servicekit/*config_loader.go`, `runtime/config` | keys of the config center | resolve the source, load, `PutIfAbsent`, reload | all processes use the configuration that was seeded first; nothing is overwritten |
| Service assembly, `servicekit/runtime.go`, `lifecycle.go`, `component.go` | resources created so far, identity | build, start and stop one generation | every error path releases what it owns |
| Address resolution, `servicekit/address.go` | none | resolve the advertised addresses | what is registered can be reached |
| Infra container, `servicekit/infra.go` | lazily created clients, `closed` | `MySQL`, `Redis`, ..., `Close` | one client per name; nothing open after `Close` |
| Server components, `runtime/component` | servers, listeners, `done` | `Start`, `Stop`, `Health` | `Stop` drains, ends, and releases the listener |
| Authenticator, `security/authn/grpcauth` | one connection | `Authenticate`, `Close` | one connection |
| Daily log writer, `logger/rotate.go` | open file, next rotation | `Write`, `Close` | rotation and retention by date |
| Logger, metrics, tracing, health, errors, infra clients | none of their own | adapters | |

How they interact. `Run` loads the configuration and starts the DataPlane
manager with it; the manager builds a generation, which is a lifecycle of
components (etcd client, connection manager, infra, gRPC server, registration,
metadata publisher). A control watcher in its own goroutine receives commands
from etcd and calls `Rebuild` on the same manager. Inside a generation the
registration component keeps a lease alive and renews from a goroutine of its
own. In other processes the discovery loop follows the registered keys and the
resolver turns its events into gRPC addresses, on which the connection manager
dials. What a service offers to the gateway is declared when its package is
initialised and published to etcd by its metadata publisher; what it runs with
comes from local files and a config center that several processes seed.

What is hard here: three places release a lock around a slow call and take it
again (`Conn`, `MySQL`, the authenticator); two actors rebuild and stop one
manager; etcd calls may fail after they took effect; watches break between a
snapshot and its successor; the resolver has two writers that push outside
their lock; shutdown has a deadline and may overtake a rebuild; assembly and
start can fail at every step with requests already in flight; two versions of a
service, or two processes with different local files, write the same keys.

## 2. Modules

| Module | Models | Uses |
|---|---|---|
| `ClientManager` | the connection manager, each critical section one action | |
| `ComponentStack` | abstract: a stack of live components that grows and shrinks at its top | |
| `Lifecycle` | the lifecycle with its lock, callers, failures and stale health checks | refines `ComponentStack` |
| `DataPlaneManager` | the manager over generations that may fail to build, start or stop | |
| `GenerationSequence` | the load / compare-and-swap loop over an arbitrary clock | |
| `Registration` | the component, the etcd registry and the server's leases together | |
| `EtcdDiscovery` | one watch of one service, with the history of etcd and the store at every revision | |
| `Resolver` | the resolver as the consumer of that watch | extends `EtcdDiscovery` |
| `ServiceProcess` | `Run` and the control watcher, two callers of the manager | instance of `DataPlaneManager` |
| `GatewayPublication` | the declarations, the pointers they share, what is published of them | |
| `MetadataPublisher` | the publishers of two versions of the service, each Get and Put a step | extends `GatewayPublication` |
| `ConfigSource` | the config source as values: normalisation, fallbacks, environment, bootstrap file | |
| `ConfigLoading` | the three loaders of several processes on one config center | extends `ConfigSource` |
| `InfraContainer` | the clients a generation creates on demand, and `Close` | |
| `AddressResolution` | the advertised addresses as an operator | |
| `ServiceAssembly` | one generation: assembly, the service's hook, servers, requests, `Start`, rollback, `Stop` | extends `InfraContainer`, `AddressResolution` |
| `MemoryRegistry` | the memory registry, its watcher channels and the discovery's forwarder | |
| `*Proofs` | theorems about the modules they extend; `RegistrationProofs` has those of `Registration`, `Lifecycle` and `MemoryRegistry`, `EtcdDiscoveryProofs` those of the discovery and the resolver | |
| `MC*` | what TLC checks; each `.cfg` gives the constants their values | |

Correspondence. A critical section that calls nothing slow is one action. A
slow call (a dial, an etcd call, a component's `Start` or `Stop`) is an action
of its own, with one outcome per result the code tells apart, so everything
else can happen before and after it. A lock that is held across slow calls is a
variable (`mu`); one that is not is implied by the atomicity of the action.
`pc` and its relatives say where a goroutine is. Payloads are reduced to
identities: a connection is named after the dial that made it, a generation is
its number, an etcd value is the revision (or the lease) that wrote it, an
address is the value of its instance. Time is left out: a timeout is an action
that may happen, a ticker one that eventually does. A definition whose comment
begins with *Mutant* is a plausible mistake in the definition that follows it;
substituted for it, it makes one named property fail, which shows that the
property depends on that piece of code.

`ServiceProcess` and `Resolver` reuse the actions of the module they build on
and add what their own code does around the call, in the same step: the action
of the discovery that hands over an event is the action of the resolver that
applies it. The resolver keeps a map of its own; what the events received so far
add up to stays as a history variable.

`GatewayPublication` keeps the pointers of a `RouteSpec`, because its modifiers
have value receivers and write through them: a heap of cells, and for each
declaration the cell of every pointer field. `ConfigLoading` has one process
per `ConfigLoader`; an etcd call is one step, and the keys of one load follow
each other. `ServiceAssembly` takes one step per component for the parts that
`Registration`, `MetadataPublisher` and `ClientManager` look into, and several
for the servers, whose goroutines, requests and deadlines are what its
properties are about; `sub` says how far the `Start` or `Stop` of the component
at hand is.

## 3. Runs

All runs are without symmetry, since most also check liveness.

| Run | Bounds | Distinct states | Checks |
|---|---|---|---|
| `client_manager` | 3 callers, 2 services, 3 dials | 82 388 | `SingleFlight`, `NoLeakedConn`, `ClosedIsFinal`, `ConnReturns` |
| `lifecycle` | 3 components, 2 callers | 18 709 | `UpIsPrefix`, `HealthCopyIsWhole`, `ImplementsStack` |
| `dataplane` | 3 callers, 4 generations | 10 118 | `NoOrphanGeneration`, `StatusNamesCurrent`, `OneGenerationActive` |
| `sequence` | 3 callers, clock in {1, 3}, numbers to 4 | 179 593 | `NumbersAreUnique`, `NumbersFollowRealTime` |
| `registration` | 4 leases, 3 faults | 18 095 | `StoppedStaysGone`, `KeptKeyIsRegistered`, `LostKeyComesBack` |
| `discovery` | 2 instances, 4 writes, 1 of them an odd value, 2 failures, 1 delete without its previous value, 1 spare place in the channel | 753 281 | `EventsAreSnapshot`, `SnapshotIsHistory`, `HealthyIsHonest`, `CatchesUp` |
| `process` | 3 generations, 2 commands, 1 change of the configuration, 2 ways to get instance ids | 244 576 | `CleanShutdown`, `TargetIsReplaced`, `RebuildSeesConfig`, `ShutdownEnds` |
| `resolver` | 2 instances, 2 writes, 1 of them an odd value, 1 failure, 1 delete without its previous value, 1 refresh at a time | 177 612 | `OnlyGhosts`, `RefreshRepairs` |
| `gateway` | 2 declarations, 1 modifier, 2 publishers, 2 faults | 499 130 | `PublicationIsExact`, `RouteHasDescriptor`, `RoutesAreIsolated`, `StoppedIsSilent`, `Converges` |
| `config` | 2 processes with 2 loads each, 1 edit, 1 fault | 415 802 | `SeedsAgree`, `NeverOverwrites`, `RestartIsStable` |
| `assembly` | 11 configurations, 1 request at a time, 1 goroutine of the hook, 2 infra clients created 3 times, 3 environments | 566 760 | `NoStrayClient`, `NothingLeaks`, `HandlersKeepInfra`, `RegisteredIsReachable`, `StopEnds` |
| `memory` | 2 instances, 1 watch, room for 1 event beyond the snapshot and 1 in the discovery | 920 044 | `ViewIsExact`, `WatchEnds` |

Why the bounds are enough to meet the cases the properties are about:

- *client_manager*: two callers can share a dial while a third dials another
  service or the same one again after its connection was shut down; `Close`
  falls before, during and after each dial.
- *lifecycle*: with three components a start can fail in the middle and leave a
  proper prefix to roll back; the second caller runs `Health` on a copy that
  a `Stop`, and even a restart with one more component, may overtake.
- *dataplane*: a first start, a rebuild after a failed stop, and one that
  overlaps the `Stop` of a third caller, with a generation to spare.
- *sequence*: the counter overtakes both readings of the clock, so a number
  comes from the clock, from the counter, and after a failed swap.
- *registration*: every lease but the first is granted because of a fault, so
  four leases for three faults never run out. Three faults allow a lost lease, a
  failed registration that took effect, and a failed call during `Stop`.
- *discovery*: four writes let an instance appear, change, go and come back; two
  failures let a watch break and the reload after it fail; one value may be
  odd, that is malformed or without an address, and be overwritten or deleted
  later; the channel holds one event beyond the first snapshot and is full most of the time (the code
  has eight, which only delays blocking).
- *process*: the second command can name the instance that the first one
  replaces, while the configuration changes once in between. The ids are those of
  ports that the system picks, where the watcher's own id is nobody's and an id
  comes back, or that of a fixed port, which all generations share with the
  watcher, with one generation that is not registered.
- *resolver*: two writes are a registration and its removal on either side of
  `Resolve` and `Watch`, or two registrations of which a refresh reads one;
  one of them may write a malformed value or one without an address.
- *gateway*: two declarations are what a conflict takes, and what it takes to
  share a pointer; one modifier comes before or after publication; the second
  publisher is an older version of the service that stops.
- *config*: two processes race for the seed with different files; the second
  load is a restart or a rebuild; one edit or one fault falls between any two
  calls, also between a seed and the read after it. The keys include one that
  YAML cuts at a comment, one it reads as null and one it cannot read; bootstrap
  files are found in a parent's `configs`, below `CONFIG_ROOT`, at an explicit
  path, or not at all.
- *assembly*: the configurations take every way through assembly (with and
  without registry, HTTP, config center, hook; each failing step) and address
  resolution; a third client is created while the first two are being closed.
- *memory*: the code has eight places in each channel; one makes them full
  after every other event. Watches share nothing but the instances, so one is
  enough.

Where a run does not check for deadlock the system really may stop: the bound on
its operations is used up, or the component is closed. `lifecycle` has no such
bound and is checked for deadlock.

### What the runs show

- A dial that is overtaken by `Close` is closed by the caller that made it, and
  all callers that joined it get the error; nobody waits for ever.
- At any instant the live components are a prefix of the registration order,
  and the whole runtime behaves as a stack. A `Health` that no `Stop` overtakes
  asks every component, and each of them is up.
- No generation is up without being current or in the hands of a caller. Two
  are active at once only while a `Stop`, which has released the lock, still
  stops the one it took.
- After a clean `Stop` no put of the renew loop, not even one that reported an
  error earlier, leaves the key behind. What a failed attempt put is not kept
  alive and expires.
- The discovery's events are exact: a difference is computed against what the
  consumer was told, and the watch resumes right after the snapshot. Two things keep
  the consumer apart from etcd: a key whose event was skipped stays as it was
  until its next event or the next reload, and while a malformed value is under
  the prefix no reload succeeds, so a watch that breaks stays broken for all keys.
- The resolver inherits that, but for an instance removed between its first
  `Resolve` and its `Watch`. Its two writers push outside the lock, so a refresh
  beside a busy `run` may leave older addresses; a refresh that runs alone
  repairs every such divergence. Until there is a refresh, `run` alone decides
  what gRPC has.
- A rebuild for a command that names an instance replaces a generation that
  answers to that id, or none where the id is the watcher's own and nothing runs.
- A shutdown that does not time out leaves no generation active and no watcher
  behind; one that does time out still returns, though the watcher may then
  still be in a rebuild.
- `NewGatewayPublication` accepts exactly the declarations that are valid on
  their own and free of conflicts with each other, `ANY` included, and what it
  returns shares neither backends nor policies with the declarations. The
  publisher puts descriptors before routes, so a fault or a crash in between leaves no route without one,
  writes nothing after a `Stop` that returned nil, and brings etcd to its own
  routes once it is the only version that runs.
- Whoever seeds first wins: the others read back what is there, an operator's
  value is never overwritten, and a restart gives the same source but for its
  `Root`, although the first one comes from the fallback and the later ones from
  the stored policy, provided that YAML reads the stored key as it was written.
- Every error path of assembly closes what exists; a generation whose contexts
  live leaves nothing open, requests that are drained keep their infra clients,
  and an advertised address that is not configured has the port its own listener
  is bound to (if the listen address names one, 0 included). The server is not told to stop before the registration has ended, unless the context of
  `Stop` ends while the registration waits for its renew loop. `Stop` ends
  although handlers may not.
- A watcher of the memory registry is exact but for ids whose latest event found
  its channel full.

### Where the code does not keep what one would expect

Met while modelling. The models take these steps; where a property would fail
because of one, its statement makes the exception.

- `servicekit/dataplane.go:35` calls `ManagerStatus` a snapshot of the current
  generation's state. After a failed build `Running` is false although the
  current generation runs, and after a failed stop of the old generation it is
  true although that generation is stopped. `StatusNamesCurrent` is about the
  generation's name only.
- `docs/go-template-service-example.md:693` says that a rebuild starts the new
  DataPlane and then stops the old one. `Rebuild` stops the old one first
  (`OneGenerationActive`), and a failure to start the new one leaves none.
- `runtime/discovery/discovery.go:38` says that Watch provides the changes after
  the snapshot of Resolve. A removal between the two calls is in neither
  (`OnlyGhosts`).
- Components answer a `Health` with nil after they were stopped
  (`servicekit/bound.go:56`, `runtime/component/components.go:148`,
  `runtime/component/grpc_service.go:170`), and `Runtime.Health` asks without
  the lock: one that a `Stop` overtakes may
  return nil for a runtime that is down. `HealthCopyIsWhole` says what it covers.
- One value that cannot be decoded makes every load of its prefix fail
  (`runtime/discovery/etcd.go:101`), for `Resolve` and for the reload of a broken
  watch, as long as it stays; an event with the same value is merely skipped.
  `CatchesUp` makes the exception.
- A stored source policy is written as YAML without quotes
  (`runtime/config/source.go:220`). The process that creates it goes on with its
  own key; if the key has a ` #` everybody else reads a shorter one, and with a
  `: ` every later load fails. `RestartIsStable` and the theorem of the same
  content are for keys that YAML reads back (`ReadAsWritten`).
- A registration whose `Stop` runs out of time while it waits for the renew loop
  (`runtime/component/registration.go:163`) is not deregistered: its keepalive
  has the background context (`runtime/registry/etcd.go:68`), so the key stays
  while the lifecycle goes on to stop the gRPC server. `instance.state` is then
  `"left"`, the exception of `RegisteredIsReachable`.
- The maps of a binding are copied neither by the modifiers nor by
  `NewGatewayPublication`: a service that writes to one after publication
  changes what is published. `RoutesAreIsolated` is about backends and policies.
- When the old generation fails to stop, the manager drops the one it has built
  without closing it (`servicekit/dataplane.go:97`, action `Drop`).
- `CloseComponent.Stop` returns without closing when its context has ended, and
  the lifecycle forgets the component; a registration may be left as well.
  `NothingLeaks` is for contexts that live.
- A `Configs` that is read after its `Close` opens a client again, which nobody
  closes (`runtime/config/etcd.go:173`, `ConfigsLoad`).
- A `GRPCService` whose `startHTTP` fails stops its gRPC server without waiting,
  and the rollback closes the infra container under RPCs that have begun; an
  `HTTPComponent` whose server has died does not wait for its requests either.
  Both are exceptions of `HandlersKeepInfra`.
- A control that fails to start is not stopped: its etcd client stays open
  (`servicekit/runner.go:81`, `ControlStartFails`).
- The convention loader seeds fragments as they are and validates afterwards: a
  broken local file of one process stops the others (`servicekit/convention_config_loader.go:372`).
- The stored source policy has no `Root`, so a restart loses it; `RestartIsStable`
  leaves it out.
- Route ids that differ only in slashes at their ends pass the check for
  duplicates and share an etcd key (`servicekit/metadata.go:246`): two routes
  then replace each other at every reconcile. `Converges` is for distinct keys.
- A listen address with an empty port (`10.0.0.5:`) is bound to a port that the
  system picks, but `splitServiceListenAddress` refuses it
  (`servicekit/address.go:116`) and the address is advertised as it is
  configured; `RegisteredIsReachable` is for addresses with a port, 0 included.
- A removal that a full channel drops is never repeated: the watcher of a memory
  registry keeps the instance (`runtime/registry/memory.go:231`).

## 4. Fairness

Weak fairness on the steps of a goroutine inside an operation: the Go scheduler
runs it, and the slow calls it makes return because their contexts have
deadlines (`dialTimeout`, `registrationRenewTimeout`, the lifecycle's contexts)
or because the component's own call is assumed to return. Nobody has to call an
operation, cancel a context or write to etcd. `Registration` adds that the etcd
server expires leases nobody refreshes. `ServiceProcess` uses strong fairness
for taking the manager's lock: `sync.Mutex` hands the lock to a waiter that has
waited too long, so a goroutine that asks for it gets it. In `EtcdDiscovery` the
consumer reads its channel; in `Resolver` that consumer is modelled, and stops
reading after `Close`. In `MetadataPublisher` the ticker ticks, a running
reconcile goes on, and a `Stop` whose loop has ended returns. In
`ServiceAssembly` only `Stop` is fair, and its context ends, since the manager
and the process give it a deadline; nothing is said of handlers, which may never
return. In `MemoryRegistry` the goroutines of a watch run on and the consumer
need not read.

## 5. Proofs

The theorems hold for every value of the constants: any number of callers,
services, components, generations, leases, processes, servers, clients and
faults, and any clock.

| Module | Theorems | Inductive invariant and why it is needed |
|---|---|---|
| `ClientManagerProofs` | `TypeCorrect`, `OneDialPerService`, `ConnSafety`, `CloseIsFinal`, `OutcomeStable` | `NoLeakedConn` says that an open connection is cached, in flight, or was handed out; a step of `Install` keeps that only if the dial in flight is the one `dials` holds for its service (`InFlightPublished`), belongs to one caller (`OneOwner`), and its record agrees with its phase (`PhaseSound`, `CacheSound`). |
| `DataPlaneManagerProofs` | `NoLostGeneration`, `StatusCorrect`, `ForwardOnly`, `RebuildsExclusive` | What the position of a caller says about its generations (`CallersSound`), that two `Stop`s never hold the same one (`TakenOnce`), and that generations are built in order (`BuiltInOrder`), which makes the next one larger than the current one. |
| `RegistrationProofs`, of `Registration` | `TypeCorrect`, `StopIsFinal`, `KeptKeyIsOurs` | The loop runs only after `Start` has registered and has exited before `Stop` deregisters (`LoopInTurn`), so two goroutines never register at once; a lease that is being registered has no keepalive stream yet (`FreshIsOwn`); and what `Stop` has undone by each of its calls (`StopProgress`). |
| `RegistrationProofs`, of `Lifecycle` | `StartStopSafety`, `HealthCopySound`, `Refinement` | The live components are the first `LiveCount` of the list, where `LiveCount` is the loop index while a `Stop` or a rollback runs (`UpSound`). It needs the lock discipline (`LockSound`) and that `started` is a prefix of `components` (`StartedSound`). The same invariant gives the refinement mapping: each step pushes, pops or stutters. For the copies of `Health` a second invariant (`CopySound`): a component that was started is never new again and the list only grows, so a copy stays a prefix; the runtime is running as long as no `Stop` has overtaken the copy, and only then the copy is complete. |
| `RegistrationProofs`, of `MemoryRegistry` | `MemoryTypeCorrect`, `MemoryViewIsExact` | For every watch that runs and every id whose latest event was not dropped (`missed`), the last event on its way, in the registry's channel, in the forwarder's hand or in the discovery's channel, says what the instance is now; with none on its way the view says it (`Exact`). A watch begins with nothing on its way and nothing known (`Unwatched`). As with the discovery no fold is needed. |
| `ServiceProcessProofs` | `TypeCorrect`, `UsesManager`, `ShutdownIsClean`, `CommandsHitTarget`, `RebuildsAreFresh`, and for the generation numbers `UniqueNumbers`, `IncreasingNumbers` | Uses the manager's invariant from `DataPlaneManagerProofs`, instantiated with the two goroutines of the process. Added to it: where the two are (`ProgramOrder`), that the initial configuration is used for the first build only (`BuildSound`), what shutdown has done (`ShutdownOrder`), and that the generation an accepted command found still answers to the id it names (`EffectiveId`: its own or, without one, the watcher's) until `Run` stops it (`CommandsSound`), for any way in which generations get their ids. The numbers are those of `GenerationSequence`, for any builders (its definitions have names of their own, so the module can be extended beside `ServiceProcess`): every number handed out, loaded or used as a floor is at most the counter (`CounterIsBound`), and the swap succeeds only on the value loaded, so the new number exceeds all of them. |
| `EtcdDiscoveryProofs` | `Invariant`, `TypeCorrect`, `EventsTellSnapshot`, `NoGapInHistory`, `HonestStatus` | Every revision of etcd is the one before it with one key written (`HistorySound`), so the event that the watch delivers leads from one revision to the next; a reload holds a revision, and begins only when everything is sent (`LoopSound`); the status of every place of the loop (`StatusSound`). What is compared is the store as a load lists it (`Listed`, without values that have no address), and a key whose event was skipped is left out until its next event or a reload (`missed`). What a consumer ends with is decided, key by key, by the last event for the key (`LeadsTo`), which needs no fold: the lemmas `DiffTells`, `EventTells`, `LeadsOn` and `LeadsToTail` say what a difference, an event, a send and a receive do to it. `RankIsBijective` and `SortedKeys` show that the sorted keys are all the keys. |
| `EtcdDiscoveryProofs`, of `Resolver` | `ResolverInvariant`, `ResolverFeedHasNoGap`, `ResolverOnlyGhosts` | The invariant of the discovery holds of the watch inside the resolver, since every step of the resolver is one of the discovery's or leaves it alone. Added to it: before `Watch` no event has been received, and of a ghost none is (`RunSound`); as long as gRPC has not called `ResolveNow`, the map is what the events add up to but for the ghosts, and gRPC has the map or is about to get it (`RunAlone`). |
| `GatewayProofs` | `TypeCorrect`, `PublicationIsAlwaysExact`, `RoutesAreAlwaysIsolated`, `RouteAlwaysHasDescriptor`, `StoppedIsAlwaysSilent` | That the sequential check of the routes, each against those before it, finds a conflict exactly when there is one, in whatever order they are declared, is a lemma about any routes in normal form; declarations are in that form (`DeclaredSound`), so the publication is exact when it is made. Published routes hold their own policies (`PublishedSound`), so no later write to the heap reaches them. A reconcile past its first item has stored the descriptor (`DescriptorFirst`), nobody deletes it, and only the goroutine that `pc` and `loop` name is in a reconcile (`PublisherSound`, `NotBegun`), which a clean `Stop` has seen exit. |
| `ServiceAssemblyProofs` | `Invariant`, `TypeCorrect`, `NoClientIsLost`, `RequestsKeepClients`, `RegistrationInvariant`, `LeftInvariant`, `OverIsClosed`, `RegisteredStaysReachable` | Three layers. The container: a client's number is used once (`Numbered`, `DialedIsOwn`), and what is stored and not being closed is open (`StoredIsOpen`). The lifecycle: `infra` stands before every component with a server (`BasicsFirst`), and phase, components, started ones and the one at hand agree (`AssemblyOrder`, `SubSound`). Together: a resource is open exactly as long as somebody will still close it (`ResourcesSound`, `ContainerSound`, `ClosedAfterServers`), a server that lost its component is drained (`ServersSound`), and only a started registration is renewed (`InstanceSound`). For the registered address a second invariant on top of it (`RegInv`): the components that read the addresses stand behind the server, each the only one of its name, because the plan says so and `lifecycle.Add` refuses a name twice (`ReadersLast`); hence what they read is bound (`ListenersSound`), what is kept or reported was resolved from it (`KeptSound`, `ReportedSound`), and the server is told to stop after the registration's `Stop` has returned (`StoppedLast`). That `Stop` may have left the registration alive: then its context has ended, nothing starts again, and the addresses are what they were (`LeftSound`). About the operators: the local IP that `resolveLocalAdvertiseIP` finds is usable and allowed (`LocalIP`), and of the result of `resolveListen` only the host depends on it (`ListenPort`, `BoundIsReachable`, `SamePorts`). |
| `ConfigLoadingProofs` | `Invariant`, `TypeCorrect`, `SeedersAgree`, `LoadsNeverOverwrite`, `ReloadsAreStable` | As long as no operator edits, what a process uses, and what its last load took, is what is stored (`UsedIsStored`, `LastIsStored`); a load under way has found what the last one found, or the key is still ahead of it (`LoadRepeats`). The source is the hard part: the creator of the policy goes on with its fallback, everybody else with what it decodes. The lemmas about `Normalize`, `mergeFallback` and the policy's encoding (`PolicyRoundTrip`, `CreatedAsRead`) show that the two differ in `Root` only, provided that the stored policy is some process's seed (`PolicyIsSeed`), and that no operator has edited and YAML reads it as it was written (`Trusted`). |

Assumptions, each stated next to the constants and evaluated by TLC in every
run:

- The value for "nothing" is not a caller, a dial, a service, a lease, a
  generation, a server, a client or an encoded policy (the `NilAssumption`s,
  `CallersAssumption`, `LeaseAssumption`, `ClientAssumption`,
  `ServersAssumption`, `NobodyAssumption`, `AbsentAssumption`), no instance id
  is "any" or none (`AnyAssumption`), and `run` is not a refresher (`RunAssumption`).
- Generations, clock readings and bounds are natural numbers (`GensAssumption`,
  `ClockAssumption`, `BoundsAssumption` and the like). Of the instances of a
  service there are finitely many, and they are numbers because the code sorts
  them (`KeysAssumption`); the ids of the memory registry are finitely many
  (`IdsAssumption`) and its channels have room (`RoomAssumption`).
- `OddAssumption`: a malformed value, or one without an address, is not a
  revision. `IdentitiesAssumption`: the watcher has an id, and a generation has
  one or none. `YamlAssumption`: a key that YAML misreads is read as another one,
  and is not one it cannot read.
- `PathsAssumption`: a path is its segments and whether it begins with a slash.
  `OldAssumption`: the older version of the service publishes what the code
  publishes, its descriptor, if it has one, before its routes.
- `BackgroundAssumption`: the goroutine of the hook is one of the callers of
  the container. `HookAssumption`: the hook adds none of the components that
  assembly itself has added before it; `lifecycle.Add` refuses the name.
  `NamesAssumption`: a component of the hook that is called `registry` or
  `bound_addresses` is in a service where assembly adds one of that name, and
  fails because of it; elsewhere it is the service's own, and the model has no
  behaviour for it.
- `EnvironmentsAssumption`, `EndpointsAssumption`: the machine's IPs and the
  configured endpoints are sequences, and an unspecified IP is not usable
  (`isUsableAdvertiseIP`).
- `InputAssumption`: a bootstrap file names a provider that `Source.Validate`
  accepts, or none. It was found by the proof: for any other provider
  `Normalize` fills in no key, so the policy would be stored without one and
  every reader would put its own fallback's key in its place. `ResolveSource`
  itself does not reject such a source: whoever uses it has to call `Validate`.

Each proof has the same shape: the initial states, one lemma per action (or per
kind of step, where several actions end in the same helper, as the loads do in
`Advance`), a lemma that puts them together, and a temporal step. The inductive
invariants were checked with TLC, on the instances of the runs, before they were
proved.

`OutcomeSound` (what a finished dial hands out), `AllOrNothing` (a start that
fails leaves nothing up) and `GenerationsAdvance` (the current generation only
moves forward) are proved and not part of a run. `UsesManager` shows that a
process uses its manager only through the manager's own actions, so what is
proved of the manager holds inside the process.

Only model-checked:

- the liveness properties `ConnReturns`, `LostKeyComesBack`, `CatchesUp`,
  `ShutdownEnds`, `RefreshRepairs`, `Converges`, `StopEnds` and `WatchEnds`: the
  prover has no support for fairness.

Every safety property of a run, invariant or action property, is a theorem.

## 6. Not modelled

- The authenticator has the dial-outside-the-lock shape of the infra container
  and the connection manager without their `closed` flag: a dial that ends after
  `Close` stores its connection, and nobody closes it.
- The daily log writer works under one lock, and its only hard part is a file
  that fails to close: the writer keeps it and fails until it is closed.
- Accessors and type declarations of the configuration, with no state.

Left out for good: formatting and decoding of configuration (but for the key of the
stored policy), log entries, URLs, CIDRs
and protobuf descriptors (no state); metrics, tracing and health handlers
(adapters that nothing reads back); the constructors of third-party clients
(I/O); generated code and examples. Within the modelled components the log
calls, metrics, timestamps and the wording of errors are left out, backoff
delays are reduced to "later", and of the watch status the counters are dropped.
Several watches of one service share one status record in the code; the model
has one watch.
