-------------------------- MODULE GatewayPublication --------------------------
(***************************************************************************)
(* runtime/gatewaymeta: how a service declares its HTTP routes and turns   *)
(* them into the metadata that gateways read.                              *)
(*                                                                         *)
(* A GatewayRouteSpec is passed by value, but its Backend, Auth and        *)
(* Response are pointers and its bindings are maps: a modifier called on a *)
(* copy writes through them.  The heap is modelled, and a spec holds a     *)
(* reference for each such field (0 is nil).                               *)
(*                                                                         *)
(* Names are sequences of words, what identifierWords makes of them; an    *)
(* empty sequence is an empty string.  A route id may carry slashes at its *)
(* ends, a public path may lack the leading one.                           *)
(***************************************************************************)
EXTENDS Naturals, Sequences, SequencesExt

CONSTANTS
    Nil,
    Service,    \* the service's name
    Ids,        \* names used as explicit route ids
    RPCs,       \* names used as RPC methods
    Methods,    \* the RPC methods of the proto file
    HTTPMethods,\* the HTTP methods of declarations, "*" among them
    Paths,      \* public paths
    MaxSpecs,   \* bound: declarations
    MaxMods     \* bound: calls of modifiers

\* A path is its segments, and whether it begins with a slash.
ASSUME PathsAssumption == \A p \in Paths : DOMAIN p = {"seg", "rooted"} /\ p.rooted \in BOOLEAN
ASSUME MaxSpecsAssumption == MaxSpecs \in Nat

VARIABLES
    file,       \* GatewayPublicationSpec.File is given, and in order
    heap,       \* the objects that specs point to
    specs,      \* the declarations made so far
    mods,       \* calls of modifiers so far
    outcome,    \* of NewGatewayPublication: none, accepted or rejected
    routes      \* the routes of an accepted publication

declaring == <<file, heap, specs, mods, outcome, routes>>

Pointers == {"backend", "path", "query", "auth", "response"}

NoId == [name |-> <<>>, slashes |-> FALSE]
EmptyHTTP == [service |-> "none", path |-> "", stream |-> ""]
EmptyWebSocket == [service |-> "none", path |-> ""]
NewBackend(type) == [type |-> type, http |-> Nil, websocket |-> Nil]
NewRaw == [body |-> "body", status |-> "status", headers |-> "headers"]

NewSpec(id, rpc, method, path, backend) ==
    [id |-> id, rpc |-> rpc, method |-> method, path |-> path, body |-> "", timeout |-> "",
     ref |-> [f \in Pointers |-> IF f = "backend" THEN backend ELSE 0]]

-----------------------------------------------------------------------------
(* Normalisation *)

normalizeHTTPMethod(m) == IF m = "*" THEN "ANY" ELSE m

NormalizedMethod(r) == normalizeHTTPMethod(r.method)

gatewayRoutePath(p) == [p EXCEPT !.rooted = TRUE]

\* "bad" stands for a path with a scheme, a query, a fragment or an empty segment.
normalizeHTTPBackendPath(p) == IF p = "bare" THEN "rooted" ELSE p

hasWordSuffix(words, suffix) == suffix # <<>> /\ IsSuffix(suffix, words)

(* The service's name is cut off the end of the method's: GetUser of the   *)
(* service user becomes user.get.  The service's part of the id is left    *)
(* out, since it is the same for every route of a publication.             *)
defaultGatewayRouteID(rpc) ==
    [name |-> IF Len(rpc) > Len(Service) /\ hasWordSuffix(rpc, Service)
              THEN SubSeq(rpc, 1, Len(rpc) - Len(Service)) ELSE rpc,
     slashes |-> FALSE]

-----------------------------------------------------------------------------
(* Constructors and modifiers.  Each returns the heap and the spec after   *)
(* the call; the arguments are what a declaration may sensibly, or by      *)
(* mistake, pass.                                                          *)

Result(h, s) == [heap |-> h, spec |-> s]
WithBackend(b, id, m, p) == Result(Append(heap, b), NewSpec(id, <<>>, m, p, Len(heap) + 1))

HTTP(m, rpc, p) == Result(heap, NewSpec(NoId, rpc, normalizeHTTPMethod(m), p, 0))

\* The struct written out, with nothing normalised.
Literal(id, m, rpc, p) == Result(heap, NewSpec(id, rpc, m, p, 0))

HTTPProxy(id, m, p, service) ==
    WithBackend([NewBackend("http") EXCEPT !.http = [EmptyHTTP EXCEPT !.service = service]],
                id, normalizeHTTPMethod(m), p)

WSProxy(id, p) ==
    WithBackend([NewBackend("websocket") EXCEPT !.websocket = [EmptyWebSocket EXCEPT !.service = "named"]],
                id, "GET", p)

\* A field of the struct that is a pointer or a map: allocated when it is
\* nil, otherwise written in place, for everybody who shares it.
Write(s, f, fresh, Set(_)) ==
    IF s.ref[f] = 0
    THEN Result(Append(heap, Set(fresh)), [s EXCEPT !.ref[f] = Len(heap) + 1])
    ELSE Result([heap EXCEPT ![s.ref[f]] = Set(@)], s)

OrNew(x, new) == IF x = Nil THEN new ELSE x

UpstreamPath(s, p) ==
    Write(s, "backend", NewBackend("http"), LAMBDA b : [b EXCEPT !.http =
              [OrNew(b.http, EmptyHTTP) EXCEPT !.path = normalizeHTTPBackendPath(p)]])

SSE(s) ==
    Write(s, "backend", NewBackend("http"), LAMBDA b : [b EXCEPT !.http =
              [OrNew(b.http, EmptyHTTP) EXCEPT !.stream = "sse"]])

UpstreamWSPath(s, p) ==
    Write(s, "backend", NewBackend("websocket"), LAMBDA b : [b EXCEPT !.websocket =
              [OrNew(b.websocket, EmptyWebSocket) EXCEPT !.path = normalizeHTTPBackendPath(p)]])

\* Path and Query bind one parameter, in the map of that name.
Bind(s, map) == Write(s, map, [params |-> {}], LAMBDA m : [params |-> m.params \cup {"id"}])

Body(s) == Result(heap, [s EXCEPT !.body = "*"])
Timeout(s, t) == Result(heap, [s EXCEPT !.timeout = t])
Public(s) == Write(s, "auth", [public |-> FALSE], LAMBDA a : [a EXCEPT !.public = TRUE])

\* RawResponse replaces the policy by a new one.
RawResponse(s) == Result(Append(heap, NewRaw), [s EXCEPT !.ref["response"] = Len(heap) + 1])

\* RawBody, RawStatus and RawHeaders change the policy there is.
RawField(s, f, v) == Write(s, "response", NewRaw, LAMBDA r : [r EXCEPT ![f] = v])

Constructed ==
    {HTTP(m, rpc, p) : m \in HTTPMethods, rpc \in RPCs, p \in Paths}
    \cup {Literal(id, "*", rpc, p) : id \in Ids, rpc \in Methods, p \in Paths}
    \cup {HTTPProxy(id, m, p, "named") : id \in Ids, m \in HTTPMethods, p \in Paths}
    \cup {HTTPProxy(id, "GET", p, "none") : id \in Ids, p \in Paths}
    \cup {WSProxy(id, p) : id \in Ids, p \in Paths}

Modified(s) ==
    {UpstreamPath(s, p) : p \in {"bare", "bad"}} \cup {UpstreamWSPath(s, "bare"), SSE(s)}
    \cup {Bind(s, map) : map \in {"path", "query"}} \cup {Body(s), Public(s), RawResponse(s)}
    \cup {Timeout(s, t) : t \in {"valid", "invalid"}}
    \cup {RawField(s, "body", ""), RawField(s, "status", "code")}

-----------------------------------------------------------------------------
(* NewGatewayPublication *)

At(s, f) == heap[s.ref[f]]
IsBackend(s, type) == s.ref["backend"] # 0 /\ At(s, "backend").type = type
isHTTPBackend(s) == IsBackend(s, "http")
isWebSocketBackend(s) == IsBackend(s, "websocket")
isDescriptorRoute(s) == ~isHTTPBackend(s) /\ ~isWebSocketBackend(s)

\* What a field of a route holds: a value of its own, or what a spec points to.
Held(x) == IF "shared" \in DOMAIN x THEN (IF x.shared = 0 THEN Nil ELSE heap[x.shared]) ELSE x.own

\* Mutant: the published route keeps the declaration's pointers.
CloneNothing(s, f) == [shared |-> s.ref[f]]

\* cloneBackendMeta, cloneAuthPolicy, cloneResponsePolicy
Clone(s, f) == [own |-> IF s.ref[f] = 0 THEN Nil ELSE At(s, f)]

\* The maps of the binding are not cloned.
NewRoute(id, s, backend, grpc) ==
    [id |-> id, grpc |-> grpc, method |-> s.method, path |-> gatewayRoutePath(s.path), backend |-> backend,
     auth |-> Clone(s, "auth"), response |-> Clone(s, "response"),
     bindPath |-> [shared |-> s.ref["path"]], bindQuery |-> [shared |-> s.ref["query"]],
     body |-> s.body, timeout |-> s.timeout]

NewDescriptorRoute(s) ==
    NewRoute(IF s.id = NoId THEN defaultGatewayRouteID(s.rpc) ELSE s.id, s, [own |-> NewBackend("grpc")], TRUE)

newBackendRoute(s) == NewRoute(s.id, s, Clone(s, "backend"), FALSE)

RouteOf(s) == IF isDescriptorRoute(s) THEN NewDescriptorRoute(s) ELSE newBackendRoute(s)

BackendType(r) == Held(r.backend).type

validateHTTPBackendPath(p) == p # "bad"

\* The gRPC fields of a route, which are filled in together.
validateGRPCMeta(r) == r.grpc
isZeroGRPCMeta(r) == ~r.grpc

\* "invalid" is a timeout that does not parse or is not positive.
TimeoutDuration(r) == r.timeout # "invalid"

\* No protobuf binding and no raw response on a proxied route.
IsPlain(r) ==
    /\ Held(r.bindPath) = Nil /\ Held(r.bindQuery) = Nil /\ r.body = ""
    /\ Held(r.response) = Nil

validateHTTPBackend(r) ==
    LET h == Held(r.backend).http IN
    /\ h # Nil /\ isZeroGRPCMeta(r) /\ h.service # "none" /\ validateHTTPBackendPath(h.path)
    /\ h.stream = "sse" => NormalizedMethod(r) = "GET"
    /\ IsPlain(r)

validateWebSocketBackend(r) ==
    LET w == Held(r.backend).websocket IN
    /\ w # Nil /\ isZeroGRPCMeta(r) /\ w.service # "none" /\ validateHTTPBackendPath(w.path)
    /\ NormalizedMethod(r) = "GET"
    /\ IsPlain(r)

Validate(r) ==
    /\ r.id.name # <<>>
    /\ r.method # ""
    /\ TimeoutDuration(r)
    /\ BackendType(r) = "grpc" => validateGRPCMeta(r)
    /\ BackendType(r) = "http" => validateHTTPBackend(r)
    /\ BackendType(r) = "websocket" => validateWebSocketBackend(r)
    /\ Held(r.response) # Nil => Held(r.response).body # ""

\* Mutant: a route for one method does not look for a route for any method.
AddRouteMissesAny(seen, r) ==
    LET m == NormalizedMethod(r) IN
    /\ r.id \notin {q.id : q \in seen}
    /\ <<m, r.path>> \notin {<<NormalizedMethod(q), q.path>> : q \in seen}
    /\ m = "ANY" => r.path \notin {q.path : q \in seen}

\* One turn of the loop of validatePublishedRoutes: what its four maps hold of
\* the routes before this one must not turn it down.
AddRoute(seen, r) ==
    LET m == NormalizedMethod(r)
        ids == {q.id : q \in seen}
        httpRoutes == {<<NormalizedMethod(q), q.path>> : q \in seen}
        anyRoutes == {q.path : q \in {x \in seen : NormalizedMethod(x) = "ANY"}}
        concreteRoutes == {q.path : q \in {x \in seen : NormalizedMethod(x) # "ANY"}}
    IN /\ r.id \notin ids /\ <<m, r.path>> \notin httpRoutes
       /\ r.path \notin anyRoutes
       /\ m = "ANY" => r.path \notin concreteRoutes

validatePublishedRoutes(rs) ==
    \A i \in DOMAIN rs : AddRoute({rs[j] : j \in 1..(i - 1)}, rs[i])

\* The proto file is given, has a package and exactly one service.
serviceDescriptor == file

SpecIsBuildable(s) ==
    /\ isDescriptorRoute(s) => serviceDescriptor /\ s.rpc \in Methods
    /\ Validate(RouteOf(s))

NewRoutes == [i \in DOMAIN specs |-> RouteOf(specs[i])]

NewGatewayPublication ==
    /\ specs # <<>>
    /\ \A i \in DOMAIN specs : SpecIsBuildable(specs[i])
    /\ validatePublishedRoutes(NewRoutes)

-----------------------------------------------------------------------------
DeclareInit ==
    /\ file \in BOOLEAN /\ heap = <<>> /\ specs = <<>> /\ mods = 0
    /\ outcome = "none" /\ routes = <<>>

Declare ==
    /\ outcome = "none"
    /\ Len(specs) < MaxSpecs
    /\ \E c \in Constructed : heap' = c.heap /\ specs' = Append(specs, c.spec)
    /\ UNCHANGED <<file, mods, outcome, routes>>

(* A modifier is called on a declaration; the copy it returns replaces the *)
(* declaration or becomes one more.  A service that keeps its declarations *)
(* may go on doing so when they are published.                             *)
Modify ==
    /\ mods < MaxMods /\ mods' = mods + 1
    /\ outcome # "rejected"
    /\ \E i \in DOMAIN specs : \E m \in Modified(specs[i]) :
          /\ heap' = m.heap
          /\ \/ specs' = [specs EXCEPT ![i] = m.spec]
             \/ outcome = "none" /\ Len(specs) < MaxSpecs /\ specs' = Append(specs, m.spec)
    /\ UNCHANGED <<file, outcome, routes>>

Publish ==
    /\ outcome = "none"
    /\ IF NewGatewayPublication
       THEN outcome' = "accepted" /\ routes' = NewRoutes
       ELSE outcome' = "rejected" /\ UNCHANGED routes
    /\ UNCHANGED <<file, heap, specs, mods>>

-----------------------------------------------------------------------------
(* Properties *)

\* The methods of requests: those that a declaration names, and others.
Request == {"GET", "POST", "PUT"} \cup (HTTPMethods \ {"*", "ANY"})
Serves(r, m) == r.method \in {m, "ANY", "*"}

Conflict(r, q) ==
    \/ r.id = q.id
    \/ r.path.seg = q.path.seg /\ \E m \in Request : Serves(r, m) /\ Serves(q, m)

(***************************************************************************)
(* NewGatewayPublication accepts routes that no two of them have the same  *)
(* id or serve the same request, and conversely turns a list of valid      *)
(* routes down only if two of them do, in whatever order they are listed:  *)
(* what validatePublishedRoutes computes with its four maps.               *)
(***************************************************************************)
PublicationIsExact ==
    LET rs == IF outcome = "accepted" THEN routes ELSE NewRoutes
        clash == \E i, j \in DOMAIN rs : i < j /\ Conflict(rs[i], rs[j])
    IN /\ outcome = "accepted" => ~clash
       /\ (outcome = "rejected" /\ specs # <<>>) =>
              clash \/ \E i \in DOMAIN specs : ~SpecIsBuildable(specs[i])

(***************************************************************************)
(* The routes of a publication do not change when the service goes on      *)
(* using the declarations they were made of, but for the maps of their     *)
(* protobuf binding: backend, authentication and response policy have been *)
(* cloned, although declarations share them with each other.               *)
(***************************************************************************)
RoutesAreIsolated ==
    [][outcome = "accepted" /\ outcome' = "accepted" =>
          \A i \in DOMAIN routes : LET r == routes[i] IN
              /\ Held(r.backend)' = Held(r.backend)
              /\ Held(r.auth)' = Held(r.auth)
              /\ Held(r.response)' = Held(r.response)]_declaring
=============================================================================
