----------------------------- MODULE GatewayProofs -----------------------------
(***************************************************************************)
(* Proofs about the gateway metadata of runtime/gatewaymeta and about its  *)
(* publisher in servicekit/metadata.go, for any names, methods and paths,  *)
(* any number of declarations, modifiers and faults.                       *)
(***************************************************************************)
EXTENDS MetadataPublisher, TLAPS

-----------------------------------------------------------------------------
(* Sequences whose elements have no common type *)

IsSeq(s) == s \in Seq(Range(s))

\* What is a sequence of anything is a sequence of what it holds.
LEMMA SeqIsSeq ==
  ASSUME NEW S, NEW s \in Seq(S)
  PROVE  IsSeq(s) /\ Len(s) \in Nat /\ DOMAIN s = 1..Len(s)
  <1>1. s \in [1..Len(s) -> Range(s)] /\ Len(s) \in Nat
    BY DEF Range
  <1> QED BY <1>1 DEF IsSeq

\* Appending to such a sequence.
LEMMA AppendIsSeq ==
  ASSUME NEW s, IsSeq(s), NEW e
  PROVE  /\ IsSeq(Append(s, e)) /\ Len(s) \in Nat /\ Len(Append(s, e)) = Len(s) + 1
         /\ DOMAIN s = 1..Len(s) /\ DOMAIN Append(s, e) = 1..(Len(s) + 1)
         /\ \A i \in 1..Len(s) : Append(s, e)[i] = s[i]
         /\ Append(s, e)[Len(s) + 1] = e
  <1> DEFINE S == Range(s) \cup {e}
  <1>1. s \in Seq(S) /\ e \in S
    BY DEF IsSeq
  <1> HIDE DEF S
  <1>2. Append(s, e) \in Seq(S)
    BY <1>1
  <1>3. IsSeq(Append(s, e))
    BY <1>2, SeqIsSeq
  <1> QED BY <1>1, <1>2, <1>3

\* Replacing an element of such a sequence.
LEMMA ReplaceIsSeq ==
  ASSUME NEW s, IsSeq(s), NEW i \in DOMAIN s, NEW e
  PROVE  /\ IsSeq([s EXCEPT ![i] = e]) /\ Len([s EXCEPT ![i] = e]) = Len(s) /\ Len(s) \in Nat
         /\ DOMAIN s = 1..Len(s) /\ DOMAIN [s EXCEPT ![i] = e] = 1..Len(s)
         /\ [s EXCEPT ![i] = e][i] = e
         /\ \A j \in 1..Len(s) : j # i => [s EXCEPT ![i] = e][j] = s[j]
  <1> DEFINE S == Range(s) \cup {e}
             t == [s EXCEPT ![i] = e]
  <1>1. s \in Seq(S) /\ e \in S
    BY DEF IsSeq
  <1> HIDE DEF S
  <1>2. t \in Seq(S) /\ Len(t) = Len(s) /\ Len(s) \in Nat /\ DOMAIN s = 1..Len(s) /\ DOMAIN t = 1..Len(s)
    BY <1>1
  <1>3. IsSeq(t)
    BY <1>2, SeqIsSeq
  <1>4. t[i] = e /\ \A j \in 1..Len(s) : j # i => t[j] = s[j]
    BY <1>2
  <1> QED BY <1>2, <1>3, <1>4

-----------------------------------------------------------------------------
(* Declarations *)

\* What a declaration always is; its pointers may be anything.
SpecSound(s) ==
    /\ DOMAIN s = {"id", "rpc", "method", "path", "body", "timeout", "ref"}
    /\ s.id \in Ids \cup {NoId} /\ s.path \in Paths
    /\ s.method \in HTTPMethods \cup {"ANY", "GET", "*"}

\* Every constructor makes a sound declaration.
LEMMA ConstructedSound ==
  ASSUME NEW c \in Constructed
  PROVE  SpecSound(c.spec)
  <1>1. ASSUME NEW m \in HTTPMethods, NEW rpc \in RPCs, NEW p \in Paths PROVE SpecSound(HTTP(m, rpc, p).spec)
    BY DEF HTTP, Result, NewSpec, SpecSound, normalizeHTTPMethod
  <1>2. ASSUME NEW id \in Ids, NEW rpc \in Methods, NEW p \in Paths PROVE SpecSound(Literal(id, "*", rpc, p).spec)
    BY DEF Literal, Result, NewSpec, SpecSound
  <1>3. ASSUME NEW id \in Ids, NEW m \in HTTPMethods, NEW p \in Paths
        PROVE  SpecSound(HTTPProxy(id, m, p, "named").spec)
    BY DEF HTTPProxy, WithBackend, Result, NewSpec, SpecSound, normalizeHTTPMethod
  <1>4. ASSUME NEW id \in Ids, NEW p \in Paths
        PROVE  SpecSound(HTTPProxy(id, "GET", p, "none").spec)
    BY DEF HTTPProxy, WithBackend, Result, NewSpec, SpecSound, normalizeHTTPMethod
  <1>5. ASSUME NEW id \in Ids, NEW p \in Paths PROVE SpecSound(WSProxy(id, p).spec)
    BY DEF WSProxy, WithBackend, Result, NewSpec, SpecSound
  <1> DEFINE C1 == {HTTP(m, rpc, p) : m \in HTTPMethods, rpc \in RPCs, p \in Paths}
             C2 == {Literal(id, "*", rpc, p) : id \in Ids, rpc \in Methods, p \in Paths}
             C3 == {HTTPProxy(id, m, p, "named") : id \in Ids, m \in HTTPMethods, p \in Paths}
             C4 == {HTTPProxy(id, "GET", p, "none") : id \in Ids, p \in Paths}
             C5 == {WSProxy(id, p) : id \in Ids, p \in Paths}
  <1>6. \A x \in C1 : SpecSound(x.spec)
    BY <1>1
  <1>7. \A x \in C2 : SpecSound(x.spec)
    BY <1>2
  <1>8. \A x \in C3 : SpecSound(x.spec)
    BY <1>3
  <1>9. \A x \in C4 : SpecSound(x.spec)
    BY <1>4
  <1>10. \A x \in C5 : SpecSound(x.spec)
    BY <1>5
  <1>11. Constructed = C1 \cup C2 \cup C3 \cup C4 \cup C5
    BY DEF Constructed
  <1> HIDE DEF C1, C2, C3, C4, C5
  <1> QED BY <1>6, <1>7, <1>8, <1>9, <1>10, <1>11

\* No modifier changes the id, the method or the path of a declaration.
LEMMA ModifiedSound ==
  ASSUME NEW s, SpecSound(s), NEW m \in Modified(s)
  PROVE  SpecSound(m.spec)
  <1>1. ASSUME NEW p PROVE SpecSound(UpstreamPath(s, p).spec)
    BY DEF UpstreamPath, Write, Result, SpecSound
  <1>2. ASSUME NEW p PROVE SpecSound(UpstreamWSPath(s, p).spec)
    BY DEF UpstreamWSPath, Write, Result, SpecSound
  <1>3. SpecSound(SSE(s).spec)
    BY DEF SSE, Write, Result, SpecSound
  <1>4. ASSUME NEW map PROVE SpecSound(Bind(s, map).spec)
    BY DEF Bind, Write, Result, SpecSound
  <1>5. SpecSound(Body(s).spec) /\ \A t : SpecSound(Timeout(s, t).spec)
    BY DEF Body, Timeout, Result, SpecSound
  <1>6. SpecSound(Public(s).spec)
    BY DEF Public, Write, Result, SpecSound
  <1>7. SpecSound(RawResponse(s).spec)
    BY DEF RawResponse, Result, SpecSound
  <1>8. ASSUME NEW f, NEW v PROVE SpecSound(RawField(s, f, v).spec)
    BY DEF RawField, Write, Result, SpecSound
  <1> QED BY <1>1, <1>2, <1>3, <1>4, <1>5, <1>6, <1>7, <1>8 DEF Modified

\* What a route takes from its declaration.
LEMMA RouteFields ==
  ASSUME NEW s, SpecSound(s)
  PROVE  /\ RouteOf(s).id = IF isDescriptorRoute(s) /\ s.id = NoId THEN defaultGatewayRouteID(s.rpc) ELSE s.id
         /\ RouteOf(s).method = s.method /\ RouteOf(s).path = gatewayRoutePath(s.path)
         /\ DOMAIN RouteOf(s).backend = {"own"} /\ DOMAIN RouteOf(s).auth = {"own"}
         /\ DOMAIN RouteOf(s).response = {"own"}
  BY DEF RouteOf, NewDescriptorRoute, newBackendRoute, NewRoute, Clone

-----------------------------------------------------------------------------
(* What validatePublishedRoutes accepts *)

\* A route with a method and a path in normal form.
RouteSound(r) ==
    /\ r.method \in HTTPMethods \cup {"ANY", "GET", "*"}
    /\ DOMAIN r.path = {"seg", "rooted"} /\ r.path.rooted = TRUE /\ r.path = [f \in {"seg", "rooted"} |-> r.path[f]]

Clash(rs) == \E i, j \in DOMAIN rs : i < j /\ Conflict(rs[i], rs[j])

\* Two routes conflict if and only if one turns the other down.
LEMMA ConflictIsFound ==
  ASSUME NEW q, RouteSound(q), NEW r, RouteSound(r)
  PROVE  Conflict(q, r) <=> \/ r.id = q.id
                            \/ /\ r.path = q.path
                               /\ \/ NormalizedMethod(q) = NormalizedMethod(r)
                                  \/ NormalizedMethod(q) = "ANY" \/ NormalizedMethod(r) = "ANY"
  <1>1. r.path = q.path <=> q.path.seg = r.path.seg
    BY DEF RouteSound
  <1>2. (\E m \in Request : Serves(q, m) /\ Serves(r, m)) <=>
           \/ NormalizedMethod(q) = NormalizedMethod(r)
           \/ NormalizedMethod(q) = "ANY" \/ NormalizedMethod(r) = "ANY"
    <2>1. NormalizedMethod(q) = "ANY" <=> q.method \in {"ANY", "*"}
      BY DEF NormalizedMethod, normalizeHTTPMethod
    <2>2. NormalizedMethod(r) = "ANY" <=> r.method \in {"ANY", "*"}
      BY DEF NormalizedMethod, normalizeHTTPMethod
    <2>3. /\ q.method \notin {"ANY", "*"} => NormalizedMethod(q) = q.method /\ q.method \in Request
          /\ r.method \notin {"ANY", "*"} => NormalizedMethod(r) = r.method /\ r.method \in Request
      BY DEF NormalizedMethod, normalizeHTTPMethod, RouteSound, Request
    <2>4. "GET" \in Request /\ "ANY" \notin Request /\ "*" \notin Request
      BY DEF Request
    <2> QED BY <2>1, <2>2, <2>3, <2>4 DEF Serves
  <1> QED BY <1>1, <1>2 DEF Conflict

(* The four maps of the loop find exactly the lists with two routes that    *)
(* have the same id or serve the same request, in any order.                *)
LEMMA FourMapsAreExact ==
  ASSUME NEW rs, IsSeq(rs), \A i \in DOMAIN rs : RouteSound(rs[i])
  PROVE  validatePublishedRoutes(rs) <=> ~Clash(rs)
  <1>1. Len(rs) \in Nat /\ DOMAIN rs = 1..Len(rs)
    BY DEF IsSeq
  <1>2. ASSUME NEW i \in DOMAIN rs
        PROVE  AddRoute({rs[j] : j \in 1..(i - 1)}, rs[i]) <=> \A j \in 1..(i - 1) : ~Conflict(rs[j], rs[i])
    <2> DEFINE seen == {rs[j] : j \in 1..(i - 1)}
               r == rs[i]
    <2>1. \A j \in 1..(i - 1) : j \in DOMAIN rs /\ RouteSound(rs[j])
      BY <1>1
    <2>2. RouteSound(r)
      OBVIOUS
    <2>3. \A q \in seen : RouteSound(q)
      BY <2>1
    <2>4. \A q \in seen : Conflict(q, r) <=> \/ r.id = q.id
                                             \/ /\ r.path = q.path
                                                /\ \/ NormalizedMethod(q) = NormalizedMethod(r)
                                                   \/ NormalizedMethod(q) = "ANY" \/ NormalizedMethod(r) = "ANY"
      BY <2>2, <2>3, ConflictIsFound
    <2>5. (\A q \in seen : ~Conflict(q, r)) <=> \A j \in 1..(i - 1) : ~Conflict(rs[j], r)
      OBVIOUS
    <2> HIDE DEF seen, r
    <2>6. AddRoute(seen, r) <=>
            /\ \A q \in seen : r.id # q.id
            /\ \A q \in seen : ~(NormalizedMethod(r) = NormalizedMethod(q) /\ r.path = q.path)
            /\ \A q \in seen : NormalizedMethod(q) = "ANY" => r.path # q.path
            /\ NormalizedMethod(r) = "ANY" => \A q \in seen : NormalizedMethod(q) # "ANY" => r.path # q.path
      BY DEF AddRoute
    <2>7. AddRoute(seen, r) <=> \A q \in seen : ~Conflict(q, r)
      BY <2>4, <2>6
    <2> QED BY <2>5, <2>7 DEF seen, r
  <1>3. Clash(rs) <=> \E i \in DOMAIN rs : \E j \in 1..(i - 1) : Conflict(rs[j], rs[i])
    BY <1>1 DEF Clash
  <1> QED BY <1>2, <1>3 DEF validatePublishedRoutes

\* The routes of sound declarations are in normal form.
LEMMA NewRoutesSound ==
  ASSUME IsSeq(specs), \A i \in DOMAIN specs : SpecSound(specs[i])
  PROVE  /\ IsSeq(NewRoutes) /\ DOMAIN NewRoutes = DOMAIN specs /\ Len(NewRoutes) = Len(specs)
         /\ \A i \in DOMAIN NewRoutes : NewRoutes[i] = RouteOf(specs[i]) /\ RouteSound(NewRoutes[i])
  <1>1. Len(specs) \in Nat /\ DOMAIN specs = 1..Len(specs)
    BY DEF IsSeq
  <1>2. NewRoutes \in Seq({RouteOf(specs[i]) : i \in DOMAIN specs}) /\ Len(NewRoutes) = Len(specs)
    BY <1>1 DEF NewRoutes
  <1>3. IsSeq(NewRoutes)
    BY <1>2, SeqIsSeq
  <1>4. ASSUME NEW i \in DOMAIN specs PROVE RouteSound(RouteOf(specs[i]))
    <2> DEFINE s == specs[i]
    <2>1. s.path \in Paths /\ s.method \in HTTPMethods \cup {"ANY", "GET", "*"}
      BY DEF SpecSound
    <2>2. gatewayRoutePath(s.path) = [f \in {"seg", "rooted"} |-> IF f = "rooted" THEN TRUE ELSE s.path[f]]
      BY <2>1, PathsAssumption DEF gatewayRoutePath
    <2>3. RouteOf(s).method = s.method /\ RouteOf(s).path = gatewayRoutePath(s.path)
      BY RouteFields
    <2> HIDE DEF s
    <2> QED BY <2>1, <2>2, <2>3 DEF RouteSound, s
  <1> QED BY <1>1, <1>3, <1>2, <1>4 DEF NewRoutes

-----------------------------------------------------------------------------
(* The inductive invariant *)

\* The declarations made so far.
DeclaredSound ==
    /\ IsSeq(specs) /\ Len(specs) <= MaxSpecs
    /\ \A i \in DOMAIN specs : SpecSound(specs[i])

\* A published route holds its backend and its policies itself.
Isolated(r) == DOMAIN r.backend = {"own"} /\ DOMAIN r.auth = {"own"} /\ DOMAIN r.response = {"own"}

\* The routes of an accepted publication, which have keys to be stored under.
PublishedSound ==
    outcome = "accepted" =>
        /\ IsSeq(routes) /\ Len(routes) \in 1..MaxSpecs
        /\ \A i \in DOMAIN routes : Isolated(routes[i]) /\ metadataRouteKey(routes[i].id) \in Keys

DeclaringInv == DeclaredSound /\ PublishedSound /\ PublicationIsExact

\* No publisher has begun before the publication is handed over.
NotBegun ==
    outcome # "handed over" =>
        /\ pc["new"] = "none" /\ pc["old"] = "ready"
        /\ \A p \in Publishers : rec[p].at = 0 /\ loop[p] = "none"
        /\ \A k \in Keys : etcd[k] = Nil

\* What a publisher publishes, and who runs its reconcile: Start or the loop.
PublisherSound(p) ==
    /\ Len(items[p]) \in 0..(MaxSpecs + 1)
    /\ \A i \in 2..Len(items[p]) : items[p][i] # Descriptor
    /\ pc[p] # "none" => items[p] # <<>>
    /\ rec[p].at \in 0..Len(items[p])
    /\ rec[p].at > 0 => (pc[p] = "starting" /\ loop[p] = "none") \/ loop[p] = "reconcile"
    /\ pc[p] \in {"none", "ready", "starting", "notStarted"} => loop[p] = "none"
    /\ pc[p] \in {"stopped", "crashed"} => loop[p] = "exited"

\* A reconcile that is past the descriptor has stored it.
DescriptorFirst(p) ==
    (rec[p].at > 1 /\ items[p][1] = Descriptor) => etcd[Descriptor] # Nil

PublishersSound == \A p \in Publishers : PublisherSound(p) /\ DescriptorFirst(p)

IndInv ==
    /\ TypeOK /\ DeclaringInv /\ NotBegun /\ PublishersSound /\ RouteHasDescriptor

\* What the declarations amount to changes with them and with the heap only.
LEMMA BuildStays ==
  ASSUME UNCHANGED <<file, heap, specs>>
  PROVE  /\ NewRoutes' = NewRoutes /\ (Clash(NewRoutes)' <=> Clash(NewRoutes))
         /\ \A i \in DOMAIN specs : SpecIsBuildable(specs[i])' <=> SpecIsBuildable(specs[i])
  <1>1. ASSUME NEW i \in DOMAIN specs
        PROVE  RouteOf(specs[i])' = RouteOf(specs[i]) /\ (isDescriptorRoute(specs[i])' <=> isDescriptorRoute(specs[i]))
    <2>1. isDescriptorRoute(specs[i])' <=> isDescriptorRoute(specs[i])
      BY DEF isDescriptorRoute, isHTTPBackend, isWebSocketBackend, IsBackend, At
    <2>2. NewDescriptorRoute(specs[i])' = NewDescriptorRoute(specs[i])
      BY DEF NewDescriptorRoute, NewRoute, Clone, At, gatewayRoutePath, defaultGatewayRouteID, hasWordSuffix,
        NewBackend, NoId
    <2>3. newBackendRoute(specs[i])' = newBackendRoute(specs[i])
      BY DEF newBackendRoute, NewRoute, Clone, At, gatewayRoutePath
    <2> QED BY <2>1, <2>2, <2>3 DEF RouteOf
  <1>2. ASSUME NEW i \in DOMAIN specs
        PROVE  SpecIsBuildable(specs[i])' <=> SpecIsBuildable(specs[i])
    <2> DEFINE r == RouteOf(specs[i])
    <2>1. r' = r
      BY <1>1
    <2> HIDE DEF r
    <2>2. /\ Held(r.backend)' = Held(r.backend) /\ Held(r.response)' = Held(r.response)
          /\ Held(r.bindPath)' = Held(r.bindPath) /\ Held(r.bindQuery)' = Held(r.bindQuery)
      BY <2>1 DEF Held
    <2>3. (IsPlain(r)' <=> IsPlain(r)) /\ BackendType(r)' = BackendType(r) /\ NormalizedMethod(r)' = NormalizedMethod(r)
      BY <2>1, <2>2 DEF IsPlain, BackendType, NormalizedMethod, normalizeHTTPMethod
    <2>4. /\ validateHTTPBackend(r)' <=> validateHTTPBackend(r)
          /\ validateWebSocketBackend(r)' <=> validateWebSocketBackend(r)
      BY <2>1, <2>2, <2>3 DEF validateHTTPBackend, validateWebSocketBackend, isZeroGRPCMeta, validateHTTPBackendPath
    <2>5. Validate(r)' <=> Validate(r)
      BY <2>1, <2>2, <2>3, <2>4 DEF Validate, TimeoutDuration, validateGRPCMeta
    <2> QED BY <1>1, <2>5 DEF SpecIsBuildable, serviceDescriptor, r
  <1>3. NewRoutes' = NewRoutes
    BY <1>1 DEF NewRoutes
  <1>4. Clash(NewRoutes)' <=> Clash(NewRoutes)
    BY <1>3 DEF Clash, Conflict, Serves, Request
  <1> QED BY <1>2, <1>3, <1>4

LEMMA DeclaringStays ==
  ASSUME DeclaringInv, UNCHANGED declaring
  PROVE  DeclaringInv'
  <1>1. UNCHANGED <<file, heap, specs, mods, outcome, routes>>
    BY DEF declaring
  <1>2. DeclaredSound' /\ PublishedSound'
    BY <1>1 DEF DeclaringInv, DeclaredSound, PublishedSound, IsSeq, SpecSound, Isolated, metadataRouteKey
  <1>3. /\ NewRoutes' = NewRoutes
        /\ \A i \in DOMAIN specs : SpecIsBuildable(specs[i])' <=> SpecIsBuildable(specs[i])
    BY <1>1, BuildStays
  <1>4. PublicationIsExact'
    BY <1>1, <1>3 DEF DeclaringInv, PublicationIsExact, Conflict, Serves, Request
  <1> QED BY <1>2, <1>4 DEF DeclaringInv

-----------------------------------------------------------------------------
(* The declaring service *)

\* Each action of the declaring service is one before anything is handed over.
LEMMA DeclareInv ==
  ASSUME DeclaringInv, Declare
  PROVE  DeclaringInv' /\ outcome' = outcome
  <1>1. outcome = "none" /\ outcome' = "none" /\ Len(specs) < MaxSpecs
    BY DEF Declare
  <1>2. PICK c \in Constructed : specs' = Append(specs, c.spec)
    BY DEF Declare
  <1>3. SpecSound(c.spec)
    BY ConstructedSound
  <1> DEFINE e == c.spec
  <1> HIDE DEF e
  <1>4. /\ IsSeq(Append(specs, e)) /\ Len(specs) \in Nat /\ Len(Append(specs, e)) = Len(specs) + 1
        /\ DOMAIN specs = 1..Len(specs) /\ DOMAIN Append(specs, e) = 1..(Len(specs) + 1)
        /\ \A i \in 1..Len(specs) : Append(specs, e)[i] = specs[i]
        /\ Append(specs, e)[Len(specs) + 1] = e
    BY AppendIsSeq DEF DeclaringInv, DeclaredSound
  <1>5. specs' = Append(specs, e) /\ SpecSound(e)
    BY <1>2, <1>3 DEF e
  <1>6. \A i \in DOMAIN Append(specs, e) : SpecSound(Append(specs, e)[i])
    BY <1>4, <1>5 DEF DeclaringInv, DeclaredSound
  <1>7. IsSeq(specs') /\ Len(specs') <= MaxSpecs /\ \A i \in DOMAIN specs' : SpecSound(specs'[i])
    BY <1>1, <1>4, <1>5, <1>6, MaxSpecsAssumption
  <1>8. DeclaredSound'
    BY <1>7 DEF DeclaredSound, IsSeq, SpecSound
  <1>9. PublishedSound' /\ PublicationIsExact'
    BY <1>1 DEF PublishedSound, PublicationIsExact
  <1> QED BY <1>1, <1>8, <1>9 DEF DeclaringInv

LEMMA ModifyInv ==
  ASSUME DeclaringInv, Modify
  PROVE  DeclaringInv' /\ outcome' = outcome
  <1>1. outcome # "rejected" /\ outcome' = outcome /\ routes' = routes
    BY DEF Modify
  <1>2. PICK i \in DOMAIN specs : \E m \in Modified(specs[i]) :
            \/ specs' = [specs EXCEPT ![i] = m.spec]
            \/ Len(specs) < MaxSpecs /\ specs' = Append(specs, m.spec)
    BY DEF Modify
  <1>3. PICK m \in Modified(specs[i]) :
            \/ specs' = [specs EXCEPT ![i] = m.spec]
            \/ Len(specs) < MaxSpecs /\ specs' = Append(specs, m.spec)
    BY <1>2
  <1>4. SpecSound(specs[i])
    BY DEF DeclaringInv, DeclaredSound
  <1>5. SpecSound(m.spec)
    BY <1>4, ModifiedSound
  <1> DEFINE e == m.spec
  <1> HIDE DEF e
  <1>6. IsSeq(specs) /\ Len(specs) <= MaxSpecs /\ \A j \in DOMAIN specs : SpecSound(specs[j])
    BY DEF DeclaringInv, DeclaredSound
  <1>7. IsSeq(specs') /\ Len(specs') <= MaxSpecs /\ \A j \in DOMAIN specs' : SpecSound(specs'[j])
    <2>1. CASE specs' = [specs EXCEPT ![i] = m.spec]
      <3>1. /\ IsSeq([specs EXCEPT ![i] = e]) /\ Len([specs EXCEPT ![i] = e]) = Len(specs) /\ Len(specs) \in Nat
            /\ DOMAIN specs = 1..Len(specs) /\ DOMAIN [specs EXCEPT ![i] = e] = 1..Len(specs)
            /\ [specs EXCEPT ![i] = e][i] = e
            /\ \A j \in 1..Len(specs) : j # i => [specs EXCEPT ![i] = e][j] = specs[j]
        BY <1>6, ReplaceIsSeq
      <3>2. \A j \in DOMAIN [specs EXCEPT ![i] = e] : SpecSound([specs EXCEPT ![i] = e][j])
        BY <1>5, <1>6, <3>1 DEF e
      <3>3. specs' = [specs EXCEPT ![i] = e]
        BY <2>1 DEF e
      <3> QED BY <1>6, <3>1, <3>2, <3>3
    <2>2. CASE Len(specs) < MaxSpecs /\ specs' = Append(specs, m.spec)
      <3>1. /\ IsSeq(Append(specs, e)) /\ Len(specs) \in Nat /\ Len(Append(specs, e)) = Len(specs) + 1
            /\ DOMAIN specs = 1..Len(specs) /\ DOMAIN Append(specs, e) = 1..(Len(specs) + 1)
            /\ \A j \in 1..Len(specs) : Append(specs, e)[j] = specs[j]
            /\ Append(specs, e)[Len(specs) + 1] = e
        BY <1>6, AppendIsSeq
      <3>2. \A j \in DOMAIN Append(specs, e) : SpecSound(Append(specs, e)[j])
        BY <1>5, <1>6, <3>1 DEF e
      <3>3. specs' = Append(specs, e)
        BY <2>2 DEF e
      <3> QED BY <2>2, <3>1, <3>2, <3>3, MaxSpecsAssumption
    <2> QED BY <1>3, <2>1, <2>2
  <1>8. DeclaredSound'
    BY <1>7 DEF DeclaredSound, IsSeq, SpecSound
  <1>9. PublishedSound'
    BY <1>1 DEF DeclaringInv, PublishedSound, IsSeq, Isolated, metadataRouteKey
  <1>10. PublicationIsExact'
    BY <1>1 DEF DeclaringInv, PublicationIsExact, Conflict, Serves
  <1> QED BY <1>1, <1>8, <1>9, <1>10 DEF DeclaringInv

\* A route that has been accepted has a key in etcd.
LEMMA BuildableHasKey ==
  ASSUME NEW s, SpecSound(s), SpecIsBuildable(s)
  PROVE  Isolated(RouteOf(s)) /\ metadataRouteKey(RouteOf(s).id) \in Keys
  <1>1. Isolated(RouteOf(s))
    BY RouteFields DEF Isolated
  <1>2. RouteOf(s).id.name # <<>>
    BY DEF SpecIsBuildable, Validate
  <1>3. CASE isDescriptorRoute(s) /\ s.id = NoId
    <2>1. RouteOf(s).id = defaultGatewayRouteID(s.rpc) /\ s.rpc \in Methods
      BY <1>3, RouteFields DEF SpecIsBuildable
    <2> QED BY <1>1, <2>1 DEF Keys, metadataRouteKey
  <1>4. CASE ~(isDescriptorRoute(s) /\ s.id = NoId)
    <2>1. RouteOf(s).id = s.id
      BY <1>4, RouteFields
    <2>2. s.id # NoId
      BY <1>2, <2>1 DEF NoId
    <2>3. s.id \in Ids
      BY <2>2 DEF SpecSound
    <2> QED BY <1>1, <2>1, <2>3 DEF Keys, metadataRouteKey
  <1> QED BY <1>3, <1>4

LEMMA PublishInv ==
  ASSUME DeclaringInv, Publish
  PROVE  DeclaringInv' /\ outcome # "handed over" /\ outcome' # "handed over"
  <1>1. /\ outcome = "none" /\ UNCHANGED <<file, heap, specs, mods>>
        /\ outcome' \in {"accepted", "rejected"}
        /\ outcome' = "accepted" => NewGatewayPublication /\ routes' = NewRoutes
        /\ outcome' = "rejected" => ~NewGatewayPublication
    BY DEF Publish
  <1>2. IsSeq(specs) /\ Len(specs) <= MaxSpecs /\ \A i \in DOMAIN specs : SpecSound(specs[i])
    BY DEF DeclaringInv, DeclaredSound
  <1>3. /\ IsSeq(NewRoutes) /\ DOMAIN NewRoutes = DOMAIN specs /\ Len(NewRoutes) = Len(specs)
        /\ \A i \in DOMAIN NewRoutes : NewRoutes[i] = RouteOf(specs[i]) /\ RouteSound(NewRoutes[i])
    BY <1>2, NewRoutesSound
  <1>4. validatePublishedRoutes(NewRoutes) <=> ~Clash(NewRoutes)
    BY <1>3, FourMapsAreExact
  <1>5. DeclaredSound'
    BY <1>1, <1>2 DEF DeclaredSound, IsSeq, SpecSound
  <1>6. CASE outcome' = "accepted"
    <2>1. specs # <<>> /\ \A i \in DOMAIN specs : SpecIsBuildable(specs[i])
      BY <1>1, <1>6 DEF NewGatewayPublication
    <2>2. ~Clash(NewRoutes)
      BY <1>1, <1>4, <1>6 DEF NewGatewayPublication
    <2>3. \A i \in DOMAIN NewRoutes : Isolated(NewRoutes[i]) /\ metadataRouteKey(NewRoutes[i].id) \in Keys
      BY <1>2, <1>3, <2>1, BuildableHasKey
    <2>4. Len(NewRoutes) \in 1..MaxSpecs
      BY <1>2, <1>3, <2>1, MaxSpecsAssumption DEF IsSeq
    <2> DEFINE rs == NewRoutes
    <2> HIDE DEF rs
    <2>5. routes' = rs /\ IsSeq(rs) /\ Len(rs) \in 1..MaxSpecs /\ ~Clash(rs)
          /\ \A i \in DOMAIN rs : Isolated(rs[i]) /\ metadataRouteKey(rs[i].id) \in Keys
      BY <1>1, <1>3, <1>6, <2>2, <2>3, <2>4 DEF rs
    <2>6. PublishedSound'
      BY <2>5 DEF PublishedSound, IsSeq, Isolated, metadataRouteKey
    <2>7. PublicationIsExact'
      BY <1>6, <2>5 DEF PublicationIsExact, Clash, Conflict, Serves
    <2> QED BY <1>1, <1>5, <1>6, <2>6, <2>7 DEF DeclaringInv
  <1>7. CASE outcome' = "rejected"
    <2>1. PublishedSound'
      BY <1>7 DEF PublishedSound
    <2>2. specs = <<>> \/ Clash(NewRoutes) \/ \E i \in DOMAIN specs : ~SpecIsBuildable(specs[i])
      BY <1>1, <1>4, <1>7 DEF NewGatewayPublication
    <2>3. PublicationIsExact'
      <3>1. NewRoutes' = NewRoutes /\ (Clash(NewRoutes)' <=> Clash(NewRoutes))
            /\ \A i \in DOMAIN specs : SpecIsBuildable(specs[i])' <=> SpecIsBuildable(specs[i])
        BY <1>1, BuildStays
      <3> QED BY <1>1, <1>7, <2>2, <3>1 DEF PublicationIsExact, Clash
    <2> QED BY <1>1, <1>5, <1>7, <2>1, <2>3 DEF DeclaringInv
  <1> QED BY <1>1, <1>6, <1>7

-----------------------------------------------------------------------------
(* The publishers *)

States == {"none", "ready", "starting", "up", "notStarted", "stopping", "stopped", "stopFailed", "crashed"}
LoopStates == {"none", "tick", "reconcile", "exited"}
Recs == [at : 0..(MaxSpecs + 2), do : {"get", "put"}]

\* The other publisher is not concerned.
Only(p) == \A q \in Publishers : q # p => pc'[q] = pc[q] /\ loop'[q] = loop[q] /\ rec'[q] = rec[q]

\* The variables that the end of a reconcile assigns keep their types.
RecTyped ==
    /\ pc' \in [Publishers -> States] /\ loop' \in [Publishers -> LoopStates]
    /\ rec' \in [Publishers -> Recs] /\ published' \in [Publishers -> BOOLEAN]

LEMMA ReconcileEndsEffect ==
  ASSUME TypeOK, NEW p \in Publishers, NEW ok \in BOOLEAN, ReconcileEnds(p, ok)
  PROVE  /\ RecTyped /\ Only(p) /\ rec'[p].at = 0
         /\ pc[p] = "starting" => \/ pc'[p] = "up" /\ loop'[p] = "tick"
                                  \/ pc'[p] = "notStarted" /\ loop'[p] = "none"
         /\ pc[p] # "starting" => pc'[p] = pc[p] /\ loop'[p] \in {"exited", "tick"}
  <1>1. pc \in [Publishers -> States] /\ loop \in [Publishers -> LoopStates] /\ rec \in [Publishers -> Recs]
    BY DEF TypeOK, States, LoopStates, Recs
  <1>2. published \in [Publishers -> BOOLEAN] /\ cancelled \in [Publishers -> BOOLEAN]
    BY DEF TypeOK
  <1>3. Idle \in Recs /\ Idle.at = 0
    BY MaxSpecsAssumption DEF Idle, Recs
  <1>4. rec' = [rec EXCEPT ![p] = Idle]
    BY DEF ReconcileEnds
  <1>5. rec' \in [Publishers -> Recs] /\ rec'[p].at = 0 /\ \A q \in Publishers : q # p => rec'[q] = rec[q]
    BY <1>1, <1>3, <1>4
  <1>6. CASE pc[p] = "starting"
    <2>1. pc' = [pc EXCEPT ![p] = IF ok THEN "up" ELSE "notStarted"]
          /\ loop' = [loop EXCEPT ![p] = IF ok THEN "tick" ELSE "none"]
      BY <1>6 DEF ReconcileEnds
    <2>2. published' = [published EXCEPT ![p] = ok]
      BY <1>6 DEF ReconcileEnds
    <2>3. published' \in [Publishers -> BOOLEAN]
      BY <1>2, <2>2, Zenon
    <2>4. /\ pc' \in [Publishers -> States] /\ loop' \in [Publishers -> LoopStates]
          /\ \A q \in Publishers : q # p => pc'[q] = pc[q] /\ loop'[q] = loop[q]
          /\ \/ pc'[p] = "up" /\ loop'[p] = "tick"
             \/ pc'[p] = "notStarted" /\ loop'[p] = "none"
      BY <1>1, <2>1 DEF States, LoopStates
    <2> QED BY <1>5, <1>6, <2>3, <2>4 DEF RecTyped, Only
  <1>7. CASE pc[p] # "starting"
    <2>1. pc' = pc /\ loop' = [loop EXCEPT ![p] = IF cancelled[p] THEN "exited" ELSE "tick"]
      BY <1>7 DEF ReconcileEnds
    <2>2. published' = [published EXCEPT ![p] = IF cancelled[p] THEN published[p] ELSE published[p] \/ ok]
      BY <1>7 DEF ReconcileEnds
    <2>3. published' \in [Publishers -> BOOLEAN]
      BY <1>2, <2>2, Zenon
    <2>4. /\ pc' \in [Publishers -> States] /\ loop' \in [Publishers -> LoopStates]
          /\ \A q \in Publishers : q # p => pc'[q] = pc[q] /\ loop'[q] = loop[q]
          /\ pc'[p] = pc[p] /\ loop'[p] \in {"exited", "tick"}
      BY <1>1, <2>1 DEF States, LoopStates
    <2> QED BY <1>5, <1>7, <2>3, <2>4 DEF RecTyped, Only
  <1> QED BY <1>6, <1>7

\* Who may write: a publisher that has begun and neither stopped nor failed.
LEMMA WorkingMeans ==
  ASSUME IndInv, NEW p \in Publishers, rec[p].at > 0
  PROVE  /\ outcome = "handed over" /\ rec[p].at \in 1..Len(items[p]) /\ Item(p) \in Keys /\ items[p] \in Seq(Keys)
         /\ DOMAIN items[p] = 1..Len(items[p]) /\ Len(items[p]) \in Nat
         /\ Value(p) \in Values /\ Value(p) # Nil /\ Value(p)[1] = p
         /\ pc[p] \in {"starting", "up", "stopping", "stopFailed"}
  <1>1. TypeOK /\ PublisherSound(p) /\ NotBegun
    BY DEF IndInv, PublishersSound
  <1>2. outcome = "handed over"
    <2>1. outcome # "handed over" => rec[p].at = 0
      BY <1>1 DEF NotBegun
    <2>2. rec[p].at # 0
      BY <1>1 DEF TypeOK
    <2> QED BY <2>1, <2>2
  <1>3. Len(items[p]) \in 0..(MaxSpecs + 1) /\ rec[p].at \in 0..Len(items[p]) /\ items[p] \in Seq(Keys)
    BY <1>1 DEF PublisherSound, TypeOK
  <1>4. rec[p].at \in 1..Len(items[p]) /\ rec[p].at \in 1..(MaxSpecs + 1) /\ rec[p].at \in Nat
    BY <1>3, MaxSpecsAssumption
  <1>5. Item(p) \in Keys /\ DOMAIN items[p] = 1..Len(items[p]) /\ Len(items[p]) \in Nat
    BY <1>3, <1>4 DEF Item
  <1>6. Value(p) \in Values /\ Value(p) # Nil /\ Value(p)[1] = p
    BY <1>4, NilAssumption DEF Value, Values
  <1>7. pc[p] \in {"starting", "up", "stopping", "stopFailed"}
    <2>1. pc[p] \in States
      BY <1>1 DEF TypeOK, States
    <2>2. \/ pc[p] = "starting" /\ loop[p] = "none"
          \/ loop[p] = "reconcile"
      BY <1>1 DEF PublisherSound
    <2> QED BY <1>1, <2>1, <2>2 DEF PublisherSound, States
  <1> QED BY <1>2, <1>3, <1>4, <1>5, <1>6, <1>7

\* What is in a list and not behind its first place is its first element.
LEMMA OnlyFirst ==
  ASSUME NEW s, NEW d, NEW n \in Nat, DOMAIN s = 1..n, \E i \in DOMAIN s : s[i] = d,
         \A i \in 2..n : s[i] # d, NEW at \in 1..n, s[at] # d
  PROVE  s[1] = d /\ at > 1
  OBVIOUS

(* What a step of one publisher has to show.  It may have written the item *)
(* it is at, and nothing else.                                             *)
LEMMA PublisherStep ==
  ASSUME IndInv, outcome = "handed over", NEW p \in Publishers,
         UNCHANGED <<declaring, items>>, Only(p),
         RecTyped, cancelled' \in [Publishers -> BOOLEAN], faults' \in 0..MaxFaults,
         etcd' = etcd \/ (rec[p].at > 0 /\ etcd' = [etcd EXCEPT ![Item(p)] = Value(p)]),
         PublisherSound(p)', DescriptorFirst(p)'
  PROVE  IndInv'
  <1>1. TypeOK /\ DeclaringInv /\ RouteHasDescriptor /\ \A q \in Publishers : PublisherSound(q) /\ DescriptorFirst(q)
    BY DEF IndInv, PublishersSound
  <1>2. DeclaringInv' /\ NotBegun'
    <2>1. DeclaringInv'
      BY <1>1, DeclaringStays
    <2>2. outcome' = "handed over"
      BY DEF declaring
    <2> QED BY <2>1, <2>2 DEF NotBegun
  <1>3. Descriptor \in Keys
    BY DEF Keys
  <1>4. /\ etcd' \in [Keys -> Values]
        /\ etcd[Descriptor] # Nil => etcd'[Descriptor] # Nil
        /\ \A k \in Keys : etcd'[k] = etcd[k] \/ (rec[p].at > 0 /\ k = Item(p) /\ etcd'[k] = Value(p))
    <2>1. etcd \in [Keys -> Values]
      BY <1>1 DEF TypeOK
    <2>2. CASE etcd' = etcd
      BY <2>1, <2>2
    <2>3. CASE rec[p].at > 0 /\ etcd' = [etcd EXCEPT ![Item(p)] = Value(p)]
      <3>1. Item(p) \in Keys /\ Value(p) \in Values /\ Value(p) # Nil
        BY <2>3, WorkingMeans
      <3> QED BY <1>3, <2>1, <2>3, <3>1
    <2> QED BY <2>2, <2>3
  <1>5. TypeOK'
    <2>1. DOMAIN items' = Publishers /\ \A q \in Publishers : items'[q] \in Seq(Keys)
      BY <1>1 DEF TypeOK
    <2>2. /\ pc' \in [Publishers -> States] /\ loop' \in [Publishers -> LoopStates]
          /\ rec' \in [Publishers -> Recs]
      BY DEF RecTyped
    <2>3. published' \in [Publishers -> BOOLEAN]
      BY DEF RecTyped
    <2> QED BY <1>4, <2>1, <2>2, <2>3 DEF TypeOK, States, LoopStates, Recs
  <1>6. ASSUME NEW q \in Publishers PROVE PublisherSound(q)' /\ DescriptorFirst(q)'
    <2>1. CASE q = p
      BY <2>1
    <2>2. CASE q # p
      <3>1. pc'[q] = pc[q] /\ loop'[q] = loop[q] /\ rec'[q] = rec[q] /\ items'[q] = items[q]
        BY <2>2 DEF Only
      <3>2. PublisherSound(q)'
        BY <1>1, <3>1 DEF PublisherSound
      <3>3. DescriptorFirst(q)'
        BY <1>1, <1>4, <3>1 DEF DescriptorFirst
      <3> QED BY <3>2, <3>3
    <2> QED BY <2>1, <2>2
  <1>7. RouteHasDescriptor'
    <2> SUFFICES ASSUME NEW q \in Publishers, NEW k \in Keys, k # Descriptor,
                        etcd'[k] # Nil, etcd'[k][1] = q, Descriptor \in Range(items[q])
                 PROVE  etcd'[Descriptor] # Nil
      BY DEF RouteHasDescriptor, IsRouteOf, Range
    <2>1. CASE etcd'[k] = etcd[k]
      BY <1>1, <1>4, <2>1 DEF RouteHasDescriptor, IsRouteOf
    <2>2. CASE rec[p].at > 0 /\ k = Item(p) /\ etcd'[k] = Value(p)
      <3>1. q = p
        BY <2>2, WorkingMeans
      <3>3. rec[p].at \in 1..Len(items[p]) /\ DOMAIN items[p] = 1..Len(items[p]) /\ Len(items[p]) \in Nat
        BY <2>2, WorkingMeans
      <3>2. \E i \in DOMAIN items[p] : items[p][i] = Descriptor
        BY <3>1 DEF Range
      <3>4. \A i \in 2..Len(items[p]) : items[p][i] # Descriptor
        BY <1>1 DEF PublisherSound
      <3>6. items[p][rec[p].at] # Descriptor
        BY <2>2 DEF Item
      <3> DEFINE its == items[p]
                 n == Len(items[p])
                 at == rec[p].at
                 d == Descriptor
      <3>7. /\ n \in Nat /\ DOMAIN its = 1..n /\ \E i \in DOMAIN its : its[i] = d
            /\ \A i \in 2..n : its[i] # d
        BY <3>2, <3>3, <3>4
      <3>8. at \in 1..n /\ its[at] # d
        BY <3>3, <3>6
      <3> HIDE DEF its, n, at, d
      <3>9. its[1] = d /\ at > 1
        BY <3>7, <3>8, OnlyFirst
      <3>5. items[p][1] = Descriptor /\ rec[p].at > 1
        BY <3>9 DEF its, at, d
      <3> QED BY <1>1, <1>4, <3>5 DEF DescriptorFirst
    <2> QED BY <1>4, <2>1, <2>2
  <1> QED BY <1>1, <1>2, <1>5, <1>6, <1>7 DEF IndInv, PublishersSound

\* The end of a reconcile, good or bad, leaves a sound publisher.
LEMMA ReconcileEndsSound ==
  ASSUME IndInv, NEW p \in Publishers, NEW ok \in BOOLEAN, rec[p].at > 0, ReconcileEnds(p, ok), items' = items
  PROVE  RecTyped /\ Only(p) /\ PublisherSound(p)' /\ DescriptorFirst(p)'
  <1>1. TypeOK /\ PublisherSound(p)
    BY DEF IndInv, PublishersSound
  <1>2. /\ RecTyped /\ Only(p) /\ rec'[p].at = 0
        /\ pc[p] = "starting" => \/ pc'[p] = "up" /\ loop'[p] = "tick"
                                 \/ pc'[p] = "notStarted" /\ loop'[p] = "none"
        /\ pc[p] # "starting" => pc'[p] = pc[p] /\ loop'[p] \in {"exited", "tick"}
    BY <1>1, ReconcileEndsEffect
  <1>3. pc[p] \in {"starting", "up", "stopping", "stopFailed"} /\ Len(items[p]) \in Nat /\ items[p] \in Seq(Keys)
        /\ rec[p].at \in 1..Len(items[p])
    BY WorkingMeans
  <1>4. items[p] # <<>>
    BY <1>3
  <1>5. PublisherSound(p)'
    BY <1>1, <1>2, <1>3, <1>4 DEF PublisherSound
  <1>6. DescriptorFirst(p)'
    BY <1>2 DEF DescriptorFirst
  <1> QED BY <1>2, <1>5, <1>6

\* So does going on to the next item, when this one is stored.
LEMMA NextItemSound ==
  ASSUME IndInv, NEW p \in Publishers, rec[p].at > 0, NextItem(p), items' = items,
         etcd'[Item(p)] # Nil, etcd[Descriptor] # Nil => etcd'[Descriptor] # Nil
  PROVE  RecTyped /\ Only(p) /\ PublisherSound(p)' /\ DescriptorFirst(p)'
  <1>1. TypeOK /\ PublisherSound(p) /\ DescriptorFirst(p)
    BY DEF IndInv, PublishersSound
  <1>2. CASE rec[p].at = Len(items[p])
    <2>1. ReconcileEnds(p, TRUE)
      BY <1>2 DEF NextItem
    <2> QED BY <2>1, ReconcileEndsSound
  <1>3. CASE rec[p].at # Len(items[p])
    <2>1. rec' = [rec EXCEPT ![p] = [at |-> rec[p].at + 1, do |-> "get"]] /\ UNCHANGED <<pc, loop, published>>
      BY <1>3 DEF NextItem
    <2>2. rec[p].at \in 1..Len(items[p]) /\ Len(items[p]) \in Nat
      BY WorkingMeans
    <2>3. Len(items[p]) \in 0..(MaxSpecs + 1)
      BY <1>1 DEF PublisherSound
    <2> DEFINE at == rec[p].at
               n == Len(items[p])
    <2>4. at \in 1..n /\ n \in Nat /\ at # n /\ n \in 0..(MaxSpecs + 1)
      BY <1>3, <2>2, <2>3
    <2> HIDE DEF at, n
    <2>5. at + 1 \in 0..(MaxSpecs + 2) /\ at + 1 \in 0..n /\ at \in Nat
      BY <2>4, MaxSpecsAssumption
    <2>6. pc \in [Publishers -> States] /\ loop \in [Publishers -> LoopStates] /\ rec \in [Publishers -> Recs]
      BY <1>1 DEF TypeOK, States, LoopStates, Recs
    <2>7. published \in [Publishers -> BOOLEAN]
      BY <1>1 DEF TypeOK
    <2>8. rec' = [rec EXCEPT ![p] = [at |-> at + 1, do |-> "get"]]
      BY <2>1 DEF at
    <2>9. /\ rec' \in [Publishers -> Recs] /\ rec'[p].at = at + 1
          /\ \A q \in Publishers : q # p => rec'[q] = rec[q]
      BY <2>5, <2>6, <2>8 DEF Recs
    <2>10. RecTyped /\ Only(p)
      BY <2>1, <2>6, <2>7, <2>9 DEF RecTyped, Only
    <2>11. PublisherSound(p)'
      <3>1. pc'[p] = pc[p] /\ loop'[p] = loop[p] /\ items'[p] = items[p] /\ rec'[p].at \in 0..Len(items'[p])
        BY <2>1, <2>5, <2>9 DEF n
      <3>2. (pc[p] = "starting" /\ loop[p] = "none") \/ loop[p] = "reconcile"
        BY <1>1 DEF PublisherSound
      <3> QED BY <1>1, <3>1, <3>2 DEF PublisherSound
    <2>12. DescriptorFirst(p)'
      <3> SUFFICES ASSUME items[p][1] = Descriptor PROVE etcd'[Descriptor] # Nil
        BY DEF DescriptorFirst
      <3>1. CASE at = 1
        BY <3>1 DEF Item, at
      <3>2. CASE at > 1
        BY <1>1, <3>2 DEF DescriptorFirst, at
      <3> QED BY <2>4, <3>1, <3>2
    <2> QED BY <2>10, <2>11, <2>12
  <1> QED BY <1>2, <1>3

LEMMA GetInv ==
  ASSUME IndInv, NEW p \in Publishers, PutIfChangedGet(p)
  PROVE  IndInv'
  <1>1. rec[p].at > 0 /\ UNCHANGED <<declaring, items, etcd, cancelled, faults>>
    BY DEF PutIfChangedGet, Working
  <1>2. TypeOK /\ PublisherSound(p) /\ DescriptorFirst(p)
    BY DEF IndInv, PublishersSound
  <1>3. cancelled' \in [Publishers -> BOOLEAN]
    BY <1>1, <1>2 DEF TypeOK
  <1>4. faults' \in 0..MaxFaults
    BY <1>1, <1>2 DEF TypeOK
  <1>5. outcome = "handed over" /\ Value(p) # Nil
    BY <1>1, WorkingMeans
  <1>6. RecTyped /\ Only(p) /\ PublisherSound(p)' /\ DescriptorFirst(p)'
    <2>1. CASE etcd[Item(p)] = Value(p)
      <3>1. NextItem(p)
        BY <2>1 DEF PutIfChangedGet
      <3> QED BY <1>1, <1>5, <2>1, <3>1, NextItemSound
    <2>2. CASE etcd[Item(p)] # Value(p)
      <3>1. rec' = [rec EXCEPT ![p].do = "put"] /\ UNCHANGED <<pc, loop, published>>
        BY <2>2 DEF PutIfChangedGet
      <3>2. pc \in [Publishers -> States] /\ loop \in [Publishers -> LoopStates] /\ rec \in [Publishers -> Recs]
        BY <1>2 DEF TypeOK, States, LoopStates, Recs
      <3>3. published \in [Publishers -> BOOLEAN]
        BY <1>2 DEF TypeOK
      <3>4. /\ rec' \in [Publishers -> Recs] /\ rec'[p].at = rec[p].at
            /\ \A q \in Publishers : q # p => rec'[q] = rec[q]
        BY <3>1, <3>2 DEF Recs
      <3>5. RecTyped /\ Only(p)
        BY <3>1, <3>2, <3>3, <3>4 DEF RecTyped, Only
      <3>6. PublisherSound(p)'
        BY <1>1, <1>2, <3>1, <3>4 DEF PublisherSound
      <3>7. DescriptorFirst(p)'
        BY <1>1, <1>2, <3>4 DEF DescriptorFirst
      <3> QED BY <3>5, <3>6, <3>7
    <2> QED BY <2>1, <2>2
  <1> QED BY <1>1, <1>3, <1>4, <1>5, <1>6, PublisherStep

\* A put stores a value, and leaves what is stored stored.
LEMMA PutStores ==
  ASSUME IndInv, NEW p \in Publishers, rec[p].at > 0, etcd' = [etcd EXCEPT ![Item(p)] = Value(p)]
  PROVE  etcd'[Item(p)] # Nil /\ (etcd[Descriptor] # Nil => etcd'[Descriptor] # Nil)
  <1>1. etcd \in [Keys -> Values] /\ Descriptor \in Keys
    BY DEF IndInv, TypeOK, Keys
  <1>2. Item(p) \in Keys /\ Value(p) # Nil
    BY WorkingMeans
  <1> QED BY <1>1, <1>2

LEMMA PutInv ==
  ASSUME IndInv, NEW p \in Publishers, PutIfChangedPut(p)
  PROVE  IndInv'
  <1>1. /\ rec[p].at > 0 /\ UNCHANGED <<declaring, items, cancelled, faults>>
        /\ etcd' = [etcd EXCEPT ![Item(p)] = Value(p)] /\ NextItem(p)
    BY DEF PutIfChangedPut, Working
  <1>2. TypeOK
    BY DEF IndInv
  <1>3. cancelled' \in [Publishers -> BOOLEAN]
    BY <1>1, <1>2 DEF TypeOK
  <1>4. faults' \in 0..MaxFaults
    BY <1>1, <1>2 DEF TypeOK
  <1>5. outcome = "handed over"
    BY <1>1, WorkingMeans
  <1>6. RecTyped /\ Only(p) /\ PublisherSound(p)' /\ DescriptorFirst(p)'
    BY <1>1, PutStores, NextItemSound
  <1> QED BY <1>1, <1>3, <1>4, <1>5, <1>6, PublisherStep

LEMMA ReconcileFailsInv ==
  ASSUME IndInv, NEW p \in Publishers, ReconcileFails(p)
  PROVE  IndInv'
  <1>1. /\ rec[p].at > 0 /\ UNCHANGED <<declaring, items, cancelled>> /\ Fault
        /\ etcd' = etcd \/ etcd' = [etcd EXCEPT ![Item(p)] = Value(p)]
        /\ ReconcileEnds(p, FALSE)
    BY DEF ReconcileFails
  <1>2. TypeOK
    BY DEF IndInv
  <1>3. cancelled' \in [Publishers -> BOOLEAN]
    BY <1>1, <1>2 DEF TypeOK
  <1>4. faults' \in 0..MaxFaults
    BY <1>1, <1>2, MaxFaultsAssumption DEF TypeOK, Fault
  <1>5. outcome = "handed over"
    BY <1>1, WorkingMeans
  <1>6. RecTyped /\ Only(p) /\ PublisherSound(p)' /\ DescriptorFirst(p)'
    BY <1>1, ReconcileEndsSound
  <1> QED BY <1>1, <1>3, <1>4, <1>5, <1>6, PublisherStep

-----------------------------------------------------------------------------
(* Start, the ticks of the loop, Stop and crashes write nothing to etcd *)

\* The types that those actions start from, and what they leave alone.
Typed ==
    /\ pc \in [Publishers -> States] /\ loop \in [Publishers -> LoopStates] /\ rec \in [Publishers -> Recs]

LEMMA TypedFacts ==
  ASSUME IndInv, NEW p \in Publishers
  PROVE  /\ Typed /\ faults \in 0..MaxFaults /\ published \in [Publishers -> BOOLEAN]
         /\ cancelled \in [Publishers -> BOOLEAN] /\ PublisherSound(p) /\ DescriptorFirst(p)
         /\ Len(items[p]) \in Nat /\ (items[p] # <<>> => Len(items[p]) >= 1)
         /\ pc[p] \notin {"none", "ready"} \/ loop[p] # "none" => outcome = "handed over"
  <1>1. TypeOK /\ PublisherSound(p) /\ DescriptorFirst(p) /\ NotBegun
    BY DEF IndInv, PublishersSound
  <1>2. Typed
    BY <1>1 DEF TypeOK, Typed, States, LoopStates, Recs
  <1>3. faults \in 0..MaxFaults /\ items[p] \in Seq(Keys)
    BY <1>1 DEF TypeOK
  <1>4. published \in [Publishers -> BOOLEAN] /\ cancelled \in [Publishers -> BOOLEAN]
    BY <1>1 DEF TypeOK
  <1>5. Len(items[p]) \in Nat /\ (items[p] # <<>> => Len(items[p]) >= 1)
    BY <1>3
  <1>6. pc[p] \notin {"none", "ready"} \/ loop[p] # "none" => outcome = "handed over"
    BY <1>1 DEF NotBegun, Publishers
  <1> QED BY <1>1, <1>2, <1>3, <1>4, <1>5, <1>6

\* A reconcile begins at the first item.
LEMMA AtFirst ==
  ASSUME rec \in [Publishers -> Recs], NEW p \in Publishers, rec' = [rec EXCEPT ![p].at = 1]
  PROVE  rec' \in [Publishers -> Recs] /\ rec'[p].at = 1 /\ \A q \in Publishers : q # p => rec'[q] = rec[q]
  <1>1. 1 \in 0..(MaxSpecs + 2)
    BY MaxSpecsAssumption
  <1> DEFINE r == rec[p]
  <1>2. r \in Recs /\ rec' = [rec EXCEPT ![p] = [r EXCEPT !.at = 1]]
    OBVIOUS
  <1> HIDE DEF r
  <1>3. [r EXCEPT !.at = 1] \in Recs /\ [r EXCEPT !.at = 1].at = 1
    BY <1>1, <1>2 DEF Recs
  <1> QED BY <1>2, <1>3

LEMMA StartInv ==
  ASSUME IndInv, NEW p \in Publishers, Start(p)
  PROVE  IndInv'
  <1>1. /\ pc[p] = "ready" /\ outcome = "handed over"
        /\ pc' = [pc EXCEPT ![p] = "starting"] /\ rec' = [rec EXCEPT ![p].at = 1]
        /\ UNCHANGED <<declaring, items, etcd, loop, cancelled, published, faults>>
    BY DEF Start
  <1>2. /\ Typed /\ faults \in 0..MaxFaults /\ PublisherSound(p)
        /\ Len(items[p]) \in Nat /\ (items[p] # <<>> => Len(items[p]) >= 1)
    BY TypedFacts
  <1>3. published' \in [Publishers -> BOOLEAN] /\ cancelled' \in [Publishers -> BOOLEAN]
    BY <1>1, TypedFacts
  <1>4. /\ pc' \in [Publishers -> States] /\ loop' \in [Publishers -> LoopStates]
        /\ pc'[p] = "starting" /\ loop'[p] = loop[p]
        /\ \A q \in Publishers : q # p => pc'[q] = pc[q] /\ loop'[q] = loop[q]
    BY <1>1, <1>2 DEF Typed, States
  <1>8. rec' \in [Publishers -> Recs] /\ rec'[p].at = 1 /\ \A q \in Publishers : q # p => rec'[q] = rec[q]
    BY <1>1, <1>2, AtFirst DEF Typed
  <1>5. RecTyped /\ Only(p)
    BY <1>3, <1>4, <1>8 DEF RecTyped, Only
  <1>6. PublisherSound(p)'
    <2>1. items[p] # <<>> /\ loop[p] = "none"
      BY <1>1, <1>2 DEF PublisherSound
    <2>2. 1 \in 0..Len(items[p])
      BY <1>2, <2>1
    <2> QED BY <1>1, <1>2, <1>4, <1>8, <2>1, <2>2 DEF PublisherSound
  <1>7. DescriptorFirst(p)'
    BY <1>8 DEF DescriptorFirst
  <1> QED BY <1>1, <1>2, <1>3, <1>5, <1>6, <1>7, PublisherStep

LEMMA LoopTickInv ==
  ASSUME IndInv, NEW p \in Publishers, LoopTick(p)
  PROVE  IndInv'
  <1>1. /\ loop[p] = "tick"
        /\ \/ loop' = [loop EXCEPT ![p] = "exited"] /\ rec' = rec
           \/ loop' = [loop EXCEPT ![p] = "reconcile"] /\ rec' = [rec EXCEPT ![p].at = 1]
        /\ UNCHANGED <<declaring, items, etcd, pc, cancelled, published, faults>>
    BY DEF LoopTick
  <1>2. /\ Typed /\ faults \in 0..MaxFaults /\ PublisherSound(p) /\ DescriptorFirst(p)
        /\ Len(items[p]) \in Nat /\ (items[p] # <<>> => Len(items[p]) >= 1) /\ outcome = "handed over"
    BY <1>1, TypedFacts
  <1>3. published' \in [Publishers -> BOOLEAN] /\ cancelled' \in [Publishers -> BOOLEAN]
    BY <1>1, TypedFacts
  <1>4. /\ pc' \in [Publishers -> States] /\ loop' \in [Publishers -> LoopStates]
        /\ rec' \in [Publishers -> Recs] /\ pc'[p] = pc[p]
        /\ \A q \in Publishers : q # p => pc'[q] = pc[q] /\ loop'[q] = loop[q] /\ rec'[q] = rec[q]
        /\ \/ loop'[p] = "exited" /\ rec'[p] = rec[p]
           \/ loop'[p] = "reconcile" /\ rec'[p].at = 1
    <2>1. CASE loop' = [loop EXCEPT ![p] = "exited"] /\ rec' = rec
      BY <1>1, <1>2, <2>1 DEF Typed, LoopStates
    <2>2. CASE loop' = [loop EXCEPT ![p] = "reconcile"] /\ rec' = [rec EXCEPT ![p].at = 1]
      <3>1. rec' \in [Publishers -> Recs] /\ rec'[p].at = 1 /\ \A q \in Publishers : q # p => rec'[q] = rec[q]
        BY <1>2, <2>2, AtFirst DEF Typed
      <3> QED BY <1>1, <1>2, <2>2, <3>1 DEF Typed, LoopStates
    <2> QED BY <1>1, <2>1, <2>2
  <1>5. RecTyped /\ Only(p)
    BY <1>3, <1>4 DEF RecTyped, Only
  <1>6. pc[p] \notin {"none", "ready", "starting", "notStarted", "stopped", "crashed"} /\ rec[p].at = 0 /\ items[p] # <<>>
    <2>1. rec[p].at \in 0..Len(items[p]) /\ Len(items[p]) \in Nat
      BY <1>2 DEF PublisherSound
    <2>2. pc[p] \notin {"none", "ready", "starting", "notStarted", "stopped", "crashed"} /\ items[p] # <<>>
      BY <1>1, <1>2 DEF PublisherSound
    <2>3. ~(rec[p].at > 0)
      BY <1>1, <1>2, <2>2 DEF PublisherSound
    <2> QED BY <2>1, <2>2, <2>3
  <1>7. PublisherSound(p)'
    <2> DEFINE n == Len(items[p])
    <2>3. n \in Nat /\ n >= 1
      BY <1>2, <1>6
    <2> HIDE DEF n
    <2>4. 1 \in 0..n /\ 0 \in 0..n
      BY <2>3
    <2>1. 1 \in 0..Len(items[p]) /\ 0 \in 0..Len(items[p])
      BY <2>4 DEF n
    <2>2. rec'[p].at \in {0, 1} /\ (rec'[p].at = 1 => loop'[p] = "reconcile")
      BY <1>4, <1>6
    <2> QED BY <1>1, <1>2, <1>4, <1>6, <2>1, <2>2 DEF PublisherSound
  <1>8. DescriptorFirst(p)'
    BY <1>4, <1>6 DEF DescriptorFirst
  <1> QED BY <1>1, <1>2, <1>3, <1>5, <1>7, <1>8, PublisherStep

LEMMA StopCallInv ==
  ASSUME IndInv, NEW p \in Publishers, StopCall(p)
  PROVE  IndInv'
  <1>1. /\ pc[p] = "up" /\ pc' = [pc EXCEPT ![p] = "stopping"]
        /\ UNCHANGED <<declaring, items, etcd, loop, rec, published, faults>>
    BY DEF StopCall
  <1>2. cancelled' = [cancelled EXCEPT ![p] = TRUE]
    BY DEF StopCall
  <1>3. Typed /\ faults \in 0..MaxFaults /\ PublisherSound(p) /\ DescriptorFirst(p) /\ outcome = "handed over"
    BY <1>1, TypedFacts
  <1>4. published' \in [Publishers -> BOOLEAN]
    BY <1>1, TypedFacts
  <1>5. cancelled' \in [Publishers -> BOOLEAN]
    BY <1>2, TypedFacts, Zenon
  <1>6. /\ pc' \in [Publishers -> States] /\ loop' \in [Publishers -> LoopStates] /\ rec' \in [Publishers -> Recs]
        /\ pc'[p] = "stopping" /\ \A q \in Publishers : q # p => pc'[q] = pc[q]
    BY <1>1, <1>3 DEF Typed, States
  <1>7. RecTyped /\ Only(p)
    BY <1>1, <1>4, <1>6 DEF RecTyped, Only
  <1>8. PublisherSound(p)' /\ DescriptorFirst(p)'
    BY <1>1, <1>3, <1>6 DEF PublisherSound, DescriptorFirst
  <1> QED BY <1>1, <1>3, <1>5, <1>7, <1>8, PublisherStep

LEMMA StopReturnsInv ==
  ASSUME IndInv, NEW p \in Publishers, StopReturns(p)
  PROVE  IndInv'
  <1>1. /\ pc[p] = "stopping" /\ loop[p] = "exited" /\ pc' = [pc EXCEPT ![p] = "stopped"]
        /\ UNCHANGED <<declaring, items, etcd, loop, rec, cancelled, faults>>
    BY DEF StopReturns
  <1>2. published' = [published EXCEPT ![p] = FALSE]
    BY DEF StopReturns
  <1>3. Typed /\ faults \in 0..MaxFaults /\ PublisherSound(p) /\ DescriptorFirst(p) /\ outcome = "handed over"
    BY <1>1, TypedFacts
  <1>4. published' \in [Publishers -> BOOLEAN]
    BY <1>2, TypedFacts, Zenon
  <1>5. cancelled' \in [Publishers -> BOOLEAN]
    BY <1>1, TypedFacts
  <1>6. /\ pc' \in [Publishers -> States] /\ loop' \in [Publishers -> LoopStates] /\ rec' \in [Publishers -> Recs]
        /\ pc'[p] = "stopped" /\ \A q \in Publishers : q # p => pc'[q] = pc[q]
    BY <1>1, <1>3 DEF Typed, States
  <1>7. RecTyped /\ Only(p)
    BY <1>1, <1>4, <1>6 DEF RecTyped, Only
  <1>8. PublisherSound(p)' /\ DescriptorFirst(p)'
    BY <1>1, <1>3, <1>6 DEF PublisherSound, DescriptorFirst
  <1> QED BY <1>1, <1>3, <1>5, <1>7, <1>8, PublisherStep

LEMMA StopTimesOutInv ==
  ASSUME IndInv, NEW p \in Publishers, StopTimesOut(p)
  PROVE  IndInv'
  <1>1. /\ pc[p] = "stopping" /\ pc' = [pc EXCEPT ![p] = "stopFailed"]
        /\ UNCHANGED <<declaring, items, etcd, loop, rec, cancelled, published, faults>>
    BY DEF StopTimesOut
  <1>2. Typed /\ faults \in 0..MaxFaults /\ PublisherSound(p) /\ DescriptorFirst(p) /\ outcome = "handed over"
    BY <1>1, TypedFacts
  <1>3. published' \in [Publishers -> BOOLEAN] /\ cancelled' \in [Publishers -> BOOLEAN]
    BY <1>1, TypedFacts
  <1>4. /\ pc' \in [Publishers -> States] /\ loop' \in [Publishers -> LoopStates] /\ rec' \in [Publishers -> Recs]
        /\ pc'[p] = "stopFailed" /\ \A q \in Publishers : q # p => pc'[q] = pc[q]
    BY <1>1, <1>2 DEF Typed, States
  <1>5. RecTyped /\ Only(p)
    BY <1>1, <1>3, <1>4 DEF RecTyped, Only
  <1>6. PublisherSound(p)' /\ DescriptorFirst(p)'
    BY <1>1, <1>2, <1>4 DEF PublisherSound, DescriptorFirst
  <1> QED BY <1>1, <1>2, <1>3, <1>5, <1>6, PublisherStep

LEMMA CrashInv ==
  ASSUME IndInv, NEW p \in Publishers, Crash(p)
  PROVE  IndInv'
  <1>1. /\ pc[p] \in {"starting", "up", "stopping"} /\ Fault
        /\ pc' = [pc EXCEPT ![p] = "crashed"] /\ loop' = [loop EXCEPT ![p] = "exited"]
        /\ rec' = [rec EXCEPT ![p] = Idle]
        /\ UNCHANGED <<declaring, items, etcd, cancelled>>
    BY DEF Crash
  <1>2. published' = [published EXCEPT ![p] = FALSE]
    BY DEF Crash
  <1>3. Typed /\ faults \in 0..MaxFaults /\ PublisherSound(p) /\ outcome = "handed over" /\ Len(items[p]) \in Nat
    BY <1>1, TypedFacts
  <1>4. published' \in [Publishers -> BOOLEAN]
    BY <1>2, TypedFacts, Zenon
  <1>5. cancelled' \in [Publishers -> BOOLEAN]
    BY <1>1, TypedFacts
  <1>6. faults' \in 0..MaxFaults
    <2>1. faults \in 0..MaxFaults /\ faults < MaxFaults /\ faults' = faults + 1
      BY <1>1, TypedFacts DEF Fault
    <2> QED BY <2>1, MaxFaultsAssumption
  <1>7. Idle \in Recs /\ Idle.at = 0
    BY MaxSpecsAssumption DEF Idle, Recs
  <1>8. /\ pc' \in [Publishers -> States] /\ loop' \in [Publishers -> LoopStates] /\ rec' \in [Publishers -> Recs]
        /\ pc'[p] = "crashed" /\ loop'[p] = "exited" /\ rec'[p].at = 0
        /\ \A q \in Publishers : q # p => pc'[q] = pc[q] /\ loop'[q] = loop[q] /\ rec'[q] = rec[q]
    BY <1>1, <1>3, <1>7 DEF Typed, States, LoopStates
  <1>9. RecTyped /\ Only(p)
    BY <1>4, <1>8 DEF RecTyped, Only
  <1>10. PublisherSound(p)' /\ DescriptorFirst(p)'
    <2> DEFINE n == Len(items[p])
    <2>2. n \in Nat
      BY <1>3
    <2> HIDE DEF n
    <2>3. 0 \in 0..n
      BY <2>2
    <2>4. items[p] # <<>>
      BY <1>1, <1>3 DEF PublisherSound
    <2>1. items[p] # <<>> /\ 0 \in 0..Len(items[p])
      BY <2>3, <2>4 DEF n
    <2>5. Len(items[p]) \in 0..(MaxSpecs + 1) /\ \A i \in 2..Len(items[p]) : items[p][i] # Descriptor
      BY <1>3 DEF PublisherSound
    <2>6. items'[p] = items[p]
      BY <1>1
    <2>7. rec'[p].at = 0
      BY <1>8
    <2>8. ~(rec'[p].at > 0) /\ ~(rec'[p].at > 1)
      BY ONLY <2>7
    <2>9. DescriptorFirst(p)'
      BY <2>8 DEF DescriptorFirst
    <2> QED BY <1>8, <2>1, <2>5, <2>6, <2>8, <2>9 DEF PublisherSound
  <1> QED BY <1>1, <1>3, <1>5, <1>6, <1>9, <1>10, PublisherStep

-----------------------------------------------------------------------------
(* The remaining actions *)

LEMMA DeleteRouteInv ==
  ASSUME IndInv, NEW k \in Keys, DeleteRoute(k)
  PROVE  IndInv'
  <1>1. /\ k # Descriptor /\ etcd[k] # Nil /\ Fault /\ etcd' = [etcd EXCEPT ![k] = Nil]
        /\ UNCHANGED <<declaring, items, pc, loop, rec, cancelled, published>>
    BY DEF DeleteRoute
  <1>2. TypeOK /\ DeclaringInv /\ NotBegun /\ PublishersSound /\ RouteHasDescriptor
    BY DEF IndInv
  <1>3. etcd \in [Keys -> Values] /\ Nil \in Values /\ Descriptor \in Keys
    BY <1>2 DEF TypeOK, Values, Keys
  <1>4. /\ etcd' \in [Keys -> Values] /\ etcd'[Descriptor] = etcd[Descriptor]
        /\ \A j \in Keys : etcd'[j] = etcd[j] \/ etcd'[j] = Nil
    BY <1>1, <1>3
  <1>5. TypeOK'
    <2>1. faults' \in 0..MaxFaults
      BY <1>1, <1>2, MaxFaultsAssumption DEF TypeOK, Fault
    <2>2. DOMAIN items' = Publishers /\ \A p \in Publishers : items'[p] \in Seq(Keys)
      BY <1>1, <1>2 DEF TypeOK
    <2>3. /\ pc' \in [Publishers -> States] /\ loop' \in [Publishers -> LoopStates] /\ rec' \in [Publishers -> Recs]
      BY <1>1, <1>2 DEF TypeOK, States, LoopStates, Recs
    <2>4. published' \in [Publishers -> BOOLEAN] /\ cancelled' \in [Publishers -> BOOLEAN]
      BY <1>1, <1>2 DEF TypeOK
    <2> QED BY <1>4, <2>1, <2>2, <2>3, <2>4 DEF TypeOK, States, LoopStates, Recs
  <1>6. DeclaringInv' /\ outcome' = outcome
    BY <1>1, <1>2, DeclaringStays DEF declaring
  <1>7. NotBegun'
    BY <1>1, <1>2, <1>4, <1>6 DEF NotBegun
  <1>8. PublishersSound'
    BY <1>1, <1>2, <1>4 DEF PublishersSound, PublisherSound, DescriptorFirst
  <1>9. RouteHasDescriptor'
    BY <1>1, <1>2, <1>4 DEF RouteHasDescriptor, IsRouteOf
  <1> QED BY <1>5, <1>6, <1>7, <1>8, <1>9 DEF IndInv

\* The keys of an accepted publication: descriptors first, then the routes.
LEMMA PublicationKeys ==
  ASSUME NEW rs, IsSeq(rs), Len(rs) \in 1..MaxSpecs, \A i \in DOMAIN rs : metadataRouteKey(rs[i].id) \in Keys,
         NEW ds \in {<<>>, <<Descriptor>>}
  PROVE  LET its == ds \o [i \in DOMAIN rs |-> metadataRouteKey(rs[i].id)]
         IN /\ its \in Seq(Keys) /\ Len(its) \in 1..(MaxSpecs + 1) /\ its # <<>>
            /\ \A i \in 2..Len(its) : its[i] # Descriptor
  <1> DEFINE ks == [i \in DOMAIN rs |-> metadataRouteKey(rs[i].id)]
             its == ds \o ks
  <1>1. Len(rs) \in Nat /\ DOMAIN rs = 1..Len(rs)
    BY DEF IsSeq
  <1>2. ks \in Seq(Keys) /\ Len(ks) = Len(rs)
    BY <1>1
  <1>3. \A x : metadataRouteKey(x) # Descriptor
    BY DEF metadataRouteKey, Descriptor
  <1>4. \A i \in 1..Len(ks) : ks[i] # Descriptor
    BY <1>1, <1>2, <1>3
  <1>5. ds \in Seq(Keys) /\ Len(ds) \in {0, 1}
    <2>1. Descriptor \in Keys
      BY DEF Keys
    <2>2. <<>> \in Seq(Keys) /\ Len(<<>>) = 0
      OBVIOUS
    <2>3. <<Descriptor>> \in Seq(Keys) /\ Len(<<Descriptor>>) = 1
      BY <2>1
    <2> QED BY <2>2, <2>3
  <1> HIDE DEF ks
  <1>6. its \in Seq(Keys) /\ Len(its) = Len(ds) + Len(ks) /\ \A i \in 1..Len(its) : i > Len(ds) => its[i] = ks[i - Len(ds)]
    BY <1>2, <1>5
  <1> HIDE DEF its
  <1> DEFINE a == Len(ds)
             b == Len(ks)
             n == Len(its)
  <1>10. a \in {0, 1} /\ b \in 1..MaxSpecs /\ n = a + b
    BY <1>2, <1>5, <1>6
  <1> HIDE DEF a, b, n
  <1>11. b \in Nat /\ n \in 1..(MaxSpecs + 1) /\ \A i \in 2..n : i - a \in 1..b /\ i \in 1..n /\ i > a
    BY <1>10, MaxSpecsAssumption
  <1>7. Len(its) \in 1..(MaxSpecs + 1)
    BY <1>11 DEF n
  <1>8. its # <<>>
    BY <1>6, <1>7
  <1>9. ASSUME NEW i \in 2..Len(its) PROVE its[i] # Descriptor
    <2>1. i - Len(ds) \in 1..Len(ks) /\ i \in 1..Len(its) /\ i > Len(ds)
      BY <1>11 DEF a, b, n
    <2> QED BY <1>4, <1>6, <2>1
  <1> QED BY <1>6, <1>7, <1>8, <1>9 DEF its, ks

LEMMA NewPublisherInv ==
  ASSUME IndInv, NewMetadataPublisher
  PROVE  IndInv'
  <1> DEFINE ds == IF \E i \in DOMAIN specs : isDescriptorRoute(specs[i]) THEN <<Descriptor>> ELSE <<>>
             its == ds \o [i \in DOMAIN routes |-> metadataRouteKey(routes[i].id)]
  <1>1. /\ outcome = "accepted" /\ outcome' = "handed over" /\ pc["new"] = "none"
        /\ items' = [items EXCEPT !["new"] = its] /\ pc' = [pc EXCEPT !["new"] = "ready"]
        /\ specs' = <<>> /\ routes' = <<>>
        /\ UNCHANGED <<etcd, loop, rec, cancelled, published, faults>>
    BY DEF NewMetadataPublisher
  <1>2. TypeOK /\ DeclaringInv /\ NotBegun /\ PublishersSound
    BY DEF IndInv
  <1>3. /\ IsSeq(routes) /\ Len(routes) \in 1..MaxSpecs
        /\ \A i \in DOMAIN routes : metadataRouteKey(routes[i].id) \in Keys
    BY <1>1, <1>2 DEF DeclaringInv, PublishedSound
  <1>4. ds \in {<<>>, <<Descriptor>>}
    OBVIOUS
  <1> HIDE DEF ds
  <1>5. /\ its \in Seq(Keys) /\ Len(its) \in 1..(MaxSpecs + 1) /\ its # <<>>
        /\ \A i \in 2..Len(its) : its[i] # Descriptor
    BY <1>3, <1>4, PublicationKeys
  <1> HIDE DEF its
  <1>6. /\ DOMAIN items = Publishers /\ \A p \in Publishers : items[p] \in Seq(Keys)
        /\ pc \in [Publishers -> States] /\ "new" \in Publishers
    BY <1>2 DEF TypeOK, States, Publishers
  <1>7. /\ DOMAIN items' = Publishers /\ items'["new"] = its /\ \A p \in Publishers : p # "new" => items'[p] = items[p]
        /\ pc' \in [Publishers -> States] /\ pc'["new"] = "ready" /\ \A p \in Publishers : p # "new" => pc'[p] = pc[p]
    BY <1>1, <1>6 DEF States
  <1>8. TypeOK'
    <2>1. \A p \in Publishers : items'[p] \in Seq(Keys)
      BY <1>5, <1>6, <1>7
    <2>2. etcd' \in [Keys -> Values] /\ loop' \in [Publishers -> LoopStates] /\ rec' \in [Publishers -> Recs]
      BY <1>1, <1>2 DEF TypeOK, LoopStates, Recs
    <2>3. published' \in [Publishers -> BOOLEAN] /\ cancelled' \in [Publishers -> BOOLEAN] /\ faults' \in 0..MaxFaults
      BY <1>1, <1>2 DEF TypeOK
    <2> QED BY <1>7, <2>1, <2>2, <2>3 DEF TypeOK, States, LoopStates, Recs
  <1>9. DeclaringInv' /\ NotBegun'
    <2>1. IsSeq(<<>>) /\ Len(<<>>) = 0 /\ DOMAIN <<>> = {}
      BY DEF IsSeq
    <2>4. IsSeq(specs)' /\ Len(specs') = 0 /\ DOMAIN specs' = {}
      <3>1. IsSeq(specs') /\ Len(specs') = 0 /\ DOMAIN specs' = {}
        BY <1>1, <2>1
      <3>2. IsSeq(specs)' <=> IsSeq(specs')
        BY DEF IsSeq, Range
      <3> QED BY <3>1, <3>2
    <2>2. DeclaredSound'
      BY <2>4, MaxSpecsAssumption DEF DeclaredSound
    <2>3. PublishedSound' /\ PublicationIsExact' /\ NotBegun'
      BY <1>1 DEF PublishedSound, PublicationIsExact, NotBegun
    <2> QED BY <2>2, <2>3 DEF DeclaringInv
  <1>10. \A p \in Publishers : rec'[p].at = 0 /\ loop'[p] = "none" /\ \A k \in Keys : etcd'[k] = Nil
    BY <1>1, <1>2 DEF NotBegun
  <1>11. RouteHasDescriptor'
    BY <1>10 DEF RouteHasDescriptor, IsRouteOf
  <1>12. ASSUME NEW p \in Publishers PROVE PublisherSound(p)' /\ DescriptorFirst(p)'
    <2>1. DescriptorFirst(p)'
      BY <1>10 DEF DescriptorFirst
    <2>2. CASE p = "new"
      <3>1. 0 \in 0..Len(its) /\ Len(its) \in 0..(MaxSpecs + 1)
        BY <1>5, MaxSpecsAssumption
      <3> QED BY <1>5, <1>7, <1>10, <2>1, <2>2, <3>1 DEF PublisherSound
    <2>3. CASE p # "new"
      <3>1. PublisherSound(p)
        BY <1>2 DEF PublishersSound
      <3>2. items'[p] = items[p] /\ pc'[p] = pc[p] /\ loop'[p] = loop[p] /\ rec'[p] = rec[p]
        BY <1>1, <1>7, <2>3
      <3> QED BY <2>1, <3>1, <3>2 DEF PublisherSound
    <2> QED BY <2>2, <2>3
  <1> QED BY <1>8, <1>9, <1>11, <1>12 DEF IndInv, PublishersSound

\* What the publishers have does not depend on the declarations.
LEMMA PublishingStays ==
  ASSUME IndInv, UNCHANGED publishing, DeclaringInv', outcome' = outcome \/ outcome # "handed over"
  PROVE  IndInv'
  <1>1. UNCHANGED <<items, etcd, pc, loop, rec, cancelled, published, faults>>
    BY DEF publishing
  <1>2. TypeOK'
    BY <1>1 DEF IndInv, TypeOK
  <1>3. NotBegun'
    BY <1>1 DEF IndInv, NotBegun
  <1>4. PublishersSound'
    BY <1>1 DEF IndInv, PublishersSound, PublisherSound, DescriptorFirst
  <1>5. RouteHasDescriptor'
    BY <1>1 DEF IndInv, RouteHasDescriptor, IsRouteOf, Range
  <1> QED BY <1>2, <1>3, <1>4, <1>5 DEF IndInv

LEMMA InitInv ==
  ASSUME Init
  PROVE  IndInv
  <1>1. /\ specs = <<>> /\ outcome = "none"
        /\ items = [p \in Publishers |-> IF p = "old" THEN Old ELSE <<>>]
        /\ etcd = [k \in Keys |-> Nil] /\ pc = [p \in Publishers |-> IF p = "old" THEN "ready" ELSE "none"]
        /\ loop = [p \in Publishers |-> "none"] /\ rec = [p \in Publishers |-> Idle] /\ faults = 0
    BY DEF Init, DeclareInit
  <1>2. cancelled \in [Publishers -> BOOLEAN] /\ published \in [Publishers -> BOOLEAN]
    BY DEF Init
  <1>3. Idle \in Recs /\ Idle.at = 0
    BY MaxSpecsAssumption DEF Idle, Recs
  <1>4. TypeOK
    <2>1. DOMAIN items = Publishers /\ \A p \in Publishers : items[p] \in Seq(Keys)
      BY <1>1, OldAssumption
    <2>2. etcd \in [Keys -> Values] /\ faults \in 0..MaxFaults
      BY <1>1, MaxFaultsAssumption DEF Values
    <2>3. pc \in [Publishers -> States] /\ loop \in [Publishers -> LoopStates] /\ rec \in [Publishers -> Recs]
      BY <1>1, <1>3 DEF States, LoopStates
    <2> QED BY <1>2, <2>1, <2>2, <2>3 DEF TypeOK, States, LoopStates, Recs
  <1>5. DeclaringInv
    <2>1. IsSeq(<<>>) /\ Len(<<>>) = 0 /\ DOMAIN <<>> = {}
      BY DEF IsSeq
    <2>2. DeclaredSound
      BY <1>1, <2>1, MaxSpecsAssumption DEF DeclaredSound
    <2>3. PublishedSound /\ PublicationIsExact
      BY <1>1 DEF PublishedSound, PublicationIsExact
    <2> QED BY <2>2, <2>3 DEF DeclaringInv
  <1>6. NotBegun
    BY <1>1, <1>3 DEF NotBegun, Publishers
  <1>7. ASSUME NEW p \in Publishers PROVE PublisherSound(p) /\ DescriptorFirst(p)
    <2>1. DescriptorFirst(p)
      BY <1>1, <1>3 DEF DescriptorFirst
    <2>2. CASE p = "old"
      <3>1. items[p] = Old /\ Len(Old) \in 1..(MaxSpecs + 1) /\ pc[p] = "ready" /\ loop[p] = "none" /\ rec[p].at = 0
        BY <1>1, <1>3, <2>2, OldAssumption
      <3>2. Old # <<>> /\ 0 \in 0..Len(Old) /\ Len(Old) \in 0..(MaxSpecs + 1)
        BY <3>1, MaxSpecsAssumption
      <3> QED BY <2>1, <3>1, <3>2, OldAssumption DEF PublisherSound
    <2>3. CASE p # "old"
      <3>1. items[p] = <<>> /\ pc[p] = "none" /\ loop[p] = "none" /\ rec[p].at = 0
        BY <1>1, <1>3, <2>3
      <3>2. Len(items[p]) = 0 /\ 0 \in 0..0 /\ 0 \in 0..(MaxSpecs + 1) /\ \A i \in 2..0 : FALSE
        BY <3>1, MaxSpecsAssumption
      <3> QED BY <2>1, <3>1, <3>2 DEF PublisherSound
    <2> QED BY <2>2, <2>3
  <1>8. RouteHasDescriptor
    BY <1>1 DEF RouteHasDescriptor, IsRouteOf
  <1> QED BY <1>4, <1>5, <1>6, <1>7, <1>8 DEF IndInv, PublishersSound

LEMMA NextInv ==
  ASSUME IndInv, [Next]_vars
  PROVE  IndInv'
  <1>1. CASE Declaration
    <2>1. UNCHANGED publishing /\ (Declare \/ Modify \/ Publish) /\ DeclaringInv
      BY <1>1 DEF Declaration, IndInv
    <2>2. DeclaringInv' /\ (outcome' = outcome \/ outcome # "handed over")
      BY <2>1, DeclareInv, ModifyInv, PublishInv
    <2>3. outcome' = "handed over" => outcome = "handed over"
      BY <2>1, DeclareInv, ModifyInv, PublishInv
    <2> QED BY <2>1, <2>2, <2>3, PublishingStays
  <1>2. CASE NewMetadataPublisher
    BY <1>2, NewPublisherInv
  <1>3. ASSUME NEW p \in Publishers,
               \/ Start(p) \/ LoopStep(p) \/ ReconcileFails(p)
               \/ StopCall(p) \/ StopReturns(p) \/ StopTimesOut(p) \/ Crash(p)
        PROVE  IndInv'
    BY <1>3, StartInv, LoopTickInv, GetInv, PutInv, ReconcileFailsInv, StopCallInv, StopReturnsInv, StopTimesOutInv,
      CrashInv DEF LoopStep
  <1>4. ASSUME NEW k \in Keys, DeleteRoute(k) PROVE IndInv'
    BY <1>4, DeleteRouteInv
  <1>5. CASE UNCHANGED vars
    <2>1. UNCHANGED declaring /\ UNCHANGED publishing
      BY <1>5 DEF vars
    <2>2. DeclaringInv' /\ outcome' = outcome
      BY <2>1, DeclaringStays DEF IndInv, declaring
    <2> QED BY <2>1, <2>2, PublishingStays
  <1> QED BY <1>1, <1>2, <1>3, <1>4, <1>5 DEF Next

-----------------------------------------------------------------------------
(* Theorems *)

(***************************************************************************)
(* The inductive invariant holds of every reachable state: declarations    *)
(* keep their form, and a reconcile is run by Start or by the loop, never  *)
(* by both, and stores the descriptor before it goes on to a route.        *)
(***************************************************************************)
THEOREM IndInvHolds == Spec => []IndInv
  <1>1. Init => IndInv
    BY InitInv
  <1>2. IndInv /\ [Next]_vars => IndInv'
    BY NextInv
  <1> QED BY <1>1, <1>2, PTL DEF Spec

(***************************************************************************)
(* The publishers' state has its type, whatever is declared: every route   *)
(* NewGatewayPublication accepts has a key that a reconcile can store it   *)
(* under.                                                                  *)
(***************************************************************************)
THEOREM TypeCorrect == Spec => []TypeOK
  BY IndInvHolds, PTL DEF IndInv

(***************************************************************************)
(* The four maps of validatePublishedRoutes decide exactly whether two     *)
(* routes have one id or serve one request, for any declarations.          *)
(***************************************************************************)
THEOREM PublicationIsAlwaysExact == Spec => []PublicationIsExact
  <1>1. IndInv => PublicationIsExact
    BY DEF IndInv, DeclaringInv
  <1> QED BY <1>1, IndInvHolds, PTL

(***************************************************************************)
(* No route is ever in etcd without its descriptor, whatever fails and     *)
(* whenever a publisher crashes, between the two processes of a rollout.   *)
(***************************************************************************)
THEOREM RouteAlwaysHasDescriptor == Spec => []RouteHasDescriptor
  <1>1. IndInv => RouteHasDescriptor
    BY DEF IndInv
  <1> QED BY <1>1, IndInvHolds, PTL

\* The routes of a publication that stays accepted stay what they were.
LEMMA RoutesStay ==
  ASSUME IndInv, [Next]_vars, outcome = "accepted", outcome' = "accepted"
  PROVE  routes' = routes
  <1>1. CASE Declaration
    BY <1>1 DEF Declaration, Declare, Modify, Publish
  <1>2. CASE NewMetadataPublisher
    BY <1>2 DEF NewMetadataPublisher
  <1>3. ASSUME NEW p \in Publishers, Start(p) \/ LoopStep(p) \/ ReconcileFails(p) PROVE routes' = routes
    BY <1>3 DEF Start, LoopStep, LoopTick, PutIfChangedGet, PutIfChangedPut, ReconcileFails, declaring
  <1>4. ASSUME NEW p \in Publishers, StopCall(p) \/ StopReturns(p) \/ StopTimesOut(p) \/ Crash(p) PROVE routes' = routes
    BY <1>4 DEF StopCall, StopReturns, StopTimesOut, Crash, declaring
  <1>5. ASSUME NEW k \in Keys, DeleteRoute(k) PROVE routes' = routes
    BY <1>5 DEF DeleteRoute, declaring
  <1>6. CASE UNCHANGED vars
    BY <1>6 DEF vars, declaring
  <1> QED BY <1>1, <1>2, <1>3, <1>4, <1>5, <1>6 DEF Next

(***************************************************************************)
(* Modifiers called on declarations after the publication never reach the  *)
(* backends and policies of the published routes.                          *)
(***************************************************************************)
THEOREM RoutesAreAlwaysIsolated == Spec => RoutesAreIsolated
  <1>1. ASSUME IndInv, [Next]_vars
        PROVE  [outcome = "accepted" /\ outcome' = "accepted" =>
                  \A i \in DOMAIN routes : LET r == routes[i] IN
                      /\ Held(r.backend)' = Held(r.backend)
                      /\ Held(r.auth)' = Held(r.auth)
                      /\ Held(r.response)' = Held(r.response)]_declaring
    <2> SUFFICES ASSUME outcome = "accepted", outcome' = "accepted", NEW i \in DOMAIN routes
                 PROVE  /\ Held(routes[i].backend)' = Held(routes[i].backend)
                        /\ Held(routes[i].auth)' = Held(routes[i].auth)
                        /\ Held(routes[i].response)' = Held(routes[i].response)
      OBVIOUS
    <2>1. routes' = routes
      BY <1>1, RoutesStay
    <2>2. Isolated(routes[i])
      BY <1>1 DEF IndInv, DeclaringInv, PublishedSound
    <2>3. ASSUME NEW x, DOMAIN x = {"own"} PROVE Held(x) = x.own
      BY <2>3 DEF Held
    <2>4. /\ Held(routes[i].backend) = routes[i].backend.own
          /\ Held(routes[i].auth) = routes[i].auth.own
          /\ Held(routes[i].response) = routes[i].response.own
      BY <2>2, <2>3 DEF Isolated
    <2>5. /\ Held(routes[i].backend)' = routes[i].backend.own
          /\ Held(routes[i].auth)' = routes[i].auth.own
          /\ Held(routes[i].response)' = routes[i].response.own
      BY <2>1, <2>2 DEF Held, Isolated
    <2> QED BY <2>4, <2>5
  <1> QED BY <1>1, IndInvHolds, PTL DEF Spec, RoutesAreIsolated

\* Only a reconcile writes, and it writes its own publisher's value.
LEMMA WhoWrites ==
  ASSUME IndInv, [Next]_vars, NEW k \in Keys, etcd'[k] # etcd[k], etcd'[k] # Nil
  PROVE  \E p \in Publishers : rec[p].at > 0 /\ etcd'[k] = Value(p)
  <1>0. etcd \in [Keys -> Values]
    BY DEF IndInv, TypeOK
  <1>1. CASE Declaration \/ NewMetadataPublisher
    BY <1>1 DEF Declaration, NewMetadataPublisher, publishing
  <1>2. ASSUME NEW p \in Publishers, Start(p) \/ LoopTick(p) \/ PutIfChangedGet(p) PROVE FALSE
    BY <1>2 DEF Start, LoopTick, PutIfChangedGet
  <1>3. ASSUME NEW p \in Publishers, StopCall(p) \/ StopReturns(p) \/ StopTimesOut(p) \/ Crash(p) PROVE FALSE
    BY <1>3 DEF StopCall, StopReturns, StopTimesOut, Crash
  <1>4. ASSUME NEW p \in Publishers, PutIfChangedPut(p) \/ ReconcileFails(p)
        PROVE  rec[p].at > 0 /\ etcd'[k] = Value(p)
    <2>1. rec[p].at > 0 /\ etcd' = [etcd EXCEPT ![Item(p)] = Value(p)]
      <3>1. CASE PutIfChangedPut(p)
        BY <3>1 DEF PutIfChangedPut, Working
      <3>2. CASE ReconcileFails(p)
        BY <3>2 DEF ReconcileFails, Working
      <3> QED BY <1>4, <3>1, <3>2
    <2> QED BY <1>0, <2>1
  <1>5. ASSUME NEW j \in Keys, DeleteRoute(j) PROVE FALSE
    BY <1>0, <1>5 DEF DeleteRoute
  <1>6. CASE UNCHANGED vars
    BY <1>6 DEF vars, publishing
  <1> QED BY <1>1, <1>2, <1>3, <1>4, <1>5, <1>6 DEF Next, LoopStep

(***************************************************************************)
(* A publisher writes nothing once its Stop has returned nil or its Start  *)
(* has failed, though Stop does not cancel the context of a reconcile.     *)
(***************************************************************************)
THEOREM StoppedIsAlwaysSilent == Spec => StoppedIsSilent
  <1>1. ASSUME IndInv, [Next]_vars
        PROVE  [\A k \in Keys : (etcd'[k] # etcd[k] /\ etcd'[k] # Nil) =>
                   pc[etcd'[k][1]] \notin {"stopped", "notStarted", "crashed"}]_vars
    <2> SUFFICES ASSUME NEW k \in Keys, etcd'[k] # etcd[k], etcd'[k] # Nil
                 PROVE  pc[etcd'[k][1]] \notin {"stopped", "notStarted", "crashed"}
      OBVIOUS
    <2>1. PICK p \in Publishers : rec[p].at > 0 /\ etcd'[k] = Value(p)
      BY <1>1, WhoWrites
    <2>2. Value(p)[1] = p /\ pc[p] \in {"starting", "up", "stopping", "stopFailed"}
      BY <1>1, <2>1, WorkingMeans
    <2> QED BY <2>1, <2>2
  <1> QED BY <1>1, IndInvHolds, PTL DEF Spec, StoppedIsSilent
=============================================================================
