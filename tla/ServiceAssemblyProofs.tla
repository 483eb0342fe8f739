------------------------- MODULE ServiceAssemblyProofs -------------------------
(***************************************************************************)
(* Proofs about one generation of a managed service (servicekit/runtime.go *)
(* and the components it assembles) and about the infra container inside   *)
(* it, for any configurations, handlers, pools and clients.                *)
(***************************************************************************)
EXTENDS ServiceAssembly, SequenceTheorems, WellFoundedInduction, TLAPS

Phases == {"assembling", "built", "dropped", "failing", "failed", "starting", "up",
           "stopping", "rollback", "startFailed", "stopped"}
Resources == {"etcd", "clients", "configs"}

Calls == [at : {"none", "dialing", "dialed", "returned", "refused"},
          name : Names \cup {Nil}, client : Nat \cup {Nil}]

InfraTypeOK ==
    /\ closed \in BOOLEAN
    /\ slot \in [Names -> Nat \cup {Nil}]
    /\ closing \in SUBSET Nat /\ open \in SUBSET Nat /\ made \in Nat
    /\ call \in [Callers -> Calls]

TypeOK ==
    /\ cfg \in Configs /\ phase \in Phases
    /\ names \in Seq(Basics \cup Others) /\ step \in Nat
    /\ sub \in {"begin", "http", "grpc", "wait", "closing"} /\ ctx \in {"live", "ended"}
    /\ res \in [Resources -> {"none", "idle", "open", "closed", "reopened"}]
    /\ server \in [Servers -> {"none", "spawned", "serving", "closed", "died"}]
    /\ down \in SUBSET Servers
    /\ "http" \in DOMAIN bound /\ "state" \in DOMAIN instance
    /\ busy \in [Callers -> Servers \cup {Nil}]

-----------------------------------------------------------------------------
(* The infra container *)

\* Clients are numbered in the order they are created.
Numbered ==
    /\ \A id \in open \cup closing : id <= made
    /\ \A n \in Names : slot[n] # Nil => slot[n] <= made
    /\ \A c \in Callers : call[c].client # Nil => call[c].client <= made

\* A client that was dialed is its caller's alone until it is stored.
DialedIsOwn ==
    \A c \in Callers :
        /\ InCall(c) => call[c].name \in Names
        /\ call[c].at = "dialed" =>
              /\ call[c].client \in open
              /\ \A n \in Names : slot[n] # call[c].client
              /\ \A d \in Callers : (call[d].at = "dialed" /\ call[d].client = call[c].client) => d = c

\* Until Close every stored client is open, and what is returned is stored.
StoredIsOpen ==
    /\ ~closed => closing = {} /\ \A n \in Names : slot[n] # Nil => slot[n] \in open
    /\ \A id \in closing : \E n \in Names : slot[n] = id
    /\ \A c \in Callers : call[c].at = "returned" => \E n \in Names : slot[n] = call[c].client /\ slot[n] # Nil
    /\ \A c \in Callers : call[c].at = "refused" => closed

InfraInv == InfraTypeOK /\ Numbered /\ DialedIsOwn /\ StoredIsOpen /\ NoStrayClient

-----------------------------------------------------------------------------
(* The generation *)

Ending == phase \in {"stopping", "rollback"}
Ended == phase \in {"startFailed", "stopped"}

Owner(s) == IF s = "user_http" THEN "user_http" ELSE "grpc"
Keeper(r) == CASE r = "etcd" -> "etcd_client" [] r = "clients" -> "grpc_clients" [] r = "configs" -> "configs"
Live(r) == res[r] \in {"open", "idle"}

\* A component among the first n.
Among(x, n) == \E i \in 1..n : i <= Len(names) /\ names[i] = x

\* The components that other ones rely on come first, and are stopped last.
BasicsFirst ==
    \A i, j \in 1..Len(names) : (names[i] \in Basics /\ names[j] \in Others) => i < j

InfraAt == IF cfg.registry THEN 4 ELSE 2
HookAt == IF cfg.registry THEN 6 ELSE 4

AssemblyOrder ==
    /\ phase = "assembling" =>
          /\ step \in 1..Len(Plan)
          /\ step <= HookAt => \A i \in 1..Len(names) : names[i] \in Basics
          /\ step > InfraAt => Among("infra", Len(names))
    /\ phase \notin {"assembling", "failing", "failed"} => Among("infra", Len(names))
    /\ phase = "starting" => step \in 1..Len(names)
    /\ Ending => step \in 0..Len(names)

\* Where the Start or Stop of the component at hand is.
SubSound ==
    /\ phase \notin {"starting", "stopping", "rollback"} => sub = "begin"
    /\ phase = "starting" => sub \in {"begin", "http"}
    /\ (phase = "starting" /\ sub = "http") =>
          names[step] = "grpc" /\ server["grpc"] # "none" /\ cfg.http # NoAddress
    /\ (Ending /\ step = 0) => sub = "begin"
    /\ (Ending /\ sub = "wait") => names[step] = "user_http" /\ "user_http" \in down
    /\ (Ending /\ sub = "http") => names[step] = "grpc" /\ "http" \in down
    /\ (Ending /\ sub = "grpc") => names[step] = "grpc" /\ "grpc" \in down
    /\ (Ending /\ sub = "closing") => names[step] = "infra"

\* What is open has a component that will close it, until it is closed.
ResourcesSound ==
    \A r \in Resources : Live(r) =>
        /\ phase \notin {"failing", "failed"}
        /\ Among(Keeper(r), Len(names))
        /\ (Ending /\ Alive) => Among(Keeper(r), step)
        /\ Ended => ~Alive

ContainerSound ==
    /\ closed => phase \in {"failing", "failed"} \/ Ending \/ Ended
    /\ phase = "failing" => closed
    /\ phase = "failed" => closed /\ closing = {}
    /\ (Ending /\ Alive /\ ~closed) => Among("infra", step)
    /\ (Ending /\ Alive /\ closed) => closing = {} \/ sub = "closing"
    /\ (Ending /\ sub = "closing") => closed
    /\ (Ended /\ Alive) => closed /\ closing = {}

\* A server that no request is served by any more, as far as Stop promises.
Drained(s) ==
    \/ server[s] = "none"
    \/ s = "user_http" /\ server[s] = "died"
    \/ s \in down /\ (Idle(s) \/ (s = "grpc" /\ cfg.http # NoAddress /\ bound.http = NoAddress))

ServersSound ==
    /\ \A s \in down : server[s] # "serving"
    /\ \A c \in Callers, s \in Servers : busy[c] = s => server[s] # "none"
    /\ server["http"] # "none" => cfg.http # NoAddress
    /\ bound.http # NoAddress => server["http"] # "none"
    /\ phase \in {"assembling", "built", "dropped", "failing", "failed"} =>
          \A s \in Servers : server[s] = "none"
    /\ phase = "starting" => \A s \in Servers : server[s] # "none" =>
          Among(Owner(s), step - 1) \/ (s = "grpc" /\ sub = "http")
    /\ phase = "up" => \A s \in Servers : server[s] # "none" => Among(Owner(s), Len(names))
    /\ (Ending /\ Alive) => \A s \in Servers : Drained(s) \/ Among(Owner(s), step)
    /\ (Ending /\ Alive /\ sub = "grpc") => Drained("http")
    /\ (Ended /\ Alive) => \A s \in Servers : Drained(s)

\* The infra clients are closed after the servers have drained.
ClosedAfterServers == (closed /\ Alive) => \A s \in Servers : Drained(s)

InstanceSound ==
    instance.state = "kept" =>
        /\ phase \in {"starting", "up"} \/ Ending
        /\ phase = "starting" => Among("registry", step - 1)
        /\ phase = "up" => Among("registry", Len(names))
        /\ Ending => Among("registry", step)

IndInv ==
    /\ TypeOK /\ InfraInv /\ BasicsFirst /\ AssemblyOrder /\ SubSound /\ ResourcesSound
    /\ ContainerSound /\ ServersSound /\ ClosedAfterServers /\ InstanceSound

-----------------------------------------------------------------------------
(* The infra container's invariant *)

\* A call gets on, or is forgotten, and the container stays as it is.
LEMMA CallMoves ==
  ASSUME InfraInv, NEW c \in Callers, NEW r \in Calls,
         call[c].at # "dialed", r.at # "dialed",
         r.at = "dialing" => r.name \in Names,
         r.client # Nil => r.client <= made,
         r.at = "returned" => \E n \in Names : slot[n] = r.client /\ slot[n] # Nil,
         r.at = "refused" => closed,
         call' = [call EXCEPT ![c] = r],
         UNCHANGED <<closed, slot, closing, open, made>>
  PROVE  InfraInv'
  <1> USE DEF InfraInv
  <1>1. call'[c] = r /\ \A d \in Callers : d # c => call'[d] = call[d]
    BY DEF InfraTypeOK
  <1>2. InfraTypeOK'
    BY DEF InfraTypeOK
  <1>3. Numbered'
    BY <1>1 DEF Numbered
  <1>4. DialedIsOwn'
    BY <1>1 DEF DialedIsOwn, InCall
  <1>5. StoredIsOpen'
    BY <1>1 DEF StoredIsOpen
  <1>6. NoStrayClient'
    BY <1>1 DEF NoStrayClient
  <1> QED BY <1>2, <1>3, <1>4, <1>5, <1>6

\* MySQL up to the dial preserves the container's invariant.
LEMMA MySQLStep ==
  ASSUME InfraInv, NEW c \in Callers, NEW n \in Names, MySQL(c, n)
  PROVE  InfraInv'
  <1> USE DEF MySQL, At, Fails, InCall
  <1>1. slot[n] \in Nat \cup {Nil} /\ (slot[n] # Nil => slot[n] <= made)
    BY DEF InfraInv, InfraTypeOK, Numbered
  <1>2. CASE closed /\ At(c, n, "refused", Nil)
    <2>1. [at |-> "refused", name |-> n, client |-> Nil] \in Calls
      BY DEF Calls
    <2> QED BY <1>2, <2>1, CallMoves
  <1>3. CASE Fails(c)
    <2>1. NoCall \in Calls
      BY DEF Calls, NoCall
    <2> QED BY <1>3, <2>1, CallMoves DEF NoCall
  <1>4. CASE slot[n] # Nil /\ At(c, n, "returned", slot[n])
    <2>1. [at |-> "returned", name |-> n, client |-> slot[n]] \in Calls
      BY <1>1 DEF Calls
    <2> QED BY <1>1, <1>4, <2>1, CallMoves
  <1>5. CASE At(c, n, "dialing", Nil)
    <2>1. [at |-> "dialing", name |-> n, client |-> Nil] \in Calls
      BY DEF Calls
    <2> QED BY <1>5, <2>1, CallMoves
  <1> QED BY <1>2, <1>3, <1>4, <1>5

\* A dial preserves the container's invariant: the client is a new one.
LEMMA DialStep ==
  ASSUME InfraInv, NEW c \in Callers, Dial(c)
  PROVE  InfraInv'
  <1> USE DEF InfraInv
  <1>1. CASE Fails(c) /\ UNCHANGED <<open, made>>
    <2>1. NoCall \in Calls
      BY DEF Calls, NoCall
    <2> QED BY <1>1, <2>1, CallMoves DEF NoCall, Dial, Fails
  <1>2. CASE Create /\ At(c, call[c].name, "dialed", made + 1)
    <2> DEFINE r == [at |-> "dialed", name |-> call[c].name, client |-> made + 1]
    <2>1. /\ UNCHANGED <<closed, slot, closing>>
          /\ made' = made + 1 /\ open' = open \cup {made + 1} /\ call' = [call EXCEPT ![c] = r]
          /\ call[c].at = "dialing"
      BY <1>2 DEF Dial, Create, At
    <2>2. made \in Nat /\ call[c].name \in Names
      BY <2>1 DEF InfraTypeOK, DialedIsOwn, InCall
    <2>3. r \in Calls
      BY <2>2 DEF Calls
    <2>4. r.at = "dialed" /\ r.name = call[c].name /\ r.client = made + 1
      OBVIOUS
    <2>5. call'[c] = r /\ \A d \in Callers : d # c => call'[d] = call[d]
      BY <2>1 DEF InfraTypeOK
    <2> HIDE DEF r
    <2>6. InfraTypeOK'
      <3>1. closed' \in BOOLEAN
        BY <2>1 DEF InfraTypeOK
      <3>2. call' \in [Callers -> Calls]
        BY <2>1, <2>3 DEF InfraTypeOK
      <3>3. open' \in SUBSET Nat /\ made' \in Nat
        BY <2>1, <2>2 DEF InfraTypeOK
      <3> QED BY <2>1, <3>1, <3>2, <3>3 DEF InfraTypeOK
    <2>7. Numbered'
      <3>1. \A id \in Nat : id <= made => id <= made + 1
        BY <2>2
      <3>2. \A id \in open' \cup closing' : id <= made'
        BY <2>1, <2>2, <3>1 DEF Numbered, InfraTypeOK
      <3>3. \A n \in Names : slot'[n] # Nil => slot'[n] <= made'
        BY <2>1, <3>1 DEF Numbered, InfraTypeOK
      <3>4. ASSUME NEW d \in Callers, call'[d].client # Nil PROVE call'[d].client <= made'
        <4>1. CASE d = c
          BY <2>1, <2>2, <2>4, <2>5, <4>1
        <4>2. CASE d # c
          <5>1. call[d].client \in Nat /\ call[d].client <= made
            BY <2>5, <3>4, <4>2 DEF InfraTypeOK, Calls, Numbered
          <5> QED BY <2>1, <2>2, <2>5, <4>2, <5>1
        <4> QED BY <4>1, <4>2
      <3> QED BY <3>2, <3>3, <3>4 DEF Numbered
    <2>8. /\ \A n \in Names : slot[n] # made + 1
          /\ \A d \in Callers : call[d].client # made + 1
      <3>1. \A id \in Nat : id <= made => id # made + 1
        BY <2>2
      <3> QED BY <2>2, <3>1, ClientAssumption DEF Numbered, InfraTypeOK, Calls
    <2>9. DialedIsOwn'
      BY <2>1, <2>2, <2>4, <2>5, <2>8 DEF DialedIsOwn, InCall
    <2>10. StoredIsOpen'
      BY <2>1, <2>4, <2>5 DEF StoredIsOpen
    <2>11. NoStrayClient'
      BY <2>1, <2>4, <2>5 DEF NoStrayClient
    <2> QED BY <2>6, <2>7, <2>9, <2>10, <2>11
  <1> QED BY <1>1, <1>2 DEF Dial

\* The caller closes what it has dialed: the container is closed, or has one.
LEMMA CallerCloses ==
  ASSUME InfraInv, NEW c \in Callers, NEW r \in Calls,
         call[c].at = "dialed", r.at \in {"refused", "returned"},
         r.client # Nil => r.client <= made,
         r.at = "returned" => \E n \in Names : slot[n] = r.client /\ slot[n] # Nil,
         r.at = "refused" => closed,
         open' = open \ {call[c].client},
         call' = [call EXCEPT ![c] = r],
         UNCHANGED <<closed, slot, closing, made>>
  PROVE  InfraInv'
  <1> USE DEF InfraInv
  <1>1. call'[c] = r /\ \A d \in Callers : d # c => call'[d] = call[d]
    BY DEF InfraTypeOK
  <1>2. InfraTypeOK'
    <2>1. closed' \in BOOLEAN /\ open' \in SUBSET Nat
      BY DEF InfraTypeOK
    <2>2. call' \in [Callers -> Calls]
      BY DEF InfraTypeOK
    <2> QED BY <2>1, <2>2 DEF InfraTypeOK
  <1>3. Numbered'
    BY <1>1 DEF Numbered
  <1>4. DialedIsOwn'
    BY <1>1 DEF DialedIsOwn, InCall
  <1>5. \A n \in Names : slot[n] # call[c].client
    BY DEF DialedIsOwn
  <1>6. StoredIsOpen'
    BY <1>1, <1>5 DEF StoredIsOpen
  <1>7. NoStrayClient'
    BY <1>1 DEF NoStrayClient
  <1> QED BY <1>2, <1>3, <1>4, <1>6, <1>7

\* MySQL after the dial preserves the container's invariant.
LEMMA StoreStep ==
  ASSUME InfraInv, NEW c \in Callers, Store(c)
  PROVE  InfraInv'
  <1> DEFINE n == call[c].name
             db == call[c].client
  <1>1. /\ n \in Names /\ db \in Nat /\ db <= made /\ db # Nil
        /\ slot[n] \in Nat \cup {Nil} /\ (slot[n] # Nil => slot[n] <= made)
    BY ClientAssumption DEF Store, InfraInv, InfraTypeOK, Numbered, DialedIsOwn, InCall
  <1>2. CASE closed /\ open' = open \ {db} /\ At(c, n, "refused", Nil) /\ UNCHANGED slot
    <2>1. [at |-> "refused", name |-> n, client |-> Nil] \in Calls
      BY <1>1 DEF Calls
    <2> QED BY <1>2, <2>1, CallerCloses DEF Store, At
  <1>3. CASE slot[n] # Nil /\ open' = open \ {db} /\ At(c, n, "returned", slot[n]) /\ UNCHANGED slot
    <2>1. [at |-> "returned", name |-> n, client |-> slot[n]] \in Calls
      BY <1>1 DEF Calls
    <2> QED BY <1>1, <1>3, <2>1, CallerCloses DEF Store, At
  <1>4. CASE /\ ~closed /\ slot[n] = Nil
             /\ slot' = [slot EXCEPT ![n] = db] /\ At(c, n, "returned", db) /\ UNCHANGED open
    <2> DEFINE r == [at |-> "returned", name |-> n, client |-> db]
    <2> HIDE DEF n, db
    <2>1. r \in Calls /\ r.at = "returned" /\ r.client = db
      BY <1>1 DEF Calls
    <2>2. UNCHANGED <<closed, closing, open, made>> /\ call[c].at = "dialed"
      BY <1>4 DEF Store
    <2>3. call' = [call EXCEPT ![c] = r]
      BY <1>4 DEF At
    <2> HIDE DEF r
    <2> USE DEF InfraInv
    <2>4. call'[c] = r /\ \A d \in Callers : d # c => call'[d] = call[d]
      BY <2>3 DEF InfraTypeOK
    <2>5. slot'[n] = db /\ \A m \in Names : m # n => slot'[m] = slot[m]
      BY <1>1, <1>4 DEF InfraTypeOK
    <2>6. InfraTypeOK'
      <3>1. closed' \in BOOLEAN
        BY <2>2 DEF InfraTypeOK
      <3>2. call' \in [Callers -> Calls]
        BY <2>1, <2>3 DEF InfraTypeOK
      <3>3. slot' \in [Names -> Nat \cup {Nil}]
        BY <1>1, <1>4 DEF InfraTypeOK
      <3> QED BY <2>2, <3>1, <3>2, <3>3 DEF InfraTypeOK
    <2>7. Numbered'
      BY <1>1, <2>1, <2>2, <2>4, <2>5 DEF Numbered
    <2>8. \A d \in Callers : (d # c /\ call[d].at = "dialed") => call[d].client # db
      BY <2>2 DEF DialedIsOwn, db
    <2>9. DialedIsOwn'
      BY <1>1, <2>1, <2>2, <2>4, <2>5, <2>8 DEF DialedIsOwn, InCall
    <2>10. \A m \in Names : slot[m] # Nil => slot'[m] = slot[m]
      BY <1>1, <1>4, <2>5
    <2>11. closing = {} /\ ~closed
      BY <1>4 DEF StoredIsOpen
    <2>12. db \in open
      BY <1>1, <2>2, <2>11 DEF NoStrayClient, DialedIsOwn, db
    <2>13. StoredIsOpen'
      BY <1>1, <2>1, <2>2, <2>4, <2>5, <2>10, <2>11, <2>12 DEF StoredIsOpen
    <2>14. NoStrayClient'
      <3>1. \A id \in open : \/ \E m \in Names : slot[m] = id
                             \/ \E d \in Callers : call[d].at = "dialed" /\ call[d].client = id
        BY DEF NoStrayClient
      <3>2. Nil \notin open
        BY ClientAssumption DEF InfraTypeOK
      <3>3. \A d \in Callers : call[d].at = "dialed" =>
               (call[d].client = db \/ (call'[d].at = "dialed" /\ call'[d].client = call[d].client))
        BY <2>4 DEF db
      <3> QED BY <1>1, <2>2, <2>5, <2>10, <2>11, <3>1, <3>2, <3>3 DEF NoStrayClient
    <2> QED BY <2>6, <2>7, <2>9, <2>13, <2>14
  <1> QED BY <1>2, <1>3, <1>4 DEF Store

\* A client that is created under the lock is stored under it.
LEMMA GetStep ==
  ASSUME InfraInv, NEW c \in Callers, NEW n \in Names, Get(c, n)
  PROVE  InfraInv'
  <1>1. slot[n] \in Nat \cup {Nil} /\ (slot[n] # Nil => slot[n] <= made) /\ call[c].at # "dialed"
    BY DEF Get, InCall, InfraInv, InfraTypeOK, Numbered
  <1>2. CASE closed /\ At(c, n, "refused", Nil) /\ UNCHANGED <<slot, open, made>>
    <2>1. [at |-> "refused", name |-> n, client |-> Nil] \in Calls
      BY DEF Calls
    <2> QED BY <1>1, <1>2, <2>1, CallMoves DEF Get, At
  <1>3. CASE slot[n] # Nil /\ At(c, n, "returned", slot[n]) /\ UNCHANGED <<slot, open, made>>
    <2>1. [at |-> "returned", name |-> n, client |-> slot[n]] \in Calls
      BY <1>1 DEF Calls
    <2> QED BY <1>1, <1>3, <2>1, CallMoves DEF Get, At
  <1>4. CASE Fails(c) /\ UNCHANGED <<slot, open, made>>
    <2>1. NoCall \in Calls
      BY DEF Calls, NoCall
    <2> QED BY <1>1, <1>4, <2>1, CallMoves DEF Get, Fails, NoCall
  <1>5. CASE /\ ~closed /\ slot[n] = Nil
             /\ Create /\ slot' = [slot EXCEPT ![n] = made + 1] /\ At(c, n, "returned", made + 1)
    <2> DEFINE r == [at |-> "returned", name |-> n, client |-> made + 1]
    <2> USE DEF InfraInv
    <2>1. /\ UNCHANGED <<closed, closing>> /\ ~closed /\ slot[n] = Nil
          /\ made' = made + 1 /\ open' = open \cup {made + 1} /\ call' = [call EXCEPT ![c] = r]
      BY <1>5 DEF Get, Create, At
    <2>2. made \in Nat
      BY DEF InfraTypeOK
    <2>3. r \in Calls /\ r.at = "returned" /\ r.client = made + 1
      BY <2>2 DEF Calls
    <2> HIDE DEF r
    <2>4. call'[c] = r /\ \A d \in Callers : d # c => call'[d] = call[d]
      BY <2>1 DEF InfraTypeOK
    <2>5. slot'[n] = made + 1 /\ \A m \in Names : m # n => slot'[m] = slot[m]
      BY <1>5 DEF InfraTypeOK
    <2>6. InfraTypeOK'
      <3>1. closed' \in BOOLEAN
        BY <2>1 DEF InfraTypeOK
      <3>2. call' \in [Callers -> Calls]
        BY <2>1, <2>3 DEF InfraTypeOK
      <3>3. open' \in SUBSET Nat /\ made' \in Nat
        BY <2>1, <2>2 DEF InfraTypeOK
      <3>4. slot' \in [Names -> Nat \cup {Nil}]
        BY <1>5, <2>2 DEF InfraTypeOK
      <3> QED BY <2>1, <3>1, <3>2, <3>3, <3>4 DEF InfraTypeOK
    <2>7. Numbered'
      <3>1. \A id \in Nat : id <= made => id <= made'
        BY <2>1, <2>2
      <3>2. made + 1 <= made'
        BY <2>1, <2>2
      <3>3. \A id \in open' \cup closing' : id <= made'
        BY <2>1, <3>1, <3>2 DEF Numbered, InfraTypeOK
      <3>4. \A m \in Names : slot'[m] # Nil => slot'[m] <= made'
        <4>1. \A m \in Names : slot[m] # Nil => slot[m] \in Nat /\ slot[m] <= made
          BY DEF Numbered, InfraTypeOK
        <4> QED BY <2>5, <3>1, <3>2, <4>1
      <3>5. \A d \in Callers : call'[d].client # Nil => call'[d].client <= made'
        <4>1. \A d \in Callers : call[d].client # Nil => call[d].client \in Nat /\ call[d].client <= made
          BY DEF Numbered, InfraTypeOK, Calls
        <4> QED BY <2>3, <2>4, <3>1, <3>2, <4>1
      <3> QED BY <3>3, <3>4, <3>5 DEF Numbered
    <2>8. \A d \in Callers : call[d].client # made + 1
      <3>1. \A id \in Nat : id <= made => id # made + 1
        BY <2>2
      <3> QED BY <2>2, <3>1, ClientAssumption DEF Numbered, InfraTypeOK, Calls
    <2>9. DialedIsOwn'
      BY <1>1, <2>1, <2>3, <2>4, <2>5, <2>8 DEF DialedIsOwn, InCall
    <2>10. \A m \in Names : slot[m] # Nil => slot'[m] = slot[m]
      BY <2>1, <2>5
    <2>11. made + 1 # Nil /\ closing = {}
      BY <2>1, <2>2, ClientAssumption DEF StoredIsOpen
    <2>12. StoredIsOpen'
      BY <2>1, <2>3, <2>4, <2>5, <2>10, <2>11 DEF StoredIsOpen
    <2>13. Nil \notin open
      BY ClientAssumption DEF InfraTypeOK
    <2>14. NoStrayClient'
      <3>1. \A id \in open : \/ \E m \in Names : slot[m] = id
                             \/ \E d \in Callers : call[d].at = "dialed" /\ call[d].client = id
        BY DEF NoStrayClient
      <3> QED BY <1>1, <2>1, <2>4, <2>5, <2>10, <2>13, <3>1 DEF NoStrayClient
    <2> QED BY <2>6, <2>7, <2>9, <2>12, <2>14
  <1> QED BY <1>2, <1>3, <1>4, <1>5 DEF Get

\* Close taking the clients preserves the container's invariant.
LEMMA CloseTakesStep ==
  ASSUME InfraInv, CloseTakes
  PROVE  InfraInv'
  <1> USE DEF InfraInv, CloseTakes
  <1>1. InfraTypeOK'
    <2>1. closed' \in BOOLEAN
      BY DEF InfraTypeOK
    <2>2. closing' \in SUBSET Nat
      BY DEF InfraTypeOK
    <2> QED BY <2>1, <2>2 DEF InfraTypeOK
  <1>2. Numbered'
    BY DEF Numbered
  <1>3. DialedIsOwn'
    BY DEF DialedIsOwn, InCall
  <1>4. StoredIsOpen'
    BY DEF StoredIsOpen
  <1>5. NoStrayClient'
    <2>1. CASE closed
      BY <2>1 DEF NoStrayClient
    <2>2. CASE ~closed
      <3>1. \A n \in Names : slot[n] # Nil => slot[n] \in closing'
        BY <2>2
      <3>2. Nil \notin open
        BY ClientAssumption DEF InfraTypeOK
      <3> QED BY <2>2, <3>1, <3>2 DEF NoStrayClient
    <2> QED BY <2>1, <2>2
  <1> QED BY <1>1, <1>2, <1>3, <1>4, <1>5

\* Close closing a client preserves the container's invariant.
LEMMA CloseNextStep ==
  ASSUME InfraInv, CloseNext
  PROVE  InfraInv'
  <1> USE DEF InfraInv
  <1> PICK id \in closing : closing' = closing \ {id} /\ open' = open \ {id}
    BY DEF CloseNext
  <1>1. UNCHANGED <<closed, slot, made, call>>
    BY DEF CloseNext
  <1>2. InfraTypeOK'
    BY <1>1 DEF InfraTypeOK
  <1>3. Numbered'
    BY <1>1 DEF Numbered
  <1>4. DialedIsOwn'
    BY <1>1 DEF DialedIsOwn, InCall, StoredIsOpen
  <1>5. StoredIsOpen'
    BY <1>1 DEF StoredIsOpen
  <1>6. NoStrayClient'
    BY <1>1 DEF NoStrayClient
  <1> QED BY <1>2, <1>3, <1>4, <1>5, <1>6

\* A handler that returns forgets its call.
LEMMA ForgetStep ==
  ASSUME InfraInv, NEW c \in Callers, ~InCall(c), call' = [call EXCEPT ![c] = NoCall],
         UNCHANGED <<closed, slot, closing, open, made>>
  PROVE  InfraInv'
  <1>1. NoCall \in Calls
    BY DEF Calls, NoCall
  <1> QED BY <1>1, CallMoves DEF NoCall, InCall

\* Whatever a goroutine does to the container preserves its invariant.
LEMMA UseStep ==
  ASSUME InfraInv, NEW c \in Callers, Use(c)
  PROVE  InfraInv'
  BY MySQLStep, DialStep, StoreStep, GetStep DEF Use

\* Leaving the container alone preserves its invariant.
LEMMA InfraUnchanged ==
  ASSUME InfraInv, UNCHANGED infraVars
  PROVE  InfraInv'
  BY DEF infraVars, InfraInv, InfraTypeOK, Numbered, DialedIsOwn, InCall, StoredIsOpen, NoStrayClient

-----------------------------------------------------------------------------
(* Assembly *)

Steps == {"spec", "hook"} \cup Basics \cup Others

\* The order of the steps: what other components rely on is added before the
\* hook runs, the infra container among it.
InOrder(p) ==
    /\ p \in Seq(Steps) /\ Len(p) > HookAt
    /\ \A i \in 1..Len(p) :
          /\ i < HookAt => p[i] \in {"spec"} \cup Basics
          /\ i = HookAt => p[i] = "hook"
          /\ i = HookAt + 1 => p[i] = "grpc"
          /\ i > HookAt => p[i] \in Others
          /\ i = InfraAt => p[i] = "infra"

\* Steps after the hook do not change the order.
LEMMA LaterSteps ==
  ASSUME NEW p, InOrder(p), NEW t \in Seq(Others)
  PROVE  InOrder(p \o t)
  <1>1. t \in Seq(Steps) /\ \A i \in 1..Len(t) : t[i] \in Others
    BY SeqMonotonic, ElementOfSeq DEF Steps
  <1>2. /\ p \o t \in Seq(Steps) /\ Len(p \o t) = Len(p) + Len(t)
        /\ \A i \in 1..Len(p) + Len(t) : (p \o t)[i] = IF i <= Len(p) THEN p[i] ELSE t[i - Len(p)]
    BY <1>1, ConcatProperties DEF InOrder
  <1>3. Len(p) \in Nat /\ Len(t) \in Nat /\ HookAt \in Nat /\ InfraAt < HookAt
    BY DEF InOrder, HookAt, InfraAt
  <1> QED BY <1>1, <1>2, <1>3 DEF InOrder

\* The steps up to the server, and those that follow.
UpToServer ==
    (<<"spec">> \o (IF cfg.registry THEN <<"etcd_client", "grpc_clients">> ELSE <<>>))
    \o <<"infra", "configs", "hook", "grpc">>
Registers == IF cfg.registry THEN <<"registry">> ELSE <<>>
Publishes == IF cfg.registry /\ cfg.routes THEN <<"gateway_metadata">> ELSE <<>>
Reports == IF cfg.onBound THEN <<"bound_addresses">> ELSE <<>>

LEMMA PlanParts ==
  /\ Plan = ((UpToServer \o Registers) \o Publishes) \o Reports
  /\ Registers \in Seq(Others) /\ Publishes \in Seq(Others) /\ Reports \in Seq(Others)
  <1>1. <<>> \in Seq(Others) /\ <<"registry">> \in Seq(Others)
    BY DEF Others
  <1>2. <<"gateway_metadata">> \in Seq(Others) /\ <<"bound_addresses">> \in Seq(Others)
    BY DEF Others
  <1>3. Plan = ((UpToServer \o Registers) \o Publishes) \o Reports
    BY DEF Plan, UpToServer, Registers, Publishes, Reports
  <1> QED BY <1>1, <1>2, <1>3 DEF Registers, Publishes, Reports

LEMMA UpToServerInOrder == InOrder(UpToServer) /\ Len(UpToServer) = HookAt + 1
  <1> DEFINE a == IF cfg.registry THEN <<"etcd_client", "grpc_clients">> ELSE <<>>
             b == <<"infra", "configs", "hook", "grpc">>
             g == <<"spec">> \o a
             h == g \o b
  <1>2. UpToServer = h
    BY DEF UpToServer
  <1>3. /\ g \in Seq(Steps) /\ Len(g) = InfraAt - 1
        /\ \A i \in 1..Len(g) : g[i] \in {"spec"} \cup Basics
    <2>1. CASE cfg.registry
      <3>1. a = <<"etcd_client", "grpc_clients">> /\ a \in Seq(Steps) /\ <<"spec">> \in Seq(Steps)
        BY <2>1 DEF Steps, Basics
      <3> QED BY <2>1, <3>1, ConcatProperties DEF Basics, InfraAt
    <2>2. CASE ~cfg.registry
      <3>1. a = <<>> /\ g = <<"spec">>
        <4>1. <<"spec">> \in Seq(Steps)
          BY DEF Steps
        <4> QED BY <2>2, <4>1, ConcatEmptySeq
      <3>2. <<"spec">> \in Seq(Steps) /\ Len(<<"spec">>) = 1 /\ <<"spec">>[1] = "spec"
        BY DEF Steps
      <3> QED BY <2>2, <3>1, <3>2 DEF InfraAt
    <2> QED BY <2>1, <2>2
  <1>4. b \in Seq(Steps) /\ Len(b) = 4 /\ b[1] = "infra" /\ b[2] = "configs" /\ b[3] = "hook" /\ b[4] = "grpc"
    BY DEF Steps, Basics, Others
  <1> HIDE DEF b, g
  <1>5. /\ h \in Seq(Steps) /\ Len(h) = Len(g) + 4
        /\ \A i \in 1..Len(g) + 4 : h[i] = IF i <= Len(g) THEN g[i] ELSE b[i - Len(g)]
    <2>1. Len(b) = 4 /\ b \in Seq(Steps) /\ g \in Seq(Steps)
      BY <1>3, <1>4
    <2>2. /\ g \o b \in Seq(Steps) /\ Len(g \o b) = Len(g) + Len(b)
          /\ \A i \in 1..Len(g) + Len(b) : (g \o b)[i] = IF i <= Len(g) THEN g[i] ELSE b[i - Len(g)]
      BY <2>1, ConcatProperties
    <2> QED BY <2>1, <2>2
  <1>6. InfraAt \in Nat /\ HookAt = InfraAt + 2
    BY DEF InfraAt, HookAt
  <1> HIDE DEF h
  <1>7. InOrder(h)
    <2>1. Len(h) = InfraAt + 3
      BY <1>3, <1>5, <1>6
    <2>2. ASSUME NEW i \in 1..Len(h) PROVE
             \/ i < InfraAt /\ h[i] \in {"spec"} \cup Basics
             \/ i = InfraAt /\ h[i] = "infra"
             \/ i = InfraAt + 1 /\ h[i] = "configs"
             \/ i = InfraAt + 2 /\ h[i] = "hook"
             \/ i = InfraAt + 3 /\ h[i] = "grpc"
      <3>1. Len(g) = InfraAt - 1 /\ i \in Nat /\ i <= InfraAt + 3 /\ i >= 1
        BY <1>3, <1>6, <2>1
      <3>2. CASE i < InfraAt
        <4>1. i \in 1..Len(g) /\ h[i] = g[i]
          BY <1>5, <1>6, <3>1, <3>2
        <4> QED BY <1>3, <3>2, <4>1
      <3>3. CASE i >= InfraAt
        <4>1. h[i] = b[i - Len(g)]
          BY <1>5, <1>6, <3>1, <3>3
        <4>2. \/ i = InfraAt /\ i - Len(g) = 1
              \/ i = InfraAt + 1 /\ i - Len(g) = 2
              \/ i = InfraAt + 2 /\ i - Len(g) = 3
              \/ i = InfraAt + 3 /\ i - Len(g) = 4
          BY <1>6, <3>1, <3>3
        <4> QED BY <1>4, <4>1, <4>2
      <3> QED BY <1>6, <3>1, <3>2, <3>3
    <2> QED BY <1>5, <1>6, <2>1, <2>2 DEF InOrder, Basics, Others
  <1> QED BY <1>2, <1>3, <1>5, <1>6, <1>7

\* The plan of every configuration is in this order.
LEMMA PlanInOrder == InOrder(Plan)
  BY PlanParts, UpToServerInOrder, LaterSteps

-----------------------------------------------------------------------------
(* What goes on beside assembly, Start and Stop *)

\* A goroutine of a server begins to serve, or finds the server stopped.
LEMMA ServeStep ==
  ASSUME IndInv, NEW s \in Servers, Serve(s)
  PROVE  IndInv'
  <1> USE DEF IndInv
  <1>1. UNCHANGED <<cfg, phase, names, step, sub, ctx, res, down, bound, instance, busy, infraVars, closed, closing>>
    BY DEF Serve, assembly, published, infraVars
  <1>2. Plan' = Plan /\ InfraAt' = InfraAt /\ HookAt' = HookAt
    BY <1>1 DEF Plan, InfraAt, HookAt
  <1>3. server' \in [Servers -> {"none", "spawned", "serving", "closed", "died"}]
    BY DEF Serve, TypeOK
  <1>4. \A t \in Servers : (server'[t] = "none" <=> server[t] = "none") /\ (server[t] = "died" => server'[t] = "died")
    BY DEF Serve, TypeOK
  <1>5. \A t \in down : server'[t] # "serving"
    BY DEF Serve, TypeOK, ServersSound
  <1>6. "grpc" \in Servers /\ "http" \in Servers /\ "user_http" \in Servers
    BY DEF Servers
  <1>7. TypeOK'
    BY <1>1, <1>2, <1>3, <1>4, <1>5, <1>6 DEF TypeOK
  <1>8. InfraInv'
    BY <1>1, <1>2, <1>3, <1>4, <1>5, <1>6, InfraUnchanged
  <1>9. BasicsFirst'
    BY <1>1, <1>2, <1>3, <1>4, <1>5, <1>6 DEF BasicsFirst
  <1>10. AssemblyOrder'
    BY <1>1, <1>2, <1>3, <1>4, <1>5, <1>6 DEF AssemblyOrder, Ending, Among
  <1>11. SubSound'
    BY <1>1, <1>2, <1>3, <1>4, <1>5, <1>6 DEF SubSound, Ending, Ended
  <1>12. ResourcesSound'
    BY <1>1, <1>2, <1>3, <1>4, <1>5, <1>6 DEF ResourcesSound, Live, Ending, Ended, Among, Alive
  <1>13. ContainerSound'
    BY <1>1, <1>2, <1>3, <1>4, <1>5, <1>6 DEF ContainerSound, Ending, Ended, Among, Alive
  <1>14. ServersSound'
    BY <1>1, <1>2, <1>3, <1>4, <1>5, <1>6 DEF ServersSound, Drained, Idle, Ending, Ended, Among, Alive
  <1>15. ClosedAfterServers'
    BY <1>1, <1>2, <1>3, <1>4, <1>5, <1>6 DEF ClosedAfterServers, Drained, Idle, Alive
  <1>16. InstanceSound'
    BY <1>1, <1>2, <1>3, <1>4, <1>5, <1>6 DEF InstanceSound, Ending, Among
  <1> QED BY <1>7, <1>8, <1>9, <1>10, <1>11, <1>12, <1>13, <1>14, <1>15, <1>16

\* A server whose Serve fails is not waited for, and serves no more.
LEMMA ServeFailsStep ==
  ASSUME IndInv, NEW s \in Servers, ServeFails(s)
  PROVE  IndInv'
  <1> USE DEF IndInv
  <1>1. UNCHANGED <<cfg, phase, names, step, sub, ctx, res, down, bound, instance, busy, infraVars, closed, closing>>
    BY DEF ServeFails, assembly, published, infraVars
  <1>2. Plan' = Plan /\ InfraAt' = InfraAt /\ HookAt' = HookAt
    BY <1>1 DEF Plan, InfraAt, HookAt
  <1>3. server' \in [Servers -> {"none", "spawned", "serving", "closed", "died"}]
    BY DEF ServeFails, TypeOK
  <1>4. \A t \in Servers : (server'[t] = "none" <=> server[t] = "none") /\ (server[t] = "died" => server'[t] = "died")
    BY DEF ServeFails, TypeOK
  <1>5. \A t \in down : server'[t] # "serving"
    BY DEF ServeFails, TypeOK, ServersSound
  <1>6. "grpc" \in Servers /\ "http" \in Servers /\ "user_http" \in Servers
    BY DEF Servers
  <1>7. TypeOK'
    BY <1>1, <1>2, <1>3, <1>4, <1>5, <1>6 DEF TypeOK
  <1>8. InfraInv'
    BY <1>1, <1>2, <1>3, <1>4, <1>5, <1>6, InfraUnchanged
  <1>9. BasicsFirst'
    BY <1>1, <1>2, <1>3, <1>4, <1>5, <1>6 DEF BasicsFirst
  <1>10. AssemblyOrder'
    BY <1>1, <1>2, <1>3, <1>4, <1>5, <1>6 DEF AssemblyOrder, Ending, Among
  <1>11. SubSound'
    BY <1>1, <1>2, <1>3, <1>4, <1>5, <1>6 DEF SubSound, Ending, Ended
  <1>12. ResourcesSound'
    BY <1>1, <1>2, <1>3, <1>4, <1>5, <1>6 DEF ResourcesSound, Live, Ending, Ended, Among, Alive
  <1>13. ContainerSound'
    BY <1>1, <1>2, <1>3, <1>4, <1>5, <1>6 DEF ContainerSound, Ending, Ended, Among, Alive
  <1>14. ServersSound'
    BY <1>1, <1>2, <1>3, <1>4, <1>5, <1>6 DEF ServersSound, Drained, Idle, Ending, Ended, Among, Alive
  <1>15. ClosedAfterServers'
    BY <1>1, <1>2, <1>3, <1>4, <1>5, <1>6 DEF ClosedAfterServers, Drained, Idle, Alive
  <1>16. InstanceSound'
    BY <1>1, <1>2, <1>3, <1>4, <1>5, <1>6 DEF InstanceSound, Ending, Among
  <1> QED BY <1>7, <1>8, <1>9, <1>10, <1>11, <1>12, <1>13, <1>14, <1>15, <1>16

\* A request begins at a server that has not been told to stop.
LEMMA HandlerBeginsStep ==
  ASSUME IndInv, NEW h \in Handlers, HandlerBegins(h)
  PROVE  IndInv'
  <1> USE DEF IndInv
  <1>1. UNCHANGED <<cfg, phase, names, step, sub, ctx, res, server, down, bound, instance, infraVars, closed, closing>>
    BY DEF HandlerBegins, assembly, serving, published, infraVars
  <1>2. Plan' = Plan /\ InfraAt' = InfraAt /\ HookAt' = HookAt
    BY <1>1 DEF Plan, InfraAt, HookAt
  <1>3. PICK s \in Servers : server[s] = "serving" /\ busy' = [busy EXCEPT ![h] = s]
    BY DEF HandlerBegins
  <1>4. /\ busy' \in [Callers -> Servers \cup {Nil}] /\ h \in Callers /\ busy'[h] = s
        /\ \A c \in Callers : c # h => busy'[c] = busy[c]
    BY <1>3 DEF TypeOK, Handlers
  <1>5. \A t \in Servers : Drained(t) => Drained(t)'
    BY <1>1, <1>3, <1>4 DEF ServersSound, Drained, Idle, Handlers
  <1>6. TypeOK'
    BY <1>1, <1>2, <1>3, <1>4, <1>5 DEF TypeOK
  <1>7. InfraInv'
    BY <1>1, <1>2, <1>3, <1>4, <1>5, InfraUnchanged
  <1>8. BasicsFirst'
    BY <1>1, <1>2, <1>3, <1>4, <1>5 DEF BasicsFirst
  <1>9. AssemblyOrder'
    BY <1>1, <1>2, <1>3, <1>4, <1>5 DEF AssemblyOrder, Ending, Among
  <1>10. SubSound'
    BY <1>1, <1>2, <1>3, <1>4, <1>5 DEF SubSound, Ending, Ended
  <1>11. ResourcesSound'
    BY <1>1, <1>2, <1>3, <1>4, <1>5 DEF ResourcesSound, Live, Ending, Ended, Among, Alive
  <1>12. ContainerSound'
    BY <1>1, <1>2, <1>3, <1>4, <1>5 DEF ContainerSound, Ending, Ended, Among, Alive
  <1>13. ServersSound'
    <2>1. "http" \in Servers
      BY DEF Servers
    <2>2. \A c \in Callers, t \in Servers : busy'[c] = t => server[t] # "none"
      BY <1>1, <1>2, <1>3, <1>4, <1>5 DEF ServersSound
    <2> QED BY <1>1, <1>2, <1>3, <1>4, <1>5, <2>1, <2>2 DEF ServersSound, Ending, Ended, Among, Alive
  <1>14. ClosedAfterServers'
    BY <1>1, <1>2, <1>3, <1>4, <1>5 DEF ClosedAfterServers, Alive
  <1>15. InstanceSound'
    BY <1>1, <1>2, <1>3, <1>4, <1>5 DEF InstanceSound, Ending, Among
  <1> QED BY <1>6, <1>7, <1>8, <1>9, <1>10, <1>11, <1>12, <1>13, <1>14, <1>15

\* A request ends, and forgets its infra clients.
LEMMA HandlerEndsStep ==
  ASSUME IndInv, NEW h \in Handlers, HandlerEnds(h)
  PROVE  IndInv'
  <1> USE DEF IndInv
  <1>1. UNCHANGED <<cfg, phase, names, step, sub, ctx, res, server, down, bound, instance, closed, closing>>
    BY DEF HandlerEnds, assembly, serving, published
  <1>2. Plan' = Plan /\ InfraAt' = InfraAt /\ HookAt' = HookAt
    BY <1>1 DEF Plan, InfraAt, HookAt
  <1>3. /\ h \in Callers /\ busy' \in [Callers -> Servers \cup {Nil}] /\ busy'[h] = Nil
        /\ \A c \in Callers : c # h => busy'[c] = busy[c]
    BY DEF HandlerEnds, TypeOK, Handlers
  <1>4. \A t \in Servers : Drained(t) => Drained(t)'
    BY <1>1, <1>3, ServersAssumption DEF Drained, Idle, Handlers
  <1>5. TypeOK'
    BY <1>1, <1>2, <1>3, <1>4 DEF TypeOK
  <1>6. InfraInv'
    BY <1>3, ForgetStep DEF HandlerEnds
  <1>7. BasicsFirst'
    BY <1>1, <1>2, <1>3, <1>4 DEF BasicsFirst
  <1>8. AssemblyOrder'
    BY <1>1, <1>2, <1>3, <1>4 DEF AssemblyOrder, Ending, Among
  <1>9. SubSound'
    BY <1>1, <1>2, <1>3, <1>4 DEF SubSound, Ending, Ended
  <1>10. ResourcesSound'
    BY <1>1, <1>2, <1>3, <1>4 DEF ResourcesSound, Live, Ending, Ended, Among, Alive
  <1>11. ContainerSound'
    BY <1>1, <1>2, <1>3, <1>4 DEF ContainerSound, Ending, Ended, Among, Alive
  <1>12. ServersSound'
    <2>1. "http" \in Servers
      BY DEF Servers
    <2>2. \A c \in Callers, t \in Servers : busy'[c] = t => server[t] # "none"
      BY <1>1, <1>2, <1>3, <1>4, ServersAssumption DEF ServersSound
    <2> QED BY <1>1, <1>2, <1>3, <1>4, <2>1, <2>2 DEF ServersSound, Ending, Ended, Among, Alive
  <1>13. ClosedAfterServers'
    BY <1>1, <1>2, <1>3, <1>4 DEF ClosedAfterServers, Alive
  <1>14. InstanceSound'
    BY <1>1, <1>2, <1>3, <1>4 DEF InstanceSound, Ending, Among
  <1> QED BY <1>5, <1>6, <1>7, <1>8, <1>9, <1>10, <1>11, <1>12, <1>13, <1>14

\* A goroutine uses the infra container, which does not close it.
LEMMA UseInfraStep ==
  ASSUME IndInv, NEW c \in Callers, UseInfra(c)
  PROVE  IndInv'
  <1> USE DEF IndInv
  <1>1. UNCHANGED <<cfg, phase, names, step, sub, ctx, res, server, down, bound, instance, busy>>
    BY DEF UseInfra, assembly, serving, published
  <1>2. Plan' = Plan /\ InfraAt' = InfraAt /\ HookAt' = HookAt
    BY <1>1 DEF Plan, InfraAt, HookAt
  <1>3. UNCHANGED <<closed, closing>>
    BY DEF UseInfra, Use, MySQL, Get, Dial, Store
  <1>4. TypeOK'
    BY <1>1, <1>2, <1>3 DEF TypeOK
  <1>5. InfraInv'
    BY UseStep DEF UseInfra
  <1>6. BasicsFirst'
    BY <1>1, <1>2, <1>3 DEF BasicsFirst
  <1>7. AssemblyOrder'
    BY <1>1, <1>2, <1>3 DEF AssemblyOrder, Ending, Among
  <1>8. SubSound'
    BY <1>1, <1>2, <1>3 DEF SubSound, Ending, Ended
  <1>9. ResourcesSound'
    BY <1>1, <1>2, <1>3 DEF ResourcesSound, Live, Ending, Ended, Among, Alive
  <1>10. ContainerSound'
    BY <1>1, <1>2, <1>3 DEF ContainerSound, Ending, Ended, Among, Alive
  <1>11. ServersSound'
    BY <1>1, <1>2, <1>3 DEF ServersSound, Drained, Idle, Ending, Ended, Among, Alive
  <1>12. ClosedAfterServers'
    BY <1>1, <1>2, <1>3 DEF ClosedAfterServers, Drained, Idle, Alive
  <1>13. InstanceSound'
    BY <1>1, <1>2, <1>3 DEF InstanceSound, Ending, Among
  <1> QED BY <1>4, <1>5, <1>6, <1>7, <1>8, <1>9, <1>10, <1>11, <1>12, <1>13

\* The goroutine of the hook reads Configs.
LEMMA ConfigsLoadStep ==
  ASSUME IndInv, ConfigsLoad
  PROVE  IndInv'
  <1> USE DEF IndInv
  <1>1. UNCHANGED <<cfg, phase, names, step, sub, ctx, server, down, bound, instance, busy, infraVars, closed, closing>>
    BY DEF ConfigsLoad, assembly, serving, published, infraVars
  <1>2. Plan' = Plan /\ InfraAt' = InfraAt /\ HookAt' = HookAt
    BY <1>1 DEF Plan, InfraAt, HookAt
  <1>3. /\ res' \in [Resources -> {"none", "idle", "open", "closed", "reopened"}]
        /\ \A r \in Resources : Live(r)' => Live(r)
    BY DEF ConfigsLoad, TypeOK, Live, Resources
  <1>4. TypeOK'
    BY <1>1, <1>2, <1>3 DEF TypeOK
  <1>5. InfraInv'
    BY <1>1, <1>2, <1>3, InfraUnchanged
  <1>6. BasicsFirst'
    BY <1>1, <1>2, <1>3 DEF BasicsFirst
  <1>7. AssemblyOrder'
    BY <1>1, <1>2, <1>3 DEF AssemblyOrder, Ending, Among
  <1>8. SubSound'
    BY <1>1, <1>2, <1>3 DEF SubSound, Ending, Ended
  <1>9. ResourcesSound'
    BY <1>1, <1>2, <1>3 DEF ResourcesSound, Ending, Ended, Among, Alive
  <1>10. ContainerSound'
    BY <1>1, <1>2, <1>3 DEF ContainerSound, Ending, Ended, Among, Alive
  <1>11. ServersSound'
    BY <1>1, <1>2, <1>3 DEF ServersSound, Drained, Idle, Ending, Ended, Among, Alive
  <1>12. ClosedAfterServers'
    BY <1>1, <1>2, <1>3 DEF ClosedAfterServers, Drained, Idle, Alive
  <1>13. InstanceSound'
    BY <1>1, <1>2, <1>3 DEF InstanceSound, Ending, Among
  <1> QED BY <1>4, <1>5, <1>6, <1>7, <1>8, <1>9, <1>10, <1>11, <1>12, <1>13

\* A registration whose lease has expired is gone.
LEMMA LeaseExpiresStep ==
  ASSUME IndInv, LeaseExpires
  PROVE  IndInv'
  <1> USE DEF IndInv
  <1>1. UNCHANGED <<cfg, phase, names, step, sub, ctx, res, server, down, bound, busy, infraVars, closed, closing>>
    BY DEF LeaseExpires, assembly, serving, infraVars
  <1>2. Plan' = Plan /\ InfraAt' = InfraAt /\ HookAt' = HookAt
    BY <1>1 DEF Plan, InfraAt, HookAt
  <1>3. "state" \in DOMAIN instance' /\ instance'.state = "none"
    BY DEF LeaseExpires, Unregistered
  <1>4. TypeOK'
    BY <1>1, <1>2, <1>3 DEF TypeOK
  <1>5. InfraInv'
    BY <1>1, <1>2, <1>3, InfraUnchanged
  <1>6. BasicsFirst'
    BY <1>1, <1>2, <1>3 DEF BasicsFirst
  <1>7. AssemblyOrder'
    BY <1>1, <1>2, <1>3 DEF AssemblyOrder, Ending, Among
  <1>8. SubSound'
    BY <1>1, <1>2, <1>3 DEF SubSound, Ending, Ended
  <1>9. ResourcesSound'
    BY <1>1, <1>2, <1>3 DEF ResourcesSound, Live, Ending, Ended, Among, Alive
  <1>10. ContainerSound'
    BY <1>1, <1>2, <1>3 DEF ContainerSound, Ending, Ended, Among, Alive
  <1>11. ServersSound'
    BY <1>1, <1>2, <1>3 DEF ServersSound, Drained, Idle, Ending, Ended, Among, Alive
  <1>12. ClosedAfterServers'
    BY <1>1, <1>2, <1>3 DEF ClosedAfterServers, Drained, Idle, Alive
  <1>13. InstanceSound'
    BY <1>1, <1>2, <1>3 DEF InstanceSound, Ending, Among
  <1> QED BY <1>4, <1>5, <1>6, <1>7, <1>8, <1>9, <1>10, <1>11, <1>12, <1>13

-----------------------------------------------------------------------------
(* Calls and returns *)

\* A generation that the manager gives up keeps what it has.
LEMMA DropStep ==
  ASSUME IndInv, Drop
  PROVE  IndInv'
  <1> USE DEF IndInv
  <1>1. /\ UNCHANGED <<cfg, names, res, server, down, bound, instance, busy, infraVars, closed, closing, step, sub, ctx>>
        /\ phase = "built" /\ phase' = "dropped"
    BY DEF Drop, infraVars, serving, published
  <1>2. TypeOK'
    BY <1>1 DEF TypeOK, Phases
  <1>3. InfraInv'
    BY <1>1, InfraUnchanged
  <1>4. BasicsFirst'
    BY <1>1 DEF BasicsFirst
  <1>5. AssemblyOrder'
    BY <1>1 DEF AssemblyOrder, Ending, Among
  <1>6. SubSound'
    BY <1>1 DEF SubSound, Ending, Ended
  <1>7. ResourcesSound'
    BY <1>1 DEF ResourcesSound, Live, Ending, Ended, Among, Alive
  <1>8. ContainerSound'
    BY <1>1 DEF ContainerSound, Ending, Ended, Among, Alive
  <1>9. ServersSound'
    BY <1>1 DEF ServersSound, Drained, Idle, Ending, Ended, Among, Alive
  <1>10. ClosedAfterServers'
    BY <1>1 DEF ClosedAfterServers, Drained, Idle, Alive
  <1>11. InstanceSound'
    BY <1>1 DEF InstanceSound, Ending, Among
  <1> QED BY <1>2, <1>3, <1>4, <1>5, <1>6, <1>7, <1>8, <1>9, <1>10, <1>11

\* Start is called: nothing runs, and the container is open.
LEMMA StartCallStep ==
  ASSUME IndInv, StartCall
  PROVE  IndInv'
  <1> USE DEF IndInv
  <1>1. /\ UNCHANGED <<cfg, names, res, server, down, bound, instance, busy, infraVars, closed, closing, sub>>
        /\ phase = "built" /\ phase' = "starting" /\ step' = 1 /\ ctx' = "live"
    BY DEF StartCall, infraVars, serving, published
  <1>2. Len(names) \in Nat
    BY DEF TypeOK
  <1>3. ~closed
    BY <1>1 DEF ContainerSound, Ending, Ended
  <1>4. TypeOK'
    BY <1>1, <1>2, <1>3 DEF TypeOK, Phases
  <1>5. InfraInv'
    BY <1>1, <1>2, <1>3, InfraUnchanged
  <1>6. BasicsFirst'
    BY <1>1, <1>2, <1>3 DEF BasicsFirst
  <1>7. AssemblyOrder'
    BY <1>1, <1>2, <1>3 DEF AssemblyOrder, Ending, Among
  <1>8. SubSound'
    BY <1>1, <1>2, <1>3 DEF SubSound, Ending, Ended
  <1>9. ResourcesSound'
    BY <1>1, <1>2, <1>3 DEF ResourcesSound, Live, Ending, Ended, Among, Alive
  <1>10. ContainerSound'
    BY <1>1, <1>2, <1>3 DEF ContainerSound, Ending, Ended, Among, Alive
  <1>11. ServersSound'
    BY <1>1, <1>2, <1>3 DEF ServersSound, Drained, Idle, Ending, Ended, Among, Alive
  <1>12. ClosedAfterServers'
    BY <1>1, <1>2, <1>3 DEF ClosedAfterServers, Drained, Idle, Alive
  <1>13. InstanceSound'
    BY <1>1, <1>2, <1>3 DEF InstanceSound, Ending, Among
  <1> QED BY <1>4, <1>5, <1>6, <1>7, <1>8, <1>9, <1>10, <1>11, <1>12, <1>13

\* Stop is called, and begins with the last component.
LEMMA StopCallStep ==
  ASSUME IndInv, StopCall
  PROVE  IndInv'
  <1> USE DEF IndInv
  <1>1. /\ UNCHANGED <<cfg, names, res, server, down, bound, instance, busy, infraVars, closed, closing, sub>>
        /\ phase = "up" /\ phase' = "stopping" /\ step' = Len(names) /\ ctx' = "live"
    BY DEF StopCall, infraVars, serving, published
  <1>2. Len(names) \in Nat
    BY DEF TypeOK
  <1>3. ~closed
    BY <1>1 DEF ContainerSound, Ending, Ended
  <1>4. sub = "begin"
    BY <1>1 DEF SubSound, Ending
  <1>5. TypeOK'
    BY <1>1, <1>2, <1>3, <1>4 DEF TypeOK, Phases
  <1>6. InfraInv'
    BY <1>1, <1>2, <1>3, <1>4, InfraUnchanged
  <1>7. BasicsFirst'
    BY <1>1, <1>2, <1>3, <1>4 DEF BasicsFirst
  <1>8. AssemblyOrder'
    BY <1>1, <1>2, <1>3, <1>4 DEF AssemblyOrder, Ending, Among
  <1>9. SubSound'
    BY <1>1, <1>2, <1>3, <1>4 DEF SubSound, Ending, Ended
  <1>10. ResourcesSound'
    BY <1>1, <1>2, <1>3, <1>4 DEF ResourcesSound, Live, Ending, Ended, Among, Alive
  <1>11. ContainerSound'
    <2>1. Among("infra", Len(names))
      BY <1>1 DEF AssemblyOrder
    <2> QED BY <1>1, <1>2, <1>3, <1>4, <2>1 DEF ContainerSound, Ending, Ended, Among, Alive
  <1>12. ServersSound'
    BY <1>1, <1>2, <1>3, <1>4 DEF ServersSound, Drained, Idle, Ending, Ended, Among, Alive
  <1>13. ClosedAfterServers'
    BY <1>1, <1>2, <1>3, <1>4 DEF ClosedAfterServers, Drained, Idle, Alive
  <1>14. InstanceSound'
    BY <1>1, <1>2, <1>3, <1>4 DEF InstanceSound, Ending, Among
  <1> QED BY <1>5, <1>6, <1>7, <1>8, <1>9, <1>10, <1>11, <1>12, <1>13, <1>14

\* Stop, or the rollback of Start, has stopped the first component and returns.
LEMMA StopReturnsStep ==
  ASSUME IndInv, StopReturns
  PROVE  IndInv'
  <1> USE DEF IndInv
  <1>1. /\ UNCHANGED <<cfg, names, res, server, down, bound, instance, busy, infraVars, closed, closing, step, sub, ctx>>
        /\ Ending /\ step = 0 /\ Ended'
    BY DEF StopReturns, Ending, Ended, infraVars, serving, published
  <1>2. \A x : ~Among(x, step)
    BY <1>1 DEF Among
  <1>3. ~Ending' /\ phase' \notin {"starting", "failing", "failed", "assembling", "built", "dropped", "up"}
    BY <1>1 DEF Ending, Ended
  <1>4. sub = "begin" /\ phase \notin {"assembling", "failing", "failed"}
    BY <1>1 DEF Ending, SubSound
  <1>5. TypeOK'
    BY <1>1, <1>2, <1>3, <1>4 DEF TypeOK, Phases, Ended
  <1>6. InfraInv'
    BY <1>1, <1>2, <1>3, <1>4, InfraUnchanged
  <1>7. BasicsFirst'
    BY <1>1, <1>2, <1>3, <1>4 DEF BasicsFirst
  <1>8. AssemblyOrder'
    BY <1>1, <1>2, <1>3, <1>4 DEF AssemblyOrder, Among
  <1>9. SubSound'
    BY <1>1, <1>2, <1>3, <1>4 DEF SubSound
  <1>10. ResourcesSound'
    BY <1>1, <1>2, <1>3, <1>4 DEF ResourcesSound, Live, Alive, Among
  <1>11. ContainerSound'
    BY <1>1, <1>2, <1>3, <1>4 DEF ContainerSound, Alive
  <1>12. ServersSound'
    BY <1>1, <1>2, <1>3, <1>4 DEF ServersSound, Drained, Idle, Alive
  <1>13. ClosedAfterServers'
    BY <1>1, <1>2, <1>3, <1>4 DEF ClosedAfterServers, Drained, Idle, Alive
  <1>14. InstanceSound'
    BY <1>1, <1>2, <1>3, <1>4 DEF InstanceSound
  <1> QED BY <1>5, <1>6, <1>7, <1>8, <1>9, <1>10, <1>11, <1>12, <1>13, <1>14

\* The context of a call ends: the promises that hold until then lapse.
LEMMA CtxEndsStep ==
  ASSUME IndInv, CtxEnds
  PROVE  IndInv'
  <1> USE DEF IndInv
  <1>1. /\ UNCHANGED <<cfg, names, res, server, down, bound, instance, busy, infraVars, closed, closing, phase, step, sub>>
        /\ ctx' = "ended" /\ phase \in {"starting", "rollback", "stopping"}
    BY DEF CtxEnds, infraVars, serving, published
  <1>2. TypeOK'
    BY <1>1 DEF TypeOK
  <1>3. InfraInv'
    BY <1>1, InfraUnchanged
  <1>4. BasicsFirst'
    BY <1>1 DEF BasicsFirst
  <1>5. AssemblyOrder'
    BY <1>1 DEF AssemblyOrder, Ending, Among, Plan, HookAt, InfraAt
  <1>6. SubSound'
    BY <1>1 DEF SubSound, Ending, Ended
  <1>7. ResourcesSound'
    BY <1>1 DEF ResourcesSound, Live, Ending, Ended, Among, Alive
  <1>8. ContainerSound'
    BY <1>1 DEF ContainerSound, Ending, Ended, Among, Alive
  <1>9. ServersSound'
    BY <1>1 DEF ServersSound, Drained, Idle, Ending, Ended, Among, Alive
  <1>10. ClosedAfterServers'
    BY <1>1 DEF ClosedAfterServers, Drained, Idle, Alive
  <1>11. InstanceSound'
    BY <1>1 DEF InstanceSound, Ending, Among
  <1> QED BY <1>2, <1>3, <1>4, <1>5, <1>6, <1>7, <1>8, <1>9, <1>10, <1>11

\* Assembly has failed: the container closes its clients, and the error is returned.
LEMMA FailureReturnsStep ==
  ASSUME IndInv, FailureReturns
  PROVE  IndInv'
  <1> USE DEF IndInv
  <1>1. /\ UNCHANGED <<cfg, names, step, sub, ctx, res, server, down, bound, instance, busy>>
        /\ phase = "failing" /\ phase' \in {"failing", "failed"}
    BY DEF FailureReturns, serving, published
  <1>2. UNCHANGED closed /\ (phase' = "failed" => closing' = {})
    BY <1>1 DEF FailureReturns, infraVars, CloseNext
  <1>3. TypeOK'
    BY <1>1, <1>2 DEF TypeOK, Phases
  <1>4. InfraInv'
    BY InfraUnchanged, CloseNextStep DEF FailureReturns
  <1>5. BasicsFirst'
    BY <1>1, <1>2 DEF BasicsFirst
  <1>6. AssemblyOrder'
    BY <1>1, <1>2 DEF AssemblyOrder, Ending, Among, Plan, HookAt, InfraAt
  <1>7. SubSound'
    BY <1>1, <1>2 DEF SubSound, Ending, Ended
  <1>8. ResourcesSound'
    BY <1>1, <1>2 DEF ResourcesSound, Live, Ending, Ended, Among, Alive
  <1>9. ContainerSound'
    BY <1>1, <1>2 DEF ContainerSound, Ending, Ended, Among, Alive
  <1>10. ServersSound'
    BY <1>1, <1>2 DEF ServersSound, Drained, Idle, Ending, Ended, Among, Alive
  <1>11. ClosedAfterServers'
    BY <1>1, <1>2 DEF ClosedAfterServers, Drained, Idle, Alive
  <1>12. InstanceSound'
    BY <1>1, <1>2 DEF InstanceSound, Ending, Among
  <1> QED BY <1>3, <1>4, <1>5, <1>6, <1>7, <1>8, <1>9, <1>10, <1>11, <1>12

-----------------------------------------------------------------------------
(* Assembly, step by step *)

\* A step that fails releases what assembly has opened, and closes the container.
LEMMA AssemblyFailsStep ==
  ASSUME IndInv, phase = "assembling", AssemblyFails,
         UNCHANGED <<serving, published, busy>>
  PROVE  IndInv'
  <1> USE DEF IndInv
  <1>1. /\ UNCHANGED <<cfg, names, step, sub, ctx, server, down, bound, instance, busy>> /\ phase' = "failing"
        /\ closed'
    BY DEF AssemblyFails, CloseTakes, serving, published
  <1>2. /\ res' \in [Resources -> {"none", "idle", "open", "closed", "reopened"}]
        /\ \A r \in Resources : ~Live(r)'
    BY DEF AssemblyFails, Release, TypeOK, Live
  <1>3. \A s \in Servers : server[s] = "none"
    BY DEF ServersSound
  <1>4. TypeOK'
    BY <1>1, <1>2, <1>3 DEF TypeOK, Phases
  <1>5. InfraInv'
    BY CloseTakesStep DEF AssemblyFails
  <1>6. BasicsFirst'
    BY <1>1, <1>2, <1>3 DEF BasicsFirst
  <1>7. AssemblyOrder'
    BY <1>1, <1>2, <1>3 DEF AssemblyOrder, Ending, Among
  <1>8. SubSound'
    BY <1>1, <1>2, <1>3 DEF SubSound, Ending, Ended
  <1>9. ResourcesSound'
    BY <1>1, <1>2, <1>3 DEF ResourcesSound
  <1>10. ContainerSound'
    BY <1>1, <1>2, <1>3 DEF ContainerSound, Ending, Ended, Among, Alive
  <1>11. ServersSound'
    BY <1>1, <1>2, <1>3 DEF ServersSound, Drained, Idle, Ending, Ended, Among, Alive
  <1>12. ClosedAfterServers'
    BY <1>1, <1>2, <1>3 DEF ClosedAfterServers, Drained, Idle, Alive
  <1>13. InstanceSound'
    BY <1>1, <1>2, <1>3 DEF InstanceSound, Ending, Among
  <1> QED BY <1>4, <1>5, <1>6, <1>7, <1>8, <1>9, <1>10, <1>11, <1>12, <1>13

\* A step that succeeds adds components, those that others rely on before the hook's.
LEMMA AddedStep ==
  ASSUME IndInv, phase = "assembling", NEW new \in Seq(Basics \cup Others), Added(new),
         step < HookAt => \A i \in 1..Len(new) : new[i] \in Basics,
         step >= HookAt => \A i \in 1..Len(new) : new[i] \in Others,
         step = InfraAt => \E i \in 1..Len(new) : new[i] = "infra",
         res' \in [Resources -> {"none", "idle", "open", "closed", "reopened"}],
         \A r \in Resources : Live(r)' => (Live(r) \/ \E i \in 1..Len(new) : new[i] = Keeper(r)),
         UNCHANGED <<infraVars, serving, published, busy>>
  PROVE  IndInv'
  <1> USE DEF IndInv
  <1>1. /\ UNCHANGED <<cfg, sub, ctx, server, down, bound, instance, busy, closed, closing>>
        /\ names' = names \o new
    BY DEF Added, serving, published, infraVars
  <1>2. /\ Plan' = Plan /\ InfraAt' = InfraAt /\ HookAt' = HookAt /\ InfraAt \in Nat /\ HookAt = InfraAt + 2
        /\ InfraAt \in Nat
    BY <1>1 DEF Plan, InfraAt, HookAt
  <1>3. Len(Plan) \in Nat /\ Len(Plan) > HookAt /\ step \in 1..Len(Plan)
    BY PlanInOrder DEF InOrder, AssemblyOrder
  <1>4. \/ step = Len(Plan) /\ phase' = "built" /\ step' = 0
        \/ step # Len(Plan) /\ phase' = "assembling" /\ step' = step + 1
    BY DEF Added
  <1>5. /\ names' \in Seq(Basics \cup Others) /\ Len(names') = Len(names) + Len(new)
        /\ \A i \in 1..Len(names) + Len(new) : names'[i] = IF i <= Len(names) THEN names[i] ELSE new[i - Len(names)]
    BY <1>1, ConcatProperties DEF TypeOK
  <1>6. Len(names) \in Nat /\ Len(new) \in Nat
    BY DEF TypeOK
  <1>7. /\ \A i \in 1..Len(names) : names'[i] = names[i]
        /\ \A i \in 1..Len(new) : names'[Len(names) + i] = new[i]
    <2>1. \A i \in 1..Len(names) : names'[i] = names[i]
      BY <1>5, <1>6
    <2>2. ASSUME NEW i \in 1..Len(new) PROVE names'[Len(names) + i] = new[i]
      <3>1. /\ Len(names) + i \in 1..Len(names) + Len(new) /\ ~(Len(names) + i <= Len(names))
            /\ (Len(names) + i) - Len(names) = i
        BY <1>6
      <3> QED BY <1>5, <3>1
    <2> QED BY <2>1, <2>2
  <1>8. \A x : Among(x, Len(names)) => Among(x, Len(names))'
    BY <1>5, <1>6, <1>7 DEF Among
  <1>9. \A x : (\E i \in 1..Len(new) : new[i] = x) => Among(x, Len(names))'
    BY <1>5, <1>6, <1>7 DEF Among
  <1>10. /\ ~Ending /\ ~Ending' /\ ~Ended /\ ~Ended' /\ phase' \notin {"starting", "up", "failing", "failed"}
         /\ phase' \in Phases
    BY <1>4 DEF Ending, Ended, Phases
  <1>11. TypeOK'
    BY <1>1, <1>2, <1>3, <1>4, <1>5, <1>6, <1>7, <1>8, <1>9, <1>10 DEF TypeOK
  <1>12. InfraInv'
    BY InfraUnchanged
  <1>13. BasicsFirst'
    <2> SUFFICES ASSUME NEW i \in 1..Len(names'), NEW j \in 1..Len(names'),
                        names'[i] \in Basics, names'[j] \in Others
                 PROVE  i < j
      BY DEF BasicsFirst
    <2>1. Basics \cap Others = {}
      BY DEF Basics, Others
    <2>2. \A k \in 1..Len(names') : k > Len(names) => k - Len(names) \in 1..Len(new) /\ names'[k] = new[k - Len(names)]
      BY <1>5, <1>6
    <2>3. CASE step < HookAt
      <3>1. \A k \in 1..Len(names) : names[k] \in Basics
        BY <2>3, <1>2, <1>3 DEF AssemblyOrder
      <3>2. names'[j] \in Basics
        BY <1>5, <1>6, <1>7, <2>2, <2>3, <3>1
      <3> QED BY <2>1, <3>2
    <2>4. CASE step >= HookAt
      <3>1. i <= Len(names) /\ names[i] \in Basics
        <4>1. CASE i > Len(names)
          BY <2>1, <2>2, <2>4, <4>1
        <4>2. CASE i <= Len(names)
          BY <1>5, <1>6, <1>7, <4>2
        <4> QED BY <1>5, <1>6, <4>1, <4>2
      <3>2. CASE j <= Len(names)
        BY <1>5, <1>6, <1>7, <3>1, <3>2 DEF BasicsFirst
      <3>3. CASE j > Len(names)
        BY <1>5, <1>6, <3>1, <3>3
      <3> QED BY <1>6, <3>2, <3>3
    <2> QED BY <1>2, <1>3, <2>3, <2>4
  <1>14. AssemblyOrder'
    <2>1. phase' = "assembling" => step' \in 1..Len(Plan)
      BY <1>3, <1>4
    <2>2. (phase' = "assembling" /\ step' <= HookAt) => \A i \in 1..Len(names') : names'[i] \in Basics
      <3> SUFFICES ASSUME phase' = "assembling", step' <= HookAt, NEW i \in 1..Len(names') PROVE names'[i] \in Basics
        OBVIOUS
      <3>1. step < HookAt
        BY <1>2, <1>3, <1>4
      <3>2. CASE i <= Len(names)
        BY <1>2, <1>3, <1>5, <1>6, <1>7, <3>1, <3>2 DEF AssemblyOrder
      <3>3. CASE i > Len(names)
        <4>1. i - Len(names) \in 1..Len(new) /\ names'[i] = new[i - Len(names)]
          BY <1>5, <1>6, <3>3
        <4> QED BY <3>1, <4>1
      <3> QED BY <1>6, <3>2, <3>3
    <2>3. step >= InfraAt => Among("infra", Len(names))'
      BY <1>2, <1>3, <1>8, <1>9 DEF AssemblyOrder
    <2>4. step' > InfraAt \/ phase' # "assembling" => step >= InfraAt
      BY <1>2, <1>3, <1>4
    <2> QED BY <1>2, <1>4, <1>10, <2>1, <2>2, <2>3, <2>4 DEF AssemblyOrder
  <1>15. SubSound'
    BY <1>1, <1>4, <1>10 DEF SubSound, Ending
  <1>16. ResourcesSound'
    BY <1>8, <1>9, <1>10 DEF ResourcesSound
  <1>17. ContainerSound'
    BY <1>1, <1>10 DEF ContainerSound
  <1>18. ServersSound'
    BY <1>1, <1>4, <1>10 DEF ServersSound, Phases
  <1>19. ClosedAfterServers'
    BY <1>1 DEF ClosedAfterServers, Drained, Idle, Alive
  <1>20. InstanceSound'
    BY <1>1, <1>10 DEF InstanceSound
  <1> QED BY <1>11, <1>12, <1>13, <1>14, <1>15, <1>16, <1>17, <1>18, <1>19, <1>20

\* Every step of assembly preserves the invariant.
LEMMA AssemblyStepStep ==
  ASSUME IndInv, AssemblyStep
  PROVE  IndInv'
  <1> DEFINE n == Plan[step]
  <1>1. phase = "assembling" /\ UNCHANGED <<serving, published, busy>>
    BY DEF AssemblyStep
  <1>2. CASE AssemblyFails
    BY <1>1, <1>2, AssemblyFailsStep
  <1>3. /\ step \in Nat /\ HookAt \in Nat /\ InfraAt < HookAt /\ InfraAt \in Nat
        /\ step < HookAt => n \in {"spec"} \cup Basics
        /\ step = HookAt => n = "hook"
        /\ step > HookAt => n \in Others
        /\ step = InfraAt => n = "infra"
    BY <1>1, PlanInOrder DEF InOrder, IndInv, AssemblyOrder, TypeOK, InfraAt, HookAt
  <1> HIDE DEF n
  <1>4. /\ "hook" \notin {"spec"} \cup Basics \cup Others /\ "spec" \notin Basics \cup Others
        /\ Basics \cap Others = {}
    BY DEF Basics, Others
  <1>5. res \in [Resources -> {"none", "idle", "open", "closed", "reopened"}]
    BY DEF IndInv, TypeOK
  <1>6. CASE n = "spec" /\ Added(<<>>) /\ UNCHANGED <<infraVars, res>>
    <2> DEFINE new == <<>>
    <2>1. new \in Seq(Basics \cup Others) /\ Len(new) = 0 /\ Added(new)
      BY <1>6
    <2>2. step # InfraAt /\ ~(step >= HookAt)
      BY <1>3, <1>4, <1>6
    <2>3. \A r \in Resources : Live(r)' => Live(r)
      BY <1>6 DEF Live
    <2> HIDE DEF new
    <2>4. \A i \in 1..Len(new) : new[i] \in Basics
      BY <2>1
    <2>5. res' \in [Resources -> {"none", "idle", "open", "closed", "reopened"}]
      BY <1>5, <1>6
    <2>6. UNCHANGED <<infraVars, serving, published, busy>>
      BY <1>1, <1>6
    <2> QED BY <1>1, <2>1, <2>2, <2>3, <2>4, <2>5, <2>6, AddedStep
  <1>7. CASE n = "hook" /\ Added(cfg.hook.adds) /\ UNCHANGED <<infraVars, res>>
    <2>1. /\ cfg.hook.adds \in Seq(Basics \cup Others)
          /\ \A i \in 1..Len(cfg.hook.adds) : cfg.hook.adds[i] \in Others
      BY HookAssumption, SeqMonotonic, ElementOfSeq DEF IndInv, TypeOK
    <2>2. step = HookAt
      BY <1>3, <1>4, <1>7
    <2> QED BY <1>1, <1>3, <1>5, <1>7, <2>1, <2>2, AddedStep DEF Live
  <1>8. CASE /\ n \in Basics \cup Others /\ Added(<<n>>)
             /\ res' \in [Resources -> {"none", "idle", "open", "closed", "reopened"}]
             /\ \A r \in Resources : Live(r)' => (Live(r) \/ n = Keeper(r))
             /\ UNCHANGED infraVars
    <2> DEFINE new == <<n>>
    <2>1. new \in Seq(Basics \cup Others) /\ Len(new) = 1 /\ new[1] = n
      BY <1>8
    <2>2. /\ \A i \in 1..Len(new) : new[i] = n
          /\ \A x : x = n => \E i \in 1..Len(new) : new[i] = x
      BY <2>1
    <2>3. (step < HookAt => n \in Basics) /\ (step >= HookAt => n \in Others)
      BY <1>3, <1>4, <1>8
    <2>4. Added(new)
      BY <1>8
    <2> HIDE DEF new
    <2> QED BY <1>1, <1>3, <1>8, <2>1, <2>2, <2>3, <2>4, AddedStep
  <1>9. /\ res' = [res EXCEPT !["etcd"] = "open"] => \A r \in Resources : Live(r)' => (Live(r) \/ "etcd_client" = Keeper(r))
        /\ res' = [res EXCEPT !["clients"] = "open"] => \A r \in Resources : Live(r)' => (Live(r) \/ "grpc_clients" = Keeper(r))
        /\ \A v : res' = [res EXCEPT !["configs"] = v] => \A r \in Resources : Live(r)' => (Live(r) \/ "configs" = Keeper(r))
        /\ res' = res => \A r \in Resources : Live(r)' => Live(r)
    BY <1>5 DEF Live, Keeper, Resources
  <1>10. CASE n = "etcd_client" /\ Opens("etcd") /\ Added(<<n>>) /\ UNCHANGED infraVars
    BY <1>5, <1>8, <1>9, <1>10 DEF Opens, Basics
  <1>11. CASE n = "grpc_clients" /\ Opens("clients") /\ Added(<<n>>) /\ UNCHANGED infraVars
    BY <1>5, <1>8, <1>9, <1>11 DEF Opens, Basics
  <1>12. CASE /\ n = "configs" /\ Added(<<n>>) /\ UNCHANGED infraVars
              /\ res' = [res EXCEPT !["configs"] = IF OwnsClient THEN "idle" ELSE "none"]
    <2>1. res' \in [Resources -> {"none", "idle", "open", "closed", "reopened"}]
      BY <1>5, <1>12
    <2> QED BY <1>8, <1>9, <1>12, <2>1 DEF Basics
  <1>13. CASE /\ n \notin {"spec", "hook", "etcd_client", "grpc_clients", "configs"}
              /\ Added(<<n>>) /\ UNCHANGED <<infraVars, res>>
    <2>1. n \in Basics \cup Others
      BY <1>3, <1>13
    <2> QED BY <1>5, <1>8, <1>9, <1>13, <2>1
  <1> QED
    BY <1>2, <1>6, <1>7, <1>10, <1>11, <1>12, <1>13 DEF AssemblyStep, Hook, n

-----------------------------------------------------------------------------
(* Start *)

States == {"none", "spawned", "serving", "closed", "died"}

\* The facts about the position of the component at hand that the lemmas use.
LEMMA AmongFacts ==
  ASSUME TypeOK, step \in 1..Len(names)
  PROVE  /\ \A x : Among(x, step - 1) => Among(x, step)
         /\ \A x : Among(x, step) => Among(x, Len(names))
         /\ \A x : Among(x, step) => (Among(x, step - 1) \/ x = names[step])
         /\ Among(names[step], step)
  BY DEF TypeOK, Among

\* A component has started: what it serves or registers, its Stop ends.
LEMMA StartedStep ==
  ASSUME IndInv, phase = "starting", Started, UNCHANGED <<infraVars, cfg, names, ctx, res, down, busy>>,
         server' \in [Servers -> States], "http" \in DOMAIN bound', "state" \in DOMAIN instance',
         \A s \in Servers : server'[s] = server[s] \/ (server'[s] = "spawned" /\ Owner(s) = names[step]),
         server'["http"] # "none" => cfg.http # NoAddress,
         bound'.http # NoAddress => server'["http"] # "none",
         instance'.state = "kept" => (instance.state = "kept" \/ names[step] = "registry")
  PROVE  IndInv'
  <1> USE DEF IndInv
  <1>1. UNCHANGED <<closed, closing>> /\ sub' = "begin"
    BY DEF infraVars, Started
  <1>2. ~closed /\ ~Ending /\ ~Ended /\ step \in 1..Len(names) /\ Len(names) \in Nat /\ step \in Nat
    BY DEF ContainerSound, Ending, Ended, AssemblyOrder, TypeOK
  <1>3. /\ \A x : Among(x, step - 1) => Among(x, step)
        /\ \A x : Among(x, step) => Among(x, Len(names))
        /\ \A x : Among(x, step) => (Among(x, step - 1) \/ x = names[step])
        /\ Among(names[step], step)
    BY <1>2, AmongFacts
  <1>4. \/ step = Len(names) /\ phase' = "up" /\ step' = 0
        \/ step # Len(names) /\ phase' = "starting" /\ step' = step + 1
    BY DEF Started
  <1>5. ~Ending' /\ ~Ended' /\ phase' \in Phases /\ phase' \in {"up", "starting"}
    BY <1>4 DEF Ending, Ended, Phases
  <1>6. \A x, n : Among(x, n) <=> Among(x, n)'
    BY DEF Among
  <1>7. (step + 1) - 1 = step
    BY <1>2
  <1>8. \A s \in Servers : server[s] # "none" => Among(Owner(s), step)
    BY <1>2, <1>3 DEF ServersSound, SubSound, Owner
  <1>9. \A s \in Servers : server'[s] # "none" => Among(Owner(s), step)
    BY <1>3, <1>8
  <1>10. TypeOK'
    BY <1>1, <1>2, <1>4, <1>5 DEF TypeOK, States
  <1>11. InfraInv'
    BY InfraUnchanged
  <1>12. BasicsFirst'
    BY <1>1, <1>2, <1>3, <1>4, <1>5, <1>6, <1>7, <1>8, <1>9 DEF BasicsFirst
  <1>13. AssemblyOrder'
    BY <1>2, <1>4, <1>5, <1>6 DEF AssemblyOrder
  <1>14. SubSound'
    BY <1>1, <1>5 DEF SubSound
  <1>15. ResourcesSound'
    BY <1>2, <1>5, <1>6 DEF ResourcesSound, Live
  <1>16. ContainerSound'
    BY <1>1, <1>2, <1>5 DEF ContainerSound
  <1>17. ServersSound'
    <2>1. \A t \in down : server'[t] # "serving"
      BY DEF ServersSound, TypeOK
    <2>2. \A c \in Callers, t \in Servers : busy[c] = t => server'[t] # "none"
      BY DEF ServersSound
    <2>3. \A t \in Servers : Owner(t)' = Owner(t)
      BY DEF Owner
    <2> QED BY <1>3, <1>4, <1>5, <1>6, <1>7, <1>9, <2>1, <2>2, <2>3 DEF ServersSound
  <1>18. ClosedAfterServers'
    BY <1>1, <1>2 DEF ClosedAfterServers
  <1>19. InstanceSound'
    BY <1>2, <1>3, <1>4, <1>5, <1>6, <1>7 DEF InstanceSound
  <1> QED BY <1>10, <1>11, <1>12, <1>13, <1>14, <1>15, <1>16, <1>17, <1>18, <1>19

\* A Start that fails leaves to the rollback all that was started before.
LEMMA StartFailsStep ==
  ASSUME IndInv, phase = "starting", StartFails, UNCHANGED <<infraVars, cfg, names, ctx, res, busy, bound>>,
         names[step] \in Others \/ ~Alive,
         server' \in [Servers -> States], down' \in SUBSET Servers, down \subseteq down',
         \A s \in Servers : (server'[s] = "none" <=> server[s] = "none") /\ (server[s] = "died" => server'[s] = "died"),
         \A s \in down' : server'[s] # "serving",
         sub = "http" => "grpc" \in down',
         "state" \in DOMAIN instance', instance'.state = "kept" => instance.state = "kept"
  PROVE  IndInv'
  <1> USE DEF IndInv
  <1>1. UNCHANGED <<closed, closing>> /\ sub' = "begin" /\ phase' = "rollback" /\ step' = step - 1
    BY DEF infraVars, StartFails
  <1>2. ~closed /\ ~Ending /\ ~Ended /\ step \in 1..Len(names) /\ Len(names) \in Nat /\ step \in Nat
    BY DEF ContainerSound, Ending, Ended, AssemblyOrder, TypeOK
  <1>3. /\ \A x : Among(x, step - 1) => Among(x, step)
        /\ \A x : Among(x, step) => Among(x, Len(names))
        /\ \A x : Among(x, step) => (Among(x, step - 1) \/ x = names[step])
        /\ Among(names[step], step)
    BY <1>2, AmongFacts
  <1>4. /\ Ending' /\ ~Ended' /\ phase' \in Phases
        /\ phase' \notin {"assembling", "built", "dropped", "failing", "failed", "starting", "up"}
        /\ step' \in 0..Len(names)
    BY <1>1, <1>2 DEF Ending, Ended, Phases
  <1>5. \A x, n : Among(x, n) <=> Among(x, n)'
    BY DEF Among
  <1>6. Alive => \A x \in Basics : Among(x, Len(names)) => Among(x, step')
    BY <1>1, <1>2 DEF Among, BasicsFirst
  <1>7. \A s \in Servers : server[s] # "none" => (Drained(s)' \/ Among(Owner(s), step - 1))
    <2> SUFFICES ASSUME NEW s \in Servers, server[s] # "none", ~Among(Owner(s), step - 1) PROVE Drained(s)'
      OBVIOUS
    <2>1. s = "grpc" /\ sub = "http"
      BY DEF ServersSound
    <2>2. server["http"] = "none"
      BY <2>1 DEF ServersSound, Owner, Servers
    <2>3. cfg.http # NoAddress /\ bound.http = NoAddress
      BY <2>1, <2>2 DEF ServersSound, SubSound
    <2> QED BY <2>1, <2>3 DEF Drained
  <1>8. \A s \in Servers : server'[s] = "none" => Drained(s)'
    BY DEF Drained
  <1>9. TypeOK'
    BY <1>1, <1>2, <1>4 DEF TypeOK, States
  <1>10. InfraInv'
    BY InfraUnchanged
  <1>11. BasicsFirst'
    BY <1>1, <1>2, <1>3, <1>4, <1>5, <1>6, <1>7, <1>8 DEF BasicsFirst
  <1>12. AssemblyOrder'
    BY <1>2, <1>4, <1>5 DEF AssemblyOrder
  <1>13. SubSound'
    BY <1>1, <1>4 DEF SubSound
  <1>14. ResourcesSound'
    <2>1. \A r \in Resources : Keeper(r) \in Basics
      BY DEF Resources, Keeper, Basics
    <2> QED BY <1>1, <1>4, <1>5, <1>6, <2>1 DEF ResourcesSound, Live, Alive, Keeper
  <1>15. ContainerSound'
    <2>1. Among("infra", Len(names)) /\ "infra" \in Basics
      BY DEF AssemblyOrder, Basics
    <2> QED BY <1>1, <1>2, <1>4, <1>5, <1>6, <2>1 DEF ContainerSound, Alive
  <1>16. ServersSound'
    <2>1. \A c \in Callers, t \in Servers : busy[c] = t => server'[t] # "none"
      BY DEF ServersSound
    <2>2. "http" \in Servers /\ \A t \in Servers : Owner(t)' = Owner(t)
      BY DEF Owner, Servers
    <2>3. \A t \in Servers : Drained(t)' \/ Among(Owner(t), step)'
      BY <1>1, <1>5, <1>7, <1>8, <2>2
    <2> QED BY <1>1, <1>4, <2>1, <2>2, <2>3 DEF ServersSound
  <1>17. ClosedAfterServers'
    BY <1>1, <1>2 DEF ClosedAfterServers
  <1>18. InstanceSound'
    BY <1>1, <1>4, <1>5 DEF InstanceSound
  <1> QED BY <1>9, <1>10, <1>11, <1>12, <1>13, <1>14, <1>15, <1>16, <1>17, <1>18

\* GRPCService.Start has started the gRPC server and goes on to its HTTP server.
LEMMA GRPCServesStep ==
  ASSUME IndInv, phase = "starting", sub = "begin", names[step] = "grpc", cfg.http # NoAddress,
         UNCHANGED <<infraVars, cfg, phase, names, step, ctx, res, down, busy, instance>>, sub' = "http",
         server' = [server EXCEPT !["grpc"] = "spawned"], "http" \in DOMAIN bound', bound'.http = bound.http
  PROVE  IndInv'
  <1> USE DEF IndInv
  <1>1. UNCHANGED <<closed, closing>>
    BY DEF infraVars
  <1>2. ~closed /\ ~Ending /\ ~Ended /\ step \in 1..Len(names) /\ Len(names) \in Nat /\ step \in Nat
    BY DEF ContainerSound, Ending, Ended, AssemblyOrder, TypeOK
  <1>3. /\ server' \in [Servers -> States] /\ server'["grpc"] = "spawned"
        /\ \A t \in Servers : t # "grpc" => server'[t] = server[t]
    BY DEF TypeOK, States, Servers
  <1>4. ~Ending' /\ ~Ended'
    BY DEF Ending, Ended
  <1>5. \A x, n : Among(x, n) <=> Among(x, n)'
    BY DEF Among
  <1>6. TypeOK'
    BY <1>3 DEF TypeOK, States
  <1>7. InfraInv'
    BY InfraUnchanged
  <1>8. BasicsFirst'
    BY <1>1, <1>2, <1>3, <1>4, <1>5 DEF BasicsFirst
  <1>9. AssemblyOrder'
    BY <1>2, <1>4, <1>5 DEF AssemblyOrder
  <1>10. SubSound'
    BY <1>3, <1>4 DEF SubSound
  <1>11. ResourcesSound'
    BY <1>4, <1>5 DEF ResourcesSound, Live
  <1>12. ContainerSound'
    BY <1>1, <1>2, <1>4 DEF ContainerSound
  <1>13. ServersSound'
    <2>1. \A t \in down : server'[t] # "serving"
      BY <1>3 DEF ServersSound, TypeOK
    <2>2. \A c \in Callers, t \in Servers : busy[c] = t => server'[t] # "none"
      BY <1>3 DEF ServersSound
    <2>3. "http" \in Servers /\ \A t \in Servers : Owner(t)' = Owner(t)
      BY DEF Owner, Servers
    <2>4. \A t \in Servers : server'[t] # "none" => (Among(Owner(t), step - 1) \/ t = "grpc")
      BY <1>3 DEF ServersSound
    <2> QED BY <1>3, <1>4, <1>5, <2>1, <2>2, <2>3, <2>4 DEF ServersSound
  <1>14. ClosedAfterServers'
    BY <1>1, <1>2 DEF ClosedAfterServers
  <1>15. InstanceSound'
    BY <1>4, <1>5 DEF InstanceSound
  <1> QED BY <1>6, <1>7, <1>8, <1>9, <1>10, <1>11, <1>12, <1>13, <1>14, <1>15

\* Every Start of a component preserves the invariant.
LEMMA StartComponentStep ==
  ASSUME IndInv, StartComponent
  PROVE  IndInv'
  <1>1. phase = "starting" /\ UNCHANGED <<infraVars, cfg, names, ctx, res, busy>>
    BY DEF StartComponent
  <1>2. /\ server \in [Servers -> States] /\ down \in SUBSET Servers
        /\ "http" \in DOMAIN bound /\ "state" \in DOMAIN instance
        /\ "grpc" \in Servers /\ "http" \in Servers /\ "user_http" \in Servers
    BY DEF IndInv, TypeOK, States, Servers
  <1>3. /\ server["http"] # "none" => cfg.http # NoAddress
        /\ bound.http # NoAddress => server["http"] # "none"
        /\ \A s \in down : server[s] # "serving"
        /\ sub \in {"begin", "http"} /\ (sub = "http" => names[step] = "grpc")
        /\ (sub = "http" => server["grpc"] # "none" /\ cfg.http # NoAddress)
    BY <1>1 DEF IndInv, ServersSound, SubSound
  <1>4. ASSUME StartFails, UNCHANGED <<server, down, bound>>, names[step] \in Others \/ ~Alive, sub = "begin",
               "state" \in DOMAIN instance', instance'.state = "kept" => instance.state = "kept"
        PROVE  IndInv'
    BY <1>1, <1>2, <1>3, <1>4, StartFailsStep
  <1>5. ASSUME Started, UNCHANGED <<server, down, bound>>,
               "state" \in DOMAIN instance', instance'.state = "kept" => (instance.state = "kept" \/ names[step] = "registry")
        PROVE  IndInv'
    BY <1>1, <1>2, <1>3, <1>5, StartedStep
  <1>6. CASE StartPlain
    <2>1. UNCHANGED <<server, down, bound, instance>> /\ sub = "begin"
      BY <1>3, <1>6 DEF StartPlain, serving, published, Component, Basics
    <2> QED BY <1>2, <1>4, <1>5, <1>6, <2>1 DEF StartPlain
  <1>7. CASE StartGRPC
    <2>1. names[step] = "grpc" /\ UNCHANGED instance
      BY <1>7 DEF StartGRPC, Component, published
    <2>2. CASE StartGRPCServer
      <3>1. CASE StartFails /\ UNCHANGED serving
        BY <1>2, <1>4, <2>1, <2>2, <3>1 DEF StartGRPCServer, serving, Others
      <3>2. CASE /\ bound' = [bound EXCEPT !.grpc = Bound("grpc", cfg.grpc)]
                 /\ server' = [server EXCEPT !["grpc"] = "spawned"]
                 /\ UNCHANGED down
        <4>1. "http" \in DOMAIN bound' /\ bound'.http = bound.http
          BY <1>2, <3>2
        <4>2. server' \in [Servers -> States] /\ server'["http"] = server["http"]
          BY <1>2, <3>2 DEF States
        <4>3. \A s \in Servers : server'[s] = server[s] \/ (server'[s] = "spawned" /\ Owner(s) = names[step])
          BY <1>2, <2>1, <3>2 DEF Owner
        <4>4. CASE cfg.http = NoAddress /\ Started
          BY <1>1, <1>2, <1>3, <2>1, <3>2, <4>1, <4>2, <4>3, <4>4, StartedStep
        <4>5. CASE cfg.http # NoAddress /\ GoesOn("http") /\ UNCHANGED phase
          BY <1>1, <2>1, <2>2, <3>2, <4>1, <4>5, GRPCServesStep DEF StartGRPCServer, GoesOn
        <4> QED BY <2>2, <3>1, <3>2, <4>4, <4>5 DEF StartGRPCServer
      <3> QED BY <2>2, <3>1, <3>2 DEF StartGRPCServer
    <2>3. CASE startHTTP
      <3>1. CASE StartFails /\ StopServing("grpc") /\ UNCHANGED bound
        <4>1. /\ down' = down \cup {"grpc"}
              /\ server' = [server EXCEPT !["grpc"] = IF @ = "serving" THEN "closed" ELSE @]
          BY <3>1 DEF StopServing
        <4>2. server' \in [Servers -> States]
          BY <1>2, <4>1 DEF States
        <4>3. \A s \in Servers : (server'[s] = "none" <=> server[s] = "none") /\ (server[s] = "died" => server'[s] = "died")
          BY <1>2, <4>1
        <4>4. \A s \in down' : server'[s] # "serving"
          BY <1>2, <1>3, <4>1
        <4>5. names[step] \in Others
          BY <2>1 DEF Others
        <4> QED BY <1>1, <1>2, <2>1, <3>1, <4>1, <4>2, <4>3, <4>4, <4>5, StartFailsStep
      <3>2. CASE /\ bound' = [bound EXCEPT !.http = Bound("http", cfg.http)]
                 /\ server' = [server EXCEPT !["http"] = "spawned"]
                 /\ Started /\ UNCHANGED down
        <4>1. "http" \in DOMAIN bound'
          BY <1>2, <3>2
        <4>2. server' \in [Servers -> States] /\ server'["http"] = "spawned"
          BY <1>2, <3>2 DEF States
        <4>3. \A s \in Servers : server'[s] = server[s] \/ (server'[s] = "spawned" /\ Owner(s) = names[step])
          BY <1>2, <2>1, <3>2 DEF Owner
        <4>4. cfg.http # NoAddress
          BY <1>3, <2>3 DEF startHTTP
        <4> QED BY <1>1, <1>2, <2>1, <3>2, <4>1, <4>2, <4>3, <4>4, StartedStep
      <3> QED BY <2>3, <3>1, <3>2 DEF startHTTP
    <2> QED BY <1>7, <2>2, <2>3 DEF StartGRPC
  <1>8. CASE StartHTTP
    <2>1. names[step] = "user_http" /\ UNCHANGED instance /\ sub = "begin"
      BY <1>3, <1>8 DEF StartHTTP, Component, published
    <2>2. CASE StartFails /\ UNCHANGED serving
      BY <1>2, <1>4, <2>1, <2>2 DEF serving, Others
    <2>3. CASE Started /\ server' = [server EXCEPT !["user_http"] = "spawned"] /\ UNCHANGED <<down, bound>>
      <3>1. server' \in [Servers -> States] /\ server'["http"] = server["http"]
        BY <1>2, <2>3 DEF States
      <3>2. \A s \in Servers : server'[s] = server[s] \/ (server'[s] = "spawned" /\ Owner(s) = names[step])
        BY <1>2, <2>1, <2>3 DEF Owner
      <3> QED BY <1>1, <1>2, <1>3, <2>1, <2>3, <3>1, <3>2, StartedStep
    <2> QED BY <1>8, <2>2, <2>3 DEF StartHTTP
  <1>9. CASE StartRegistration
    <2>1. names[step] = "registry" /\ UNCHANGED <<server, down, bound>> /\ sub = "begin"
      BY <1>3, <1>9 DEF StartRegistration, Component, serving
    <2>2. CASE StartFails /\ UNCHANGED instance
      BY <1>2, <1>4, <2>1, <2>2 DEF Others
    <2>3. CASE Started /\ instance' = [state |-> "kept", addr |-> identity']
      BY <1>5, <2>1, <2>3
    <2> QED BY <1>9, <2>2, <2>3 DEF StartRegistration
  <1>10. CASE StartMetadata
    <2>1. names[step] = "gateway_metadata" /\ UNCHANGED <<server, down, bound, instance>> /\ sub = "begin"
      BY <1>3, <1>10 DEF StartMetadata, Component, serving, published
    <2> QED BY <1>2, <1>4, <1>5, <1>10, <2>1 DEF StartMetadata, Others
  <1>11. CASE StartBound
    <2>1. names[step] = "bound_addresses" /\ UNCHANGED <<server, down, bound, instance>> /\ sub = "begin"
      BY <1>3, <1>11 DEF StartBound, Component, serving
    <2>2. StartFails \/ Started
      BY <1>11 DEF StartBound
    <2> QED BY <1>2, <1>4, <1>5, <2>1, <2>2 DEF Others
  <1> QED BY <1>6, <1>7, <1>8, <1>9, <1>10, <1>11 DEF StartComponent

-----------------------------------------------------------------------------
(* Stop, and the rollback of Start *)

\* A component has been stopped, and what it owned is gone.
LEMMA StoppedStep ==
  ASSUME IndInv, Ending, step > 0, Stopped,
         UNCHANGED <<infraVars, cfg, phase, names, ctx, busy, server, down, bound>>,
         res' \in [Resources -> {"none", "idle", "open", "closed", "reopened"}],
         \A r \in Resources : Live(r)' => Live(r) /\ (Alive => Keeper(r) # names[step]),
         "state" \in DOMAIN instance', instance'.state = "kept" => instance.state = "kept" /\ names[step] # "registry",
         Alive /\ closed => closing = {}, Alive /\ names[step] = "infra" => closed,
         Alive => \A s \in Servers : Owner(s) = names[step] => Drained(s)
  PROVE  IndInv'
  <1> USE DEF IndInv
  <1>1. step \in 1..Len(names) /\ Len(names) \in Nat /\ step \in Nat /\ ~Ended
    BY DEF Ending, Ended, AssemblyOrder, TypeOK
  <1>2. /\ Ending' /\ ~Ended' /\ ~Ended
        /\ phase \notin {"assembling", "built", "dropped", "failing", "failed", "starting", "up"}
        /\ phase' \notin {"assembling", "built", "dropped", "failing", "failed", "starting", "up"}
    BY DEF Ending, Ended
  <1>3. \A x, n : Among(x, n) <=> Among(x, n)'
    BY DEF Among
  <1>4. /\ \A x : Among(x, step - 1) => Among(x, step)
        /\ \A x : Among(x, step) => (Among(x, step - 1) \/ x = names[step])
    BY <1>1, AmongFacts
  <1>5. UNCHANGED <<closed, closing>> /\ sub' = "begin" /\ step' = step - 1 /\ step' \in 0..Len(names)
    BY <1>1 DEF infraVars, Stopped
  <1>6. (Alive' <=> Alive) /\ \A s \in Servers : (Drained(s)' <=> Drained(s)) /\ Owner(s)' = Owner(s)
    BY DEF Alive, Drained, Idle, Owner
  <1>7. TypeOK'
    BY <1>1, <1>5 DEF TypeOK
  <1>8. InfraInv'
    BY InfraUnchanged
  <1>9. BasicsFirst'
    BY <1>1, <1>2, <1>3, <1>4, <1>5, <1>6 DEF BasicsFirst
  <1>10. AssemblyOrder'
    BY <1>1, <1>2, <1>3, <1>5 DEF AssemblyOrder
  <1>11. SubSound'
    BY <1>2, <1>5 DEF SubSound
  <1>12. ResourcesSound'
    BY <1>2, <1>3, <1>4, <1>5, <1>6 DEF ResourcesSound, Keeper
  <1>13. ContainerSound'
    BY <1>2, <1>3, <1>4, <1>5, <1>6 DEF ContainerSound
  <1>14. ServersSound'
    <2>1. "http" \in Servers
      BY DEF Servers
    <2> QED BY <1>2, <1>3, <1>4, <1>5, <1>6, <2>1 DEF ServersSound
  <1>15. ClosedAfterServers'
    BY <1>5, <1>6 DEF ClosedAfterServers
  <1>16. InstanceSound'
    BY <1>2, <1>3, <1>4, <1>5 DEF InstanceSound
  <1> QED BY <1>7, <1>8, <1>9, <1>10, <1>11, <1>12, <1>13, <1>14, <1>15, <1>16

\* A server is told to stop, and its component goes on to wait for the requests.
LEMMA ToldStep ==
  ASSUME IndInv, Ending, step > 0, NEW t \in Servers, StopServing(t), Owner(t) = names[step],
         UNCHANGED <<infraVars, cfg, phase, names, step, ctx, busy, bound, res, instance>>,
         \/ sub' = "wait" /\ t = "user_http"
         \/ sub' = "http" /\ t = "http"
         \/ sub' = "grpc" /\ t = "grpc" /\ (Alive => Drained("http")),
         Alive /\ closed => closing = {}
  PROVE  IndInv'
  <1> USE DEF IndInv
  <1>1. step \in 1..Len(names) /\ Len(names) \in Nat /\ step \in Nat /\ ~Ended
    BY DEF Ending, Ended, AssemblyOrder, TypeOK
  <1>2. /\ Ending' /\ ~Ended' /\ ~Ended
        /\ phase \notin {"assembling", "built", "dropped", "failing", "failed", "starting", "up"}
        /\ phase' \notin {"assembling", "built", "dropped", "failing", "failed", "starting", "up"}
    BY DEF Ending, Ended
  <1>3. \A x, n : Among(x, n) <=> Among(x, n)'
    BY DEF Among
  <1>4. UNCHANGED <<closed, closing>> /\ down' = down \cup {t} /\ sub' \in {"wait", "http", "grpc"}
    BY DEF infraVars, StopServing
  <1>5. server' \in [Servers -> States]
    BY DEF StopServing, TypeOK, States
  <1>6. \A s \in Servers : (server'[s] = "none" <=> server[s] = "none") /\ (server[s] = "died" => server'[s] = "died")
    BY DEF StopServing, TypeOK
  <1>7. \A s \in down' : server'[s] # "serving"
    BY DEF StopServing, TypeOK, ServersSound
  <1>8. (Alive' <=> Alive) /\ \A s \in Servers : (Drained(s) => Drained(s)') /\ Owner(s)' = Owner(s)
    BY <1>4, <1>6 DEF Alive, Drained, Idle, Owner
  <1>9. "http" \in Servers
    BY DEF Servers
  <1>10. TypeOK'
    BY <1>4, <1>5 DEF TypeOK, States
  <1>11. InfraInv'
    BY InfraUnchanged
  <1>12. BasicsFirst'
    BY <1>1, <1>2, <1>3, <1>4, <1>5, <1>6, <1>7, <1>8, <1>9 DEF BasicsFirst
  <1>13. AssemblyOrder'
    BY <1>1, <1>2, <1>3 DEF AssemblyOrder
  <1>14. SubSound'
    <2>1. phase' \in {"stopping", "rollback"} /\ step' # 0
      BY <1>1, <1>2 DEF Ending
    <2>2. /\ (sub' = "wait" => names[step] = "user_http")
          /\ (sub' \in {"http", "grpc"} => names[step] = "grpc") /\ sub' # "closing"
      BY <1>4 DEF Owner
    <2>3. /\ (sub' = "wait" => "user_http" \in down') /\ (sub' = "http" => "http" \in down')
          /\ (sub' = "grpc" => "grpc" \in down')
      BY <1>4
    <2> QED BY <1>2, <1>4, <2>1, <2>2, <2>3 DEF SubSound
  <1>15. ResourcesSound'
    BY <1>2, <1>3, <1>8 DEF ResourcesSound, Live
  <1>16. ContainerSound'
    BY <1>2, <1>3, <1>4, <1>8 DEF ContainerSound
  <1>17. ServersSound'
    <2>1. \A c \in Callers, s \in Servers : busy[c] = s => server'[s] # "none"
      BY <1>6 DEF ServersSound
    <2>2. (Ending' /\ Alive' /\ sub' = "grpc") => Drained("http")'
      BY <1>8, <1>9
    <2> QED BY <1>2, <1>3, <1>4, <1>6, <1>7, <1>8, <1>9, <2>1, <2>2 DEF ServersSound
  <1>18. ClosedAfterServers'
    BY <1>4, <1>8 DEF ClosedAfterServers
  <1>19. InstanceSound'
    BY <1>2, <1>3 DEF InstanceSound
  <1> QED BY <1>10, <1>11, <1>12, <1>13, <1>14, <1>15, <1>16, <1>17, <1>18, <1>19

\* The infra container closes when all servers have drained: their components came after it.
LEMMA ClosesStep ==
  ASSUME IndInv, Ending, step > 0, names[step] = "infra", sub \in {"begin", "closing"}, sub' = "closing",
         (CloseTakes /\ Alive) \/ (CloseNext /\ sub = "closing"),
         UNCHANGED <<cfg, phase, names, step, ctx, busy, server, down, bound, res, instance>>
  PROVE  IndInv'
  <1> USE DEF IndInv
  <1>1. step \in 1..Len(names) /\ Len(names) \in Nat /\ step \in Nat /\ ~Ended
    BY DEF Ending, Ended, AssemblyOrder, TypeOK
  <1>2. /\ Ending' /\ ~Ended' /\ ~Ended
        /\ phase \notin {"assembling", "built", "dropped", "failing", "failed", "starting", "up"}
        /\ phase' \notin {"assembling", "built", "dropped", "failing", "failed", "starting", "up"}
    BY DEF Ending, Ended
  <1>3. \A x, n : Among(x, n) <=> Among(x, n)'
    BY DEF Among
  <1>4. (closed => closed') /\ (closed' => closed \/ Alive)
    BY DEF CloseTakes, CloseNext
  <1>5. (Alive' <=> Alive) /\ \A s \in Servers : (Drained(s)' <=> Drained(s)) /\ Owner(s)' = Owner(s)
    BY DEF Alive, Drained, Idle, Owner
  <1>6. \A s \in Servers : ~Among(Owner(s), step)
    <2>1. \A s \in Servers : Owner(s) \in Others
      BY DEF Owner, Others
    <2>2. "infra" \in Basics
      BY DEF Basics
    <2> QED BY <1>1, <2>1, <2>2 DEF Among, BasicsFirst
  <1>7. Alive => \A s \in Servers : Drained(s)
    BY <1>6 DEF ServersSound
  <1>8. "http" \in Servers
    BY DEF Servers
  <1>9. "infra" \in Basics /\ Among("infra", step)
    BY <1>1 DEF Basics, Among
  <1>10. TypeOK'
    BY <1>1, <1>2, <1>3, <1>4, <1>5, <1>6, <1>7, <1>8, <1>9 DEF TypeOK
  <1>11. InfraInv'
    BY CloseTakesStep, CloseNextStep
  <1>12. BasicsFirst'
    BY <1>1, <1>2, <1>3, <1>4, <1>5, <1>6, <1>7, <1>8, <1>9 DEF BasicsFirst
  <1>13. AssemblyOrder'
    BY <1>1, <1>2, <1>3 DEF AssemblyOrder
  <1>14. SubSound'
    <2>1. phase' \in {"stopping", "rollback"} /\ step' # 0
      BY <1>1, <1>2 DEF Ending
    <2> QED BY <1>2, <2>1 DEF SubSound
  <1>15. ResourcesSound'
    BY <1>2, <1>3, <1>5 DEF ResourcesSound, Live
  <1>16. ContainerSound'
    <2>1. closed'
      BY DEF CloseTakes, CloseNext, ContainerSound
    <2> QED BY <1>2, <1>3, <1>5, <1>9, <2>1 DEF ContainerSound
  <1>17. ServersSound'
    BY <1>2, <1>3, <1>5, <1>7, <1>8 DEF ServersSound
  <1>18. ClosedAfterServers'
    BY <1>5, <1>7 DEF ClosedAfterServers
  <1>19. InstanceSound'
    BY <1>2, <1>3 DEF InstanceSound
  <1> QED BY <1>10, <1>11, <1>12, <1>13, <1>14, <1>15, <1>16, <1>17, <1>18, <1>19

\* Every Stop of a component preserves the invariant.
LEMMA StopComponentStep ==
  ASSUME IndInv, StopComponent
  PROVE  IndInv'
  <1>1. Ending /\ step > 0 /\ UNCHANGED <<cfg, phase, names, ctx, busy>>
    BY DEF StopComponent, Ending
  <1>2. /\ server \in [Servers -> States] /\ down \in SUBSET Servers /\ "state" \in DOMAIN instance
        /\ res \in [Resources -> {"none", "idle", "open", "closed", "reopened"}]
        /\ "grpc" \in Servers /\ "http" \in Servers /\ "user_http" \in Servers
        /\ sub \in {"begin", "http", "grpc", "wait", "closing"}
    BY DEF IndInv, TypeOK, States, Servers
  <1>3. /\ sub = "wait" => names[step] = "user_http" /\ "user_http" \in down
        /\ sub = "http" => names[step] = "grpc" /\ "http" \in down
        /\ sub = "grpc" => names[step] = "grpc" /\ "grpc" \in down
        /\ sub = "closing" => names[step] = "infra"
    BY <1>1 DEF IndInv, SubSound
  <1>4. Alive /\ closed /\ names[step] # "infra" => closing = {}
    BY <1>1, <1>3 DEF IndInv, ContainerSound
  <1>5. \A r \in Resources : Keeper(r) \in {"etcd_client", "grpc_clients", "configs"}
    BY DEF Resources, Keeper
  <1>6. \A s \in Servers : Owner(s) \in {"grpc", "user_http"}
    BY DEF Owner
  <1>7. UNCHANGED res => res' \in [Resources -> {"none", "idle", "open", "closed", "reopened"}] /\ \A r \in Resources : Live(r)' => Live(r)
    BY <1>2 DEF Live
  <1>8. CASE StopPlain
    <2>1. /\ Stopped /\ UNCHANGED <<infraVars, server, down, bound, instance>>
          /\ names[step] \in {"etcd_client", "configs", "grpc_clients"}
      BY <1>8 DEF StopPlain, serving, Component
    <2>2. /\ res' \in [Resources -> {"none", "idle", "open", "closed", "reopened"}]
          /\ \A r \in Resources : Live(r)' => Live(r) /\ (Alive => Keeper(r) # names[step])
      <3>1. CASE ~Alive /\ UNCHANGED res
        BY <1>7, <3>1
      <3>2. CASE names[step] = "grpc_clients" /\ StopClients
        BY <1>2, <3>2 DEF StopClients, Release, Live, Keeper, Resources
      <3>3. CASE names[step] = "configs" /\ Release({"configs"} \cap {r \in DOMAIN res : res[r] # "none"})
        BY <1>2, <3>3 DEF Release, Live, Keeper, Resources
      <3>4. CASE names[step] = "etcd_client" /\ Release({"etcd"} \cap {r \in DOMAIN res : res[r] # "none"})
        BY <1>2, <3>4 DEF Release, Live, Keeper, Resources
      <3> QED BY <1>8, <3>1, <3>2, <3>3, <3>4 DEF StopPlain, Component
    <2> QED BY <1>1, <1>2, <1>4, <1>6, <2>1, <2>2, StoppedStep
  <1>9. CASE StopInfra
    <2>1. names[step] = "infra" /\ UNCHANGED <<res, server, down, bound, instance>>
      BY <1>9 DEF StopInfra, serving, Component
    <2>2. CASE Stopped /\ UNCHANGED infraVars /\ (~Alive \/ (sub = "closing" /\ closing = {}))
      <3>1. Alive => closed
        BY <1>1, <2>2 DEF IndInv, ContainerSound
      <3> QED BY <1>1, <1>2, <1>5, <1>6, <1>7, <2>1, <2>2, <3>1, StoppedStep
    <2>3. CASE ((CloseTakes /\ Alive /\ sub = "begin") \/ (CloseNext /\ sub = "closing")) /\ GoesOn("closing")
      <3>1. step' = step /\ sub' = "closing" /\ sub \in {"begin", "closing"}
        BY <2>3 DEF GoesOn
      <3>2. (CloseTakes /\ Alive) \/ (CloseNext /\ sub = "closing")
        BY <2>3
      <3> QED BY <1>1, <2>1, <3>1, <3>2, ClosesStep
    <2>4. \/ sub = "begin" /\ ~Alive /\ Stopped /\ UNCHANGED infraVars
          \/ sub = "begin" /\ Alive /\ CloseTakes /\ GoesOn("closing")
          \/ sub = "closing" /\ CloseNext /\ GoesOn("closing")
          \/ sub = "closing" /\ closing = {} /\ Stopped /\ UNCHANGED infraVars
      BY <1>9 DEF StopInfra, infraVars
    <2> QED BY <2>2, <2>3, <2>4
  <1>10. CASE StopHTTP
    <2>1. names[step] = "user_http" /\ UNCHANGED <<infraVars, res, bound, instance>>
      BY <1>10 DEF StopHTTP, Component
    <2>2. \A s \in Servers : Owner(s) = names[step] => s = "user_http"
      BY <2>1 DEF Owner
    <2>3. CASE StopServing("user_http") /\ GoesOn("wait")
      BY <1>1, <1>2, <1>4, <2>1, <2>3, ToldStep DEF GoesOn, Owner
    <2>4. CASE /\ Stopped /\ UNCHANGED <<server, down>>
               /\ server["user_http"] = "died" \/ (sub = "wait" /\ (Idle("user_http") \/ ~Alive))
      <3>1. Alive => Drained("user_http")
        BY <1>3, <2>4 DEF Drained
      <3> QED BY <1>1, <1>2, <1>4, <1>5, <1>7, <2>1, <2>2, <2>4, <3>1, StoppedStep
    <2> QED BY <1>10, <2>3, <2>4 DEF StopHTTP
  <1>11. CASE StopGRPC
    <2>1. names[step] = "grpc" /\ UNCHANGED <<infraVars, res, bound, instance>>
      BY <1>11 DEF StopGRPC, Component
    <2>2. \A s \in Servers : Owner(s) = names[step] => s \in {"grpc", "http"}
      BY <2>1 DEF Owner, Servers
    <2>3. CASE StopServing("http") /\ GoesOn("http")
      BY <1>1, <1>2, <1>4, <2>1, <2>3, ToldStep DEF GoesOn, Owner
    <2>4. CASE /\ StopServing("grpc") /\ GoesOn("grpc")
               /\ cfg.http = NoAddress \/ (sub = "http" /\ (Idle("http") \/ ~Alive))
      <3>1. Alive => Drained("http")
        BY <1>3, <2>4 DEF Drained, IndInv, ServersSound
      <3> QED BY <1>1, <1>2, <1>4, <2>1, <2>4, <3>1, ToldStep DEF GoesOn, Owner
    <2>5. CASE sub = "grpc" /\ (Idle("grpc") \/ ~Alive) /\ Stopped /\ UNCHANGED <<server, down>>
      <3>1. Alive => Drained("grpc") /\ Drained("http")
        BY <1>1, <1>3, <2>5 DEF Drained, IndInv, ServersSound
      <3> QED BY <1>1, <1>2, <1>4, <1>5, <1>7, <2>1, <2>2, <2>5, <3>1, StoppedStep
    <2> QED BY <1>11, <2>3, <2>4, <2>5 DEF StopGRPC
  <1>12. CASE StopRegistration
    <2>1. names[step] = "registry" /\ UNCHANGED <<infraVars, res, server, down, bound>> /\ Stopped
      BY <1>12 DEF StopRegistration, serving, Component
    <2>2. "state" \in DOMAIN instance' /\ instance'.state # "kept"
      BY <1>2, <1>12 DEF StopRegistration, Leaves, Unregistered
    <2> QED BY <1>1, <1>2, <1>4, <1>5, <1>6, <1>7, <2>1, <2>2, StoppedStep
  <1>13. CASE StopQuiet
    <2>1. /\ names[step] \in {"gateway_metadata", "bound_addresses"}
          /\ UNCHANGED <<infraVars, res, server, down, bound, instance>> /\ Stopped
      BY <1>13 DEF StopQuiet, serving, Component
    <2> QED BY <1>1, <1>2, <1>4, <1>5, <1>6, <1>7, <2>1, StoppedStep
  <1> QED BY <1>8, <1>9, <1>10, <1>11, <1>12, <1>13 DEF StopComponent

-----------------------------------------------------------------------------
(* The invariant, and what follows from it *)

\* Init: nothing has been created.
LEMMA InitInv == Init => IndInv
  <1> SUFFICES ASSUME Init PROVE IndInv
    OBVIOUS
  <1> USE DEF Init, NewInfraContainer
  <1>1. TypeOK
    <2>1. names \in Seq(Basics \cup Others)
      OBVIOUS
    <2> QED BY <2>1 DEF TypeOK, Phases, Resources, Unregistered
  <1>2. InfraInv
    <2>1. closed \in BOOLEAN
      OBVIOUS
    <2>2. call \in [Callers -> Calls]
      BY DEF Calls, NoCall
    <2>3. InfraTypeOK
      BY <2>1, <2>2 DEF InfraTypeOK
    <2>4. Numbered
      BY DEF Numbered, NoCall
    <2>5. DialedIsOwn /\ StoredIsOpen /\ NoStrayClient
      BY DEF DialedIsOwn, InCall, StoredIsOpen, NoStrayClient, NoCall
    <2> QED BY <2>3, <2>4, <2>5 DEF InfraInv
  <1>3. ~Ending /\ ~Ended /\ Len(names) = 0
    BY DEF Ending, Ended
  <1>4. BasicsFirst
    BY <1>3 DEF BasicsFirst
  <1>5. AssemblyOrder
    <2>1. 1 \in 1..Len(Plan) /\ ~(1 > InfraAt)
      BY PlanInOrder DEF InOrder, HookAt, InfraAt
    <2> QED BY <1>3, <2>1 DEF AssemblyOrder
  <1>6. SubSound
    BY <1>3 DEF SubSound
  <1>7. ResourcesSound
    BY DEF ResourcesSound, Live, Resources
  <1>8. ContainerSound
    BY <1>3 DEF ContainerSound
  <1>9. ServersSound
    BY <1>3, ServersAssumption DEF ServersSound, Servers
  <1>10. ClosedAfterServers
    BY DEF ClosedAfterServers
  <1>11. InstanceSound
    BY DEF InstanceSound, Unregistered
  <1> QED BY <1>1, <1>2, <1>4, <1>5, <1>6, <1>7, <1>8, <1>9, <1>10, <1>11 DEF IndInv

\* A step that changes nothing.
LEMMA StutterStep ==
  ASSUME IndInv, UNCHANGED vars
  PROVE  IndInv'
  <1>1. UNCHANGED <<cfg, phase, names, step, sub, ctx, res, server, down, bound, instance, busy, infraVars, closed, closing>>
    BY DEF vars, assembly, serving, published, infraVars
  <1>2. /\ Plan' = Plan /\ InfraAt' = InfraAt /\ HookAt' = HookAt /\ Ending' = Ending /\ Ended' = Ended
        /\ Alive' = Alive
    BY <1>1 DEF Plan, InfraAt, HookAt, Ending, Ended, Alive
  <1> USE DEF IndInv
  <1>3. TypeOK' /\ BasicsFirst'
    BY <1>1 DEF TypeOK, BasicsFirst
  <1>4. InfraInv'
    BY <1>1, InfraUnchanged
  <1>5. AssemblyOrder' /\ SubSound'
    BY <1>1, <1>2 DEF AssemblyOrder, SubSound, Among
  <1>6. ResourcesSound' /\ ContainerSound'
    BY <1>1, <1>2 DEF ResourcesSound, ContainerSound, Live, Among
  <1>7. ServersSound' /\ ClosedAfterServers'
    BY <1>1, <1>2 DEF ServersSound, ClosedAfterServers, Drained, Idle, Among
  <1>8. InstanceSound'
    BY <1>1, <1>2 DEF InstanceSound, Among
  <1> QED BY <1>3, <1>4, <1>5, <1>6, <1>7, <1>8

\* Every step of the generation preserves the invariant.
LEMMA NextInv == IndInv /\ [Next]_vars => IndInv'
  <1> SUFFICES ASSUME IndInv, [Next]_vars PROVE IndInv'
    OBVIOUS
  <1>1. CASE AssemblyStep \/ FailureReturns \/ Drop
    BY <1>1, AssemblyStepStep, FailureReturnsStep, DropStep
  <1>2. CASE StartCall \/ StartComponent \/ StopCall \/ StopComponent \/ StopReturns \/ CtxEnds
    BY <1>2, StartCallStep, StartComponentStep, StopCallStep, StopComponentStep, StopReturnsStep, CtxEndsStep
  <1>3. CASE \E s \in Servers : Serve(s) \/ ServeFails(s)
    BY <1>3, ServeStep, ServeFailsStep
  <1>4. CASE \E h \in Handlers : HandlerBegins(h) \/ HandlerEnds(h)
    BY <1>4, HandlerBeginsStep, HandlerEndsStep
  <1>5. CASE \E c \in Callers : UseInfra(c)
    BY <1>5, UseInfraStep
  <1>6. CASE ConfigsLoad \/ LeaseExpires
    BY <1>6, ConfigsLoadStep, LeaseExpiresStep
  <1>7. CASE UNCHANGED vars
    BY <1>7, StutterStep
  <1> QED BY <1>1, <1>2, <1>3, <1>4, <1>5, <1>6, <1>7 DEF Next

\* The invariant holds in every state of a generation.
THEOREM Invariant == Spec => []IndInv
  BY InitInv, NextInv, PTL DEF Spec

\* Every state has the types of the code's: the flag, the maps of clients, the
\* component list and the states of the servers.
THEOREM TypeCorrect == Spec => [](TypeOK /\ InfraTypeOK)
  <1>1. IndInv => TypeOK /\ InfraTypeOK
    BY DEF IndInv, InfraInv
  <1> QED BY <1>1, Invariant, PTL

(***************************************************************************)
(* No infra client gets lost (servicekit/infra.go): whatever the number of *)
(* goroutines, pools and clients, an open one is stored where Close finds  *)
(* it or in the hands of the caller that has just dialed it.               *)
(***************************************************************************)
THEOREM NoClientIsLost == Spec => []NoStrayClient
  <1>1. IndInv => NoStrayClient
    BY DEF IndInv, InfraInv
  <1> QED BY <1>1, Invariant, PTL

(***************************************************************************)
(* A request that is served while the generation stops, or while a failed  *)
(* Start is rolled back, is not refused an infra client and does not find  *)
(* its own closed: components are stopped in reverse order, and those with *)
(* servers come after the infra container.                                 *)
(***************************************************************************)
THEOREM RequestsKeepClients == Spec => []HandlersKeepInfra
  <1>1. IndInv => HandlersKeepInfra
    <2> SUFFICES ASSUME IndInv, NEW h \in Handlers, busy[h] # Nil, Alive,
                        ~(busy[h] = "user_http" /\ server["user_http"] = "died"),
                        ~(busy[h] = "grpc" /\ cfg.http # NoAddress /\ bound.http = NoAddress)
                 PROVE  /\ call[h].at # "refused"
                        /\ call[h].at = "returned" => call[h].client \in open
      BY DEF HandlersKeepInfra
    <2>1. h \in Callers /\ busy[h] \in Servers
      BY DEF Handlers, IndInv, TypeOK
    <2>2. server[busy[h]] # "none" /\ ~Idle(busy[h])
      BY <2>1 DEF IndInv, ServersSound, Idle
    <2>3. ~Drained(busy[h])
      BY <2>2 DEF Drained
    <2>4. ~closed
      BY <2>1, <2>3 DEF IndInv, ClosedAfterServers
    <2>5. call[h].at # "refused"
      BY <2>1, <2>4 DEF IndInv, InfraInv, StoredIsOpen
    <2>6. call[h].at = "returned" => call[h].client \in open
      BY <2>1, <2>4 DEF IndInv, InfraInv, StoredIsOpen
    <2> QED BY <2>5, <2>6
  <1> QED BY <1>1, Invariant, PTL
-----------------------------------------------------------------------------
(* The registration *)

\* The components that read the addresses of the listeners.
Readers == {"registry", "bound_addresses"}
Wanted(x) == IF x = "registry" THEN cfg.registry ELSE cfg.onBound

\* The server is added and started before x, which is the only one of its name.
Behind(x) == \A i, j \in 1..Len(names) : (names[i] \in {"grpc", x} /\ names[j] = x) => i <= j

\* Once assembly has come to it, a reader stands behind the server.
ReadersLast ==
    /\ \A x \in Readers : ~Wanted(x) => ~Among(x, Len(names))
    /\ (phase = "assembling" /\ step > HookAt + 1) => cfg.grpc # NoAddress /\ Among("grpc", Len(names))
    /\ phase = "assembling" =>
          \A x \in Readers : (\E i \in 1..Len(Plan) : i < step /\ Plan[i] = x) => Behind(x) /\ Among(x, Len(names))
    /\ phase \notin {"assembling", "failing", "failed"} =>
          cfg.grpc # NoAddress /\ Among("grpc", Len(names)) /\ \A x \in Readers : Behind(x)

GRPCBound == server["grpc"] # "none" /\ bound.grpc = Bound("grpc", cfg.grpc)
HTTPBound == cfg.http # NoAddress => bound.http = Bound("http", cfg.http)

\* GRPCService.Start has bound its listeners.
ListenersSound ==
    /\ DOMAIN bound = {"grpc", "http"}
    /\ phase = "starting" =>
          /\ (sub = "http" \/ Among("grpc", step - 1)) => GRPCBound
          /\ Among("grpc", step - 1) => HTTPBound

\* The gRPC server is told to stop when the registration is over.
StoppedLast == "grpc" \in down => (Ending /\ ~Among("registry", step)) \/ Ended

\* The addresses come from the listeners as they are.
FromBound(a) ==
    \E env \in Environments : ~resolutionFails(cfg, env) /\ a = resolveAllWithBound(cfg, bound, env)

KeptSound ==
    instance.state = "kept" =>
        /\ GRPCBound /\ HTTPBound /\ "addr" \in DOMAIN instance
        /\ identity = instance.addr /\ FromBound(identity)

ReportedSound ==
    reported # Unregistered.addr =>
        /\ FromBound(reported)
        /\ phase \in {"starting", "up"} \/ Ending \/ Ended
        /\ phase = "starting" => Among("bound_addresses", step - 1)

RegInv == ReadersLast /\ ListenersSound /\ StoppedLast /\ KeptSound /\ ReportedSound

\* A set of places has a first one.
LEMMA FirstIn ==
  ASSUME NEW S, S \subseteq Nat, S # {}
  PROVE  First(S) \in S
  <1> DEFINE less == {ss \in Nat \X Nat : ss[1] < ss[2]}
  <1>1. IsWellFoundedOn(less, Nat)
    BY NatLessThanWellFounded, Zenon DEF OpToRel
  <1>2. PICK x \in S : \A y \in S : ~(<<y, x>> \in less)
    BY <1>1, WFMin
  <1>3. ASSUME NEW y \in S PROVE x <= y
    <2>1. x \in Nat /\ y \in Nat
      OBVIOUS
    <2>2. <<y, x>>[1] = y /\ <<y, x>>[2] = x /\ <<y, x>> \in Nat \X Nat
      BY <2>1
    <2>3. ~(<<y, x>>[1] < <<y, x>>[2])
      BY <1>2, <2>2
    <2> QED BY <2>1, <2>2, <2>3
  <1> QED BY <1>3 DEF First

\* The local IP, if one is found, may be advertised and is allowed.
LEMMA LocalIP ==
  ASSUME NEW c \in Configs, NEW env \in Environments, resolveLocalAdvertiseIP(c, env) # NoHost
  PROVE  LET ip == resolveLocalAdvertiseIP(c, env)
         IN  ip.usable /\ ipAllowedByCIDRs(ip, c.cidrs) /\ ~isWildcardListenHost(ip)
  <1> DEFINE targets == advertiseIPProbeTargets(c)
             good == {k \in DOMAIN targets :
                         /\ targets[k] \in DOMAIN env.probe
                         /\ env.probe[targets[k]].usable /\ ipAllowedByCIDRs(env.probe[targets[k]], c.cidrs)}
             local == {k \in interfaceAdvertiseIPs(env) : ipAllowedByCIDRs(env.interfaces[k], c.cidrs)}
             v4 == {k \in local : env.interfaces[k].v4}
             found == IF v4 # {} THEN v4 ELSE local
             ip == resolveLocalAdvertiseIP(c, env)
  <1>1. ip = IF "unparsable" \in c.cidrs THEN NoHost
             ELSE IF good # {} THEN env.probe[targets[First(good)]]
             ELSE IF local = {} THEN NoHost
             ELSE env.interfaces[First(found)]
    BY DEF resolveLocalAdvertiseIP
  <1>2. Endpoints(c) \in Seq(Range(Endpoints(c))) /\ env.interfaces \in Seq(Range(env.interfaces))
    BY EndpointsAssumption, EnvironmentsAssumption
  <1>3. DOMAIN Endpoints(c) \subseteq Nat /\ DOMAIN env.interfaces \subseteq Nat
    <2>1. DOMAIN Endpoints(c) = 1..Len(Endpoints(c)) /\ DOMAIN env.interfaces = 1..Len(env.interfaces)
      BY <1>2
    <2> QED BY <2>1
  <1>4. DOMAIN targets \subseteq DOMAIN Endpoints(c)
    BY DEF advertiseIPProbeTargets
  <1>5. good \subseteq Nat /\ found \subseteq Nat /\ found \subseteq local /\ local \subseteq DOMAIN env.interfaces
    BY <1>3, <1>4 DEF interfaceAdvertiseIPs
  <1>6. \A p \in Range(env.interfaces) \cup Range(env.probe) : p.usable => ~isWildcardListenHost(p)
    BY EnvironmentsAssumption
  <1>7. \A k \in local : env.interfaces[k].usable /\ ipAllowedByCIDRs(env.interfaces[k], c.cidrs)
    BY DEF interfaceAdvertiseIPs
  <1>8. local # {} => found # {}
    OBVIOUS
  <1> HIDE DEF targets, local, v4, found, ip
  <1>9. CASE "unparsable" \notin c.cidrs /\ good # {}
    <2>1. First(good) \in good /\ ip = env.probe[targets[First(good)]]
      BY <1>1, <1>5, <1>9, FirstIn
    <2>2. /\ targets[First(good)] \in DOMAIN env.probe
          /\ ip.usable /\ ipAllowedByCIDRs(ip, c.cidrs)
      BY <2>1
    <2>3. ip \in Range(env.probe)
      BY <2>1, <2>2 DEF Range
    <2> QED BY <1>6, <2>2, <2>3 DEF ip
  <1>10. CASE "unparsable" \notin c.cidrs /\ good = {} /\ local # {}
    <2>1. First(found) \in local /\ ip = env.interfaces[First(found)]
      BY <1>1, <1>5, <1>8, <1>10, FirstIn
    <2>2. ip \in Range(env.interfaces)
      BY <1>5, <2>1 DEF Range
    <2> QED BY <1>6, <1>7, <2>1, <2>2 DEF ip
  <1> QED BY <1>1, <1>9, <1>10 DEF ip

\* What resolveListen has found, and the port it takes.
PortOf(listen, b) == IF listen.port = "0" /\ boundServiceListenPort(b) THEN b.port ELSE listen.port

LEMMA Listen ==
  ASSUME NEW listen, NEW b, NEW ip
  PROVE  resolveListen(listen, b, ip) =
             IF listen = NoAddress \/ listen.port = "" THEN listen
             ELSE IF isWildcardListenHost(listen.host) THEN [host |-> ip, port |-> PortOf(listen, b)]
             ELSE IF PortOf(listen, b) = "0" THEN listen ELSE [host |-> listen.host, port |-> PortOf(listen, b)]
  BY DEF resolveListen, JoinHostPort, PortOf

\* The port does not depend on what the machine answers.
LEMMA ListenPort ==
  \A listen, b, ip, other : resolveListen(listen, b, ip).port = resolveListen(listen, b, other).port
  <1> TAKE listen, b, ip, other
  <1>1. \A x : [host |-> x, port |-> PortOf(listen, b)].port = PortOf(listen, b)
    OBVIOUS
  <1> QED BY <1>1, Listen

LEMMA BoundPortOf ==
  ASSUME NEW l, NEW listen, listen # NoAddress, listen.port # ""
  PROVE  PortOf(listen, Bound(l, listen)) = Bound(l, listen).port /\ PortOf(listen, Bound(l, listen)) # "0"
  <1>1. CASE listen.port = "0"
    <2>1. Bound(l, listen) = [host |-> listen.host, port |-> Picked(l)]
      BY <1>1 DEF Bound, JoinHostPort
    <2>2. Bound(l, listen).port = Picked(l) /\ NoAddress.port = "none"
      <3>1. [host |-> listen.host, port |-> Picked(l)].port = Picked(l)
        OBVIOUS
      <3>2. NoAddress.port = "none"
        BY DEF NoAddress
      <3> QED BY <2>1, <3>1, <3>2
    <2>3. Picked(l) \notin {"", "0", "none"}
      BY DEF Picked
    <2>4. Bound(l, listen) # NoAddress
      BY <2>2, <2>3
    <2> QED BY <1>1, <2>2, <2>3, <2>4 DEF PortOf, boundServiceListenPort
  <1>2. CASE listen.port # "0"
    BY <1>2 DEF Bound, PortOf
  <1> QED BY <1>1, <1>2

\* With the address of its own listener the port is the one it is bound to.
LEMMA ListenBoundPort ==
  \A l, listen, ip : (listen # NoAddress /\ listen.port # "") =>
                        resolveListen(listen, Bound(l, listen), ip).port = Bound(l, listen).port
  <1> TAKE l, listen, ip
  <1> SUFFICES ASSUME listen # NoAddress, listen.port # ""
               PROVE  resolveListen(listen, Bound(l, listen), ip).port = Bound(l, listen).port
    OBVIOUS
  <1>1. \A x : [host |-> x, port |-> PortOf(listen, Bound(l, listen))].port = PortOf(listen, Bound(l, listen))
    OBVIOUS
  <1>2. PortOf(listen, Bound(l, listen)) = Bound(l, listen).port /\ PortOf(listen, Bound(l, listen)) # "0"
    BY BoundPortOf
  <1> QED BY <1>1, <1>2, Listen

LEMMA ListenBoundHost ==
  \A l, listen, ip : (listen # NoAddress /\ listen.port # "") =>
                        resolveListen(listen, Bound(l, listen), ip).host =
                           IF isWildcardListenHost(listen.host) THEN ip ELSE listen.host
  <1> TAKE l, listen, ip
  <1> SUFFICES ASSUME listen # NoAddress, listen.port # ""
               PROVE  resolveListen(listen, Bound(l, listen), ip).host =
                         IF isWildcardListenHost(listen.host) THEN ip ELSE listen.host
    OBVIOUS
  <1>1. \A x : [host |-> x, port |-> PortOf(listen, Bound(l, listen))].host = x
    OBVIOUS
  <1>2. PortOf(listen, Bound(l, listen)) # "0"
    BY BoundPortOf
  <1> QED BY <1>1, <1>2, Listen

\* What resolveAllWithBound has found.
LEMMA Resolved ==
  ASSUME NEW env
  PROVE  LET ip == resolveLocalAdvertiseIP(cfg, env)
             a == resolveAllWithBound(cfg, bound, env)
         IN  /\ a.grpc = IF cfg.advertiseGRPC # NoAddress THEN cfg.advertiseGRPC ELSE resolveListen(cfg.grpc, bound.grpc, ip)
             /\ a.http = IF cfg.advertiseHTTP # NoAddress THEN cfg.advertiseHTTP ELSE resolveListen(cfg.http, bound.http, ip)
  BY DEF resolveAllWithBound

\* Addresses resolved from the same listeners have the same ports.
LEMMA SamePorts ==
  ASSUME NEW a, NEW b, FromBound(a), FromBound(b)
  PROVE  a.grpc.port = b.grpc.port /\ a.http.port = b.http.port
  <1>1. PICK x \in Environments : a = resolveAllWithBound(cfg, bound, x)
    BY DEF FromBound
  <1>2. PICK y \in Environments : b = resolveAllWithBound(cfg, bound, y)
    BY DEF FromBound
  <1> DEFINE p == resolveLocalAdvertiseIP(cfg, x)
             q == resolveLocalAdvertiseIP(cfg, y)
  <1>3. /\ resolveListen(cfg.grpc, bound.grpc, p).port = resolveListen(cfg.grpc, bound.grpc, q).port
        /\ resolveListen(cfg.http, bound.http, p).port = resolveListen(cfg.http, bound.http, q).port
    <2> HIDE DEF p, q
    <2>1. resolveListen(cfg.grpc, bound.grpc, p).port = resolveListen(cfg.grpc, bound.grpc, q).port
      BY ListenPort
    <2>2. resolveListen(cfg.http, bound.http, p).port = resolveListen(cfg.http, bound.http, q).port
      BY ListenPort
    <2> QED BY <2>1, <2>2
  <1>4. /\ a.grpc = IF cfg.advertiseGRPC # NoAddress THEN cfg.advertiseGRPC ELSE resolveListen(cfg.grpc, bound.grpc, p)
        /\ a.http = IF cfg.advertiseHTTP # NoAddress THEN cfg.advertiseHTTP ELSE resolveListen(cfg.http, bound.http, p)
    BY <1>1, Resolved
  <1>5. /\ b.grpc = IF cfg.advertiseGRPC # NoAddress THEN cfg.advertiseGRPC ELSE resolveListen(cfg.grpc, bound.grpc, q)
        /\ b.http = IF cfg.advertiseHTTP # NoAddress THEN cfg.advertiseHTTP ELSE resolveListen(cfg.http, bound.http, q)
    BY <1>2, Resolved
  <1> HIDE DEF p, q
  <1> QED BY <1>3, <1>4, <1>5

\* Addresses resolved from bound listeners can be reached.
LEMMA BoundIsReachable ==
  ASSUME cfg \in Configs, cfg.grpc # NoAddress, bound.grpc = Bound("grpc", cfg.grpc), HTTPBound, NEW a, FromBound(a)
  PROVE  /\ (cfg.advertiseGRPC = NoAddress /\ cfg.grpc.port # "") =>
               /\ a.grpc.port = bound.grpc.port
               /\ ~isWildcardListenHost(a.grpc.host)
               /\ isWildcardListenHost(cfg.grpc.host) => a.grpc.host.usable /\ ipAllowedByCIDRs(a.grpc.host, cfg.cidrs)
         /\ (cfg.http # NoAddress /\ cfg.advertiseHTTP = NoAddress /\ cfg.http.port # "") => a.http.port = bound.http.port
  <1>1. PICK env \in Environments : ~resolutionFails(cfg, env) /\ a = resolveAllWithBound(cfg, bound, env)
    BY DEF FromBound
  <1> DEFINE ip == resolveLocalAdvertiseIP(cfg, env)
  <1>2. /\ a.grpc = IF cfg.advertiseGRPC # NoAddress THEN cfg.advertiseGRPC ELSE resolveListen(cfg.grpc, bound.grpc, ip)
        /\ a.http = IF cfg.advertiseHTTP # NoAddress THEN cfg.advertiseHTTP ELSE resolveListen(cfg.http, bound.http, ip)
    BY <1>1, Resolved
  <1>3. ip # NoHost => ip.usable /\ ipAllowedByCIDRs(ip, cfg.cidrs) /\ ~isWildcardListenHost(ip)
    BY LocalIP
  <1>4. (cfg.advertiseGRPC = NoAddress /\ needsLocalIP(cfg.grpc)) => ip # NoHost
    BY <1>1 DEF resolutionFails
  <1> HIDE DEF ip
  <1>5. ASSUME cfg.advertiseGRPC = NoAddress, cfg.grpc.port # ""
        PROVE  /\ a.grpc.port = bound.grpc.port
               /\ ~isWildcardListenHost(a.grpc.host)
               /\ isWildcardListenHost(cfg.grpc.host) => a.grpc.host.usable /\ ipAllowedByCIDRs(a.grpc.host, cfg.cidrs)
    <2> DEFINE r == resolveListen(cfg.grpc, bound.grpc, ip)
    <2>0. r.port = bound.grpc.port /\ r.host = IF isWildcardListenHost(cfg.grpc.host) THEN ip ELSE cfg.grpc.host
      <3>1. resolveListen(cfg.grpc, Bound("grpc", cfg.grpc), ip).port = Bound("grpc", cfg.grpc).port
        BY <1>5, ListenBoundPort
      <3>2. resolveListen(cfg.grpc, Bound("grpc", cfg.grpc), ip).host = IF isWildcardListenHost(cfg.grpc.host) THEN ip ELSE cfg.grpc.host
        BY <1>5, ListenBoundHost
      <3> QED BY <3>1, <3>2
    <2>1. /\ a.grpc.port = bound.grpc.port
          /\ a.grpc.host = IF isWildcardListenHost(cfg.grpc.host) THEN ip ELSE cfg.grpc.host
      BY <1>2, <1>5, <2>0
    <2>2. CASE isWildcardListenHost(cfg.grpc.host)
      <3>1. needsLocalIP(cfg.grpc)
        BY <1>5, <2>2 DEF needsLocalIP
      <3> QED BY <1>3, <1>4, <1>5, <2>1, <2>2, <3>1
    <2> QED BY <2>1, <2>2
  <1>6. (cfg.http # NoAddress /\ cfg.advertiseHTTP = NoAddress /\ cfg.http.port # "") => a.http.port = bound.http.port
    <2> SUFFICES ASSUME cfg.http # NoAddress, cfg.advertiseHTTP = NoAddress, cfg.http.port # ""
                 PROVE  a.http.port = bound.http.port
      OBVIOUS
    <2>1. bound.http = Bound("http", cfg.http)
      BY DEF HTTPBound
    <2>2. resolveListen(cfg.http, Bound("http", cfg.http), ip).port = Bound("http", cfg.http).port
      BY ListenBoundPort
    <2> QED BY <1>2, <2>1, <2>2
  <1> QED BY <1>5, <1>6

-----------------------------------------------------------------------------
(* Assembly puts the readers behind the server *)

\* The readers among the steps p are those in S.
Reads(p, S) == \A x \in Readers : (\E i \in 1..Len(p) : p[i] = x) <=> x \in S

LEMMA ReadsMore ==
  ASSUME NEW p \in Seq(Steps), NEW t \in Seq(Others), NEW S, NEW T, Reads(p, S), Reads(t, T)
  PROVE  Reads(p \o t, S \cup T)
  <1>1. t \in Seq(Steps)
    BY SeqMonotonic DEF Steps
  <1>2. /\ Len(p \o t) = Len(p) + Len(t) /\ Len(p) \in Nat /\ Len(t) \in Nat
        /\ \A i \in 1..Len(p) + Len(t) : (p \o t)[i] = IF i <= Len(p) THEN p[i] ELSE t[i - Len(p)]
    BY <1>1, ConcatProperties
  <1>3. ASSUME NEW x, NEW i \in 1..Len(p), p[i] = x PROVE \E k \in 1..Len(p \o t) : (p \o t)[k] = x
    <2>1. i \in 1..Len(p \o t) /\ (p \o t)[i] = x
      BY <1>2, <1>3
    <2> QED BY <2>1
  <1>4. ASSUME NEW x, NEW i \in 1..Len(t), t[i] = x PROVE \E k \in 1..Len(p \o t) : (p \o t)[k] = x
    <2>1. Len(p) + i \in 1..Len(p) + Len(t) /\ ~(Len(p) + i <= Len(p)) /\ (Len(p) + i) - Len(p) = i
      BY <1>2
    <2>2. Len(p) + i \in 1..Len(p \o t) /\ (p \o t)[Len(p) + i] = x
      BY <1>2, <1>4, <2>1
    <2> QED BY <2>2
  <1>5. ASSUME NEW x, NEW k \in 1..Len(p \o t), (p \o t)[k] = x
        PROVE  (\E i \in 1..Len(p) : p[i] = x) \/ (\E i \in 1..Len(t) : t[i] = x)
    <2>1. CASE k <= Len(p)
      <3>1. k \in 1..Len(p) /\ p[k] = x
        BY <1>2, <1>5, <2>1
      <3> QED BY <3>1
    <2>2. CASE ~(k <= Len(p))
      <3>1. k - Len(p) \in 1..Len(t) /\ t[k - Len(p)] = x
        BY <1>2, <1>5, <2>2
      <3> QED BY <3>1
    <2> QED BY <2>1, <2>2
  <1> QED BY <1>3, <1>4, <1>5 DEF Reads

\* The plan has the readers that the configuration asks for, behind the server.
LEMMA PlanReads ==
  /\ Reads(Plan, {x \in Readers : Wanted(x)})
  /\ \A i \in 1..Len(Plan) : Plan[i] \in Readers => i > HookAt + 1
  <1>1. Reads(UpToServer, {})
    <2>1. /\ Len(UpToServer) = HookAt + 1 /\ HookAt \in Nat
          /\ \A i \in 1..HookAt + 1 :
                /\ i < HookAt => UpToServer[i] \in {"spec"} \cup Basics
                /\ i = HookAt => UpToServer[i] = "hook"
                /\ i = HookAt + 1 => UpToServer[i] = "grpc"
      BY UpToServerInOrder DEF InOrder, HookAt
    <2>2. \A i \in 1..HookAt + 1 : i < HookAt \/ i = HookAt \/ i = HookAt + 1
      BY <2>1
    <2> QED BY <2>1, <2>2 DEF Reads, Readers, Basics
  <1>2. /\ Reads(Registers, IF cfg.registry THEN {"registry"} ELSE {})
        /\ Reads(Publishes, {})
        /\ Reads(Reports, IF cfg.onBound THEN {"bound_addresses"} ELSE {})
    <2>1. Reads(<<>>, {}) /\ Reads(<<"registry">>, {"registry"})
      BY DEF Reads, Readers
    <2>2. Reads(<<"gateway_metadata">>, {}) /\ Reads(<<"bound_addresses">>, {"bound_addresses"})
      BY DEF Reads, Readers
    <2> QED BY <2>1, <2>2 DEF Registers, Publishes, Reports
  <1> DEFINE R == IF cfg.registry THEN {"registry"} ELSE {}
             B == IF cfg.onBound THEN {"bound_addresses"} ELSE {}
  <1>3. UpToServer \in Seq(Steps) /\ UpToServer \o Registers \in Seq(Steps)
        /\ (UpToServer \o Registers) \o Publishes \in Seq(Steps)
    BY UpToServerInOrder, PlanParts, LaterSteps DEF InOrder
  <1>4. (({} \cup R) \cup {}) \cup B = {x \in Readers : Wanted(x)}
    BY DEF Readers, Wanted
  <1> HIDE DEF R, B
  <1>5. Reads(UpToServer \o Registers, {} \cup R)
    BY <1>1, <1>2, <1>3, PlanParts, ReadsMore DEF R
  <1>6. Reads((UpToServer \o Registers) \o Publishes, ({} \cup R) \cup {})
    BY <1>2, <1>3, <1>5, PlanParts, ReadsMore
  <1>7. Reads(((UpToServer \o Registers) \o Publishes) \o Reports, (({} \cup R) \cup {}) \cup B)
    BY <1>2, <1>3, <1>6, PlanParts, ReadsMore DEF B
  <1>8. Reads(Plan, {x \in Readers : Wanted(x)})
    BY <1>4, <1>7, PlanParts
  <1>9. ASSUME NEW i \in 1..Len(Plan), Plan[i] \in Readers PROVE i > HookAt + 1
    <2>1. /\ i < HookAt => Plan[i] \in {"spec"} \cup Basics
          /\ i = HookAt => Plan[i] = "hook"
          /\ i = HookAt + 1 => Plan[i] = "grpc"
      BY PlanInOrder DEF InOrder
    <2>2. ~(i < HookAt) /\ i # HookAt /\ i # HookAt + 1
      BY <1>9, <2>1 DEF Readers, Basics
    <2> QED BY <2>2 DEF HookAt
  <1> QED BY <1>8, <1>9

\* While assembly goes on nothing has been bound, registered or reported.
LEMMA NothingYet ==
  ASSUME IndInv, RegInv, phase \in {"assembling", "built", "dropped", "failing", "failed"}
  PROVE  /\ "grpc" \notin down /\ instance.state # "kept" /\ reported = Unregistered.addr
         /\ DOMAIN bound = {"grpc", "http"}
  <1>1. ~Ending /\ ~Ended /\ phase \notin {"starting", "up"}
    BY DEF Ending, Ended
  <1> QED BY <1>1 DEF IndInv, InstanceSound, RegInv, StoppedLast, ReportedSound, ListenersSound

\* ... so that the rest of the invariant only speaks of the readers.
LEMMA StillNothing ==
  ASSUME IndInv, RegInv, phase \in {"assembling", "built", "dropped", "failing", "failed"},
         UNCHANGED <<server, down, bound, instance, identity, reported>>,
         phase' = "starting" => sub' = "begin" /\ step' = 1,
         ReadersLast'
  PROVE  RegInv'
  <1>1. /\ "grpc" \notin down' /\ instance'.state # "kept" /\ reported' = Unregistered.addr
        /\ DOMAIN bound' = {"grpc", "http"}
    BY NothingYet
  <1>2. phase' = "starting" => sub' # "http" /\ ~Among("grpc", step - 1)'
    BY DEF Among
  <1>3. ListenersSound' /\ StoppedLast' /\ KeptSound' /\ ReportedSound'
    BY <1>1, <1>2 DEF ListenersSound, StoppedLast, KeptSound, ReportedSound, Unregistered
  <1> QED BY <1>3 DEF RegInv

\* Assembly fails.
LEMMA FailsReg ==
  ASSUME IndInv, RegInv, phase = "assembling", AssemblyFails, UNCHANGED <<serving, published>>
  PROVE  RegInv'
  <1>1. UNCHANGED <<cfg, names, server, down, bound, instance, identity, reported>> /\ phase' = "failing"
    BY DEF AssemblyFails, serving, published
  <1>2. ReadersLast'
    BY <1>1 DEF RegInv, ReadersLast, Wanted, Among
  <1> QED BY <1>1, <1>2, StillNothing

\* A step of assembly adds a component whose name is not taken, or before the
\* server those of the hook.
LEMMA AddedReg ==
  ASSUME IndInv, RegInv, phase = "assembling", NEW new \in Seq(Basics \cup Others), Added(new),
         \A i \in 1..Len(new) : new[i] \in Readers => Wanted(new[i]),
         step > HookAt => new = <<Plan[step]>> /\ Adds(Plan[step]),
         UNCHANGED <<serving, published>>
  PROVE  RegInv'
  <1> DEFINE n == Plan[step]
  <1>1. /\ UNCHANGED <<cfg, server, down, bound, instance, identity, reported>>
        /\ names' = names \o new
    BY DEF Added, serving, published
  <1>2. Plan' = Plan /\ HookAt' = HookAt /\ HookAt \in Nat /\ (\A x : Wanted(x)' <=> Wanted(x))
    BY <1>1 DEF Plan, HookAt, Wanted
  <1>3. Len(Plan) \in Nat /\ Len(Plan) > HookAt /\ step \in 1..Len(Plan)
    BY PlanInOrder DEF InOrder, IndInv, AssemblyOrder
  <1>4. \/ step = Len(Plan) /\ phase' = "built" /\ step' = 0
        \/ step # Len(Plan) /\ phase' = "assembling" /\ step' = step + 1
    BY DEF Added
  <1>5. /\ Len(names') = Len(names) + Len(new) /\ Len(names) \in Nat /\ Len(new) \in Nat
        /\ \A i \in 1..Len(names) + Len(new) : names'[i] = IF i <= Len(names) THEN names[i] ELSE new[i - Len(names)]
    BY <1>1, ConcatProperties DEF IndInv, TypeOK
  <1>6. \A i \in 1..Len(names') :
           \/ i \in 1..Len(names) /\ names'[i] = names[i]
           \/ i > Len(names) /\ i - Len(names) \in 1..Len(new) /\ names'[i] = new[i - Len(names)]
    BY <1>5
  <1>7. \A i \in 1..Len(names) : i \in 1..Len(names') /\ names'[i] = names[i]
    BY <1>5
  <1>8. \A x : Among(x, Len(names)) => Among(x, Len(names))'
    BY <1>5, <1>7 DEF Among
  <1>9. \A x \in Readers : ~Wanted(x) => ~Among(x, Len(names))'
    <2> SUFFICES ASSUME NEW x \in Readers, ~Wanted(x), NEW i \in 1..Len(names'), names'[i] = x PROVE FALSE
      BY DEF Among
    <2>1. \A k \in 1..Len(names) : names[k] # x
      BY <1>5 DEF RegInv, ReadersLast, Among
    <2> QED BY <1>6, <2>1
  \* The new component is the only one of its name.
  <1>10. ASSUME step > HookAt
         PROVE  /\ Len(names') = Len(names) + 1 /\ names'[Len(names) + 1] = n
                /\ \A i \in 1..Len(names) : names[i] # n
                /\ \A x : x = n => Among(x, Len(names))'
                /\ n = "grpc" => cfg.grpc # NoAddress
    <2>1. Len(new) = 1 /\ new[1] = n
      BY <1>10
    <2>2. Len(names') = Len(names) + 1
      BY <1>5, <2>1
    <2>3. names'[Len(names) + 1] = n
      <3>1. Len(names) + 1 \in 1..Len(names) + Len(new) /\ ~(Len(names) + 1 <= Len(names)) /\ (Len(names) + 1) - Len(names) = 1
        BY <1>5, <2>1
      <3> QED BY <1>5, <2>1, <3>1
    <2>4. ~Taken(n) /\ (n = "grpc" => cfg.grpc # NoAddress)
      BY <1>10 DEF Adds, addGRPCService, addServiceRegistration, addGatewayMetadata, addBoundAddressReporter
    <2>5. \A i \in 1..Len(names) : names[i] # n
      BY <2>4 DEF Taken, Range, IndInv, TypeOK
    <2>6. \A x : x = n => Among(x, Len(names))'
      BY <1>5, <2>2, <2>3 DEF Among
    <2> QED BY <2>2, <2>3, <2>4, <2>5, <2>6
  <1>11. step > HookAt => cfg.grpc # NoAddress /\ Among("grpc", Len(names))'
    <2>1. CASE step = HookAt + 1
      <3>1. n = "grpc"
        BY <1>3, <2>1, PlanInOrder DEF InOrder
      <3> QED BY <1>2, <1>3, <1>10, <2>1, <3>1
    <2>2. CASE step > HookAt + 1
      BY <1>8, <2>2 DEF RegInv, ReadersLast
    <2> QED BY <1>2, <1>3, <2>1, <2>2
  <1>12. ASSUME NEW x \in Readers, NEW k \in 1..Len(Plan), k <= step, Plan[k] = x
         PROVE  Behind(x)' /\ Among(x, Len(names))'
    <2>1. k > HookAt + 1 /\ step > HookAt + 1 /\ step > HookAt
      BY <1>2, <1>3, <1>12, PlanReads
    <2>2. /\ Len(names') = Len(names) + 1 /\ names'[Len(names) + 1] = n
          /\ \A i \in 1..Len(names) : names[i] # n
          /\ \A y : y = n => Among(y, Len(names))'
      BY <1>10, <2>1
    <2>3. n # "grpc"
      BY <2>1, <2>2 DEF RegInv, ReadersLast, Among
    <2>4. \A i \in 1..Len(names') : (i \in 1..Len(names) /\ names'[i] = names[i]) \/ (i = Len(names) + 1 /\ names'[i] = n)
      BY <1>5, <1>7, <2>2
    <2> HIDE DEF n
    <2>5. CASE k < step
      <3>1. Behind(x) /\ Among(x, Len(names))
        BY <1>12, <2>5 DEF RegInv, ReadersLast
      <3>2. x # n
        BY <2>2, <3>1 DEF Among
      <3>3. Behind(x)'
        BY <2>3, <2>4, <3>1, <3>2 DEF Behind
      <3> QED BY <1>8, <3>1, <3>3
    <2>6. CASE k = step
      <3>1. x = n
        BY <1>12, <2>6 DEF n
      <3>2. \A i \in 1..Len(names') : i <= Len(names) + 1
        BY <1>5, <2>2
      <3>3. \A j \in 1..Len(names') : names'[j] = x => j = Len(names) + 1
        BY <2>2, <2>4, <3>1
      <3> QED BY <2>2, <3>1, <3>2, <3>3 DEF Behind
    <2> QED BY <1>3, <1>12, <2>5, <2>6
  <1>13. ReadersLast'
    <2>1. CASE phase' = "built"
      <3>1. step > HookAt /\ step = Len(Plan)
        BY <1>3, <1>4, <2>1
      <3>2. ASSUME NEW x \in Readers PROVE Behind(x)'
        <4>1. CASE Wanted(x)
          <5>1. PICK k \in 1..Len(Plan) : Plan[k] = x
            BY <4>1, PlanReads DEF Reads
          <5> QED BY <1>3, <1>12, <3>1, <5>1
        <4>2. CASE ~Wanted(x)
          BY <1>5, <1>9, <4>2 DEF Among, Behind
        <4> QED BY <4>1, <4>2
      <3> QED BY <1>1, <1>2, <1>9, <1>11, <2>1, <3>1, <3>2 DEF ReadersLast
    <2>2. CASE phase' = "assembling" /\ step' = step + 1
      <3>1. step' > HookAt + 1 => step > HookAt
        BY <1>2, <1>3, <2>2
      <3>2. \A k \in 1..Len(Plan) : k < step' => k <= step
        BY <1>3, <2>2
      <3> QED BY <1>1, <1>2, <1>9, <1>11, <1>12, <2>2, <3>1, <3>2 DEF ReadersLast
    <2> QED BY <1>4, <2>1, <2>2
  <1> QED BY <1>1, <1>4, <1>13, StillNothing

LEMMA AssemblyReg ==
  ASSUME IndInv, RegInv, AssemblyStep
  PROVE  RegInv'
  <1> DEFINE n == Plan[step]
  <1>1. phase = "assembling" /\ UNCHANGED <<serving, published>>
    BY DEF AssemblyStep
  <1>2. CASE AssemblyFails
    BY <1>1, <1>2, FailsReg
  <1>3. /\ step \in 1..Len(Plan) /\ HookAt \in Nat
        /\ step < HookAt => n \in {"spec"} \cup Basics
        /\ step = HookAt => n = "hook"
        /\ step > HookAt => n \in Others
    BY <1>1, PlanInOrder DEF InOrder, IndInv, AssemblyOrder, HookAt
  <1>4. n \in Readers => Wanted(n)
    BY <1>3, PlanReads DEF Reads
  <1> HIDE DEF n
  <1>5. /\ "hook" \notin {"spec"} \cup Basics \cup Others /\ "spec" \notin Basics \cup Others
        /\ Basics \cap Others = {}
    BY DEF Basics, Others
  <1>6. CASE n = "spec" /\ Added(<<>>)
    <2> DEFINE new == <<>>
    <2>1. new \in Seq(Basics \cup Others) /\ Len(new) = 0 /\ Added(new)
      BY <1>6
    <2>2. ~(step > HookAt)
      BY <1>3, <1>5, <1>6
    <2> HIDE DEF new
    <2>3. \A i \in 1..Len(new) : new[i] \in Readers => Wanted(new[i])
      BY <2>1
    <2> QED BY <1>1, <2>1, <2>2, <2>3, AddedReg
  <1>7. CASE n = "hook" /\ Added(cfg.hook.adds)
    <2>1. cfg \in Configs /\ cfg.hook.adds \in Seq(Others) /\ cfg.hook.adds \in Seq(Basics \cup Others)
      BY HookAssumption, SeqMonotonic DEF IndInv, TypeOK
    <2>2. ASSUME NEW i \in 1..Len(cfg.hook.adds), cfg.hook.adds[i] \in Readers PROVE Wanted(cfg.hook.adds[i])
      <3>1. cfg.hook.adds[i] \in Range(cfg.hook.adds)
        BY <2>1 DEF Range
      <3> QED BY <2>1, <2>2, <3>1, NamesAssumption DEF Readers, Wanted
    <2>3. ~(step > HookAt)
      BY <1>3, <1>5, <1>7
    <2> QED BY <1>1, <1>7, <2>1, <2>2, <2>3, AddedReg
  <1>8. CASE n \in Basics \cup Others /\ Added(<<n>>) /\ (step > HookAt => Adds(n))
    <2> DEFINE new == <<n>>
    <2>1. new \in Seq(Basics \cup Others) /\ Len(new) = 1 /\ new[1] = n /\ Added(new) /\ new = <<Plan[step]>>
      BY <1>8 DEF n
    <2> HIDE DEF new
    <2>2. \A i \in 1..Len(new) : new[i] \in Readers => Wanted(new[i])
      BY <1>4, <2>1
    <2>3. step > HookAt => Adds(Plan[step])
      BY <1>8 DEF n
    <2> QED BY <1>1, <2>1, <2>2, <2>3, AddedReg
  <1>9. CASE n \in {"etcd_client", "grpc_clients", "configs"} /\ Added(<<n>>)
    <2>1. n \in Basics /\ n \notin Others
      BY <1>9 DEF Basics, Others
    <2> QED BY <1>3, <1>8, <1>9, <2>1
  <1>10. CASE n \notin {"spec", "hook", "etcd_client", "grpc_clients", "configs"} /\ Adds(n) /\ Added(<<n>>)
    <2>1. n \in Basics \cup Others
      BY <1>3, <1>10
    <2> QED BY <1>8, <1>10, <2>1
  <1> QED BY <1>2, <1>6, <1>7, <1>9, <1>10 DEF AssemblyStep, Hook, n

-----------------------------------------------------------------------------
(* The registration between Start and Stop *)

\* The order of the components does not change once they are all there.
LEMMA ReadersStay ==
  ASSUME ReadersLast, UNCHANGED <<cfg, names>>,
         phase' # "assembling", phase' \notin {"failing", "failed"} => phase \notin {"assembling", "failing", "failed"}
  PROVE  ReadersLast'
  <1>1. \A x : (Wanted(x)' <=> Wanted(x)) /\ (Among(x, Len(names))' <=> Among(x, Len(names))) /\ (Behind(x)' <=> Behind(x))
    BY DEF Wanted, Among, Behind
  <1> QED BY <1>1 DEF ReadersLast

\* Steps that touch neither the components nor the addresses.
LEMMA RegFrame ==
  ASSUME RegInv, UNCHANGED <<cfg, phase, names, step, sub, down, bound, instance, identity, reported>>,
         server["grpc"] # "none" => server'["grpc"] # "none"
  PROVE  RegInv'
  <1>1. Plan' = Plan /\ HookAt' = HookAt /\ Ending' = Ending /\ Ended' = Ended
    BY DEF Plan, HookAt, Ending, Ended
  <1>2. \A x : /\ (Wanted(x)' <=> Wanted(x)) /\ (Behind(x)' <=> Behind(x)) /\ (FromBound(x)' <=> FromBound(x))
               /\ \A k : Among(x, k)' <=> Among(x, k)
    BY DEF Wanted, Among, Behind, FromBound
  <1>3. (GRPCBound => GRPCBound') /\ (HTTPBound => HTTPBound')
    BY DEF GRPCBound, HTTPBound, Bound, Picked
  <1>4. FromBound(identity) => FromBound(identity)'
    BY DEF FromBound
  <1>5. FromBound(reported) => FromBound(reported)'
    BY DEF FromBound
  <1>6. ReadersLast'
    BY <1>1, <1>2 DEF RegInv, ReadersLast
  <1>7. ListenersSound'
    BY <1>2, <1>3 DEF RegInv, ListenersSound
  <1>8. StoppedLast'
    BY <1>1, <1>2 DEF RegInv, StoppedLast
  <1>9. KeptSound'
    BY <1>3, <1>4 DEF RegInv, KeptSound
  <1>10. ReportedSound'
    BY <1>1, <1>2, <1>5 DEF RegInv, ReportedSound
  <1> QED BY <1>6, <1>7, <1>8, <1>9, <1>10 DEF RegInv

\* Servers, handlers, goroutines and the end of a context.
LEMMA BesideReg ==
  ASSUME IndInv, RegInv,
         \/ \E s \in Servers : Serve(s) \/ ServeFails(s)
         \/ \E h \in Handlers : HandlerBegins(h) \/ HandlerEnds(h)
         \/ \E c \in Callers : UseInfra(c)
         \/ ConfigsLoad \/ CtxEnds \/ UNCHANGED vars
  PROVE  RegInv'
  <1>1. server \in [Servers -> States] /\ "grpc" \in Servers
    BY DEF IndInv, TypeOK, States, Servers
  <1>2. CASE \E s \in Servers : Serve(s)
    <2>1. UNCHANGED <<cfg, phase, names, step, sub, down, bound, instance, identity, reported>>
      BY <1>2 DEF Serve, assembly, published
    <2>2. server["grpc"] # "none" => server'["grpc"] # "none"
      BY <1>1, <1>2 DEF Serve
    <2> QED BY <2>1, <2>2, RegFrame
  <1>3. CASE \E s \in Servers : ServeFails(s)
    <2>1. UNCHANGED <<cfg, phase, names, step, sub, down, bound, instance, identity, reported>>
      BY <1>3 DEF ServeFails, assembly, published
    <2>2. server["grpc"] # "none" => server'["grpc"] # "none"
      BY <1>1, <1>3 DEF ServeFails
    <2> QED BY <2>1, <2>2, RegFrame
  <1>4. CASE \E h \in Handlers : HandlerBegins(h) \/ HandlerEnds(h)
    <2>1. UNCHANGED <<cfg, phase, names, step, sub, server, down, bound, instance, identity, reported>>
      BY <1>4 DEF HandlerBegins, HandlerEnds, assembly, serving, published
    <2> QED BY <2>1, RegFrame
  <1>5. CASE (\E c \in Callers : UseInfra(c)) \/ ConfigsLoad \/ CtxEnds \/ UNCHANGED vars
    <2>1. UNCHANGED <<cfg, phase, names, step, sub, server, down, bound, instance, identity, reported>>
      BY <1>5 DEF UseInfra, ConfigsLoad, CtxEnds, vars, assembly, serving, published
    <2> QED BY <2>1, RegFrame
  <1> QED BY <1>2, <1>3, <1>4, <1>5

\* A lease expires.
LEMMA LeaseReg ==
  ASSUME RegInv, LeaseExpires
  PROVE  RegInv'
  <1>1. UNCHANGED <<cfg, phase, names, step, sub, server, down, bound, identity, reported>> /\ instance' = Unregistered
    BY DEF LeaseExpires, assembly, serving
  <1>2. Plan' = Plan /\ HookAt' = HookAt /\ Ending' = Ending /\ Ended' = Ended
    BY <1>1 DEF Plan, HookAt, Ending, Ended
  <1>3. \A x : /\ (Wanted(x)' <=> Wanted(x)) /\ (Behind(x)' <=> Behind(x)) /\ (FromBound(x)' <=> FromBound(x))
               /\ \A k : Among(x, k)' <=> Among(x, k)
    BY <1>1 DEF Wanted, Among, Behind, FromBound
  <1>4. (GRPCBound => GRPCBound') /\ (HTTPBound => HTTPBound')
    BY <1>1 DEF GRPCBound, HTTPBound, Bound, Picked
  <1>5. ReadersLast'
    BY <1>1, <1>2, <1>3 DEF RegInv, ReadersLast
  <1>6. ListenersSound' /\ StoppedLast'
    BY <1>1, <1>2, <1>3, <1>4 DEF RegInv, ListenersSound, StoppedLast
  <1>7. KeptSound'
    BY <1>1 DEF KeptSound, Unregistered
  <1>8. FromBound(reported) => FromBound(reported)'
    BY <1>1 DEF FromBound
  <1>9. ReportedSound'
    BY <1>1, <1>2, <1>3, <1>8 DEF RegInv, ReportedSound
  <1> QED BY <1>5, <1>6, <1>7, <1>9 DEF RegInv

\* A generation is given up, its Start or Stop begins, or Stop returns.
LEMMA PhaseReg ==
  ASSUME IndInv, RegInv, FailureReturns \/ Drop \/ StartCall \/ StopCall \/ StopReturns
  PROVE  RegInv'
  <1>1. UNCHANGED <<cfg, names, server, down, bound, instance, identity, reported>>
    BY DEF FailureReturns, Drop, StartCall, StopCall, StopReturns, serving, published
  <1>2. CASE FailureReturns \/ Drop \/ StartCall
    <2>1. /\ phase \in {"built", "failing"} /\ phase' \in {"failing", "failed", "dropped", "starting"}
          /\ phase' \notin {"failing", "failed"} => phase = "built"
          /\ phase' = "starting" => sub' = sub /\ step' = 1 /\ phase = "built"
      BY <1>2 DEF FailureReturns, Drop, StartCall
    <2>2. phase = "built" => sub = "begin"
      BY DEF IndInv, SubSound
    <2>3. ReadersLast'
      BY <1>1, <2>1, ReadersStay DEF RegInv
    <2> QED BY <1>1, <2>1, <2>2, <2>3, StillNothing
  <1>3. CASE StopCall \/ StopReturns
    <2>1. /\ phase = "up" \/ Ending
          /\ (phase = "up" => Ending') /\ (Ending => Ended')
          /\ phase' \in {"stopping", "startFailed", "stopped"}
      BY <1>3 DEF StopCall, StopReturns, Ending, Ended
    <2>2. phase \notin {"assembling", "failing", "failed", "starting"} /\ phase' \notin {"assembling", "failing", "failed", "starting"}
      BY <2>1 DEF Ending
    <2>3. ReadersLast'
      BY <1>1, <2>2, ReadersStay DEF RegInv
    <2>4. StoppedLast'
      BY <1>1, <2>1, <1>3 DEF RegInv, StoppedLast, Ending, Ended, StopCall, StopReturns
    <2>5. (GRPCBound => GRPCBound') /\ (HTTPBound => HTTPBound')
      BY <1>1 DEF GRPCBound, HTTPBound, Bound, Picked
    <2>6. (FromBound(identity) => FromBound(identity)') /\ (FromBound(reported) => FromBound(reported)')
      BY <1>1 DEF FromBound
    <2>7. KeptSound'
      BY <1>1, <2>5, <2>6 DEF RegInv, KeptSound
    <2>8. Ending' \/ Ended'
      BY <2>1 DEF Ending, Ended
    <2>9. ReportedSound'
      BY <1>1, <2>2, <2>6, <2>8 DEF RegInv, ReportedSound
    <2>10. ListenersSound'
      BY <1>1, <2>2 DEF RegInv, ListenersSound
    <2> QED BY <2>3, <2>4, <2>7, <2>9, <2>10 DEF RegInv
  <1> QED BY <1>2, <1>3

\* A reader that is started finds the listeners bound, and is started once.
LEMMA ReaderFinds ==
  ASSUME IndInv, RegInv, phase = "starting", NEW x \in Readers, names[step] = x
  PROVE  GRPCBound /\ HTTPBound /\ ~Among(x, step - 1)
  <1>1. step \in 1..Len(names) /\ Len(names) \in Nat
    BY DEF IndInv, AssemblyOrder, TypeOK
  <1>2. Behind(x) /\ Among("grpc", Len(names)) /\ x # "grpc"
    BY DEF RegInv, ReadersLast, Readers
  <1>3. PICK i \in 1..Len(names) : names[i] = "grpc"
    BY <1>2 DEF Among
  <1>4. i <= step /\ i # step
    BY <1>1, <1>2, <1>3 DEF Behind
  <1>5. Among("grpc", step - 1)
    BY <1>1, <1>3, <1>4 DEF Among
  <1>6. ~Among(x, step - 1)
    BY <1>1, <1>2 DEF Among, Behind
  <1> QED BY <1>5, <1>6 DEF RegInv, ListenersSound

\* GRPCService.Start and Stop come before and after what the readers do.
LEMMA ServerAlone ==
  ASSUME IndInv, RegInv, phase \notin {"assembling", "failing", "failed"}, step \in 1..Len(names), names[step] = "grpc"
  PROVE  \A x \in Readers : ~Among(x, step) /\ ~Among(x, step - 1)
  <1>1. \A x \in Readers : Behind(x) /\ x # "grpc"
    BY DEF RegInv, ReadersLast, Readers
  <1> QED BY <1>1 DEF Among, Behind, IndInv, TypeOK

\* While it starts nobody has told the gRPC server to stop.
LEMMA NotTold ==
  ASSUME RegInv, phase \in {"starting", "up"}
  PROVE  "grpc" \notin down
  BY DEF RegInv, StoppedLast, Ending, Ended

\* A component has started.
LEMMA StartedReg ==
  ASSUME IndInv, RegInv, phase = "starting", Started, UNCHANGED <<cfg, names, down>>,
         DOMAIN bound' = {"grpc", "http"}, KeptSound',
         (names[step] = "grpc" \/ Among("grpc", step - 1)) => GRPCBound' /\ HTTPBound',
         reported' # Unregistered.addr =>
             /\ FromBound(reported)'
             /\ Among("bound_addresses", step - 1) \/ names[step] = "bound_addresses"
  PROVE  RegInv'
  <1>1. step \in 1..Len(names) /\ Len(names) \in Nat /\ step \in Nat /\ (step + 1) - 1 = step
    BY DEF IndInv, AssemblyOrder, TypeOK
  <1>2. /\ phase' \in {"up", "starting"} /\ sub' = "begin"
        /\ phase' = "starting" => step' = step + 1
    BY DEF Started
  <1>3. \A x : Among(x, step) => (Among(x, step - 1) \/ x = names[step])
    BY <1>1, AmongFacts DEF IndInv
  <1>4. /\ \A x : Among(x, step - 1) => Among(x, step)
        /\ Among(names[step], step)
    BY <1>1, AmongFacts DEF IndInv
  <1>5. \A x, k : Among(x, k)' <=> Among(x, k)
    BY DEF Among
  <1>6. phase' = "starting" => \A x : Among(x, step - 1)' <=> Among(x, step)
    BY <1>1, <1>2 DEF Among
  <1>7. ReadersLast'
    BY <1>2, ReadersStay DEF RegInv
  <1>8. ListenersSound'
    BY <1>2, <1>3, <1>6 DEF ListenersSound
  <1>9. StoppedLast'
    BY NotTold DEF StoppedLast
  <1>10. ReportedSound'
    BY <1>2, <1>4, <1>6 DEF ReportedSound
  <1> QED BY <1>7, <1>8, <1>9, <1>10 DEF RegInv

\* A Start that fails has changed no address that is in use.
LEMMA StartFailsReg ==
  ASSUME IndInv, RegInv, phase = "starting", StartFails, UNCHANGED <<cfg, names, bound, instance, reported>>,
         server["grpc"] # "none" => server'["grpc"] # "none",
         "grpc" \in down' => "grpc" \in down \/ names[step] = "grpc",
         UNCHANGED identity \/ names[step] = "registry"
  PROVE  RegInv'
  <1>1. step \in 1..Len(names) /\ phase' = "rollback" /\ step' = step - 1 /\ Ending'
    BY DEF IndInv, AssemblyOrder, StartFails, Ending
  <1>2. \A x : Among(x, step)' <=> Among(x, step - 1)
    BY <1>1 DEF Among
  <1>3. (GRPCBound => GRPCBound') /\ (HTTPBound => HTTPBound')
    BY DEF GRPCBound, HTTPBound, Bound, Picked
  <1>4. ReadersLast'
    BY <1>1, ReadersStay DEF RegInv
  <1>5. ListenersSound'
    BY <1>1 DEF RegInv, ListenersSound
  <1>6. StoppedLast'
    <2> SUFFICES ASSUME "grpc" \in down' PROVE ~Among("registry", step)'
      BY <1>1 DEF StoppedLast
    <2>1. names[step] = "grpc"
      BY NotTold
    <2> QED BY <1>1, <1>2, <2>1, ServerAlone DEF Readers
  <1>7. KeptSound'
    <2> SUFFICES ASSUME instance.state = "kept" PROVE KeptSound'
      BY DEF KeptSound
    <2>1. Among("registry", step - 1)
      BY DEF IndInv, InstanceSound
    <2>2. UNCHANGED identity
      BY <2>1, ReaderFinds DEF Readers
    <2>3. FromBound(identity) => FromBound(identity)'
      BY <2>2 DEF FromBound
    <2> QED BY <1>3, <2>2, <2>3 DEF RegInv, KeptSound
  <1>8. FromBound(reported) => FromBound(reported)'
    BY DEF FromBound
  <1>9. ReportedSound'
    BY <1>1, <1>8 DEF RegInv, ReportedSound
  <1> QED BY <1>4, <1>5, <1>6, <1>7, <1>9 DEF RegInv

\* Every Start of a component.
LEMMA StartReg ==
  ASSUME IndInv, RegInv, StartComponent
  PROVE  RegInv'
  <1>1. phase = "starting" /\ UNCHANGED <<cfg, names>>
    BY DEF StartComponent
  <1>2. /\ server \in [Servers -> States] /\ "grpc" \in Servers
        /\ DOMAIN bound = {"grpc", "http"} /\ step \in 1..Len(names)
        /\ sub = "http" => names[step] = "grpc" /\ GRPCBound
    BY <1>1 DEF IndInv, TypeOK, States, Servers, RegInv, ListenersSound, AssemblyOrder, SubSound
  <1>3. /\ Among("grpc", step - 1) => GRPCBound /\ HTTPBound
        /\ instance.state = "kept" =>
              GRPCBound /\ HTTPBound /\ "addr" \in DOMAIN instance /\ identity = instance.addr /\ FromBound(identity)
        /\ reported # Unregistered.addr => FromBound(reported) /\ Among("bound_addresses", step - 1)
        /\ instance.state = "kept" => Among("registry", step - 1)
    BY <1>1 DEF RegInv, ListenersSound, KeptSound, ReportedSound, IndInv, InstanceSound
  \* A component that neither binds nor reads an address.
  <1>4. ASSUME Started, UNCHANGED <<down, bound, instance, identity, reported>>, names[step] # "grpc",
               server["grpc"] # "none" => server'["grpc"] # "none"
        PROVE  RegInv'
    <2>1. (GRPCBound => GRPCBound') /\ (HTTPBound => HTTPBound')
      BY <1>1, <1>4 DEF GRPCBound, HTTPBound, Bound, Picked
    <2>2. (FromBound(identity) => FromBound(identity)') /\ (FromBound(reported) => FromBound(reported)')
      BY <1>1, <1>4 DEF FromBound
    <2>3. KeptSound'
      BY <1>3, <1>4, <2>1, <2>2 DEF KeptSound
    <2> QED BY <1>1, <1>2, <1>3, <1>4, <2>1, <2>2, <2>3, StartedReg
  <1>5. ASSUME StartFails, UNCHANGED <<server, down, bound, instance, identity, reported>>
        PROVE  RegInv'
    BY <1>1, <1>5, StartFailsReg
  <1>6. CASE StartPlain \/ StartMetadata
    <2>1. UNCHANGED <<server, down, bound, instance, identity, reported>> /\ names[step] # "grpc" /\ (Started \/ StartFails)
      BY <1>6 DEF StartPlain, StartMetadata, serving, published, Component, Basics
    <2> QED BY <1>4, <1>5, <2>1
  <1>7. CASE StartHTTP
    <2>1. names[step] # "grpc" /\ UNCHANGED <<instance, identity, reported>>
      BY <1>7 DEF StartHTTP, Component, published
    <2>2. CASE StartFails /\ UNCHANGED serving
      BY <1>5, <2>1, <2>2 DEF serving
    <2>3. CASE Started /\ server' = [server EXCEPT !["user_http"] = "spawned"] /\ UNCHANGED <<down, bound>>
      BY <1>2, <1>4, <2>1, <2>3
    <2> QED BY <1>7, <2>2, <2>3 DEF StartHTTP
  <1>8. CASE StartGRPC
    <2>1. names[step] = "grpc" /\ UNCHANGED <<instance, identity, reported>>
      BY <1>8 DEF StartGRPC, Component, published
    <2>2. instance.state # "kept" /\ reported = Unregistered.addr
      BY <1>1, <1>2, <1>3, <2>1, ServerAlone DEF Readers
    <2>3. KeptSound'
      BY <2>1, <2>2 DEF KeptSound
    <2>4. CASE StartFails /\ UNCHANGED serving
      BY <1>5, <2>1, <2>4 DEF serving
    <2>5. CASE /\ bound' = [bound EXCEPT !.grpc = Bound("grpc", cfg.grpc)]
               /\ server' = [server EXCEPT !["grpc"] = "spawned"] /\ UNCHANGED down
               /\ IF cfg.http = NoAddress THEN Started ELSE GoesOn("http") /\ UNCHANGED phase
      <3>2. DOMAIN bound' = {"grpc", "http"} /\ bound'.grpc = Bound("grpc", cfg.grpc) /\ bound'.http = bound.http
        BY <1>2, <2>5
      <3>3. GRPCBound' /\ (HTTPBound => HTTPBound')
        BY <1>1, <1>2, <2>5, <3>2 DEF GRPCBound, HTTPBound, Bound, Picked
      <3>4. CASE cfg.http = NoAddress /\ Started
        <4>1. HTTPBound'
          BY <1>1, <3>4 DEF HTTPBound
        <4> QED BY <1>1, <2>1, <2>2, <2>3, <2>5, <3>2, <3>3, <3>4, <4>1, StartedReg
      <3>5. CASE GoesOn("http") /\ UNCHANGED phase
        <4>1. UNCHANGED <<phase, step>> /\ sub' = "http"
          BY <3>5 DEF GoesOn
        <4>2. \A x : Among(x, step - 1)' <=> Among(x, step - 1)
          BY <1>1, <4>1 DEF Among
        <4>3. ReadersLast'
          BY <1>1, <4>1, ReadersStay DEF RegInv
        <4>4. ListenersSound'
          BY <1>3, <3>2, <3>3, <4>2 DEF ListenersSound
        <4>5. StoppedLast' /\ ReportedSound'
          BY <1>1, <2>1, <2>2, <2>5, NotTold DEF StoppedLast, ReportedSound, Unregistered
        <4> QED BY <2>3, <4>3, <4>4, <4>5 DEF RegInv
      <3> QED BY <2>5, <3>4, <3>5
    <2>6. CASE startHTTP /\ StartFails /\ StopServing("grpc") /\ UNCHANGED bound
      <3>1. server["grpc"] # "none" => server'["grpc"] # "none"
        BY <1>2, <2>6 DEF StopServing
      <3> QED BY <1>1, <2>1, <2>6, <3>1, StartFailsReg
    <2>7. CASE /\ sub = "http" /\ bound' = [bound EXCEPT !.http = Bound("http", cfg.http)]
               /\ server' = [server EXCEPT !["http"] = "spawned"]
               /\ Started /\ UNCHANGED down
      <3>1. DOMAIN bound' = {"grpc", "http"} /\ bound'.grpc = bound.grpc /\ bound'.http = Bound("http", cfg.http)
        BY <1>2, <2>7
      <3>2. GRPCBound'
        BY <1>1, <1>2, <2>7, <3>1 DEF GRPCBound, Bound, Picked
      <3>3. HTTPBound'
        BY <1>1, <3>1 DEF HTTPBound, Bound, Picked
      <3> QED BY <1>1, <2>1, <2>2, <2>3, <2>7, <3>1, <3>2, <3>3, StartedReg
    <2> QED BY <1>8, <2>4, <2>5, <2>6, <2>7 DEF StartGRPC, StartGRPCServer, startHTTP
  <1>9. CASE StartRegistration
    <2>1. names[step] = "registry" /\ UNCHANGED <<server, down, bound, reported>>
      BY <1>9 DEF StartRegistration, Component, serving
    <2>2. CASE StartFails /\ UNCHANGED instance
      BY <1>1, <2>1, <2>2, StartFailsReg
    <2>3. CASE \E env \in Environments :
                  /\ ~resolutionFails(cfg, env) /\ identity' = resolveAllWithBound(cfg, bound, env)
                  /\ Started /\ instance' = [state |-> "kept", addr |-> identity']
      <3>1. GRPCBound /\ HTTPBound
        BY <1>1, <2>1, ReaderFinds DEF Readers
      <3>2. GRPCBound' /\ HTTPBound'
        BY <1>1, <2>1, <3>1 DEF GRPCBound, HTTPBound, Bound, Picked
      <3>3. FromBound(identity)' /\ (FromBound(reported) => FromBound(reported)')
        BY <1>1, <2>1, <2>3 DEF FromBound
      <3>4. KeptSound'
        BY <2>3, <3>2, <3>3 DEF KeptSound
      <3> QED BY <1>1, <1>2, <1>3, <2>1, <2>3, <3>2, <3>3, <3>4, StartedReg
    <2> QED BY <1>9, <2>2, <2>3 DEF StartRegistration
  <1>10. CASE StartBound
    <2>1. names[step] = "bound_addresses" /\ UNCHANGED <<server, down, bound, instance, identity>>
      BY <1>10 DEF StartBound, Component, serving
    <2>2. CASE StartFails /\ UNCHANGED reported
      BY <1>5, <2>1, <2>2
    <2>3. CASE \E env \in Environments :
                  /\ ~resolutionFails(cfg, env) /\ reported' = resolveAllWithBound(cfg, bound, env) /\ Started
      <3>1. GRPCBound /\ HTTPBound
        BY <1>1, <2>1, ReaderFinds DEF Readers
      <3>2. GRPCBound' /\ HTTPBound'
        BY <1>1, <2>1, <3>1 DEF GRPCBound, HTTPBound, Bound, Picked
      <3>3. FromBound(reported)' /\ (FromBound(identity) => FromBound(identity)')
        BY <1>1, <2>1, <2>3 DEF FromBound
      <3>4. KeptSound'
        BY <1>3, <2>1, <3>2, <3>3 DEF KeptSound
      <3> QED BY <1>1, <1>2, <2>1, <2>3, <3>2, <3>3, <3>4, StartedReg
    <2> QED BY <1>10, <2>2, <2>3 DEF StartBound
  <1> QED BY <1>6, <1>7, <1>8, <1>9, <1>10 DEF StartComponent

\* Every Stop of a component: the gRPC server is told when no registration is left to stop.
LEMMA StopReg ==
  ASSUME IndInv, RegInv, StopComponent
  PROVE  RegInv'
  <1>1. Ending /\ step > 0 /\ UNCHANGED <<cfg, phase, names, identity, reported>>
    BY DEF StopComponent, Ending
  <1>2. /\ server \in [Servers -> States] /\ "grpc" \in Servers /\ "state" \in DOMAIN instance
        /\ step \in 1..Len(names) /\ Len(names) \in Nat
        /\ phase \notin {"assembling", "failing", "failed", "starting"}
    BY <1>1 DEF IndInv, TypeOK, States, Servers, AssemblyOrder, Ending
  <1>3. step' \in {step, step - 1}
    BY DEF StopComponent, StopPlain, StopInfra, StopHTTP, StopGRPC, StopRegistration, StopQuiet, Stopped, GoesOn
  <1>4. UNCHANGED bound
    BY DEF StopComponent, StopPlain, StopInfra, StopHTTP, StopGRPC, StopRegistration, StopQuiet, serving
  <1>5. server["grpc"] # "none" => server'["grpc"] # "none"
    BY <1>2 DEF StopComponent, StopPlain, StopInfra, StopHTTP, StopGRPC, StopRegistration, StopQuiet, serving, StopServing
  <1>6. "grpc" \in down' => "grpc" \in down \/ names[step] = "grpc"
    BY DEF StopComponent, StopPlain, StopInfra, StopHTTP, StopGRPC, StopRegistration, StopQuiet, serving, StopServing, Component
  <1>7. instance'.state = "kept" => UNCHANGED instance
    BY <1>2 DEF StopComponent, StopPlain, StopInfra, StopHTTP, StopGRPC, StopRegistration, Leaves, StopQuiet, Unregistered
  <1>8. \A x : Among(x, step)' => Among(x, step)
    BY <1>1, <1>2, <1>3 DEF Among
  <1>9. (GRPCBound => GRPCBound') /\ (HTTPBound => HTTPBound')
    BY <1>1, <1>4, <1>5 DEF GRPCBound, HTTPBound, Bound, Picked
  <1>10. (FromBound(identity) => FromBound(identity)') /\ (FromBound(reported) => FromBound(reported)')
    BY <1>1, <1>4 DEF FromBound
  <1>11. ReadersLast'
    BY <1>1, <1>2, ReadersStay DEF RegInv
  <1>12. ListenersSound'
    BY <1>1, <1>2, <1>4 DEF RegInv, ListenersSound
  <1>13. StoppedLast'
    <2> SUFFICES ASSUME "grpc" \in down' PROVE ~Among("registry", step)'
      BY <1>1 DEF StoppedLast, Ending
    <2>1. ~Among("registry", step)
      <3>1. CASE "grpc" \in down
        BY <1>1, <3>1 DEF RegInv, StoppedLast, Ending, Ended
      <3>2. CASE names[step] = "grpc"
        BY <1>2, <3>2, ServerAlone DEF Readers
      <3> QED BY <1>6, <3>1, <3>2
    <2> QED BY <1>8, <2>1
  <1>14. KeptSound'
    BY <1>1, <1>7, <1>9, <1>10 DEF RegInv, KeptSound
  <1>15. ReportedSound'
    BY <1>1, <1>2, <1>10 DEF RegInv, ReportedSound, Ending, Ended
  <1> QED BY <1>11, <1>12, <1>13, <1>14, <1>15 DEF RegInv

LEMMA RegInit == Init => RegInv
  <1> SUFFICES ASSUME Init PROVE RegInv
    OBVIOUS
  <1> USE DEF Init
  <1>1. Len(names) = 0 /\ step = 1 /\ phase = "assembling"
    OBVIOUS
  <1>2. ReadersLast
    BY <1>1 DEF ReadersLast, Among, HookAt
  <1>3. ListenersSound /\ StoppedLast
    BY DEF ListenersSound, StoppedLast
  <1>4. KeptSound /\ ReportedSound
    BY DEF KeptSound, ReportedSound, Unregistered
  <1> QED BY <1>2, <1>3, <1>4 DEF RegInv

LEMMA RegNext == IndInv /\ RegInv /\ [Next]_vars => RegInv'
  <1> SUFFICES ASSUME IndInv, RegInv, [Next]_vars PROVE RegInv'
    OBVIOUS
  <1>1. CASE AssemblyStep
    BY <1>1, AssemblyReg
  <1>2. CASE StartComponent \/ StopComponent \/ LeaseExpires
    BY <1>2, StartReg, StopReg, LeaseReg
  <1>3. CASE FailureReturns \/ Drop \/ StartCall \/ StopCall \/ StopReturns
    BY <1>3, PhaseReg
  <1>4. CASE \/ \E s \in Servers : Serve(s) \/ ServeFails(s)
             \/ \E h \in Handlers : HandlerBegins(h) \/ HandlerEnds(h)
             \/ \E c \in Callers : UseInfra(c)
             \/ ConfigsLoad \/ CtxEnds \/ UNCHANGED vars
    BY <1>4, BesideReg
  <1> QED BY <1>1, <1>2, <1>3, <1>4 DEF Next

\* What is kept in the registry, and what OnBound is told, was resolved from
\* listeners that are bound, and the server outlives the registration.
THEOREM RegistrationInvariant == Spec => []RegInv
  <1>1. Init => IndInv /\ RegInv
    BY InitInv, RegInit
  <1>2. IndInv /\ RegInv /\ [Next]_vars => (IndInv /\ RegInv)'
    BY NextInv, RegNext
  <1> QED BY <1>1, <1>2, PTL DEF Spec

-----------------------------------------------------------------------------
(* A registration that Stop has left *)

\* Its context has ended, no Start and no other Stop will follow, and the
\* addresses are what they were while it was kept.
LeftSound ==
    instance.state = "left" =>
        /\ ~Alive /\ (Ending \/ Ended)
        /\ GRPCBound /\ HTTPBound /\ "addr" \in DOMAIN instance
        /\ identity = instance.addr /\ FromBound(identity)

\* What was left stays as it is.
LEMMA LeftStays ==
  ASSUME IndInv, LeftSound, instance.state = "left", [Next]_vars
  PROVE  LeftSound'
  <1>1. /\ ~Alive /\ phase \in {"stopping", "rollback", "startFailed", "stopped"} /\ GRPCBound /\ HTTPBound
        /\ "addr" \in DOMAIN instance /\ identity = instance.addr /\ FromBound(identity)
    BY DEF LeftSound, Ending, Ended
  <1>2. server \in [Servers -> States] /\ "grpc" \in Servers /\ "state" \in DOMAIN instance
    BY DEF IndInv, TypeOK, States, Servers
  <1>3. /\ ~AssemblyStep /\ ~FailureReturns /\ ~Drop /\ ~StartCall /\ ~StartComponent /\ ~StopCall
        /\ ~CtxEnds /\ ~LeaseExpires
    BY <1>1 DEF AssemblyStep, FailureReturns, Drop, StartCall, StartComponent, StopCall, CtxEnds, LeaseExpires, Alive
  <1>4. ASSUME UNCHANGED <<cfg, ctx, bound, identity>>, DOMAIN instance' = DOMAIN instance, UNCHANGED instance.addr,
               phase' \in {"stopping", "rollback", "startFailed", "stopped"},
               server["grpc"] # "none" => server'["grpc"] # "none"
        PROVE  LeftSound'
    <2>1. GRPCBound' /\ HTTPBound'
      BY <1>1, <1>4 DEF GRPCBound, HTTPBound, Bound, Picked
    <2>2. FromBound(identity)'
      BY <1>1, <1>4 DEF FromBound
    <2> QED BY <1>1, <1>4, <2>1, <2>2 DEF LeftSound, Alive, Ending, Ended
  <1>5. CASE StopComponent
    <2>1. UNCHANGED <<cfg, phase, ctx, identity>>
      BY <1>5 DEF StopComponent
    <2>2. UNCHANGED bound
      BY <1>5 DEF StopComponent, StopPlain, StopInfra, StopHTTP, StopGRPC, StopRegistration, StopQuiet, serving
    <2>3. server["grpc"] # "none" => server'["grpc"] # "none"
      BY <1>2, <1>5 DEF StopComponent, StopPlain, StopInfra, StopHTTP, StopGRPC, StopRegistration, StopQuiet, serving, StopServing
    <2>4. DOMAIN instance' = DOMAIN instance /\ UNCHANGED instance.addr
      <3>1. CASE StopRegistration
        BY <1>1, <3>1 DEF StopRegistration, Leaves
      <3> QED BY <1>5, <3>1 DEF StopComponent, StopPlain, StopInfra, StopHTTP, StopGRPC, StopQuiet
    <2> QED BY <1>1, <1>4, <2>1, <2>2, <2>3, <2>4
  <1>6. CASE StopReturns
    <2>1. UNCHANGED <<cfg, ctx, server, bound, instance, identity>> /\ phase' \in {"startFailed", "stopped"}
      BY <1>6 DEF StopReturns, serving, published
    <2> QED BY <1>4, <2>1
  <1>7. CASE \E s \in Servers : Serve(s) \/ ServeFails(s)
    <2>1. UNCHANGED <<cfg, phase, ctx, bound, instance, identity>>
      BY <1>7 DEF Serve, ServeFails, assembly, published
    <2>2. server["grpc"] # "none" => server'["grpc"] # "none"
      BY <1>2, <1>7 DEF Serve, ServeFails
    <2> QED BY <1>1, <1>4, <2>1, <2>2
  <1>8. CASE (\E h \in Handlers : HandlerBegins(h) \/ HandlerEnds(h)) \/ (\E c \in Callers : UseInfra(c))
              \/ ConfigsLoad \/ UNCHANGED vars
    <2>1. UNCHANGED <<cfg, phase, ctx, server, bound, instance, identity>>
      BY <1>8 DEF HandlerBegins, HandlerEnds, UseInfra, ConfigsLoad, vars, assembly, serving, published
    <2> QED BY <1>1, <1>4, <2>1
  <1> QED BY <1>3, <1>5, <1>6, <1>7, <1>8 DEF Next

\* Stop leaves what was kept, once its context has ended.
LEMMA LeftBegins ==
  ASSUME IndInv, RegInv, instance.state # "left", [Next]_vars
  PROVE  LeftSound'
  <1> SUFFICES ASSUME instance'.state = "left" PROVE LeftSound'
    BY DEF LeftSound
  <1>1. "state" \in DOMAIN instance
    BY DEF IndInv, TypeOK
  <1>2. StopComponent /\ StopRegistration
    <2>1. CASE StartComponent
      BY <2>1 DEF StartComponent, StartPlain, StartGRPC, StartHTTP, StartRegistration, StartMetadata, StartBound, published
    <2>2. CASE StopComponent
      BY <2>2 DEF StopComponent, StopPlain, StopInfra, StopHTTP, StopGRPC, StopQuiet
    <2>3. CASE AssemblyStep \/ FailureReturns \/ Drop \/ StartCall \/ StopCall \/ StopReturns \/ CtxEnds \/ ConfigsLoad \/ LeaseExpires
      BY <2>3 DEF AssemblyStep, FailureReturns, Drop, StartCall, StopCall, StopReturns, CtxEnds, ConfigsLoad, LeaseExpires,
                  published, Unregistered
    <2>4. CASE \/ \E s \in Servers : Serve(s) \/ ServeFails(s)
               \/ \E h \in Handlers : HandlerBegins(h) \/ HandlerEnds(h)
               \/ \E c \in Callers : UseInfra(c)
               \/ UNCHANGED vars
      BY <2>4 DEF Serve, ServeFails, HandlerBegins, HandlerEnds, UseInfra, vars, published
    <2> QED BY <2>1, <2>2, <2>3, <2>4 DEF Next
  <1>3. ~Alive /\ Leaves("left") /\ instance.state = "kept"
    BY <1>1, <1>2 DEF StopRegistration, Leaves, Unregistered
  <1>4. GRPCBound /\ HTTPBound /\ "addr" \in DOMAIN instance /\ identity = instance.addr /\ FromBound(identity)
    BY <1>3 DEF RegInv, KeptSound
  <1>5. DOMAIN instance' = DOMAIN instance /\ instance'.addr = instance.addr
    BY <1>3, <1>4 DEF Leaves
  <1>6. UNCHANGED <<cfg, phase, ctx, server, bound, identity>> /\ Ending
    BY <1>2 DEF StopComponent, StopRegistration, serving, Ending
  <1>7. GRPCBound' /\ HTTPBound'
    BY <1>4, <1>6 DEF GRPCBound, HTTPBound, Bound, Picked
  <1>8. FromBound(identity)'
    BY <1>4, <1>6 DEF FromBound
  <1> QED BY <1>3, <1>4, <1>5, <1>6, <1>7, <1>8 DEF LeftSound, Alive, Ending

\* A registration that a timed-out Stop has left was resolved from the
\* listeners as well; a generation whose context has not ended leaves none.
THEOREM LeftInvariant == Spec => []LeftSound
  <1>1. Init => LeftSound
    BY DEF Init, LeftSound, Unregistered
  <1>2. IndInv /\ RegInv /\ LeftSound /\ [Next]_vars => LeftSound'
    BY LeftStays, LeftBegins
  <1> QED BY <1>1, <1>2, Invariant, RegistrationInvariant, PTL DEF Spec

(***************************************************************************)
(* A generation that is over, by a failed assembly, a failed Start or a    *)
(* Stop whose context has not ended, leaves nothing open: no etcd or gRPC  *)
(* client, no infra client but one its caller is about to close, no        *)
(* listener and no registration that is kept alive.                        *)
(***************************************************************************)
THEOREM OverIsClosed == Spec => []NothingLeaks
  <1>1. IndInv /\ LeftSound => NothingLeaks
    <2> SUFFICES ASSUME IndInv, LeftSound, phase = "failed" \/ (phase \in {"startFailed", "stopped"} /\ Alive)
                 PROVE  /\ \A r \in DOMAIN res : res[r] \notin {"open", "idle"}
                        /\ \A id \in open : \E c \in Callers : call[c].at = "dialed" /\ call[c].client = id
                        /\ \A s \in Servers : server[s] # "serving" /\ (server[s] = "spawned" => s \in down)
                        /\ instance.state \notin {"kept", "left"}
      BY DEF NothingLeaks
    <2>1. ~Ending /\ (phase = "failed" \/ (Ended /\ Alive)) /\ phase \notin {"starting", "up"}
      BY DEF Ending, Ended
    <2>2. \A r \in DOMAIN res : res[r] \notin {"open", "idle"}
      BY <2>1 DEF IndInv, TypeOK, ResourcesSound, Live
    <2>3. closed /\ closing = {}
      BY <2>1 DEF IndInv, ContainerSound
    <2>4. \A id \in open : \E c \in Callers : call[c].at = "dialed" /\ call[c].client = id
      BY <2>3 DEF IndInv, InfraInv, NoStrayClient
    <2>5. \A s \in Servers : server[s] # "serving" /\ (server[s] = "spawned" => s \in down)
      <3>1. CASE phase = "failed"
        BY <3>1 DEF IndInv, ServersSound
      <3>2. CASE Ended /\ Alive
        <4>1. \A s \in Servers : Drained(s)
          BY <3>2 DEF IndInv, ServersSound
        <4>2. \A s \in down : server[s] # "serving"
          BY DEF IndInv, ServersSound
        <4> QED BY <4>1, <4>2 DEF Drained
      <3> QED BY <2>1, <3>1, <3>2
    <2>6. instance.state \notin {"kept", "left"}
      BY <2>1 DEF IndInv, InstanceSound, LeftSound, Ended
    <2> QED BY <2>2, <2>4, <2>5, <2>6
  <1> QED BY <1>1, Invariant, LeftInvariant, PTL

(***************************************************************************)
(* While an instance is kept in the registry (Registration of              *)
(* addServiceRegistration) its gRPC server has not been told to stop, its  *)
(* address is one that can be reached, commands find it under that         *)
(* address, and OnBound was told the same ports.  Of a registration that a *)
(* timed-out Stop has left all of it holds but that the server is not told *)
(* to stop.                                                                *)
(***************************************************************************)
THEOREM RegisteredStaysReachable == Spec => []RegisteredIsReachable
  <1>1. IndInv /\ RegInv /\ LeftSound => RegisteredIsReachable
    <2> SUFFICES ASSUME IndInv, RegInv, LeftSound, instance.state \in {"kept", "left"} PROVE RegisteredIsReachable
      BY DEF RegisteredIsReachable
    <2>1. GRPCBound /\ HTTPBound /\ identity = instance.addr /\ FromBound(instance.addr)
      BY DEF RegInv, KeptSound, LeftSound
    <2>2. /\ instance.state = "kept" => phase \in {"starting", "up"} \/ (Ending /\ Among("registry", step))
          /\ instance.state = "left" => ~Alive /\ (Ending \/ Ended)
      BY DEF IndInv, InstanceSound, LeftSound
    <2>3. phase \notin {"assembling", "failing", "failed"} /\ (instance.state = "kept" => ~Ended)
      BY <2>2 DEF Ending, Ended
    <2>4. "grpc" \in down => instance.state = "left" /\ ~Alive
      BY <2>2, <2>3, NotTold DEF RegInv, StoppedLast
    <2>5. cfg \in Configs /\ cfg.grpc # NoAddress
      BY <2>3 DEF IndInv, TypeOK, RegInv, ReadersLast
    <2>6. /\ (cfg.advertiseGRPC = NoAddress /\ cfg.grpc.port # "") =>
                /\ instance.addr.grpc.port = bound.grpc.port
                /\ ~isWildcardListenHost(instance.addr.grpc.host)
                /\ isWildcardListenHost(cfg.grpc.host) =>
                      instance.addr.grpc.host.usable /\ ipAllowedByCIDRs(instance.addr.grpc.host, cfg.cidrs)
          /\ (cfg.http # NoAddress /\ cfg.advertiseHTTP = NoAddress /\ cfg.http.port # "") =>
                instance.addr.http.port = bound.http.port
      BY <2>1, <2>5, BoundIsReachable DEF GRPCBound
    <2>7. reported # Unregistered.addr =>
              reported.grpc.port = instance.addr.grpc.port /\ reported.http.port = instance.addr.http.port
      BY <2>1, SamePorts DEF RegInv, ReportedSound
    <2> QED BY <2>1, <2>4, <2>6, <2>7 DEF RegisteredIsReachable, GRPCBound
  <1> QED BY <1>1, Invariant, RegistrationInvariant, LeftInvariant, PTL
================================================================================
