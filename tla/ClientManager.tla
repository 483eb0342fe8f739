---------------------------- MODULE ClientManager ----------------------------
(***************************************************************************)
(* runtime/grpcclient/manager.go: the cache of gRPC connections that one   *)
(* process shares between its callers, with single-flight dialing.         *)
(*                                                                         *)
(* Manager.Conn has two critical sections under m.mu (lines 88-108 and     *)
(* 112-129) and a blocking dial between them that holds no lock.  Each     *)
(* critical section is one action, because nothing inside it blocks; the   *)
(* dial and the wait of the other callers are actions of their own.        *)
(*                                                                         *)
(* A dialCall is a member of Calls.  Every call dials at most once, so the *)
(* connection that call k dialed is named k as well.                       *)
(***************************************************************************)
EXTENDS Naturals, FiniteSets

CONSTANTS
    Callers,    \* goroutines that call Manager.Conn
    Services,   \* service names
    Calls,      \* dialCall objects, and the connections they dial
    Nil         \* Go's nil

ASSUME NilAssumption == Nil \notin Calls \cup Services

VARIABLES
    closed,     \* Manager.closed
    conns,      \* Manager.conns: the cached connection of a service or Nil
    dials,      \* Manager.dials: the dialCall in flight for a service or Nil
    call,       \* the dialCall objects: service, progress and result
    conn,       \* the state of each connection
    pc,         \* where each caller is in Conn
    at          \* the dialCall a caller is dialing or waiting for

vars == <<closed, conns, dials, call, conn, pc, at>>

\* "unused" is a dialCall not allocated yet, "done" one whose channel is closed.
CallRecord == [service : Services \cup {Nil}, phase : {"unused", "dialing", "done"},
               conn : Calls \cup {Nil}, failed : BOOLEAN]

NewCall == [service |-> Nil, phase |-> "unused", conn |-> Nil, failed |-> FALSE]

(***************************************************************************)
(* "none": not dialed.  "open": dialed and not closed.  "shutdown": Close  *)
(* was called on it, by the manager or by a caller that was handed it.     *)
(***************************************************************************)
ConnStates == {"none", "open", "shutdown"}

TypeOK ==
    /\ closed \in BOOLEAN
    /\ conns \in [Services -> Calls \cup {Nil}]
    /\ dials \in [Services -> Calls \cup {Nil}]
    /\ call \in [Calls -> CallRecord]
    /\ conn \in [Calls -> ConnStates]
    /\ pc \in [Callers -> {"idle", "dialing", "dialed", "waiting"}]
    /\ at \in [Callers -> Calls \cup {Nil}]

Init ==
    /\ closed = FALSE
    /\ conns = [s \in Services |-> Nil]
    /\ dials = [s \in Services |-> Nil]
    /\ call = [k \in Calls |-> NewCall]
    /\ conn = [k \in Calls |-> "none"]
    /\ pc = [g \in Callers |-> "idle"]
    /\ at = [g \in Callers |-> Nil]

\* The cached connection Conn may hand out: a shut down one does not count.
Usable(s) == conns[s] # Nil /\ conn[conns[s]] # "shutdown"

-----------------------------------------------------------------------------
(* Conn, first critical section.  A caller is turned away when the manager *)
(* is closed and is handed the cached connection when there is a usable    *)
(* one: neither changes any state of the manager.  The two that remain:    *)

\* A dial for the service is in flight: wait for it (waitDial).
ConnJoin(g, s) ==
    /\ pc[g] = "idle"
    /\ ~closed /\ ~Usable(s)
    /\ dials[s] # Nil
    /\ conns' = [conns EXCEPT ![s] = Nil]
    /\ pc' = [pc EXCEPT ![g] = "waiting"]
    /\ at' = [at EXCEPT ![g] = dials[s]]
    /\ UNCHANGED <<closed, dials, call, conn>>

\* Mutant: the dialCall is not published, so that later callers dial too.
ConnDialUnpublished(g, s) ==
    /\ pc[g] = "idle"
    /\ ~closed /\ ~Usable(s)
    /\ \E k \in Calls :
          /\ call[k].phase = "unused"
          /\ call' = [call EXCEPT ![k].service = s, ![k].phase = "dialing"]
          /\ at' = [at EXCEPT ![g] = k]
    /\ pc' = [pc EXCEPT ![g] = "dialing"]
    /\ UNCHANGED <<closed, conns, dials, conn>>

\* Nobody dials the service: publish a new dialCall and dial.
ConnDial(g, s) ==
    /\ pc[g] = "idle"
    /\ ~closed /\ ~Usable(s)
    /\ dials[s] = Nil
    /\ \E k \in Calls :
          /\ call[k].phase = "unused"
          /\ dials' = [dials EXCEPT ![s] = k]
          /\ call' = [call EXCEPT ![k].service = s, ![k].phase = "dialing"]
          /\ at' = [at EXCEPT ![g] = k]
    /\ conns' = [conns EXCEPT ![s] = Nil]
    /\ pc' = [pc EXCEPT ![g] = "dialing"]
    /\ UNCHANGED <<closed, conn>>

(* The dial, outside the lock: a connection, or an error (dialTimeout, the *)
(* caller's own context).                                                  *)
DialSucceeds(g) ==
    /\ pc[g] = "dialing"
    /\ conn' = [conn EXCEPT ![at[g]] = "open"]
    /\ call' = [call EXCEPT ![at[g]].conn = at[g]]
    /\ pc' = [pc EXCEPT ![g] = "dialed"]
    /\ UNCHANGED <<closed, conns, dials, at>>

DialFails(g) ==
    /\ pc[g] = "dialing"
    /\ call' = [call EXCEPT ![at[g]].failed = TRUE]
    /\ pc' = [pc EXCEPT ![g] = "dialed"]
    /\ UNCHANGED <<closed, conns, dials, conn, at>>

\* Mutant: the second critical section does not look at the closed flag.
InstallIgnoresClosed(g) ==
    LET k == at[g]
        s == call[k].service
    IN  /\ pc[g] = "dialed"
        /\ dials' = [dials EXCEPT ![s] = Nil]
        /\ conns' = IF call[k].failed THEN conns ELSE [conns EXCEPT ![s] = k]
        /\ call' = [call EXCEPT ![k].phase = "done"]
        /\ pc' = [pc EXCEPT ![g] = "idle"]
        /\ at' = [at EXCEPT ![g] = Nil]
        /\ UNCHANGED <<closed, conn>>

\* Mutant: a dial that finds the manager closed drops its connection unclosed.
InstallDropsConn(g) ==
    LET k == at[g]
        s == call[k].service
        kept == ~call[k].failed /\ ~closed
    IN  /\ pc[g] = "dialed"
        /\ dials' = [dials EXCEPT ![s] = Nil]
        /\ conns' = IF kept THEN [conns EXCEPT ![s] = k] ELSE conns
        /\ call' = [call EXCEPT ![k].phase = "done",
                                ![k].conn = IF kept THEN k ELSE Nil,
                                ![k].failed = ~kept]
        /\ pc' = [pc EXCEPT ![g] = "idle"]
        /\ at' = [at EXCEPT ![g] = Nil]
        /\ UNCHANGED <<closed, conn>>

\* Mutant: an error return skips close(call.done).
InstallLeavesWaiters(g) ==
    LET k == at[g]
        s == call[k].service
        kept == ~call[k].failed /\ ~closed
    IN  /\ pc[g] = "dialed"
        /\ dials' = [dials EXCEPT ![s] = Nil]
        /\ conns' = IF kept THEN [conns EXCEPT ![s] = k] ELSE conns
        /\ conn' = IF closed /\ ~call[k].failed THEN [conn EXCEPT ![k] = "shutdown"] ELSE conn
        /\ call' = IF kept THEN [call EXCEPT ![k].phase = "done"] ELSE call
        /\ pc' = [pc EXCEPT ![g] = "idle"]
        /\ at' = [at EXCEPT ![g] = Nil]
        /\ UNCHANGED closed

(***************************************************************************)
(* Conn, second critical section: unpublish the dialCall, then             *)
(*   - keep the dial's error, or                                           *)
(*   - prefer a usable connection that appeared meanwhile, or              *)
(*   - close the new connection when the manager was closed, or            *)
(*   - cache it;                                                           *)
(* and wake the waiters (close(call.done)).                                *)
(***************************************************************************)
Install(g) ==
    LET k == at[g]
        s == call[k].service
        fresh == ~call[k].failed
    IN  /\ pc[g] = "dialed"
        /\ dials' = IF dials[s] = k THEN [dials EXCEPT ![s] = Nil] ELSE dials
        /\ conn' = IF fresh /\ (Usable(s) \/ closed)
                   THEN [conn EXCEPT ![k] = "shutdown"] ELSE conn
        /\ conns' = IF fresh /\ ~Usable(s) /\ ~closed
                    THEN [conns EXCEPT ![s] = k] ELSE conns
        /\ call' = [call EXCEPT ![k].phase = "done",
                                ![k].conn = IF fresh /\ Usable(s) THEN conns[s]
                                            ELSE IF fresh /\ closed THEN Nil
                                            ELSE @,
                                ![k].failed = @ \/ (closed /\ ~Usable(s))]
        /\ pc' = [pc EXCEPT ![g] = "idle"]
        /\ at' = [at EXCEPT ![g] = Nil]
        /\ UNCHANGED closed

\* waitDial returns the outcome of the dial, or the caller's context ends first.
WaitDone(g) ==
    /\ pc[g] = "waiting"
    /\ call[at[g]].phase = "done"
    /\ pc' = [pc EXCEPT ![g] = "idle"]
    /\ at' = [at EXCEPT ![g] = Nil]
    /\ UNCHANGED <<closed, conns, dials, call, conn>>

WaitCancelled(g) ==
    /\ pc[g] = "waiting"
    /\ pc' = [pc EXCEPT ![g] = "idle"]
    /\ at' = [at EXCEPT ![g] = Nil]
    /\ UNCHANGED <<closed, conns, dials, call, conn>>

\* Manager.Close: every cached connection is closed and forgotten.
Close ==
    /\ closed' = TRUE
    /\ conn' = [k \in Calls |-> IF \E s \in Services : conns[s] = k
                                THEN "shutdown" ELSE conn[k]]
    /\ conns' = [s \in Services |-> Nil]
    /\ UNCHANGED <<dials, call, pc, at>>

(* Application code may Close a *grpc.ClientConn that Conn returned to it;  *)
(* Conn tests for connectivity.Shutdown because of that.                   *)
CallerClosesConn(k) ==
    /\ conn[k] = "open"
    /\ \E c \in Calls : call[c].phase = "done" /\ call[c].conn = k
    /\ conn' = [conn EXCEPT ![k] = "shutdown"]
    /\ UNCHANGED <<closed, conns, dials, call, pc, at>>

Next ==
    \/ \E g \in Callers :
          \/ \E s \in Services : ConnJoin(g, s) \/ ConnDial(g, s)
          \/ DialSucceeds(g) \/ DialFails(g) \/ Install(g)
          \/ WaitDone(g) \/ WaitCancelled(g)
    \/ Close
    \/ \E k \in Calls : CallerClosesConn(k)

(***************************************************************************)
(* A dial ends within dialTimeout, and a goroutine that can run does run.  *)
(* Nobody has to call Conn or Close, and no context has to be cancelled.   *)
(***************************************************************************)
Fairness ==
    \A g \in Callers : /\ WF_vars(DialSucceeds(g) \/ DialFails(g))
                       /\ WF_vars(Install(g))
                       /\ WF_vars(WaitDone(g))

Spec == Init /\ [][Next]_vars /\ Fairness

-----------------------------------------------------------------------------
InFlight(k) == call[k].phase = "dialing"

(***************************************************************************)
(* Single flight (manager.go:102-107): two calls that dial the same        *)
(* service at the same time would open two connections to it.              *)
(***************************************************************************)
SingleFlight ==
    \A j, k \in Calls :
        (InFlight(j) /\ InFlight(k) /\ call[j].service = call[k].service) => j = k

(***************************************************************************)
(* No connection is lost: one that is open is in the cache, where Close    *)
(* will find it, or in the hands of the goroutine that dialed it, which    *)
(* has still to go through the second critical section.                    *)
(***************************************************************************)
NoLeakedConn ==
    \A k \in Calls : conn[k] = "open" =>
        \/ conns[call[k].service] = k
        \/ \E g \in Callers : pc[g] = "dialed" /\ at[g] = k

(***************************************************************************)
(* What a finished dialCall hands to its dialer and to all its waiters is  *)
(* either an error or a connection of the very service they asked for that *)
(* really was dialed, and never both or neither.                           *)
(***************************************************************************)
OutcomeSound ==
    \A k \in Calls : call[k].phase = "done" =>
        /\ call[k].failed <=> call[k].conn = Nil
        /\ ~call[k].failed => /\ conn[call[k].conn] # "none"
                              /\ call[call[k].conn].service = call[k].service

(***************************************************************************)
(* Close is final: a dial that was in flight when the manager was closed   *)
(* cannot put its connection into the cache afterwards.                    *)
(***************************************************************************)
ClosedIsFinal ==
    [][closed => /\ closed'
                 /\ \A s \in Services : conns'[s] = Nil]_vars

(***************************************************************************)
(* Waiters share one outcome: call.conn and call.err are written before    *)
(* close(call.done) and never again, whatever happens to the cache.        *)
(***************************************************************************)
OutcomeIsStable ==
    [][\A k \in Calls : call[k].phase = "done" => call'[k] = call[k]]_vars

\* A caller that dials or waits in Conn returns, whoever else does what.
ConnReturns == \A g \in Callers : pc[g] # "idle" ~> pc[g] = "idle"

-----------------------------------------------------------------------------
(* The parts of the inductive invariant that SingleFlight, NoLeakedConn,   *)
(* OutcomeSound and ClosedIsFinal follow from.                             *)

Owns(g, k) == pc[g] \in {"dialing", "dialed"} /\ at[g] = k

\* A goroutine inside Conn points at a dialCall of the matching phase.
CallersPoint ==
    \A g \in Callers :
        /\ pc[g] \in {"dialing", "dialed"} => at[g] \in Calls /\ InFlight(at[g])
        /\ pc[g] = "waiting" => at[g] \in Calls /\ call[at[g]].phase # "unused"

\* Two goroutines never dial for one dialCall.
OneOwner ==
    \A g, h \in Callers : \A k \in Calls : (Owns(g, k) /\ Owns(h, k)) => g = h

\* The dialCalls in flight are exactly those Manager.dials holds for their services.
InFlightPublished ==
    /\ \A k \in Calls : InFlight(k) =>
          call[k].service \in Services /\ dials[call[k].service] = k
    /\ \A s \in Services : dials[s] # Nil =>
          InFlight(dials[s]) /\ call[dials[s]].service = s

\* What the phase of a dialCall says of its result and its connection.
UnusedSound ==
    \A k \in Calls :
        IF call[k].phase = "unused"
        THEN call[k].conn = Nil /\ ~call[k].failed /\ conn[k] = "none"
        ELSE call[k].service \in Services

DialingSound ==
    \A g \in Callers : pc[g] = "dialing" =>
        call[at[g]].conn = Nil /\ ~call[at[g]].failed /\ conn[at[g]] = "none"

DialedSound ==
    \A g \in Callers : pc[g] = "dialed" =>
        /\ call[at[g]].failed => call[at[g]].conn = Nil /\ conn[at[g]] = "none"
        /\ ~call[at[g]].failed => call[at[g]].conn = at[g] /\ conn[at[g]] # "none"

PhaseSound == UnusedSound /\ DialingSound /\ DialedSound

\* The cache holds dialed connections of the right service, none once closed.
CacheSound ==
    /\ \A s \in Services : conns[s] # Nil =>
          conn[conns[s]] # "none" /\ call[conns[s]].service = s
    /\ closed => \A s \in Services : conns[s] = Nil

IndInv ==
    /\ TypeOK /\ CallersPoint /\ OneOwner /\ InFlightPublished
    /\ PhaseSound /\ CacheSound /\ NoLeakedConn /\ OutcomeSound
=============================================================================
