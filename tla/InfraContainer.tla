---------------------------- MODULE InfraContainer ----------------------------
(***************************************************************************)
(* servicekit/infra.go: the container that creates the infra clients of a  *)
(* generation on first use and owns them.  A MySQL pool is dialed with the *)
(* lock released; the other clients are created under it.                  *)
(***************************************************************************)
EXTENDS Naturals, FiniteSets

CONSTANTS
    Nil,
    Callers,    \* goroutines that use the container
    Pools,      \* names of MySQL instances
    Shared,     \* redis, the kafka producer and consumers, etcd, elastic, minio
    MaxClients  \* bound: clients ever created

ASSUME ClientAssumption == Nil \notin Nat /\ MaxClients \in Nat

Names == Pools \cup Shared

VARIABLES
    closed,     \* the flag
    slot,       \* the client stored under each name
    closing,    \* the clients that Close has still to close
    open,       \* the clients that are open
    made,       \* how many clients were created: the last one's number
    call        \* where each caller's call is

infraVars == <<closed, slot, closing, open, made, call>>

\* A call that was never made, or that failed for another reason than closed.
NoCall == [at |-> "none", name |-> Nil, client |-> Nil]
InCall(c) == call[c].at \in {"dialing", "dialed"}

NewInfraContainer ==
    /\ closed = FALSE
    /\ slot = [n \in Names |-> Nil]
    /\ closing = {} /\ open = {} /\ made = 0
    /\ call = [c \in Callers |-> NoCall]

At(c, n, where, id) == call' = [call EXCEPT ![c] = [at |-> where, name |-> n, client |-> id]]
Fails(c) == call' = [call EXCEPT ![c] = NoCall]

\* Creating a client: every one has a number of its own.
Create == made < MaxClients /\ made' = made + 1 /\ open' = open \cup {made + 1}

\* MySQL up to the dial: the flag, the configured instance, the pool.
MySQL(c, n) ==
    /\ n \in Pools /\ ~InCall(c)
    /\ \/ closed /\ At(c, n, "refused", Nil)
       \/ ~closed /\ Fails(c)                          \* mysqlInstanceLocked
       \/ ~closed /\ slot[n] # Nil /\ At(c, n, "returned", slot[n])
       \/ ~closed /\ slot[n] = Nil /\ At(c, n, "dialing", Nil)
    /\ UNCHANGED <<closed, slot, closing, open, made>>

\* NewDBFromCompiled
Dial(c) ==
    /\ call[c].at = "dialing"
    /\ \/ Create /\ At(c, call[c].name, "dialed", made + 1)
       \/ Fails(c) /\ UNCHANGED <<open, made>>
    /\ UNCHANGED <<closed, slot, closing>>

\* Mutant: the lock is taken again and nobody looks whether Close came first.
StoreAnyway(c) ==
    /\ call[c].at = "dialed"
    /\ LET n == call[c].name
           db == call[c].client
       IN \/ /\ slot[n] # Nil
             /\ open' = open \ {db} /\ At(c, n, "returned", slot[n]) /\ UNCHANGED slot
          \/ /\ slot[n] = Nil
             /\ slot' = [slot EXCEPT ![n] = db] /\ At(c, n, "returned", db) /\ UNCHANGED open
    /\ UNCHANGED <<closed, closing, made>>

\* MySQL after the dial, under the lock again.
Store(c) ==
    /\ call[c].at = "dialed"
    /\ LET n == call[c].name
           db == call[c].client
       IN \/ /\ closed
             /\ open' = open \ {db} /\ At(c, n, "refused", Nil) /\ UNCHANGED slot
          \/ /\ ~closed /\ slot[n] # Nil
             /\ open' = open \ {db} /\ At(c, n, "returned", slot[n]) /\ UNCHANGED slot
          \/ /\ ~closed /\ slot[n] = Nil
             /\ slot' = [slot EXCEPT ![n] = db] /\ At(c, n, "returned", db) /\ UNCHANGED open
    /\ UNCHANGED <<closed, closing, made>>

\* Redis, KafkaProducer, KafkaConsumer, Etcd, Elastic and MinIO hold the lock
\* while they create the client.
Get(c, n) ==
    /\ n \in Shared /\ ~InCall(c)
    /\ \/ closed /\ At(c, n, "refused", Nil) /\ UNCHANGED <<slot, open, made>>
       \/ ~closed /\ slot[n] # Nil /\ At(c, n, "returned", slot[n]) /\ UNCHANGED <<slot, open, made>>
       \/ ~closed /\ slot[n] = Nil /\ Fails(c) /\ UNCHANGED <<slot, open, made>>
       \/ /\ ~closed /\ slot[n] = Nil
          /\ Create /\ slot' = [slot EXCEPT ![n] = made + 1] /\ At(c, n, "returned", made + 1)
    /\ UNCHANGED <<closed, closing>>

Use(c) == (\E n \in Names : MySQL(c, n) \/ Get(c, n)) \/ Dial(c) \/ Store(c)

\* Close takes the clients under the lock, and closes them without it.
CloseTakes ==
    /\ closed' = TRUE
    /\ closing' = IF closed THEN closing ELSE {slot[n] : n \in Names} \ {Nil}
    /\ UNCHANGED <<slot, open, made, call>>

CloseNext ==
    /\ \E id \in closing : closing' = closing \ {id} /\ open' = open \ {id}
    /\ UNCHANGED <<closed, slot, made, call>>

-----------------------------------------------------------------------------
(***************************************************************************)
(* No client gets lost: one that is open is stored under its name, where   *)
(* Close finds it, or is in the hands of the caller that has just dialed   *)
(* it.  Two callers that dial one pool, and a Close between the dial and   *)
(* the lock, leave nothing behind.                                         *)
(***************************************************************************)
NoStrayClient ==
    \A id \in open :
        \/ \E n \in Names : slot[n] = id /\ (closed => id \in closing)
        \/ \E c \in Callers : call[c].at = "dialed" /\ call[c].client = id
=============================================================================
