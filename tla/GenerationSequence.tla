------------------------- MODULE GenerationSequence --------------------------
(***************************************************************************)
(* servicekit/service_dataplane.go, nextGenerationSequence: the numbers    *)
(* that NewGeneration appends to service names.  A caller reads the wall   *)
(* clock once and then tries to move the process-wide atomic counter to    *)
(* the clock's reading, or to one past the counter when the clock is not   *)
(* ahead of it.  The load and the compare-and-swap are separate steps, and *)
(* the clock may stand still or be set back between two readings.  The     *)
(* names say whose they are, because the proofs about the process extend   *)
(* this module beside ServiceProcess.                                      *)
(***************************************************************************)
EXTENDS Naturals

CONSTANTS
    Builders,   \* goroutines that call NewGeneration
    Clock,      \* what time.Now().UnixNano() may return
    MaxSequence \* bound: no call begins once the counter has reached it

ASSUME ClockAssumption == Clock \subseteq Nat
ASSUME MaxSequenceAssumption == MaxSequence \in Nat

VARIABLES
    generationSequence,     \* the atomic counter
    building,               \* where each caller is
    now,                    \* the caller's reading of the clock
    last,                   \* the caller's last load of the counter
    floor,                  \* history: the largest number returned before the call began
    issued                  \* history: all numbers returned so far

sequenceVars == <<generationSequence, building, now, last, floor, issued>>

SequenceTypeOK ==
    /\ generationSequence \in Nat
    /\ building \in [Builders -> {"idle", "load", "swap"}]
    /\ now \in [Builders -> Nat]
    /\ last \in [Builders -> Nat]
    /\ floor \in [Builders -> Nat]
    /\ issued \in SUBSET Nat

SequenceInit ==
    /\ generationSequence = 0
    /\ building = [c \in Builders |-> "idle"]
    /\ now = [c \in Builders |-> 0]
    /\ last = [c \in Builders |-> 0]
    /\ floor = [c \in Builders |-> 0]
    /\ issued = {}

\* A call begins and reads the clock.
Call(c) ==
    /\ building[c] = "idle"
    /\ generationSequence < MaxSequence
    /\ \E t \in Clock : now' = [now EXCEPT ![c] = t]
    /\ \E m \in issued \cup {0} :
          /\ \A n \in issued : n <= m
          /\ floor' = [floor EXCEPT ![c] = m]
    /\ building' = [building EXCEPT ![c] = "load"]
    /\ UNCHANGED <<generationSequence, last, issued>>

Load(c) ==
    /\ building[c] = "load"
    /\ last' = [last EXCEPT ![c] = generationSequence]
    /\ building' = [building EXCEPT ![c] = "swap"]
    /\ UNCHANGED <<generationSequence, now, floor, issued>>

\* Mutant: the clock is taken as it is.
CandidateIsClock(c) == now[c]

\* Mutant: the counter itself is issued again when the clock is behind.
CandidateIsMax(c) == IF now[c] < last[c] THEN last[c] ELSE now[c]

Candidate(c) == IF now[c] <= last[c] THEN last[c] + 1 ELSE now[c]

\* CompareAndSwap succeeds: the number is returned.
Swap(c) ==
    /\ building[c] = "swap"
    /\ generationSequence = last[c]
    /\ generationSequence' = Candidate(c)
    /\ issued' = issued \cup {Candidate(c)}
    /\ building' = [building EXCEPT ![c] = "idle"]
    /\ UNCHANGED <<now, last, floor>>

\* Another caller was faster: load again.
Retry(c) ==
    /\ building[c] = "swap"
    /\ generationSequence # last[c]
    /\ building' = [building EXCEPT ![c] = "load"]
    /\ UNCHANGED <<generationSequence, now, last, floor, issued>>

SequenceStep(c) == Load(c) \/ Swap(c) \/ Retry(c)

SequenceNext == \E c \in Builders : Call(c) \/ SequenceStep(c)

\* A goroutine inside the loop keeps running.
SequenceFairness == \A c \in Builders : WF_sequenceVars(SequenceStep(c))

SequenceSpec == SequenceInit /\ [][SequenceNext]_sequenceVars /\ SequenceFairness

-----------------------------------------------------------------------------
(***************************************************************************)
(* No two calls return the same number, though they may read the same      *)
(* clock: a number that is returned was not returned before.               *)
(***************************************************************************)
NumbersAreUnique ==
    [][\A c \in Builders : (building[c] = "swap" /\ building'[c] = "idle") => Candidate(c) \notin issued]_sequenceVars

(***************************************************************************)
(* Numbers follow real time: a call returns a larger number than every     *)
(* call that returned before it began, also when the clock was set back.   *)
(***************************************************************************)
NumbersFollowRealTime ==
    [][\A c \in Builders : (building[c] = "swap" /\ building'[c] = "idle") => floor[c] < Candidate(c)]_sequenceVars

-----------------------------------------------------------------------------
(* The inductive invariant: numbers, loads and floors never exceed the     *)
(* counter.                                                                *)
CounterIsBound ==
    /\ \A n \in issued : n <= generationSequence
    /\ \A c \in Builders : floor[c] <= generationSequence
    /\ \A c \in Builders : last[c] <= generationSequence

SequenceIndInv == SequenceTypeOK /\ CounterIsBound
=============================================================================
