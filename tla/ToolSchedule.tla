---------------------------- MODULE ToolSchedule ----------------------------
(***************************************************************************)
(* What the engine promises about the order in which the tool calls of one *)
(* model response run, independent of locks, goroutines and channels:      *)
(* calls start in the order the model issued them, never more than         *)
(* MaxConcurrent together, a call that is not concurrency safe runs alone, *)
(* and after a fatal (Bash) failure no further call starts: what has not   *)
(* started is abandoned.                                                   *)
(***************************************************************************)
EXTENDS Integers, FiniteSets

CONSTANTS N, MaxConcurrent

Tool == 1 .. N

VARIABLES
    exclusive,  \* the calls that must run alone
    phase,      \* phase[i] \in {"pending", "running", "finished"}
    stopped     \* a fatal failure happened

vars == <<exclusive, phase, stopped>>

In(p) == {i \in Tool : phase[i] = p}

\* A set of calls that may run at the same time.
Compatible(R) ==
    /\ Cardinality(R) <= MaxConcurrent
    /\ \A i, j \in R : i \in exclusive => i = j

Init ==
    /\ exclusive \in SUBSET Tool
    /\ phase = [i \in Tool |-> "pending"]
    /\ stopped = FALSE

\* Some calls start, none before an earlier one.
Start(S) ==
    /\ ~stopped
    /\ S # {} /\ S \subseteq In("pending")
    /\ \A i \in S : \A j \in In("pending") : j < i => j \in S
    /\ Compatible(In("running") \cup S)
    /\ phase' = [i \in Tool |-> IF i \in S THEN "running" ELSE phase[i]]
    /\ UNCHANGED <<exclusive, stopped>>

\* A running call ends, perhaps fatally.
Finish(i) ==
    /\ phase[i] = "running"
    /\ phase' = [phase EXCEPT ![i] = "finished"]
    /\ stopped' \in {stopped, TRUE}
    /\ UNCHANGED exclusive

\* Calls that have not started are answered without being run.
Abandon(S) ==
    /\ stopped
    /\ S # {} /\ S \subseteq In("pending")
    /\ phase' = [i \in Tool |-> IF i \in S THEN "finished" ELSE phase[i]]
    /\ UNCHANGED <<exclusive, stopped>>

Next ==
    \/ \E S \in SUBSET Tool : Start(S) \/ Abandon(S)
    \/ \E i \in Tool : Finish(i)

Spec == Init /\ [][Next]_vars
=============================================================================
