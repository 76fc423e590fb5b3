--------------------------- MODULE StreamingTools ---------------------------
(***************************************************************************)
(* The StreamingToolExecutor and its SiblingCascade, driven by the engine  *)
(* goroutine of one model response: streamAndConsume adds the tool calls,  *)
(* waits for them in AwaitAll, runLoop turns them into one tool_result     *)
(* message and finally Run closes the event channel.  Every tool runs in a *)
(* goroutine of its own (runTool); e.mu makes AddTool, the completion      *)
(* block of runTool, processQueue and CollectResults atomic, and nothing   *)
(* else.  The user may cancel the run at any time.                         *)
(*                                                                         *)
(* Discard is not modelled: the engine discards an executor only before a  *)
(* tool has been added to it (a failed attempt never adds tools).          *)
(***************************************************************************)
EXTENDS Integers, FiniteSets

CONSTANTS
    N,              \* tool calls in the response
    MaxConcurrent,  \* maxConcurrentToolCalls
    MayCancel       \* whether the user may cancel the run

ASSUME NAssumption == N \in Nat \ {0}
ASSUME MaxConcurrentAssumption == MaxConcurrent \in Nat \ {0}
ASSUME MayCancelAssumption == MayCancel \in BOOLEAN

Tool == 1 .. N

\* Only tools whose IsConcurrencySafe holds may overlap; Bash is not one of
\* them, and only Bash triggers the cascade.
Kind == {"safe", "exclusive", "Bash"}
Outcome == {"ok", "error", "canceled"}

VARIABLES
    kind,       \* kind[i]: the sort of tool the i-th call names
    added,      \* number of calls AddTool has seen
    status,     \* streamingTrackedTool.status, "absent" before AddTool
    result,     \* the stored result, "synthetic" for a cascade message
    done,       \* the done channels that are closed
    runner,     \* goroutine i: "none", "running", "completed", "closed", "exited"
    errored,    \* SiblingCascade.hasErrored; errored cancels the sibling context
    cancelled,  \* the run's context is cancelled
    engine,     \* "adding", "awaiting", "building", "closing", "closed"
    awaited,    \* AwaitAll has seen the done channels 1 .. awaited
    answered,   \* the calls with a tool_result part in the message
    sentLate    \* an event was sent on the closed channel

vars == <<kind, added, status, result, done, runner, errored, cancelled,
          engine, awaited, answered, sentLate>>

With(s) == {i \in Tool : status[i] = s}

-----------------------------------------------------------------------------
(* The scheduler. *)

\* canExecuteTool: an idle executor takes anything, a busy one only another
\* safe tool beside safe ones, up to the cap.  Said of the set that would run.
Compatible(R) ==
    /\ Cardinality(R) <= MaxConcurrent
    /\ \A i, j \in R : kind[i] # "safe" => i = j

\* Faulty: a tool that cannot start does not hold back the tools behind it.
StartableOvertaking(st, S) ==
    LET queued == {i \in Tool : st[i] = "queued"}
        executing == {i \in Tool : st[i] = "executing"}
    IN  /\ S \subseteq queued
        /\ S # {} => Compatible(executing \cup S)
        /\ \A i \in queued \ S : ~Compatible(executing \cup S \cup {i})

\* The loop of processQueue over the statuses st, no Bash tool having failed:
\* it starts the longest prefix of the queue that is compatible with what is
\* executing already, because a tool it cannot start stops those behind it.
Startable(st, S) ==
    LET queued == {i \in Tool : st[i] = "queued"}
        executing == {i \in Tool : st[i] = "executing"}
    IN  /\ S \subseteq queued
        /\ \A i \in S : \A j \in queued : j < i => j \in S
        /\ S # {} => Compatible(executing \cup S)
        /\ \A i \in queued \ S :
            (\A j \in queued : j < i => j \in S) => ~Compatible(executing \cup S \cup {i})

\* processQueue on the statuses st and the goroutines run.
ProcessQueue(st, run) ==
    IF errored
    THEN LET queued == {i \in Tool : st[i] = "queued"} IN
         /\ status' = [i \in Tool |-> IF i \in queued THEN "completed" ELSE st[i]]
         /\ result' = [i \in Tool |-> IF i \in queued THEN "synthetic" ELSE result[i]]
         /\ done' = done \cup queued
         /\ runner' = run
    ELSE /\ \E S \in SUBSET Tool :
                /\ Startable(st, S)
                /\ status' = [i \in Tool |-> IF i \in S THEN "executing" ELSE st[i]]
                /\ runner' = [i \in Tool |-> IF i \in S THEN "running" ELSE run[i]]
         /\ UNCHANGED <<result, done>>

-----------------------------------------------------------------------------
Init ==
    /\ kind \in [Tool -> Kind]
    /\ added = 0
    /\ status = [i \in Tool |-> "absent"]
    /\ result = [i \in Tool |-> "none"]
    /\ done = {}
    /\ runner = [i \in Tool |-> "none"]
    /\ errored = FALSE
    /\ cancelled = FALSE
    /\ engine = "adding"
    /\ awaited = 0
    /\ answered = {}
    /\ sentLate = FALSE

(* The engine goroutine. *)

\* Faulty: the loop runs once too often.
AddToolOneMore ==
    /\ engine = "adding"
    /\ added' = added + 1
    /\ engine' = IF added = N THEN "awaiting" ELSE "adding"
    /\ ProcessQueue([status EXCEPT ![added'] = "queued"], runner)
    /\ UNCHANGED <<kind, errored, cancelled, awaited, answered, sentLate>>

\* One turn of the loop over result.toolUses in streamAndConsume.
AddTool ==
    /\ engine = "adding"
    /\ added' = added + 1
    /\ engine' = IF added' = N THEN "awaiting" ELSE "adding"
    /\ ProcessQueue([status EXCEPT ![added'] = "queued"], runner)
    /\ UNCHANGED <<kind, errored, cancelled, awaited, answered, sentLate>>

\* Faulty: AwaitAll does not wait.
AwaitDoneBlind ==
    /\ engine = "awaiting"
    /\ awaited < N
    /\ awaited' = awaited + 1
    /\ UNCHANGED <<kind, added, status, result, done, runner, errored, cancelled,
                   engine, answered, sentLate>>

\* AwaitAll receives from the next done channel.
AwaitDone ==
    /\ engine = "awaiting"
    /\ awaited < N
    /\ awaited + 1 \in done
    /\ awaited' = awaited + 1
    /\ UNCHANGED <<kind, added, status, result, done, runner, errored, cancelled,
                   engine, answered, sentLate>>

\* AwaitAll sees ctx.Done() first and returns without collecting anything.
AwaitCancelled ==
    /\ engine = "awaiting"
    /\ awaited < N
    /\ cancelled
    /\ engine' = "building"
    /\ UNCHANGED <<kind, added, status, result, done, runner, errored, cancelled,
                   awaited, answered, sentLate>>

\* CollectResults: an exclusive tool that still executes holds back the rest.
Yields(i) ==
    /\ status[i] = "completed"
    /\ \A j \in With("executing") : kind[j] = "safe" \/ i < j

AwaitCollect ==
    /\ engine = "awaiting"
    /\ awaited = N
    /\ status' = [i \in Tool |-> IF Yields(i) THEN "yielded" ELSE status[i]]
    /\ engine' = "building"
    /\ UNCHANGED <<kind, added, result, done, runner, errored, cancelled,
                   awaited, answered, sentLate>>

\* runLoop appends BuildToolResultMessage to the history.
BuildToolResultMessage ==
    /\ engine = "building"
    /\ answered' = With("completed") \cup With("yielded")
    /\ engine' = "closing"
    /\ UNCHANGED <<kind, added, status, result, done, runner, errored, cancelled,
                   awaited, sentLate>>

\* The run ends, now (too many tool loops) or after further model calls, and
\* the deferred close(out) of Run is executed.
CloseOut ==
    /\ engine \in {"building", "closing"}
    /\ engine' = "closed"
    /\ UNCHANGED <<kind, added, status, result, done, runner, errored, cancelled,
                   awaited, answered, sentLate>>

(* The goroutine of tool i. *)

\* The tool reports progress or asks for approval: a send on the shared
\* channel.
SendEvent(i) ==
    /\ runner[i] = "running"
    /\ sentLate' = (sentLate \/ engine = "closed")
    /\ UNCHANGED <<kind, added, status, result, done, runner, errored, cancelled,
                   engine, awaited, answered>>

\* The tool may be interrupted once its context is cancelled.  The Bash tool
\* turns an interruption into an ordinary error.
MayEnd(i, o) ==
    o = "canceled" => kind[i] # "Bash" /\ (cancelled \/ errored)

\* Faulty: the tool that fails also answers every tool that is not done.
CompleteForAll(i, o) ==
    /\ runner[i] = "running"
    /\ MayEnd(i, o)
    /\ errored' = (errored \/ (kind[i] = "Bash" /\ o # "ok"))
    /\ status' = [status EXCEPT ![i] = "completed"]
    /\ result' = [j \in Tool |-> IF j = i THEN o
                                 ELSE IF o = "error" /\ status[j] # "absent" THEN "synthetic"
                                 ELSE result[j]]
    /\ runner' = [runner EXCEPT ![i] = "completed"]
    /\ UNCHANGED <<kind, added, done, cancelled, engine, awaited, answered, sentLate>>

\* runTool from the return of the tool to the first unlock.
Complete(i, o) ==
    /\ runner[i] = "running"
    /\ MayEnd(i, o)
    /\ errored' = (errored \/ (kind[i] = "Bash" /\ o # "ok"))
    /\ status' = [status EXCEPT ![i] = "completed"]
    /\ result' = [result EXCEPT ![i] =
                    IF errored' /\ o = "canceled" THEN "synthetic" ELSE o]
    /\ runner' = [runner EXCEPT ![i] = "completed"]
    /\ UNCHANGED <<kind, added, done, cancelled, engine, awaited, answered, sentLate>>

CloseDone(i) ==
    /\ runner[i] = "completed"
    /\ done' = done \cup {i}
    /\ runner' = [runner EXCEPT ![i] = "closed"]
    /\ UNCHANGED <<kind, added, status, result, errored, cancelled, engine,
                   awaited, answered, sentLate>>

\* Faulty: the goroutine ends without looking at the queue.
ExitOnly(i) ==
    /\ runner[i] = "closed"
    /\ runner' = [runner EXCEPT ![i] = "exited"]
    /\ UNCHANGED <<kind, added, status, result, done, errored, cancelled, engine,
                   awaited, answered, sentLate>>

\* The last act of the goroutine: start what was waiting for it.
Requeue(i) ==
    /\ runner[i] = "closed"
    /\ ProcessQueue(status, [runner EXCEPT ![i] = "exited"])
    /\ UNCHANGED <<kind, added, errored, cancelled, engine, awaited, answered, sentLate>>

\* The user interrupts the run.
Cancel ==
    /\ MayCancel
    /\ ~cancelled
    /\ cancelled' = TRUE
    /\ UNCHANGED <<kind, added, status, result, done, runner, errored, engine,
                   awaited, answered, sentLate>>

Engine ==
    \/ AddTool \/ AwaitDone \/ AwaitCancelled \/ AwaitCollect
    \/ BuildToolResultMessage \/ CloseOut

Runner(i) ==
    \/ \E o \in Outcome : Complete(i, o)
    \/ CloseDone(i)
    \/ Requeue(i)

Next ==
    \/ Engine
    \/ \E i \in Tool : Runner(i) \/ SendEvent(i)
    \/ Cancel

Spec == Init /\ [][Next]_vars

\* Goroutines are scheduled, and every tool call is assumed to end: tools have
\* timeouts, but one that a tool does not heed is outside this model.
FairSpec == Spec /\ WF_vars(Engine) /\ \A i \in Tool : WF_vars(Runner(i))

-----------------------------------------------------------------------------
\* The types of the executor's fields, of the engine and of the goroutines.
TypeOK ==
    /\ kind \in [Tool -> Kind]
    /\ added \in 0 .. N
    /\ status \in [Tool -> {"absent", "queued", "executing", "completed", "yielded"}]
    /\ result \in [Tool -> Outcome \cup {"none", "synthetic"}]
    /\ done \in SUBSET Tool
    /\ runner \in [Tool -> {"none", "running", "completed", "closed", "exited"}]
    /\ errored \in BOOLEAN
    /\ cancelled \in BOOLEAN
    /\ engine \in {"adding", "awaiting", "building", "closing", "closed"}
    /\ awaited \in 0 .. N
    /\ answered \in SUBSET Tool
    /\ sentLate \in BOOLEAN

\* The statuses, the goroutines and the done channels tell one story: a tool
\* is executing exactly while its goroutine runs it, and its channel is closed
\* only when its result is stored.
Bookkeeping ==
    /\ engine = "adding" <=> added < N
    /\ \A i \in Tool :
        /\ status[i] = "absent" <=> i > added
        /\ runner[i] = "running" <=> status[i] = "executing"
        /\ status[i] \in {"completed", "yielded"} <=> result[i] # "none"
        /\ i \in done \/ runner[i] \in {"completed", "closed", "exited"} => result[i] # "none"

\* What runs at the same time may: an exclusive tool runs alone, and safe
\* tools together up to the cap, whichever goroutine started them.
RunsCompatibly ==
    /\ Cardinality(With("executing")) <= MaxConcurrent
    /\ \A i, j \in With("executing") : i # j => kind[i] = "safe" /\ kind[j] = "safe"

\* Tool calls start in the order in which the model issued them: none runs, or
\* has run, while an earlier one is still queued.
StartsInOrder ==
    \A i, j \in Tool : i < j /\ status[i] = "queued" => status[j] \in {"absent", "queued"}

\* A tool call gets one result: what the engine has collected or sent to the
\* model never changes afterwards, by the tool or by the cascade.
ResultsFinal == [][\A i \in Tool : result[i] # "none" => result'[i] = result[i]]_vars

\* A run that was not cancelled answers every tool call of the response: the
\* tool_result message leaves no tool_use without its result.
AllAnswered == answered # {} /\ ~cancelled => answered = Tool

\* No tool call is forgotten in the queue, with or without cancellation.
NoneForgotten == \A i \in Tool : status[i] = "queued" ~> i \in done

\* Nobody sends on the event channel after it has been closed.
NoSendAfterClose == ~sentLate

-----------------------------------------------------------------------------
\* The executor's state as ToolSchedule sees it.
Schedule ==
    INSTANCE ToolSchedule WITH
        exclusive <- {i \in Tool : kind[i] # "safe"},
        phase <- [i \in Tool |->
                    CASE status[i] \in {"absent", "queued"} -> "pending"
                      [] status[i] = "executing" -> "running"
                      [] OTHER -> "finished"],
        stopped <- errored

\* The executor implements the schedule the engine promises: queueing, locks,
\* goroutines and cascades never produce another order or overlap.
ImplementsSchedule == Schedule!Spec
=============================================================================
