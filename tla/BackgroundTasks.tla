-------------------------- MODULE BackgroundTasks --------------------------
(***************************************************************************)
(* The in-memory BackgroundTaskStore and everyone who writes to it: the    *)
(* goroutines of background agents and of background Bash and PowerShell   *)
(* commands, and the callers of Stop and Resume (TaskStop, /tasks stop,    *)
(* /tasks resume).  s.mu makes one store operation atomic; Stop and Resume *)
(* let go of it around the call to the task's controller.                  *)
(*                                                                         *)
(* Every run of a task has a number: an agent gets a new one each time it  *)
(* is resumed, a command has run 1 only.                                   *)
(*                                                                         *)
(* A command is a shell, which a timeout or Stop kills, and the processes  *)
(* it leaves behind, which nobody kills: Wait does not return while one of *)
(* them holds the pipes of its output.                                     *)
(***************************************************************************)
EXTENDS Integers, FiniteSets

CONSTANTS
    Agents,     \* background tasks that are agents
    Shells,     \* background tasks that are commands
    Caller,     \* goroutines that may be in Stop or Resume at once
    MaxRuns,    \* bound: runs of one agent
    MaxCalls    \* bound: calls of Stop and Resume

ASSUME TaskAssumption == Agents \cap Shells = {}
ASSUME BoundsAssumption == MaxRuns \in Nat \ {0} /\ MaxCalls \in Nat

Task == Agents \cup Shells
Run == 1 .. MaxRuns
Final == {"completed", "failed", "stopped"}

\* An entry of the store; stopper is the run its controller cancels.
Entry == [present : BOOLEAN, status : {"running"} \cup Final,
          controls : BOOLEAN, stopper : 0 .. MaxRuns]
Absent == [present |-> FALSE, status |-> "stopped", controls |-> FALSE, stopper |-> 0]

VARIABLES
    entry,      \* BackgroundTaskStore.tasks
    run,        \* run[t][n]: "none", "live", how it returned, or "reported"
    cancelled,  \* the runs whose context is cancelled
    tool,       \* the tool a command was started by
    shell,      \* how far the goroutine that waits for a command has come
    output,     \* who holds the output of a command open: its shell, after it
                \* a process it left behind ("child"), or nobody ("closed")
    told,       \* history: answers and notifications about a command
    pc,         \* where a Stop or Resume is
    on,         \* the task it is about
    seen,       \* the entry it read
    calls       \* calls of Stop and Resume so far

vars == <<entry, run, cancelled, tool, shell, output, told, pc, on, seen, calls>>

\* The type invariant.
TypeOK ==
    /\ entry \in [Task -> Entry]
    /\ run \in [Task -> [Run -> {"none", "live", "reported"} \cup Final]]
    /\ cancelled \in [Task -> SUBSET Run]
    /\ tool \in [Shells -> {"Bash", "PowerShell"}]
    /\ shell \in [Shells -> {"none", "foreground", "consuming", "updated",
                             "removed", "notified", "done"}]
    /\ output \in [Shells -> {"shell", "child", "closed"}]
    /\ told \in [Shells -> 0 .. 2]
    /\ pc \in [Caller -> {"idle", "stopping", "cancelled", "resuming", "resumed"}]
    /\ on \in [Caller -> Task]
    /\ seen \in [Caller -> Entry]
    /\ calls \in 0 .. MaxCalls

Init ==
    /\ entry = [t \in Task |-> Absent]
    /\ run = [t \in Task |-> [n \in Run |-> "none"]]
    /\ cancelled = [t \in Task |-> {}]
    /\ tool = [t \in Shells |-> "Bash"]
    /\ shell = [t \in Shells |-> "none"]
    /\ output = [t \in Shells |-> "shell"]
    /\ told = [t \in Shells |-> 0]
    /\ pc = [c \in Caller |-> "idle"]
    /\ on \in [Caller -> Task] /\ \A c, d \in Caller : on[c] = on[d]
    /\ seen = [c \in Caller |-> Absent]
    /\ calls = 0

-----------------------------------------------------------------------------
(* The operations of the store. *)

\* Faulty: the entry of a task that is there keeps its controller.
RegisterKeepsController(t, n) ==
    entry' = [entry EXCEPT ![t] = [present |-> TRUE, status |-> "running", controls |-> TRUE,
                stopper |-> IF entry[t].present THEN entry[t].stopper ELSE n]]

\* Register: a running task whose controller cancels run n.
Register(t, n) ==
    entry' = [entry EXCEPT ![t] = [present |-> TRUE, status |-> "running",
                                   controls |-> TRUE, stopper |-> n]]

\* Update: the snapshot of a task that is still there; its controller stays.
Update(t, s, ctl) ==
    entry' = [entry EXCEPT ![t] =
        IF entry[t].present
        THEN [present |-> TRUE, status |-> s, controls |-> ctl, stopper |-> entry[t].stopper]
        ELSE entry[t]]

Remove(t) == entry' = [entry EXCEPT ![t] = Absent]

SetRun(t, n, s) == run' = [run EXCEPT ![t] = [run[t] EXCEPT ![n] = s]]
Cancel(t, n) == cancelled' = [cancelled EXCEPT ![t] = cancelled[t] \cup {n}]

shellVars == <<tool, shell, output, told>>
callVars == <<pc, on, seen, calls>>

-----------------------------------------------------------------------------
(* Runs. *)

\* launchBackground.
Launch(t) ==
    /\ t \in Agents /\ run[t][1] = "none"
    /\ Register(t, 1) /\ SetRun(t, 1, "live")
    /\ UNCHANGED <<cancelled, shellVars, callVars>>

\* The context of the tool call that launched the agent is cancelled.
ParentCancels(t) ==
    /\ t \in Agents /\ run[t][1] = "live" /\ 1 \notin cancelled[t]
    /\ Cancel(t, 1)
    /\ UNCHANGED <<entry, run, shellVars, callVars>>

\* startBackgroundCommand of either tool, or Bash's executeSwitchableCommand
\* up to its select.
Start(t) ==
    /\ t \in Shells /\ shell[t] = "none"
    /\ Register(t, 1) /\ SetRun(t, 1, "live")
    /\ \E u \in {"Bash", "PowerShell"}, phase \in {"foreground", "consuming"} :
        /\ phase = "foreground" => u = "Bash"
        /\ tool' = [tool EXCEPT ![t] = u]
        /\ shell' = [shell EXCEPT ![t] = phase]
    /\ UNCHANGED <<cancelled, output, told, callVars>>

\* The shell of a command ends: by itself, by its timeout, or because it was
\* cancelled.  A process it has started may live on and hold its output.
ShellEnds(t) ==
    /\ t \in Shells /\ run[t][1] = "live" /\ output[t] = "shell"
    /\ \E next \in {"child", "closed"} : output' = [output EXCEPT ![t] = next]
    /\ UNCHANGED <<entry, run, cancelled, tool, shell, told, callVars>>

\* The last process that the shell left behind ends too, if ever.
ChildEnds(t) ==
    /\ t \in Shells /\ output[t] = "child"
    /\ output' = [output EXCEPT ![t] = "closed"]
    /\ UNCHANGED <<entry, run, cancelled, tool, shell, told, callVars>>

\* The agent returns, or Wait for a command does: with what it came to by
\* itself, by its timeout, or because it was cancelled; a cancelled one may
\* have finished just before.
Returns(t, n) ==
    /\ run[t][n] = "live"
    /\ t \in Shells => output[t] = "closed"
    /\ \/ SetRun(t, n, "completed")
       \/ (n \notin cancelled[t] \/ t \in Shells) /\ SetRun(t, n, "failed")
       \/ n \in cancelled[t] /\ SetRun(t, n, "stopped")
    /\ UNCHANGED <<entry, cancelled, shellVars, callVars>>

\* Faulty: a run that failed is forgotten.
ReportsSuccess(t, n) ==
    /\ t \in Agents /\ run[t][n] \in Final
    /\ IF run[t][n] = "failed" THEN UNCHANGED entry ELSE Update(t, run[t][n], run[t][n] # "stopped")
    /\ SetRun(t, n, "reported")
    /\ UNCHANGED <<cancelled, shellVars, callVars>>

\* runBackgroundTask tells the store how its run ended.
Reports(t, n) ==
    /\ t \in Agents /\ run[t][n] \in Final
    /\ Update(t, run[t][n], run[t][n] # "stopped")
    /\ SetRun(t, n, "reported")
    /\ UNCHANGED <<cancelled, shellVars, callVars>>

-----------------------------------------------------------------------------
(* Commands. *)

Told(t) == told' = [told EXCEPT ![t] = told[t] + 1]

\* The result arrives while executeSwitchableCommand still waits.
ForegroundResult(t) ==
    /\ t \in Shells /\ shell[t] = "foreground" /\ run[t][1] \in Final
    /\ Remove(t) /\ Told(t)
    /\ shell' = [shell EXCEPT ![t] = "done"]
    /\ UNCHANGED <<run, cancelled, tool, output, callVars>>

\* The blocking budget is used up first.
AutoBackground(t) ==
    /\ t \in Shells /\ shell[t] = "foreground"
    /\ shell' = [shell EXCEPT ![t] = "consuming"]
    /\ UNCHANGED <<entry, run, cancelled, tool, output, told, callVars>>

\* Faulty: the result of the interrupted command is still awaited.
InterruptedConsumed(t) ==
    /\ t \in Shells /\ shell[t] = "foreground"
    /\ Cancel(t, 1) /\ Remove(t) /\ Told(t)
    /\ shell' = [shell EXCEPT ![t] = "consuming"]
    /\ UNCHANGED <<run, tool, output, callVars>>

\* The user interrupts the call first.
Interrupted(t) ==
    /\ t \in Shells /\ shell[t] = "foreground"
    /\ Cancel(t, 1) /\ Remove(t) /\ Told(t)
    /\ shell' = [shell EXCEPT ![t] = "done"]
    /\ UNCHANGED <<run, tool, output, callVars>>

\* consumeBackgroundResult, and the goroutine PowerShell starts in its place:
\* update; then Bash removes and notifies, PowerShell notifies and removes.
Consume(t) ==
    /\ t \in Shells /\ shell[t] = "consuming" /\ run[t][1] \in Final
    /\ Update(t, run[t][1], tool[t] = "Bash")
    /\ shell' = [shell EXCEPT ![t] = "updated"]
    /\ UNCHANGED <<run, cancelled, tool, output, told, callVars>>

RemoveDone(t) ==
    /\ t \in Shells
    /\ IF tool[t] = "PowerShell"
       THEN /\ shell[t] = "notified" /\ shell' = [shell EXCEPT ![t] = "done"]
       ELSE /\ shell[t] = "updated" /\ shell' = [shell EXCEPT ![t] = "removed"]
    /\ Remove(t)
    /\ UNCHANGED <<run, cancelled, tool, output, told, callVars>>

\* Faulty: the notification waits for the entry to be removed, in either tool.
NotifyAfterRemove(t) ==
    /\ t \in Shells /\ shell[t] = "removed"
    /\ Told(t) /\ shell' = [shell EXCEPT ![t] = "done"]
    /\ UNCHANGED <<entry, run, cancelled, tool, output, callVars>>

Notify(t) ==
    /\ t \in Shells
    /\ IF tool[t] = "PowerShell"
       THEN /\ shell[t] = "updated" /\ shell' = [shell EXCEPT ![t] = "notified"]
       ELSE /\ shell[t] = "removed" /\ shell' = [shell EXCEPT ![t] = "done"]
    /\ Told(t)
    /\ UNCHANGED <<entry, run, cancelled, tool, output, callVars>>

-----------------------------------------------------------------------------
(* Stop and Resume. *)

\* A call reads the entry of t.
Read(c, t, next) ==
    /\ pc[c] = "idle" /\ calls < MaxCalls
    /\ calls' = calls + 1
    /\ pc' = [pc EXCEPT ![c] = next]
    /\ on' = [on EXCEPT ![c] = t]
    /\ seen' = [seen EXCEPT ![c] = entry[t]]
    /\ UNCHANGED <<entry, run, cancelled, shellVars>>

Advance(c, from, to) ==
    /\ pc[c] = from
    /\ pc' = [pc EXCEPT ![c] = to]
    /\ seen' = [seen EXCEPT ![c] = IF to = "idle" THEN Absent ELSE seen[c]]
    /\ UNCHANGED <<on, calls, shellVars>>

\* Faulty: no look at whether the task can be stopped.
StopReadsUnchecked(c, t) == Read(c, t, "stopping")

\* Stop: the entry is read,
StopReads(c, t) ==
    /\ entry[t].present /\ entry[t].controls
    /\ Read(c, t, "stopping")

\* its controller cancels the run,
StopCancels(c) ==
    /\ Advance(c, "stopping", "cancelled")
    /\ Cancel(on[c], seen[c].stopper)
    /\ UNCHANGED <<entry, run>>

\* and the entry that was read is written back, as stopped.
StopUpdates(c) ==
    /\ Advance(c, "cancelled", "idle")
    /\ Update(on[c], "stopped", FALSE)
    /\ UNCHANGED <<run, cancelled>>

\* Resume: the entry is read,
ResumeReads(c, t) ==
    /\ t \in Agents /\ entry[t].present /\ entry[t].status = "stopped"
    /\ Read(c, t, "resuming")

\* resumeBackgroundTask registers and starts a new run,
ResumeRegisters(c) ==
    /\ Advance(c, "resuming", "resumed")
    /\ \E n \in Run :
        /\ run[on[c]][n] = "none" /\ \A m \in 1 .. n - 1 : run[on[c]][m] # "none"
        /\ SetRun(on[c], n, "live")
        /\ Register(on[c], n)
    /\ UNCHANGED cancelled

\* and the entry, whatever it is by now, is marked running.
ResumeFinishes(c) ==
    /\ Advance(c, "resumed", "idle")
    /\ Update(on[c], "running", TRUE)
    /\ UNCHANGED <<run, cancelled>>

-----------------------------------------------------------------------------
ShellStep(t) ==
    \/ Start(t) \/ ShellEnds(t) \/ ChildEnds(t) \/ ForegroundResult(t) \/ AutoBackground(t)
    \/ Interrupted(t) \/ Consume(t) \/ RemoveDone(t) \/ Notify(t)

CallStep(c) ==
    \/ StopCancels(c) \/ StopUpdates(c) \/ ResumeRegisters(c) \/ ResumeFinishes(c)

Next ==
    \/ \E t \in Task :
        \/ Launch(t) \/ ParentCancels(t) \/ ShellStep(t)
        \/ \E n \in Run : Returns(t, n) \/ Reports(t, n)
        \/ \E c \in Caller : StopReads(c, t) \/ ResumeReads(c, t)
    \/ \E c \in Caller : CallStep(c)

Spec == Init /\ [][Next]_vars

\* The timeout kills the shell, the blocking budget is finite, and the goroutines
\* that wait for a command go on whenever they can.  Nothing ends a process that
\* the shell left behind.
FairSpec ==
    /\ Spec
    /\ \A t \in Shells :
        /\ WF_vars(ShellEnds(t)) /\ WF_vars(Returns(t, 1))
        /\ WF_vars(ForegroundResult(t) \/ AutoBackground(t))
        /\ WF_vars(Consume(t)) /\ WF_vars(RemoveDone(t)) /\ WF_vars(Notify(t))

-----------------------------------------------------------------------------
(* Properties. *)

\* The runs at work that nobody has asked to stop.
Working(t) == {n \in Run : run[t][n] = "live" /\ n \notin cancelled[t]}

\* Those that Stop would not reach.
Unstoppable(t) ==
    {n \in Working(t) : ~(entry[t].present /\ entry[t].controls /\ entry[t].stopper = n)}

\* A run that works can be stopped.  It is lost from the list in three ways
\* only: another run of the task reports its end late, a Stop that read the
\* entry before the run began finishes, or a Resume that found the task listed
\* as stopped starts one more run beside it.
\* (A command is taken from the list by its owner alone, when it has ended.)
RunsStayStoppable ==
    [][\A t \in Task : \A n \in Unstoppable(t)' \ Unstoppable(t) :
        \/ \E m \in Run \ {n} : run[t][m] \in Final /\ run'[t][m] = "reported"
        \/ \E c \in Caller : /\ on[c] = t /\ pc[c] = "cancelled" /\ pc'[c] = "idle"
                             /\ seen[c].stopper # n
        \/ /\ n \in Working(t)
           /\ \E c \in Caller : on[c] = t /\ pc[c] = "resuming" /\ pc'[c] = "resumed"]_vars

\* A task listed as running has a run that is at work or about to report,
\* unless Resume marked it so after the run it had started was over already.
RunningMeansRunning ==
    [][\A t \in Task :
        /\ entry'[t].present /\ entry'[t].status = "running"
        /\ \A n \in Run : run'[t][n] \in {"none", "reported"}
        => \/ entry[t].status = "running" /\ \A n \in Run : run[t][n] \in {"none", "reported"}
           \/ \E c \in Caller : on[c] = t /\ pc[c] = "resumed" /\ pc'[c] = "idle"]_vars

\* However a command ends, and whoever tries to stop it meanwhile, its end is
\* told at most once, by the call's own answer or by one notification, and
\* when all is over it has been told and the entry is gone.
ShellToldOnce ==
    \A t \in Shells :
        /\ told[t] <= 1
        /\ shell[t] = "done" => told[t] = 1 /\ ~entry[t].present

\* A command that was started is told of in the end, unless a process that its
\* shell left behind holds its output for ever: neither the timeout nor Stop
\* reaches that one.
ShellAlwaysTold ==
    \A t \in Shells :
        \/ <>[](output[t] = "child")
        \/ shell[t] # "none" ~> told[t] = 1
=============================================================================
