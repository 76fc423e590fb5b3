----------------------- MODULE BackgroundTasksProofs -----------------------
(***************************************************************************)
(* BackgroundTasks for any tasks, callers of Stop and Resume and runs of   *)
(* an agent: what a run can be lost by, what the list says of a task, and  *)
(* that the end of a command is told once and has a goroutine to tell it.  *)
(***************************************************************************)
EXTENDS BackgroundTasks, TLAPS

RunState == {"none", "live", "reported"} \cup Final

\* The type invariant in two parts.
TaskTypes ==
    /\ entry \in [Task -> Entry]
    /\ run \in [Task -> [Run -> RunState]]
    /\ cancelled \in [Task -> SUBSET Run]
    /\ tool \in [Shells -> {"Bash", "PowerShell"}]
    /\ shell \in [Shells -> {"none", "foreground", "consuming", "updated",
                             "removed", "notified", "done"}]
    /\ output \in [Shells -> {"shell", "child", "closed"}]
    /\ told \in [Shells -> 0 .. 2]

CallTypes ==
    /\ pc \in [Caller -> {"idle", "stopping", "cancelled", "resuming", "resumed"}]
    /\ on \in [Caller -> Task]
    /\ seen \in [Caller -> Entry]
    /\ calls \in 0 .. MaxCalls

\* The parts make up the type invariant.
LEMMA Types == TypeOK <=> TaskTypes /\ CallTypes
BY DEF TypeOK, TaskTypes, CallTypes, RunState

\* A listed task has had a run, and its controller belongs to one.
Listed ==
    \A t \in Task :
        /\ entry[t].present => entry[t].stopper \in Run /\ run[t][1] # "none"
        /\ run[t][1] = "none" => \A n \in Run : run[t][n] = "none"

\* What a call knows of the task it is about.
Known ==
    \A c \in Caller :
        /\ pc[c] \in {"stopping", "cancelled"} => seen[c].stopper \in Run
        /\ pc[c] = "cancelled" => seen[c].stopper \in cancelled[on[c]]
        /\ pc[c] \in {"resuming", "resumed"} =>
              on[c] \in Agents /\ run[on[c]][1] # "none"

\* A command has one run, and is told of in step with its entry.
Command(t) ==
    /\ \A n \in Run : n # 1 => run[t][n] = "none"
    /\ shell[t] = "none" => run[t][1] = "none"
    /\ shell[t] \in {"updated", "removed", "notified"} => run[t][1] \in Final
    /\ shell[t] = "done" => run[t][1] \in Final \/ 1 \in cancelled[t]
    /\ shell[t] = "removed" => tool[t] = "Bash"
    /\ shell[t] = "notified" => tool[t] = "PowerShell"
    /\ shell[t] \in {"removed", "done"} => ~entry[t].present
    /\ told[t] = IF shell[t] \in {"notified", "done"} THEN 1 ELSE 0

Commands == \A t \in Shells : Command(t)

IInv == TaskTypes /\ CallTypes /\ Listed /\ Known /\ Commands

LEMMA Basics ==
    /\ 1 \in Run /\ Agents \subseteq Task /\ Shells \subseteq Task
    /\ \A t \in Agents : t \notin Shells
    /\ Absent \in Entry /\ ~Absent.present
    /\ \A s \in {"running"} \cup Final, b \in BOOLEAN, n \in 0 .. MaxRuns :
          [present |-> TRUE, status |-> s, controls |-> b, stopper |-> n] \in Entry
    /\ \A n \in Run : n \in 0 .. MaxRuns
BY BoundsAssumption, TaskAssumption DEF Run, Task, Absent, Entry, Final

LEMMA InitIInv == Init => IInv
<1> SUFFICES ASSUME Init PROVE IInv
  OBVIOUS
<1>1. TaskTypes
  BY Basics DEF Init, TaskTypes, RunState
<1>2. CallTypes
  BY Basics, BoundsAssumption DEF Init, CallTypes
<1>3. Listed /\ Known
  BY Basics DEF Init, Listed, Known
<1>4. Commands
  BY Basics DEF Init, Commands, Command
<1> QED
  BY <1>1, <1>2, <1>3, <1>4 DEF IInv

\* A step that leaves the calls alone, and takes neither a run nor a
\* cancellation back, keeps what the calls know.
LEMMA KnownKept ==
    ASSUME IInv, UNCHANGED callVars,
           \A t \in Task : cancelled[t] \subseteq cancelled'[t],
           \A t \in Task : run[t][1] # "none" => run'[t][1] # "none"
    PROVE  CallTypes' /\ Known'
BY DEF IInv, CallTypes, Known, callVars

\* What the operations of the store do to the entries.
LEMMA RegisterOK ==
    ASSUME TaskTypes, NEW t \in Task, NEW n \in Run, Register(t, n)
    PROVE  /\ entry' \in [Task -> Entry]
           /\ entry'[t].present /\ entry'[t].stopper = n /\ entry'[t].controls
           /\ entry'[t].status = "running"
           /\ \A u \in Task : u # t => entry'[u] = entry[u]
<1> DEFINE e == [present |-> TRUE, status |-> "running", controls |-> TRUE, stopper |-> n]
<1>1. e \in Entry /\ e.present /\ e.stopper = n /\ e.controls /\ e.status = "running"
  BY Basics
<1>2. entry' = [entry EXCEPT ![t] = e]
  BY DEF Register
<1> HIDE DEF e
<1> QED
  BY <1>1, <1>2 DEF TaskTypes

LEMMA UpdateOK ==
    ASSUME TaskTypes, NEW t \in Task, NEW s \in {"running"} \cup Final, NEW b \in BOOLEAN,
           Update(t, s, b)
    PROVE  /\ entry' \in [Task -> Entry]
           /\ \A u \in Task : entry'[u].present = entry[u].present
           /\ \A u \in Task : entry'[u].stopper = entry[u].stopper
           /\ entry[t].present => entry'[t].status = s /\ entry'[t].controls = b
           /\ ~entry[t].present => entry'[t] = entry[t]
           /\ \A u \in Task : u # t => entry'[u] = entry[u]
<1> DEFINE e == [present |-> TRUE, status |-> s, controls |-> b, stopper |-> entry[t].stopper]
<1>1. entry[t] \in Entry
  BY DEF TaskTypes
<1>2. e \in Entry
  BY <1>1, Basics DEF Entry
<1>3. e.present /\ e.stopper = entry[t].stopper /\ e.controls = b /\ e.status = s
  OBVIOUS
<1>4. entry' = [entry EXCEPT ![t] = IF entry[t].present THEN e ELSE entry[t]]
  BY DEF Update
<1>5. entry[t].present \in BOOLEAN
  BY <1>1 DEF Entry
<1> HIDE DEF e
<1>6. CASE entry[t].present
  BY <1>1, <1>2, <1>3, <1>4, <1>5, <1>6 DEF TaskTypes
<1>7. CASE ~entry[t].present
  BY <1>1, <1>4, <1>7 DEF TaskTypes
<1> QED
  BY <1>6, <1>7

LEMMA RemoveOK ==
    ASSUME TaskTypes, NEW t \in Task, Remove(t)
    PROVE  /\ entry' \in [Task -> Entry]
           /\ ~entry'[t].present
           /\ \A u \in Task : u # t => entry'[u] = entry[u]
BY Basics DEF TaskTypes, Remove

\* What SetRun and Cancel do.
LEMMA SetRunOK ==
    ASSUME TaskTypes, NEW t \in Task, NEW n \in Run, NEW s \in RunState, SetRun(t, n, s)
    PROVE  /\ run' \in [Task -> [Run -> RunState]]
           /\ run'[t][n] = s
           /\ \A u \in Task, m \in Run : u # t \/ m # n => run'[u][m] = run[u][m]
<1>1. [run[t] EXCEPT ![n] = s] \in [Run -> RunState]
  BY DEF TaskTypes
<1> QED
  BY <1>1 DEF TaskTypes, SetRun

LEMMA CancelOK ==
    ASSUME TaskTypes, NEW t \in Task, NEW n \in Run, Cancel(t, n)
    PROVE  /\ cancelled' \in [Task -> SUBSET Run]
           /\ n \in cancelled'[t]
           /\ \A u \in Task : cancelled[u] \subseteq cancelled'[u]
           /\ \A u \in Task, m \in Run : u # t \/ m # n => (m \in cancelled'[u] <=> m \in cancelled[u])
BY DEF TaskTypes, Cancel

-----------------------------------------------------------------------------
(* Each action keeps the invariant. *)

LEMMA LaunchIInv == ASSUME NEW t \in Task PROVE IInv /\ Launch(t) => IInv'
<1> SUFFICES ASSUME IInv, Launch(t) PROVE IInv'
  OBVIOUS
<1>1. TaskTypes /\ Listed /\ Commands /\ t \notin Shells
  BY Basics DEF IInv, Launch
<1>2. Register(t, 1) /\ SetRun(t, 1, "live") /\ UNCHANGED <<cancelled, shellVars, callVars>>
  BY DEF Launch
<1>3. /\ entry' \in [Task -> Entry] /\ entry'[t].stopper = 1
      /\ \A u \in Task : u # t => entry'[u] = entry[u]
  BY <1>1, <1>2, Basics, RegisterOK
<1>4. /\ run' \in [Task -> [Run -> RunState]] /\ run'[t][1] = "live"
      /\ \A u \in Task, m \in Run : u # t \/ m # 1 => run'[u][m] = run[u][m]
  BY <1>1, <1>2, Basics, SetRunOK DEF RunState
<1>5. TaskTypes'
  BY <1>1, <1>2, <1>3, <1>4 DEF TaskTypes, shellVars
<1>6. Listed'
  BY <1>1, <1>3, <1>4, Basics DEF Listed
<1>7. CallTypes' /\ Known'
  BY <1>2, <1>4, KnownKept, Basics
<1>8. Commands'
  <2> SUFFICES ASSUME NEW v \in Shells PROVE Command(v)'
    BY DEF Commands
  <2>1. v \in Task /\ v # t /\ Command(v)
    BY <1>1, Basics DEF Commands
  <2> QED
    BY <1>2, <1>3, <1>4, <2>1, Basics DEF Command, shellVars
<1> QED
  BY <1>5, <1>6, <1>7, <1>8 DEF IInv

LEMMA ParentCancelsIInv == ASSUME NEW t \in Task PROVE IInv /\ ParentCancels(t) => IInv'
<1> SUFFICES ASSUME IInv, ParentCancels(t) PROVE IInv'
  OBVIOUS
<1>1. TaskTypes /\ Listed /\ Commands /\ t \notin Shells
  BY Basics DEF IInv, ParentCancels
<1>2. Cancel(t, 1) /\ UNCHANGED <<entry, run, shellVars, callVars>>
  BY DEF ParentCancels
<1>3. /\ cancelled' \in [Task -> SUBSET Run]
      /\ \A u \in Task : cancelled[u] \subseteq cancelled'[u]
  BY <1>1, <1>2, Basics, CancelOK
<1>4. TaskTypes' /\ Listed'
  BY <1>1, <1>2, <1>3 DEF TaskTypes, Listed, shellVars
<1>5. CallTypes' /\ Known'
  BY <1>2, <1>3, KnownKept
<1>6. Commands'
  BY <1>1, <1>2, <1>3, Basics DEF Commands, Command, shellVars
<1> QED
  BY <1>4, <1>5, <1>6 DEF IInv

LEMMA StartIInv == ASSUME NEW t \in Task PROVE IInv /\ Start(t) => IInv'
<1> SUFFICES ASSUME IInv, Start(t) PROVE IInv'
  OBVIOUS
<1>1. TaskTypes /\ Listed /\ Commands /\ t \in Shells /\ shell[t] = "none"
  BY DEF IInv, Start
<1>2. Register(t, 1) /\ SetRun(t, 1, "live") /\ UNCHANGED <<cancelled, output, told, callVars>>
  BY DEF Start
<1>3. /\ entry' \in [Task -> Entry] /\ entry'[t].stopper = 1
      /\ \A u \in Task : u # t => entry'[u] = entry[u]
  BY <1>1, <1>2, Basics, RegisterOK
<1>4. /\ run' \in [Task -> [Run -> RunState]] /\ run'[t][1] = "live"
      /\ \A u \in Task, m \in Run : u # t \/ m # 1 => run'[u][m] = run[u][m]
  BY <1>1, <1>2, Basics, SetRunOK DEF RunState
<1>5. PICK u \in {"Bash", "PowerShell"}, phase \in {"foreground", "consuming"} :
          tool' = [tool EXCEPT ![t] = u] /\ shell' = [shell EXCEPT ![t] = phase]
  BY DEF Start
<1>6. TaskTypes'
  BY <1>1, <1>2, <1>3, <1>4, <1>5 DEF TaskTypes
<1>7. Listed'
  BY <1>1, <1>3, <1>4, Basics DEF Listed
<1>8. CallTypes' /\ Known'
  BY <1>2, <1>4, KnownKept, Basics
<1>9. Commands'
  <2> SUFFICES ASSUME NEW v \in Shells PROVE Command(v)'
    BY DEF Commands
  <2>1. CASE v = t
    <3>1. shell'[t] = phase
      BY <1>1, <1>5 DEF TaskTypes
    <3>2. Command(t) /\ \A n \in Run : n # 1 => run'[t][n] = run[t][n]
      BY <1>1, <1>4, Basics DEF Commands
    <3> QED
      BY <1>1, <1>2, <1>4, <2>1, <3>1, <3>2, Basics DEF Command
  <2>2. CASE v # t
    BY <1>1, <1>2, <1>3, <1>4, <1>5, <2>2, Basics DEF Commands, Command, TaskTypes
  <2> QED
    BY <2>1, <2>2
<1> QED
  BY <1>6, <1>7, <1>8, <1>9 DEF IInv

LEMMA ReturnsIInv ==
    ASSUME NEW t \in Task, NEW n \in Run PROVE IInv /\ Returns(t, n) => IInv'
<1> SUFFICES ASSUME IInv, Returns(t, n) PROVE IInv'
  OBVIOUS
<1>1. TaskTypes /\ Listed /\ Commands /\ run[t][n] = "live"
  BY DEF IInv, Returns
<1>2. PICK s \in Final : SetRun(t, n, s)
  BY DEF Returns, Final
<1>3. UNCHANGED <<entry, cancelled, shellVars, callVars>>
  BY DEF Returns
<1>4. /\ run' \in [Task -> [Run -> RunState]] /\ run'[t][n] = s
      /\ \A u \in Task, m \in Run : u # t \/ m # n => run'[u][m] = run[u][m]
  BY <1>1, <1>2, SetRunOK DEF RunState
<1>5. s # "none" /\ s \in Final /\ "live" \notin Final
  BY DEF Final
<1>6. \A u \in Task : (run'[u][1] = "none" <=> run[u][1] = "none")
  BY <1>1, <1>4, <1>5, Basics
<1>7. TaskTypes'
  BY <1>1, <1>3, <1>4 DEF TaskTypes, shellVars
<1>8. Listed'
  BY <1>1, <1>3, <1>4, <1>5, <1>6, Basics DEF Listed
<1>9. CallTypes' /\ Known'
  BY <1>3, <1>6, KnownKept
<1>10. Commands'
  <2> SUFFICES ASSUME NEW v \in Shells PROVE Command(v)'
    BY DEF Commands
  <2>1. CASE v = t
    BY <1>1, <1>3, <1>4, <1>5, <1>6, <2>1, Basics DEF Commands, Command, shellVars
  <2>2. CASE v # t
    BY <1>1, <1>3, <1>4, <2>2, Basics DEF Commands, Command, shellVars
  <2> QED
    BY <2>1, <2>2
<1> QED
  BY <1>7, <1>8, <1>9, <1>10 DEF IInv

LEMMA ReportsIInv ==
    ASSUME NEW t \in Task, NEW n \in Run PROVE IInv /\ Reports(t, n) => IInv'
<1> SUFFICES ASSUME IInv, Reports(t, n) PROVE IInv'
  OBVIOUS
<1>1. /\ TaskTypes /\ Listed /\ Commands /\ t \notin Shells
      /\ run[t][n] \in {"running"} \cup Final /\ run[t][n] # "none"
  BY Basics DEF IInv, Reports, Final
<1>2. /\ Update(t, run[t][n], run[t][n] # "stopped") /\ SetRun(t, n, "reported")
      /\ UNCHANGED <<cancelled, shellVars, callVars>>
  BY DEF Reports
<1>3. /\ entry' \in [Task -> Entry]
      /\ \A u \in Task : entry'[u].present = entry[u].present
      /\ \A u \in Task : entry'[u].stopper = entry[u].stopper
  BY <1>1, <1>2, UpdateOK
<1>4. /\ run' \in [Task -> [Run -> RunState]] /\ run'[t][n] = "reported"
      /\ \A u \in Task, m \in Run : u # t \/ m # n => run'[u][m] = run[u][m]
  BY <1>1, <1>2, SetRunOK DEF RunState
<1>5. \A u \in Task : (run'[u][1] = "none" <=> run[u][1] = "none")
  BY <1>1, <1>4, Basics
<1>6. TaskTypes'
  BY <1>1, <1>2, <1>3, <1>4 DEF TaskTypes, shellVars
<1>7. Listed'
  <2> SUFFICES ASSUME NEW u \in Task
               PROVE  /\ entry'[u].present => entry'[u].stopper \in Run /\ run'[u][1] # "none"
                      /\ run'[u][1] = "none" => \A m \in Run : run'[u][m] = "none"
    BY DEF Listed
  <2>1. entry'[u].present => entry'[u].stopper \in Run /\ run'[u][1] # "none"
    BY <1>1, <1>3, <1>5 DEF Listed
  <2>2. ASSUME run'[u][1] = "none", NEW m \in Run PROVE run'[u][m] = "none"
    BY <1>1, <1>4, <1>5, <2>2 DEF Listed
  <2> QED
    BY <2>1, <2>2
<1>8. CallTypes' /\ Known'
  BY <1>2, <1>5, KnownKept
<1>9. Commands'
  <2> SUFFICES ASSUME NEW v \in Shells PROVE Command(v)'
    BY DEF Commands
  <2>1. v \in Task /\ v # t /\ Command(v)
    BY <1>1, Basics DEF Commands
  <2>2. \A m \in Run : run'[v][m] = run[v][m]
    BY <1>4, <2>1
  <2>3. entry'[v].present = entry[v].present
    BY <1>3, <2>1
  <2> QED
    BY <1>2, <2>1, <2>2, <2>3, Basics DEF Command, shellVars
<1> QED
  BY <1>6, <1>7, <1>8, <1>9 DEF IInv

\* The shell of a command, or the process it left behind, ends.
LEMMA OutputIInv ==
    ASSUME NEW t \in Task PROVE IInv /\ (ShellEnds(t) \/ ChildEnds(t)) => IInv'
<1> SUFFICES ASSUME IInv, ShellEnds(t) \/ ChildEnds(t) PROVE IInv'
  OBVIOUS
<1>1. UNCHANGED <<entry, run, cancelled, tool, shell, told, callVars>>
  BY DEF ShellEnds, ChildEnds
<1>2. output' \in [Shells -> {"shell", "child", "closed"}]
  BY DEF IInv, TaskTypes, ShellEnds, ChildEnds
<1>3. TaskTypes' /\ Listed' /\ Commands'
  BY <1>1, <1>2 DEF IInv, TaskTypes, Listed, Commands, Command
<1>4. CallTypes' /\ Known'
  BY <1>1, KnownKept
<1> QED
  BY <1>3, <1>4 DEF IInv

\* Commands: the entry is updated or removed, and the waiting goroutine moves on.
LEMMA ShellStepIInv ==
    ASSUME IInv, NEW t \in Shells, UNCHANGED <<run, tool, output, callVars>>,
           entry' \in [Task -> Entry],
           \A u \in Task : entry'[u].present => entry[u].present,
           \A u \in Task : entry'[u].stopper = entry[u].stopper \/ ~entry'[u].present,
           cancelled' \in [Task -> SUBSET Run],
           \A u \in Task : cancelled[u] \subseteq cancelled'[u],
           shell' \in [Shells -> {"none", "foreground", "consuming", "updated",
                                  "removed", "notified", "done"}],
           \A u \in Shells \ {t} : shell'[u] = shell[u],
           told' \in [Shells -> 0 .. 2],
           \A u \in Shells \ {t} : told'[u] = told[u],
           Command(t)'
    PROVE  IInv'
<1>1. TaskTypes /\ Listed /\ Commands
  BY DEF IInv
<1>2. TaskTypes'
  BY <1>1 DEF TaskTypes
<1>3. Listed'
  BY <1>1 DEF Listed
<1>4. CallTypes' /\ Known'
  BY KnownKept
<1>5. Commands'
  <2> SUFFICES ASSUME NEW u \in Shells, u # t PROVE Command(u)'
    BY DEF Commands
  <2> QED
    BY <1>1, Basics DEF Commands, Command
<1> QED
  BY <1>2, <1>3, <1>4, <1>5 DEF IInv

\* The first message about a command.
LEMMA ToldOK ==
    ASSUME TaskTypes, NEW t \in Shells, told[t] = 0, Told(t)
    PROVE  /\ told' \in [Shells -> 0 .. 2] /\ told'[t] = 1
           /\ \A u \in Shells \ {t} : told'[u] = told[u]
BY DEF TaskTypes, Told

LEMMA ForegroundIInv ==
    ASSUME NEW t \in Task PROVE IInv /\ (ForegroundResult(t) \/ Interrupted(t)) => IInv'
<1> SUFFICES ASSUME IInv, ForegroundResult(t) \/ Interrupted(t) PROVE IInv'
  OBVIOUS
<1>1. /\ TaskTypes /\ Command(t) /\ t \in Shells /\ shell[t] = "foreground"
      /\ told[t] = 0
  BY DEF IInv, Commands, Command, ForegroundResult, Interrupted
<1>2. /\ Remove(t) /\ Told(t) /\ shell' = [shell EXCEPT ![t] = "done"]
      /\ UNCHANGED <<run, tool, output, callVars>>
  BY DEF ForegroundResult, Interrupted
<1>3. /\ cancelled' \in [Task -> SUBSET Run]
      /\ \A u \in Task : cancelled[u] \subseteq cancelled'[u]
      /\ run[t][1] \in Final \/ 1 \in cancelled'[t]
  <2>1. CASE ForegroundResult(t)
    BY <1>1, <2>1 DEF ForegroundResult, TaskTypes
  <2>2. CASE Interrupted(t)
    BY <1>1, <2>2, CancelOK, Basics DEF Interrupted
  <2> QED
    BY <2>1, <2>2
<1>4. /\ entry' \in [Task -> Entry] /\ ~entry'[t].present
      /\ \A u \in Task : u # t => entry'[u] = entry[u]
  BY <1>1, <1>2, RemoveOK
<1>5. told' \in [Shells -> 0 .. 2] /\ told'[t] = 1 /\ \A u \in Shells \ {t} : told'[u] = told[u]
  BY <1>1, <1>2, ToldOK
<1>6. Command(t)'
  BY <1>1, <1>2, <1>3, <1>4, <1>5 DEF Command, TaskTypes
<1> QED
  BY <1>1, <1>2, <1>3, <1>4, <1>5, <1>6, ShellStepIInv DEF TaskTypes

LEMMA AutoBackgroundIInv == ASSUME NEW t \in Task PROVE IInv /\ AutoBackground(t) => IInv'
<1> SUFFICES ASSUME IInv, AutoBackground(t) PROVE IInv'
  OBVIOUS
<1>1. TaskTypes /\ Command(t) /\ t \in Shells /\ shell[t] = "foreground"
  BY DEF IInv, Commands, AutoBackground
<1>2. /\ shell' = [shell EXCEPT ![t] = "consuming"]
      /\ UNCHANGED <<entry, run, cancelled, tool, output, told, callVars>>
  BY DEF AutoBackground
<1>3. Command(t)'
  BY <1>1, <1>2 DEF Command, TaskTypes
<1> QED
  BY <1>1, <1>2, <1>3, ShellStepIInv DEF TaskTypes

LEMMA ConsumeIInv == ASSUME NEW t \in Task PROVE IInv /\ Consume(t) => IInv'
<1> SUFFICES ASSUME IInv, Consume(t) PROVE IInv'
  OBVIOUS
<1>1. /\ TaskTypes /\ Command(t) /\ t \in Shells /\ shell[t] = "consuming"
      /\ run[t][1] \in Final /\ run[t][1] \in {"running"} \cup Final
  BY DEF IInv, Commands, Consume
<1>2. /\ Update(t, run[t][1], tool[t] = "Bash")
      /\ shell' = [shell EXCEPT ![t] = "updated"]
      /\ UNCHANGED <<run, cancelled, tool, output, told, callVars>>
  BY DEF Consume
<1>3. /\ entry' \in [Task -> Entry]
      /\ \A u \in Task : entry'[u].present = entry[u].present
      /\ \A u \in Task : entry'[u].stopper = entry[u].stopper
  BY <1>1, <1>2, UpdateOK
<1>4. Command(t)'
  BY <1>1, <1>2 DEF Command, TaskTypes
<1> QED
  BY <1>1, <1>2, <1>3, <1>4, ShellStepIInv DEF TaskTypes

LEMMA RemoveDoneIInv == ASSUME NEW t \in Task PROVE IInv /\ RemoveDone(t) => IInv'
<1> SUFFICES ASSUME IInv, RemoveDone(t) PROVE IInv'
  OBVIOUS
<1>1. TaskTypes /\ Command(t) /\ t \in Shells /\ Remove(t)
  BY DEF IInv, Commands, RemoveDone
<1>2. /\ entry' \in [Task -> Entry] /\ ~entry'[t].present
      /\ \A u \in Task : u # t => entry'[u] = entry[u]
  BY <1>1, RemoveOK
<1>3. /\ \/ tool[t] = "PowerShell" /\ shell[t] = "notified" /\ shell' = [shell EXCEPT ![t] = "done"]
         \/ tool[t] = "Bash" /\ shell[t] = "updated" /\ shell' = [shell EXCEPT ![t] = "removed"]
      /\ UNCHANGED <<run, cancelled, tool, output, told, callVars>>
  BY <1>1 DEF RemoveDone, TaskTypes
<1>4. Command(t)'
  BY <1>1, <1>2, <1>3 DEF Command, TaskTypes
<1> QED
  BY <1>1, <1>2, <1>3, <1>4, ShellStepIInv DEF TaskTypes

LEMMA NotifyIInv == ASSUME NEW t \in Task PROVE IInv /\ Notify(t) => IInv'
<1> SUFFICES ASSUME IInv, Notify(t) PROVE IInv'
  OBVIOUS
<1>1. TaskTypes /\ Command(t) /\ t \in Shells /\ Told(t)
  BY DEF IInv, Commands, Notify
<1>2. /\ \/ tool[t] = "PowerShell" /\ shell[t] = "updated" /\ shell' = [shell EXCEPT ![t] = "notified"]
         \/ tool[t] = "Bash" /\ shell[t] = "removed" /\ shell' = [shell EXCEPT ![t] = "done"]
      /\ UNCHANGED <<entry, run, cancelled, tool, output, callVars>>
  BY <1>1 DEF Notify, TaskTypes
<1>3. told' \in [Shells -> 0 .. 2] /\ told'[t] = 1 /\ \A u \in Shells \ {t} : told'[u] = told[u]
  BY <1>1, <1>2, ToldOK DEF Command
<1>4. Command(t)'
  BY <1>1, <1>2, <1>3 DEF Command, TaskTypes
<1> QED
  BY <1>1, <1>2, <1>3, <1>4, ShellStepIInv DEF TaskTypes

\* Stop and Resume read an entry.
LEMMA ReadsIInv ==
    ASSUME NEW t \in Task, NEW c \in Caller
    PROVE  IInv /\ (StopReads(c, t) \/ ResumeReads(c, t)) => IInv'
<1> SUFFICES ASSUME IInv, StopReads(c, t) \/ ResumeReads(c, t) PROVE IInv'
  OBVIOUS
<1>1. TaskTypes /\ CallTypes /\ Listed /\ Known /\ Commands /\ entry[t] \in Entry
  BY DEF IInv, TaskTypes
<1>2. PICK next \in {"stopping", "resuming"} :
          /\ Read(c, t, next)
          /\ next = "resuming" => t \in Agents
          /\ entry[t].present
  BY DEF StopReads, ResumeReads
<1>3. TaskTypes' /\ Listed' /\ Commands'
  BY <1>1, <1>2 DEF Read, TaskTypes, Listed, Commands, Command, shellVars
<1>4. CallTypes'
  BY <1>1, <1>2, BoundsAssumption DEF Read, CallTypes
<1>5. entry[t].stopper \in Run /\ run[t][1] # "none"
  BY <1>1, <1>2 DEF Listed
<1>6. Known'
  <2> SUFFICES ASSUME NEW d \in Caller
               PROVE  /\ pc'[d] \in {"stopping", "cancelled"} => seen'[d].stopper \in Run
                      /\ pc'[d] = "cancelled" => seen'[d].stopper \in cancelled'[on'[d]]
                      /\ pc'[d] \in {"resuming", "resumed"} =>
                            on'[d] \in Agents /\ run'[on'[d]][1] # "none"
    BY DEF Known
  <2>1. CASE d = c
    BY <1>1, <1>2, <1>5, <2>1 DEF Read, CallTypes
  <2>2. CASE d # c
    BY <1>1, <1>2, <2>2 DEF Read, CallTypes, Known
  <2> QED
    BY <2>1, <2>2
<1> QED
  BY <1>3, <1>4, <1>6 DEF IInv

\* A call goes on: its place changes, and the rest of what it knows only when
\* it returns.
LEMMA AdvanceOK ==
    ASSUME IInv, NEW c \in Caller, NEW from \in {"stopping", "cancelled", "resuming", "resumed"},
           NEW to \in {"cancelled", "resumed", "idle"}, Advance(c, from, to),
           \A t \in Task : cancelled[t] \subseteq cancelled'[t],
           \A t \in Task : run[t][1] # "none" => run'[t][1] # "none",
           to = "cancelled" => from = "stopping" /\ seen[c].stopper \in cancelled'[on[c]],
           to = "resumed" => from = "resuming"
    PROVE  CallTypes' /\ Known'
<1>1. CallTypes /\ Known /\ pc[c] = from /\ on[c] \in Task
  BY DEF IInv, CallTypes, Advance
<1>2. /\ pc' = [pc EXCEPT ![c] = to]
      /\ seen' = [seen EXCEPT ![c] = IF to = "idle" THEN Absent ELSE seen[c]]
      /\ on' = on /\ calls' = calls
  BY DEF Advance
<1>3. CallTypes'
  BY <1>1, <1>2, Basics DEF CallTypes
<1>4. Known'
  <2> SUFFICES ASSUME NEW d \in Caller
               PROVE  /\ pc'[d] \in {"stopping", "cancelled"} => seen'[d].stopper \in Run
                      /\ pc'[d] = "cancelled" => seen'[d].stopper \in cancelled'[on'[d]]
                      /\ pc'[d] \in {"resuming", "resumed"} =>
                            on'[d] \in Agents /\ run'[on'[d]][1] # "none"
    BY DEF Known
  <2>1. CASE d = c
    BY <1>1, <1>2, <2>1 DEF CallTypes, Known
  <2>2. CASE d # c
    BY <1>1, <1>2, <2>2 DEF CallTypes, Known
  <2> QED
    BY <2>1, <2>2
<1> QED
  BY <1>3, <1>4

LEMMA StopCancelsIInv == ASSUME NEW c \in Caller PROVE IInv /\ StopCancels(c) => IInv'
<1> SUFFICES ASSUME IInv, StopCancels(c) PROVE IInv'
  OBVIOUS
<1>1. TaskTypes /\ Listed /\ Commands /\ on[c] \in Task /\ seen[c].stopper \in Run
  BY DEF IInv, CallTypes, Known, StopCancels, Advance
<1>2. /\ Advance(c, "stopping", "cancelled") /\ Cancel(on[c], seen[c].stopper)
      /\ UNCHANGED <<entry, run, shellVars>>
  BY DEF StopCancels, Advance
<1>3. /\ cancelled' \in [Task -> SUBSET Run]
      /\ seen[c].stopper \in cancelled'[on[c]]
      /\ \A u \in Task : cancelled[u] \subseteq cancelled'[u]
  BY <1>1, <1>2, CancelOK
<1>4. CallTypes' /\ Known'
  BY <1>2, <1>3, AdvanceOK
<1>5. TaskTypes' /\ Listed'
  BY <1>1, <1>2, <1>3 DEF TaskTypes, Listed, shellVars
<1>6. Commands'
  BY <1>1, <1>2, <1>3, Basics DEF Commands, Command, shellVars
<1> QED
  BY <1>4, <1>5, <1>6 DEF IInv

\* Stop and Resume write an entry that is still there.
LEMMA FinishesIInv ==
    ASSUME NEW c \in Caller
    PROVE  IInv /\ (StopUpdates(c) \/ ResumeFinishes(c)) => IInv'
<1> SUFFICES ASSUME IInv, StopUpdates(c) \/ ResumeFinishes(c) PROVE IInv'
  OBVIOUS
<1>1. TaskTypes /\ Listed /\ Commands /\ on[c] \in Task
  BY DEF IInv, CallTypes
<1>2. PICK s \in {"running"} \cup Final, b \in BOOLEAN : Update(on[c], s, b)
  BY DEF StopUpdates, ResumeFinishes, Final
<1>3. PICK from \in {"cancelled", "resumed"} : Advance(c, from, "idle")
  BY DEF StopUpdates, ResumeFinishes
<1>4. UNCHANGED <<run, cancelled, shellVars>>
  BY <1>3 DEF StopUpdates, ResumeFinishes, Advance
<1>5. /\ entry' \in [Task -> Entry]
      /\ \A u \in Task : entry'[u].present = entry[u].present
      /\ \A u \in Task : entry'[u].stopper = entry[u].stopper
  BY <1>1, <1>2, UpdateOK
<1>6. CallTypes' /\ Known'
  BY <1>3, <1>4, AdvanceOK
<1>7. TaskTypes' /\ Listed'
  BY <1>1, <1>4, <1>5 DEF TaskTypes, Listed, shellVars
<1>8. Commands'
  BY <1>1, <1>4, <1>5, Basics DEF Commands, Command, shellVars
<1> QED
  BY <1>6, <1>7, <1>8 DEF IInv

LEMMA ResumeRegistersIInv == ASSUME NEW c \in Caller PROVE IInv /\ ResumeRegisters(c) => IInv'
<1> SUFFICES ASSUME IInv, ResumeRegisters(c) PROVE IInv'
  OBVIOUS
<1>1. /\ TaskTypes /\ Listed /\ Commands /\ on[c] \in Task /\ on[c] \notin Shells
      /\ run[on[c]][1] # "none"
  BY Basics DEF IInv, CallTypes, Known, ResumeRegisters, Advance
<1>2. PICK n \in Run : run[on[c]][n] = "none" /\ SetRun(on[c], n, "live") /\ Register(on[c], n)
  BY DEF ResumeRegisters
<1>3. Advance(c, "resuming", "resumed") /\ UNCHANGED <<cancelled, shellVars>>
  BY DEF ResumeRegisters, Advance
<1>4. /\ entry' \in [Task -> Entry] /\ entry'[on[c]].stopper = n
      /\ \A u \in Task : u # on[c] => entry'[u] = entry[u]
  BY <1>1, <1>2, RegisterOK
<1>5. /\ run' \in [Task -> [Run -> RunState]] /\ run'[on[c]][n] = "live"
      /\ \A u \in Task, m \in Run : u # on[c] \/ m # n => run'[u][m] = run[u][m]
  BY <1>1, <1>2, SetRunOK DEF RunState
<1>6. \A u \in Task : run'[u][1] = run[u][1]
  BY <1>1, <1>2, <1>5, Basics
<1>7. TaskTypes'
  BY <1>1, <1>3, <1>4, <1>5 DEF TaskTypes, shellVars
<1>8. Listed'
  BY <1>1, <1>2, <1>4, <1>5, <1>6, Basics DEF Listed
<1>9. CallTypes' /\ Known'
  BY <1>3, <1>6, AdvanceOK
<1>10. Commands'
  <2> SUFFICES ASSUME NEW v \in Shells PROVE Command(v)'
    BY DEF Commands
  <2>1. v \in Task /\ v # on[c] /\ Command(v)
    BY <1>1, Basics DEF Commands
  <2> QED
    BY <1>3, <1>4, <1>5, <2>1, Basics DEF Command, shellVars
<1> QED
  BY <1>7, <1>8, <1>9, <1>10 DEF IInv

\* Every step keeps the invariant.
LEMMA NextIInv == IInv /\ [Next]_vars => IInv'
<1>1. ASSUME IInv, NEW t \in Task, ShellStep(t) PROVE IInv'
  BY <1>1, StartIInv, OutputIInv, ForegroundIInv, AutoBackgroundIInv, ConsumeIInv, RemoveDoneIInv,
     NotifyIInv DEF ShellStep
<1>2. ASSUME IInv, NEW c \in Caller, CallStep(c) PROVE IInv'
  BY <1>2, StopCancelsIInv, FinishesIInv, ResumeRegistersIInv DEF CallStep
<1>3. ASSUME IInv, UNCHANGED vars PROVE IInv'
  <2>1. CallTypes' /\ Known'
    BY <1>3, KnownKept DEF vars, callVars
  <2> QED
    BY <1>3, <2>1 DEF IInv, TaskTypes, Listed, Commands, Command, vars
<1> QED
  BY <1>1, <1>2, <1>3, LaunchIInv, ParentCancelsIInv, ReturnsIInv, ReportsIInv, ReadsIInv
     DEF Next

LEMMA SpecIInv == Spec => []IInv
BY InitIInv, NextIInv, PTL DEF Spec

-----------------------------------------------------------------------------

\* The type invariant.
THEOREM TypesHold == Spec => []TypeOK
<1>1. IInv => TypeOK
  BY Types DEF IInv
<1> QED
  BY <1>1, SpecIInv, PTL

\* The end of a command is told at most once, and has been told, and its entry
\* is gone, when all is over: for any commands and callers of Stop.
THEOREM ShellToldOnceHolds == Spec => []ShellToldOnce
<1>1. IInv => ShellToldOnce
  BY DEF IInv, TaskTypes, Commands, Command, ShellToldOnce
<1> QED
  BY <1>1, SpecIInv, PTL

\* What a step may lose a run by, and what it may leave without a run.
MayLose(t, n) ==
    \/ \E m \in Run \ {n} : run[t][m] \in Final /\ run'[t][m] = "reported"
    \/ \E c \in Caller : /\ on[c] = t /\ pc[c] = "cancelled" /\ pc'[c] = "idle"
                         /\ seen[c].stopper # n
    \/ /\ n \in Working(t)
       /\ \E c \in Caller : on[c] = t /\ pc[c] = "resuming" /\ pc'[c] = "resumed"

Idle(t) ==
    /\ entry[t].present /\ entry[t].status = "running"
    /\ \A n \in Run : run[t][n] \in {"none", "reported"}

MayIdle(t) == \E c \in Caller : on[c] = t /\ pc[c] = "resumed" /\ pc'[c] = "idle"

StepOK(t) ==
    /\ \A n \in Unstoppable(t)' \ Unstoppable(t) : MayLose(t, n)
    /\ Idle(t)' => Idle(t) \/ MayIdle(t)

\* A task nothing happens to is as it was.
LEMMA UntouchedOK ==
    ASSUME NEW u \in Task, UNCHANGED <<entry[u], run[u], cancelled[u]>> PROVE StepOK(u)
BY DEF StepOK, Unstoppable, Working, Idle

\* Register is called with the number of the run that starts.
LEMMA StartsOK ==
    ASSUME TaskTypes, NEW t \in Task, NEW n \in Run, Register(t, n), SetRun(t, n, "live"),
           cancelled' = cancelled,
           \A m \in Run \ {n} : m \in Working(t) => MayLose(t, m),
           NEW u \in Task
    PROVE  StepOK(u)
<1>1. /\ entry'[t].present /\ entry'[t].stopper = n /\ entry'[t].controls
      /\ \A v \in Task : v # t => entry'[v] = entry[v]
  BY RegisterOK
<1>2. /\ run' \in [Task -> [Run -> RunState]] /\ run'[t][n] = "live"
      /\ \A v \in Task, m \in Run : v # t \/ m # n => run'[v][m] = run[v][m]
  BY SetRunOK DEF RunState
<1>3. CASE u = t
  BY <1>1, <1>2, <1>3 DEF StepOK, Unstoppable, Working, Idle
<1>4. CASE u # t
  BY <1>1, <1>2, <1>4 DEF StepOK, Unstoppable, Working, Idle
<1> QED
  BY <1>3, <1>4

\* A task none of whose runs works has nothing to lose, and what was listed
\* as running before it was marked finished or removed is no longer.
LEMMA EndsOK ==
    ASSUME TaskTypes, NEW t \in Task,
           \A v \in Task : v # t => entry'[v] = entry[v],
           run' = run, \A v \in Task : cancelled[v] \subseteq cancelled'[v],
           entry'[t].present => entry'[t].status # "running",
           \A m \in Run : ~(run[t][m] = "live" /\ m \notin cancelled'[t]),
           NEW u \in Task
    PROVE  StepOK(u)
<1>1. CASE u = t
  BY <1>1 DEF StepOK, Unstoppable, Working, Idle
<1>2. CASE u # t
  BY <1>2 DEF StepOK, Unstoppable, Working, Idle
<1> QED
  BY <1>1, <1>2

\* A step that leaves the entries alone and makes runs at most end.
Quiet ==
    /\ entry' = entry
    /\ \A v \in Task : cancelled[v] \subseteq cancelled'[v]
    /\ \A v \in Task, m \in Run :
          \/ run'[v][m] = run[v][m]
          \/ run[v][m] = "live" /\ run'[v][m] \in Final

\* Such a step loses no run and leaves no task idle.
LEMMA QuietOK == ASSUME Quiet, NEW u \in Task PROVE StepOK(u)
BY DEF Quiet, StepOK, Unstoppable, Working, Idle, Final

\* Runs begin.
LEMMA LaunchStepOK ==
    ASSUME IInv, NEW t \in Task, Launch(t) \/ Start(t), NEW u \in Task PROVE StepOK(u)
<1>1. TaskTypes /\ \A n \in Run : run[t][n] = "none"
  BY DEF IInv, Listed, Commands, Command, Launch, Start
<1>2. Register(t, 1) /\ SetRun(t, 1, "live") /\ cancelled' = cancelled
  BY DEF Launch, Start
<1>3. Working(t) = {}
  BY <1>1 DEF Working
<1> QED
  BY <1>1, <1>2, <1>3, Basics, StartsOK

LEMMA ResumeRegistersStepOK ==
    ASSUME IInv, NEW c \in Caller, ResumeRegisters(c), NEW u \in Task PROVE StepOK(u)
<1>1. TaskTypes /\ on[c] \in Task /\ pc[c] = "resuming" /\ pc'[c] = "resumed"
  BY DEF IInv, CallTypes, ResumeRegisters, Advance
<1>2. PICK n \in Run : SetRun(on[c], n, "live") /\ Register(on[c], n)
  BY DEF ResumeRegisters
<1>3. cancelled' = cancelled
  BY DEF ResumeRegisters
<1>4. \A m \in Run \ {n} : m \in Working(on[c]) => MayLose(on[c], m)
  BY <1>1 DEF MayLose
<1> QED
  BY <1>1, <1>2, <1>3, <1>4, StartsOK

\* Runs end, or are cancelled.
LEMMA QuietStepOK ==
    ASSUME IInv, NEW u \in Task,
           \/ \E t \in Task : \/ ParentCancels(t) \/ AutoBackground(t) \/ Notify(t)
                              \/ ShellEnds(t) \/ ChildEnds(t)
                              \/ \E n \in Run : Returns(t, n)
                              \/ \E c \in Caller : StopReads(c, t) \/ ResumeReads(c, t)
           \/ \E c \in Caller : StopCancels(c)
    PROVE  StepOK(u)
<1> SUFFICES Quiet
  BY QuietOK
<1>1. TaskTypes
  BY DEF IInv
<1>2. ASSUME NEW t \in Task, ParentCancels(t) PROVE Quiet
  <2>1. Cancel(t, 1) /\ UNCHANGED <<entry, run>>
    BY <1>2 DEF ParentCancels
  <2> QED
    BY <1>1, <2>1, CancelOK, Basics DEF Quiet
<1>3. ASSUME NEW t \in Task, NEW n \in Run, Returns(t, n) PROVE Quiet
  <2>1. PICK s \in Final : SetRun(t, n, s)
    BY <1>3 DEF Returns, Final
  <2>2. run[t][n] = "live" /\ UNCHANGED <<entry, cancelled>>
    BY <1>3 DEF Returns
  <2>3. /\ run'[t][n] = s
        /\ \A v \in Task, m \in Run : v # t \/ m # n => run'[v][m] = run[v][m]
    BY <1>1, <2>1, SetRunOK DEF RunState
  <2> QED
    BY <2>2, <2>3 DEF Quiet
<1>4. ASSUME NEW t \in Task, AutoBackground(t) \/ Notify(t) \/ ShellEnds(t) \/ ChildEnds(t)
      PROVE  Quiet
  BY <1>4 DEF Quiet, AutoBackground, Notify, ShellEnds, ChildEnds
<1>5. ASSUME NEW t \in Task, NEW c \in Caller, StopReads(c, t) \/ ResumeReads(c, t)
      PROVE  Quiet
  BY <1>5 DEF Quiet, StopReads, ResumeReads, Read
<1>6. ASSUME NEW c \in Caller, StopCancels(c) PROVE Quiet
  <2>1. on[c] \in Task /\ seen[c].stopper \in Run
    BY <1>6 DEF IInv, CallTypes, Known, StopCancels, Advance
  <2>2. Cancel(on[c], seen[c].stopper) /\ UNCHANGED <<entry, run>>
    BY <1>6 DEF StopCancels
  <2> QED
    BY <1>1, <2>1, <2>2, CancelOK DEF Quiet
<1> QED
  BY <1>2, <1>3, <1>4, <1>5, <1>6

\* The runs of a command are over when its entry goes or is marked finished.
LEMMA CommandEndsStepOK ==
    ASSUME IInv, NEW t \in Task, NEW u \in Task,
           ForegroundResult(t) \/ Interrupted(t) \/ Consume(t) \/ RemoveDone(t)
    PROVE  StepOK(u)
<1>1. TaskTypes /\ t \in Shells /\ Command(t)
  BY DEF IInv, Commands, ForegroundResult, Interrupted, Consume, RemoveDone
<1>2. run' = run
  BY DEF ForegroundResult, Interrupted, Consume, RemoveDone
<1>3. /\ \A v \in Task : cancelled[v] \subseteq cancelled'[v]
      /\ \A m \in Run : ~(run[t][m] = "live" /\ m \notin cancelled'[t])
  <2>1. CASE Interrupted(t)
    BY <1>1, <2>1, CancelOK, Basics DEF Interrupted, Command
  <2>2. CASE ForegroundResult(t) \/ Consume(t)
    BY <1>1, <2>2 DEF ForegroundResult, Consume, Command, Final
  <2>3. CASE RemoveDone(t)
    BY <1>1, <2>3 DEF RemoveDone, Command, Final
  <2> QED
    BY <2>1, <2>2, <2>3
<1>4. /\ \A v \in Task : v # t => entry'[v] = entry[v]
      /\ entry'[t].present => entry'[t].status # "running"
  <2>1. CASE Consume(t)
    <3>1. /\ Update(t, run[t][1], tool[t] = "Bash") /\ run[t][1] \in Final
          /\ run[t][1] \in {"running"} \cup Final /\ run[t][1] # "running"
      BY <2>1 DEF Consume, Final
    <3> QED
      <4>1. /\ entry[t].present => entry'[t].status = run[t][1]
            /\ \A v \in Task : entry'[v].present = entry[v].present
            /\ \A v \in Task : v # t => entry'[v] = entry[v]
        BY <1>1, <3>1, UpdateOK
      <4> QED
        BY <1>1, <3>1, <4>1
  <2>2. CASE Remove(t)
    BY <1>1, <2>2, RemoveOK
  <2> QED
    BY <2>1, <2>2 DEF ForegroundResult, Interrupted, RemoveDone
<1> QED
  BY <1>1, <1>2, <1>3, <1>4, EndsOK

\* Another run of the agent may be lost.
LEMMA ReportsStepOK ==
    ASSUME IInv, NEW t \in Task, NEW n \in Run, Reports(t, n), NEW u \in Task PROVE StepOK(u)
<1>1. /\ TaskTypes /\ run[t][n] \in Final /\ run[t][n] \in {"running"} \cup Final
      /\ run[t][n] # "running" /\ cancelled' = cancelled
      /\ Update(t, run[t][n], run[t][n] # "stopped") /\ SetRun(t, n, "reported")
  BY DEF IInv, Reports, Final
<1>2. /\ entry[t].present => entry'[t].status = run[t][n]
      /\ ~entry[t].present => entry'[t] = entry[t]
      /\ \A v \in Task : entry'[v].present = entry[v].present
      /\ \A v \in Task : v # t => entry'[v] = entry[v]
  BY <1>1, UpdateOK
<1>3. /\ run'[t][n] = "reported"
      /\ \A v \in Task, m \in Run : v # t \/ m # n => run'[v][m] = run[v][m]
  BY <1>1, SetRunOK DEF RunState
<1>4. CASE u = t
  BY <1>1, <1>2, <1>3, <1>4 DEF StepOK, Unstoppable, Working, Idle, MayLose
<1>5. CASE u # t
  BY <1>1, <1>2, <1>3, <1>5 DEF StepOK, Unstoppable, Working, Idle
<1> QED
  BY <1>4, <1>5

\* Stop marks a run it has not cancelled as stopped only if it read the entry
\* of another one.
LEMMA StopUpdatesStepOK ==
    ASSUME IInv, NEW c \in Caller, StopUpdates(c), NEW u \in Task PROVE StepOK(u)
<1>1. /\ TaskTypes /\ on[c] \in Task /\ pc[c] = "cancelled" /\ pc'[c] = "idle"
      /\ seen[c].stopper \in cancelled[on[c]] /\ UNCHANGED <<run, cancelled>>
  BY DEF IInv, CallTypes, Known, StopUpdates, Advance
<1>2. Update(on[c], "stopped", FALSE)
  BY DEF StopUpdates
<1>3. /\ entry[on[c]].present => entry'[on[c]].status = "stopped"
      /\ ~entry[on[c]].present => entry'[on[c]] = entry[on[c]]
      /\ \A v \in Task : entry'[v].present = entry[v].present
      /\ \A v \in Task : v # on[c] => entry'[v] = entry[v]
  BY <1>1, <1>2, UpdateOK DEF Final
<1>4. CASE u = on[c]
  BY <1>1, <1>3, <1>4 DEF StepOK, Unstoppable, Working, Idle, MayLose
<1>5. CASE u # on[c]
  BY <1>1, <1>3, <1>5 DEF StepOK, Unstoppable, Working, Idle
<1> QED
  BY <1>4, <1>5

LEMMA ResumeFinishesStepOK ==
    ASSUME IInv, NEW c \in Caller, ResumeFinishes(c), NEW u \in Task PROVE StepOK(u)
<1>1. /\ TaskTypes /\ on[c] \in Task /\ pc[c] = "resumed" /\ pc'[c] = "idle"
      /\ UNCHANGED <<run, cancelled>>
  BY DEF IInv, CallTypes, ResumeFinishes, Advance
<1>2. Update(on[c], "running", TRUE)
  BY DEF ResumeFinishes
<1>3. /\ entry[on[c]].present => entry'[on[c]].controls
      /\ ~entry[on[c]].present => entry'[on[c]] = entry[on[c]]
      /\ \A v \in Task : entry'[v].present = entry[v].present
      /\ \A v \in Task : entry'[v].stopper = entry[v].stopper
      /\ \A v \in Task : v # on[c] => entry'[v] = entry[v]
  BY <1>1, <1>2, UpdateOK
<1>4. CASE u = on[c]
  BY <1>1, <1>3, <1>4 DEF StepOK, Unstoppable, Working, Idle, MayIdle
<1>5. CASE u # on[c]
  BY <1>1, <1>3, <1>5 DEF StepOK, Unstoppable, Working, Idle
<1> QED
  BY <1>4, <1>5

LEMMA NextStepOK == IInv /\ [Next]_vars => \A u \in Task : StepOK(u)
<1> SUFFICES ASSUME IInv, [Next]_vars, NEW u \in Task PROVE StepOK(u)
  OBVIOUS
<1>1. CASE UNCHANGED vars
  BY <1>1, UntouchedOK DEF vars
<1>2. ASSUME NEW t \in Task, ShellStep(t) PROVE StepOK(u)
  BY <1>2, LaunchStepOK, QuietStepOK, CommandEndsStepOK DEF ShellStep
<1>3. ASSUME NEW c \in Caller, CallStep(c) PROVE StepOK(u)
  BY <1>3, QuietStepOK, ResumeRegistersStepOK, StopUpdatesStepOK, ResumeFinishesStepOK
     DEF CallStep
<1> QED
  BY <1>1, <1>2, <1>3, LaunchStepOK, QuietStepOK, ReportsStepOK DEF Next

\* A run of a background task that works is lost by a late report, a late Stop
\* or a second Resume only, for any tasks, runs and callers.
THEOREM RunsStayStoppableHolds == Spec => RunsStayStoppable
<1>1. IInv /\ [Next]_vars =>
        [\A t \in Task : \A n \in Unstoppable(t)' \ Unstoppable(t) : MayLose(t, n)]_vars
  BY NextStepOK DEF StepOK
<1> QED
  BY <1>1, SpecIInv, PTL DEF Spec, RunsStayStoppable, MayLose

\* What is listed as running runs or is about to report, or was marked so by a
\* Resume whose run was over, for any tasks, runs and callers.
THEOREM RunningMeansRunningHolds == Spec => RunningMeansRunning
<1> DEFINE A == \A t \in Task :
        /\ entry'[t].present /\ entry'[t].status = "running"
        /\ \A n \in Run : run'[t][n] \in {"none", "reported"}
        => \/ entry[t].status = "running" /\ \A n \in Run : run[t][n] \in {"none", "reported"}
           \/ \E c \in Caller : on[c] = t /\ pc[c] = "resumed" /\ pc'[c] = "idle"
<1>1. IInv /\ [Next]_vars => A
  BY NextStepOK DEF StepOK, Idle, MayIdle
<1> QED
  BY <1>1, SpecIInv, PTL DEF Spec, RunningMeansRunning

-----------------------------------------------------------------------------
(* The end of a command. *)

Stage(s) ==
    CASE s = "foreground" -> 4 [] s = "consuming" -> 3 [] s = "updated" -> 2
      [] s \in {"removed", "notified"} -> 1 [] OTHER -> 0

Holders(o) == CASE o = "shell" -> 2 [] o = "child" -> 1 [] OTHER -> 0

\* The steps that a command that has been started has still to take.
CommandLeft(t) ==
    Stage(shell[t]) + Holders(output[t]) + (IF run[t][1] = "live" THEN 1 ELSE 0)

Started == \A t \in Shells : shell[t] # "none" => run[t][1] \in {"live"} \cup Final

\* What a step leaves as it was for a command, or does to it: start it, end one
\* of its processes, let Wait return, or take its goroutine one stage on.
Same(t) == shell'[t] = shell[t] /\ run'[t][1] = run[t][1] /\ output'[t] = output[t]

CommandStep(t) ==
    \/ Same(t)
    \/ shell[t] = "none" /\ shell'[t] # "none" /\ run'[t][1] = "live"
    \/ /\ shell'[t] = shell[t] /\ run'[t][1] = run[t][1]
       /\ Holders(output'[t]) < Holders(output[t])
    \/ /\ shell'[t] = shell[t] /\ run[t][1] = "live" /\ run'[t][1] \in Final
       /\ output'[t] = output[t]
    \/ /\ shell[t] # "none" /\ run'[t][1] = run[t][1] /\ output'[t] = output[t]
       /\ Stage(shell'[t]) < Stage(shell[t])

LEMMA NextCommandStep ==
    ASSUME IInv, [Next]_vars, NEW u \in Shells
    PROVE  CommandStep(u)
<1>0. /\ shell \in [Shells -> {"none", "foreground", "consuming", "updated",
                               "removed", "notified", "done"}]
      /\ run \in [Task -> [Run -> RunState]] /\ u \in Task /\ 1 \in Run /\ u \notin Agents
      /\ output \in [Shells -> {"shell", "child", "closed"}]
  BY Basics DEF IInv, TaskTypes
<1>1. ASSUME NEW t \in Agents, UNCHANGED <<shell, output>>, NEW n \in Run, NEW s, SetRun(t, n, s)
      PROVE  CommandStep(u)
  <2>1. t # u /\ run'[u] = run[u]
    BY <1>0, <1>1 DEF SetRun
  <2> QED
    BY <1>1, <2>1 DEF CommandStep, Same
<1>2. ASSUME NEW t \in Task, Start(t) PROVE CommandStep(u)
  <2>1. PICK phase \in {"foreground", "consuming"} : shell' = [shell EXCEPT ![t] = phase]
    BY <1>2 DEF Start
  <2>2. SetRun(t, 1, "live") /\ shell[t] = "none" /\ output' = output
    BY <1>2 DEF Start
  <2>3. CASE t = u
    <3>1. shell'[u] = phase /\ run'[u][1] = "live"
      BY <1>0, <2>1, <2>2, <2>3 DEF SetRun
    <3> QED
      BY <2>2, <2>3, <3>1 DEF CommandStep
  <2>4. CASE t # u
    BY <1>0, <2>1, <2>2, <2>4 DEF SetRun, CommandStep, Same
  <2> QED
    BY <2>3, <2>4
<1>3. ASSUME NEW t \in Task, NEW n \in Run, Returns(t, n) PROVE CommandStep(u)
  <2>1. PICK s \in Final : SetRun(t, n, s)
    BY <1>3 DEF Returns, Final
  <2>2. run[t][n] = "live" /\ shell' = shell /\ output' = output
    BY <1>3 DEF Returns, shellVars
  <2>3. run'[u][1] = IF t = u /\ n = 1 THEN s ELSE run[u][1]
    BY <1>0, <2>1 DEF SetRun
  <2> QED
    BY <2>1, <2>2, <2>3 DEF CommandStep, Same
<1>4. ASSUME NEW t \in Task, ForegroundResult(t) \/ AutoBackground(t) \/ Interrupted(t)
                             \/ Consume(t) \/ RemoveDone(t) \/ Notify(t)
      PROVE  CommandStep(u)
  <2>1. run' = run /\ output' = output
    BY <1>4 DEF ForegroundResult, AutoBackground, Interrupted, Consume, RemoveDone, Notify
  <2>2. PICK s : /\ shell' = [shell EXCEPT ![t] = s]
                 /\ shell[t] # "none" /\ Stage(s) < Stage(shell[t])
    BY <1>4 DEF ForegroundResult, AutoBackground, Interrupted, Consume, RemoveDone, Notify, Stage
  <2> QED
    BY <1>0, <2>1, <2>2 DEF CommandStep, Same
<1>5. ASSUME NEW c \in Caller, ResumeRegisters(c) PROVE CommandStep(u)
  <2>1. on[c] \in Agents /\ UNCHANGED <<shell, output>>
    BY <1>5 DEF IInv, Known, ResumeRegisters, Advance, shellVars
  <2>2. PICK n \in Run : SetRun(on[c], n, "live")
    BY <1>5 DEF ResumeRegisters
  <2> QED
    BY <1>1, <2>1, <2>2
<1>6. CASE UNCHANGED <<shell, run, output>>
  BY <1>6 DEF CommandStep, Same
<1>7. ASSUME NEW t \in Task, Launch(t) PROVE CommandStep(u)
  BY <1>0, <1>1, <1>7 DEF Launch, shellVars
<1>8. ASSUME NEW t \in Task, NEW n \in Run, Reports(t, n) PROVE CommandStep(u)
  BY <1>1, <1>8 DEF Reports, shellVars
<1>9. ASSUME NEW t \in Task, ShellEnds(t) \/ ChildEnds(t) PROVE CommandStep(u)
  <2>1. UNCHANGED <<shell, run>>
    BY <1>9 DEF ShellEnds, ChildEnds
  <2>2. PICK next : /\ output' = [output EXCEPT ![t] = next]
                    /\ Holders(next) < Holders(output[t])
    BY <1>9 DEF ShellEnds, ChildEnds, Holders
  <2> QED
    BY <1>0, <2>1, <2>2 DEF CommandStep, Same
<1> QED
  BY <1>2, <1>3, <1>4, <1>5, <1>6, <1>7, <1>8, <1>9
  DEF Next, ShellStep, CallStep, ParentCancels, StopReads, ResumeReads, Read, StopCancels,
      StopUpdates, ResumeFinishes, Advance, shellVars, vars

LEMMA NextStarted == IInv /\ Started /\ [Next]_vars => Started'
BY NextCommandStep DEF Started, CommandStep, Same, Stage

\* Until its end is told, Wait for a command has not returned, or its goroutine
\* stands where it can go on.
Awaited ==
    \A t \in Shells : shell[t] # "none" /\ told[t] # 1 =>
        \/ run[t][1] = "live"
        \/ run[t][1] \in Final /\ (shell[t] = "removed" => tool[t] = "Bash")
                               /\ shell[t] \in {"foreground", "consuming", "updated", "removed"}

\* No step sets a command back.
CommandsAdvance ==
    \A t \in Shells :
        \/ shell[t] = "none"
        \/ Same(t)
        \/ CommandLeft(t)' < CommandLeft(t)

\* Whatever is stopped and removed meanwhile, the goroutine that waits for a
\* background command always has something to wait for or to do, and every
\* step that concerns it or its processes brings it closer to telling of the end.
THEOREM CommandsGoOn == Spec => []Awaited /\ [][CommandsAdvance]_vars
<1>1. Init => Started
  BY DEF Init, Started
<1>2. IInv /\ Started => Awaited
  <2> SUFFICES ASSUME IInv, Started, NEW t \in Shells, shell[t] # "none", told[t] # 1
               PROVE  \/ run[t][1] = "live"
                      \/ run[t][1] \in Final /\ (shell[t] = "removed" => tool[t] = "Bash")
                            /\ shell[t] \in {"foreground", "consuming", "updated", "removed"}
    BY DEF Awaited
  <2>1. Command(t) /\ run[t][1] \in {"live"} \cup Final
    BY DEF IInv, Commands, Started
  <2>2. shell[t] \in {"foreground", "consuming", "updated", "removed", "notified", "done"}
    BY DEF IInv, TaskTypes
  <2> QED
    BY <2>1, <2>2 DEF Command
<1>3. IInv /\ [Next]_vars => CommandsAdvance
  <2> SUFFICES ASSUME IInv, [Next]_vars, NEW t \in Shells, shell[t] # "none",
                      ~Same(t)
               PROVE  CommandLeft(t)' < CommandLeft(t)
    BY DEF CommandsAdvance
  <2>1. CommandStep(t)
    BY NextCommandStep
  <2>2. /\ Stage(shell[t]) \in Nat /\ Stage(shell'[t]) \in Nat
        /\ Holders(output[t]) \in Nat /\ Holders(output'[t]) \in Nat
    BY DEF Stage, Holders
  <2>3. CASE /\ shell'[t] = shell[t] /\ run[t][1] = "live" /\ run'[t][1] \in Final
             /\ output'[t] = output[t]
    BY <2>2, <2>3 DEF CommandLeft, Final
  <2>4. CASE /\ run'[t][1] = run[t][1] /\ output'[t] = output[t]
             /\ Stage(shell'[t]) < Stage(shell[t])
    BY <2>2, <2>4 DEF CommandLeft
  <2>5. CASE /\ shell'[t] = shell[t] /\ run'[t][1] = run[t][1]
             /\ Holders(output'[t]) < Holders(output[t])
    BY <2>2, <2>5 DEF CommandLeft
  <2> QED
    BY <2>1, <2>3, <2>4, <2>5 DEF CommandStep
<1> QED
  BY <1>1, <1>2, <1>3, NextStarted, SpecIInv, PTL DEF Spec
=============================================================================
