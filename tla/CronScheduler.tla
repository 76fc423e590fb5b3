--------------------------- MODULE CronScheduler ---------------------------
(***************************************************************************)
(* The cron schedulers of the sessions that are open on one project.  They *)
(* share two files: scheduled_tasks.lock, whose owner runs the check loop  *)
(* while the others probe it, and scheduled_tasks.json, which schedulers   *)
(* and cron tools read and rewrite with no lock between processes.         *)
(*                                                                         *)
(* A file is truncated and then written, so that a reader may find it      *)
(* empty.  A one-shot task is due or not yet; whether a recurring one is   *)
(* due is left open, and one that has aged counts as one-shot.  Left out:  *)
(* I/O errors, the limit of 50 tasks, a session id that is kept by         *)
(* another process (no caller passes one, so it is the process id), and a  *)
(* new process with the process id of a killed session, which would make   *)
(* isProcessRunning take the lock of that session for a live one.          *)
(***************************************************************************)
EXTENDS Integers, FiniteSets

CONSTANTS
    Session,    \* processes
    Task,       \* scheduled tasks
    Recurring,  \* those that fire again and again
    Initial,    \* the task lists that the sessions may find at first
    MaxEvents   \* bound: running schedulers stopped, sessions killed, and,
                \* counted twice, tasks created, deleted or stamped

ASSUME TaskAssumption == Recurring \subseteq Task /\ Initial \subseteq SUBSET Task
ASSUME SlotAssumption == Task \cap {"mark", "missed", "tool"} = {}
ASSUME MaxEventsAssumption == MaxEvents \in Nat

OneShot == Task \ Recurring

\* The goroutines of a session that rewrite the task file: one for each
\* one-shot task that fired, the one that stamps the recurring ones, the one
\* in loadTasks, and a cron tool (Store.mu lets one at a time in).
Slot == OneShot \cup {"mark", "missed", "tool"}

VARIABLES
    alive,      \* sessions whose process runs
    mode,       \* "new", "stopped" (Scheduler.stopped), "starting", "running"
    isOwner,    \* Scheduler.isOwner
    probing,    \* sessions whose lockProbe ticks
    acq,        \* where TryAcquireSchedulerLock is
    rel,        \* where ReleaseSchedulerLock is
    lockFile,   \* {s} while there is a lock file and s created it
    written,    \* its content is there
    stolen,     \* history: the lock of a live session was taken for stale
    content,    \* the task file: "good", truncated ("empty") or "garbled"
    file,       \* the tasks in it when it is good
    known,      \* history: the tasks that ever existed
    due,        \* one-shot tasks whose moment has come
    list,       \* the tick of the check loop, and what it has read
    load,       \* where loadTasks is
    inFlight,   \* Scheduler.inFlight
    never,      \* the tasks with nextFireAt = -1
    asked,      \* Scheduler.missedAsked
    job,        \* job[s][k]: the rewrite in slot k of s
    fired,      \* history: how often the check loop of s fired a task, up to twice
    gone,       \* history: tasks it fired whose removal is over: it reached the
                \* file, or the file had lost them or was unreadable
    events      \* as MaxEvents counts them

lockVars == <<alive, mode, isOwner, probing, acq, rel, lockFile, written, stolen>>
fileVars == <<content, file, known, due>>
taskVars == <<list, load, inFlight, never, asked, job, fired, gone>>
vars == <<lockVars, fileVars, taskVars, events>>

End == events < MaxEvents /\ events' = events + 1
Edit == events + 1 < MaxEvents /\ events' = events + 2

\* A rewrite waits to read the file, or has read it and knows what to write,
\* or has truncated it.
Job == [phase : {"idle", "ready", "read", "truncated"},
        drop : SUBSET Task, stamp : SUBSET Task, write : SUBSET Task]
NoJob == [phase |-> "idle", drop |-> {}, stamp |-> {}, write |-> {}]
Removal(S) == [NoJob EXCEPT !.phase = "ready", !.drop = S]
Stamping(S) == [NoJob EXCEPT !.phase = "ready", !.stamp = S]

\* The type invariant.
TypeOK ==
    /\ alive \subseteq Session /\ isOwner \subseteq alive /\ probing \subseteq alive
    /\ mode \in [Session -> {"new", "stopped", "starting", "running"}]
    /\ acq \in [Session -> {"none", "create", "read", "unlink", "recreate", "write"}]
    /\ rel \in [Session -> {"none", "read", "remove"}]
    /\ lockFile \subseteq Session /\ \A s, u \in lockFile : s = u
    /\ written \in BOOLEAN /\ stolen \in BOOLEAN
    /\ content \in {"good", "empty", "garbled"}
    /\ file \subseteq Task /\ known \subseteq Task /\ due \subseteq OneShot
    /\ list \in [Session -> [tick : BOOLEAN, tasks : SUBSET Task]]
    /\ load \in [Session -> {"none", "reading", "removing"}]
    /\ inFlight \in [Session -> SUBSET OneShot]
    /\ never \in [Session -> SUBSET OneShot]
    /\ asked \in [Session -> SUBSET OneShot]
    /\ job \in [Session -> [Slot -> Job]]
    /\ fired \in [Session -> [OneShot -> 0 .. 2]]
    /\ gone \in [Session -> SUBSET OneShot]
    /\ events \in 0 .. MaxEvents

NoTick == [tick |-> FALSE, tasks |-> {}]

Init ==
    /\ alive = Session /\ isOwner = {} /\ probing = {}
    /\ mode = [s \in Session |-> "new"]
    /\ acq = [s \in Session |-> "none"] /\ rel = [s \in Session |-> "none"]
    /\ lockFile = {} /\ written = FALSE /\ stolen = FALSE
    /\ content = "good" /\ file \in Initial /\ known = file /\ due = {}
    /\ list = [s \in Session |-> NoTick]
    /\ load = [s \in Session |-> "none"]
    /\ inFlight = [s \in Session |-> {}] /\ never = [s \in Session |-> {}]
    /\ asked = [s \in Session |-> {}]
    /\ job = [s \in Session |-> [k \in Slot |-> NoJob]]
    /\ fired = [s \in Session |-> [t \in OneShot |-> 0]]
    /\ gone = [s \in Session |-> {}]
    /\ events = 0

-----------------------------------------------------------------------------
(* TryAcquireSchedulerLock and ReleaseSchedulerLock.  lockMu lets a process *)
(* be in one of them at a time.                                             *)

LockMuFree(s) == acq[s] = "none" /\ rel[s] = "none"

\* The call of TryAcquire goes on at `to`.
Step(s, to) ==
    /\ acq' = [acq EXCEPT ![s] = to]
    /\ UNCHANGED <<mode, isOwner, probing, load>>

\* It returns: Start goes on, the probe ends or waits for its next tick.
Acquired(s, owned) ==
    /\ acq' = [acq EXCEPT ![s] = "none"]
    /\ isOwner' = IF owned THEN isOwner \cup {s}
                  ELSE IF mode[s] = "starting" THEN isOwner \ {s} ELSE isOwner
    /\ probing' = IF owned THEN probing \ {s}
                  ELSE IF mode[s] = "starting" THEN probing \cup {s} ELSE probing
    /\ load' = [load EXCEPT ![s] = IF owned THEN "reading" ELSE load[s]]
    /\ mode' = [mode EXCEPT ![s] =
                  IF ~owned /\ mode[s] = "starting" THEN "running" ELSE mode[s]]

lockRest == <<alive, rel, fileVars, list, inFlight, never, asked, job,
              fired, gone, events>>

\* Faulty: the file is not opened with O_EXCL.
CreateLockShared(s) ==
    /\ acq[s] \in {"create", "recreate"}
    /\ lockFile' = {s} /\ written' = FALSE /\ Step(s, "write")
    /\ UNCHANGED <<stolen, lockRest>>

\* tryCreateExclusive, up to the creation of the file; the second time, a
\* file that is there means that another session has won.
CreateLock(s) ==
    /\ acq[s] \in {"create", "recreate"}
    /\ \/ /\ lockFile = {}
          /\ lockFile' = {s} /\ written' = FALSE /\ Step(s, "write")
       \/ /\ lockFile # {} /\ acq[s] = "create"
          /\ Step(s, "read") /\ UNCHANGED <<lockFile, written>>
       \/ /\ lockFile # {} /\ acq[s] = "recreate"
          /\ Acquired(s, FALSE) /\ UNCHANGED <<lockFile, written>>
    /\ UNCHANGED <<stolen, lockRest>>

\* The content is written, wherever the file is by now.
WriteLock(s) ==
    /\ acq[s] = "write"
    /\ written' = (written \/ lockFile = {s})
    /\ Acquired(s, TRUE)
    /\ UNCHANGED <<lockFile, stolen, lockRest>>

\* The lock another session holds, as readLockFile and isProcessRunning see it.
HeldByOther(s) == written /\ (lockFile \cap alive) \ {s} # {}

\* Faulty: a lock that is there is never stale.
ReadLockTrusting(s) ==
    /\ acq[s] = "read"
    /\ \/ written /\ lockFile = {s} /\ Acquired(s, TRUE)
       \/ written /\ lockFile \ {s} # {} /\ Acquired(s, FALSE)
       \/ ~(written /\ lockFile # {}) /\ Step(s, "unlink")
    /\ UNCHANGED <<lockFile, written, stolen, lockRest>>

\* A file that is gone by now, has no content yet, or names a process that
\* has ended is taken for stale.
ReadLock(s) ==
    /\ acq[s] = "read"
    /\ \/ written /\ lockFile = {s} /\ Acquired(s, TRUE)
       \/ HeldByOther(s) /\ Acquired(s, FALSE)
       \/ ~HeldByOther(s) /\ ~(written /\ lockFile = {s}) /\ Step(s, "unlink")
    /\ UNCHANGED <<lockFile, written, stolen, lockRest>>

\* What is removed is the file that is there now.
UnlinkLock(s) ==
    /\ acq[s] = "unlink"
    /\ stolen' = (stolen \/ lockFile \cap alive # {})
    /\ lockFile' = {} /\ written' = FALSE
    /\ Step(s, "recreate")
    /\ UNCHANGED lockRest

relRest == <<alive, mode, isOwner, probing, acq, fileVars, taskVars, events>>

\* ReleaseSchedulerLock removes the lock of this session only.
ReadBeforeRelease(s) ==
    /\ rel[s] = "read"
    /\ rel' = [rel EXCEPT ![s] = IF written /\ lockFile = {s} THEN "remove" ELSE "none"]
    /\ UNCHANGED <<lockFile, written, stolen, relRest>>

RemoveLock(s) ==
    /\ rel[s] = "remove"
    /\ rel' = [rel EXCEPT ![s] = "none"]
    /\ lockFile' = {} /\ written' = FALSE
    /\ UNCHANGED <<stolen, relRest>>

-----------------------------------------------------------------------------
(* Start, Stop and the lock probe. *)

\* Start does nothing unless the scheduler was stopped before.  (A Start that
\* overtakes what the last one left in flight is left out: acquiring, a tick,
\* loadTasks take milliseconds.)
Start(s) ==
    /\ s \in alive /\ mode[s] = "stopped" /\ LockMuFree(s)
    /\ load[s] = "none" /\ ~list[s].tick
    /\ mode' = [mode EXCEPT ![s] = "starting"]
    /\ acq' = [acq EXCEPT ![s] = "create"]
    /\ UNCHANGED <<alive, isOwner, probing, rel, lockFile, written, stolen>>
    /\ UNCHANGED <<fileVars, taskVars, events>>

\* Stop, called like Start by the session's main goroutine.  A probe that is
\* in flight goes on; one that owns the lock is not probing, so lockMu is free.
Stop(s) ==
    /\ s \in alive /\ mode[s] \in {"new", "running"} /\ rel[s] = "none"
    /\ IF mode[s] = "running" THEN End ELSE UNCHANGED events
    /\ mode' = [mode EXCEPT ![s] = "stopped"]
    /\ probing' = probing \ {s}
    /\ isOwner' = isOwner \ {s}
    /\ rel' = [rel EXCEPT ![s] = IF s \in isOwner THEN "read" ELSE "none"]
    /\ UNCHANGED <<alive, acq, lockFile, written, stolen, fileVars, taskVars>>

\* A tick of runLockProbe.
Probe(s) ==
    /\ s \in probing /\ mode[s] = "running" /\ LockMuFree(s)
    /\ acq' = [acq EXCEPT ![s] = "create"]
    /\ UNCHANGED <<alive, mode, isOwner, probing, rel, lockFile, written, stolen>>
    /\ UNCHANGED <<fileVars, taskVars, events>>

\* The process is killed, or exits; its files stay as they are.
Kill(s) ==
    /\ s \in alive /\ End
    /\ alive' = alive \ {s} /\ isOwner' = isOwner \ {s} /\ probing' = probing \ {s}
    /\ mode' = [mode EXCEPT ![s] = "stopped"]
    /\ acq' = [acq EXCEPT ![s] = "none"] /\ rel' = [rel EXCEPT ![s] = "none"]
    /\ list' = [list EXCEPT ![s] = NoTick]
    /\ load' = [load EXCEPT ![s] = "none"]
    /\ inFlight' = [inFlight EXCEPT ![s] = {}] /\ never' = [never EXCEPT ![s] = {}]
    /\ asked' = [asked EXCEPT ![s] = {}]
    /\ job' = [job EXCEPT ![s] = [k \in Slot |-> NoJob]]
    /\ fired' = [fired EXCEPT ![s] = [t \in OneShot |-> 0]]
    /\ gone' = [gone EXCEPT ![s] = {}]
    /\ UNCHANGED <<lockFile, written, stolen, fileVars>>

LockStep(s) ==
    \/ CreateLock(s) \/ WriteLock(s) \/ ReadLock(s) \/ UnlinkLock(s)
    \/ ReadBeforeRelease(s) \/ RemoveLock(s)

-----------------------------------------------------------------------------
(* The task file: ReadCronTasks, and the read, change and write of          *)
(* RemoveCronTasks, MarkCronTasksFired and the cron tools' Store.           *)

\* A file that does not parse holds no tasks.
Listed == IF content = "good" THEN file ELSE {}

SetJob(s, k, j) == job' = [job EXCEPT ![s] = [job[s] EXCEPT ![k] = j]]

\* A rewrite that finds none of its tasks writes nothing.
Changes(j) == (j.drop \cup j.stamp) \cap Listed # {}

\* The rewrite in slot k is over, and its goroutine or loadTasks goes on.
Finish(s, k) ==
    /\ SetJob(s, k, NoJob)
    /\ gone' = [gone EXCEPT ![s] = gone[s] \cup ({k} \cap OneShot)]
    /\ inFlight' = [inFlight EXCEPT ![s] = inFlight[s] \ {k}]
    /\ load' = [load EXCEPT ![s] = IF k = "missed" THEN "none" ELSE load[s]]
    /\ mode' = [mode EXCEPT ![s] =
                  IF k = "missed" /\ mode[s] = "starting" THEN "running" ELSE mode[s]]

jobRest == <<alive, isOwner, probing, acq, rel, lockFile, written, stolen, known,
             due, list, never, asked, fired, events>>

ReadTasks(s, k) ==
    /\ job[s][k].phase = "ready"
    /\ \/ /\ Changes(job[s][k])
          /\ SetJob(s, k, [job[s][k] EXCEPT !.phase = "read", !.write = Listed \ job[s][k].drop])
          /\ UNCHANGED <<mode, load, inFlight, gone>>
       \/ ~Changes(job[s][k]) /\ Finish(s, k)
    /\ UNCHANGED <<content, file, jobRest>>

TruncateTasks(s, k) ==
    /\ job[s][k].phase = "read"
    /\ SetJob(s, k, [job[s][k] EXCEPT !.phase = "truncated"])
    /\ content' = "empty" /\ file' = {}
    /\ UNCHANGED <<mode, load, inFlight, gone, jobRest>>

\* Over something longer that another process wrote meanwhile, the list does
\* not make a valid file.
WriteTasks(s, k) ==
    /\ job[s][k].phase = "truncated"
    /\ \/ content' = "good" /\ file' = job[s][k].write
       \/ content # "empty" /\ content' = "garbled" /\ file' = {}
    /\ Finish(s, k)
    /\ UNCHANGED jobRest

\* CronCreate and CronDelete, up to the read: a task gets a new id; one that
\* is not listed cannot be deleted.
Tool(s, write) ==
    /\ s \in alive /\ job[s]["tool"].phase = "idle" /\ Edit
    /\ SetJob(s, "tool", [NoJob EXCEPT !.phase = "read", !.write = write])
    /\ UNCHANGED <<lockVars, content, file, due, list, load, inFlight, never,
                   asked, fired, gone>>

CreateTask(s, t) ==
    /\ t \in Task \ known /\ known' = known \cup {t}
    /\ Tool(s, Listed \cup {t})

DeleteTask(s, t) ==
    /\ t \in Listed /\ UNCHANGED known
    /\ Tool(s, Listed \ {t})

-----------------------------------------------------------------------------
(* The check loop and loadTasks. *)

\* The moment of a one-shot task comes.
Moment(t) ==
    /\ t \in (OneShot \cap known) \ due
    /\ due' = due \cup {t}
    /\ UNCHANGED <<lockVars, content, file, known, taskVars, events>>

tickRest == <<lockVars, fileVars, load, asked, gone>>

\* A tick: the owner reads the tasks,
Tick(s) ==
    /\ s \in isOwner /\ mode[s] = "running" /\ ~list[s].tick
    /\ list' = [list EXCEPT ![s] = [tick |-> TRUE, tasks |-> Listed]]
    /\ UNCHANGED <<tickRest, inFlight, never, job, fired, events>>

\* One-shot tasks that this tick fires.
DueNow(s) == (list[s].tasks \cap due) \ (inFlight[s] \cup never[s])

\* The tick fires the one-shot tasks F and the recurring ones R.
Fire(s, F, R) ==
    /\ list[s].tick
    /\ IF R = {} THEN UNCHANGED events ELSE job[s]["mark"].phase = "idle" /\ Edit
    /\ list' = [list EXCEPT ![s] = NoTick]
    /\ inFlight' = [inFlight EXCEPT ![s] = inFlight[s] \cup F]
    /\ fired' = [fired EXCEPT ![s] = [t \in OneShot |->
                    IF t \in F /\ fired[s][t] < 2 THEN fired[s][t] + 1 ELSE fired[s][t]]]
    /\ never' = [never EXCEPT ![s] = never[s] \cap list[s].tasks]
    /\ job' = [job EXCEPT ![s] = [k \in Slot |->
                    IF k \in F THEN Removal({k})
                    ELSE IF k = "mark" /\ R # {} THEN Stamping(R) ELSE job[s][k]]]
    /\ UNCHANGED tickRest

\* Faulty: what is being removed is not passed over.
CheckIgnoresInFlight(s) ==
    \E R \in SUBSET (list[s].tasks \cap Recurring) :
        Fire(s, (list[s].tasks \cap due) \ never[s], R)

\* Faulty: recurring tasks are removed too.
CheckRemovesAll(s) ==
    \E R \in SUBSET (list[s].tasks \cap Recurring) : Fire(s, DueNow(s) \cup R, R)

\* and, with the lock of the scheduler held, fires what is due; each one-shot
\* task gets a goroutine that removes it, the recurring ones one that stamps
\* them.  (Two fires of a recurring task are a minute apart: it is stamped by
\* then.)
Check(s) ==
    \E R \in SUBSET (list[s].tasks \cap Recurring) : Fire(s, DueNow(s), R)

\* loadTasks, called by Start and by the probe once they own the lock: the
\* one-shot tasks that were missed are reported, not fired, and removed.
Load(s) ==
    LET missed == (Listed \cap due) \ asked[s] IN
    /\ load[s] = "reading"
    /\ asked' = [asked EXCEPT ![s] = asked[s] \cup missed]
    /\ never' = [never EXCEPT ![s] = never[s] \cup missed]
    /\ \/ /\ missed # {}
          /\ SetJob(s, "missed", Removal(missed))
          /\ load' = [load EXCEPT ![s] = "removing"]
          /\ UNCHANGED mode
       \/ /\ missed = {}
          /\ load' = [load EXCEPT ![s] = "none"]
          /\ mode' = [mode EXCEPT ![s] = IF mode[s] = "starting" THEN "running" ELSE mode[s]]
          /\ UNCHANGED job
    /\ UNCHANGED <<alive, isOwner, probing, acq, rel, lockFile, written, stolen, fileVars,
                   list, inFlight, fired, gone, events>>

-----------------------------------------------------------------------------
TaskStep(s) ==
    \/ \E k \in Slot : ReadTasks(s, k) \/ TruncateTasks(s, k) \/ WriteTasks(s, k)
    \/ \E t \in Task : CreateTask(s, t) \/ DeleteTask(s, t)
    \/ Tick(s) \/ Check(s) \/ Load(s)

Next ==
    \/ \E s \in Session : LockStep(s) \/ Start(s) \/ Stop(s) \/ Probe(s) \/ Kill(s) \/ TaskStep(s)
    \/ \E t \in Task : Moment(t)

Spec == Init /\ [][Next]_vars

\* A session that lives goes on acquiring or releasing, and its probe ticks.
FairSpec ==
    /\ Spec
    /\ \A s \in Session : WF_vars(LockStep(s)) /\ WF_vars(Probe(s))

-----------------------------------------------------------------------------
(* Properties. *)

\* Only one live session owns the lock and runs the check loop, unless the
\* lock of a live session was taken for stale: in the moment before its
\* content is written, or because a stale lock was replaced after it was read.
OneOwner == stolen \/ \A s, u \in isOwner : s = u

\* The check loop of a session does not fire a one-shot task again while the
\* removal that it started the first time is still under way.
FiresAgain ==
    \A s \in Session, t \in OneShot : fired[s][t] = 2 => t \in gone[s]

\* While a session probes the lock, the tasks do not stay without an owner:
\* one that was killed or stopped, at whatever step, is replaced.
Takeover == \A s \in Session : s \in probing ~> (isOwner # {} \/ s \notin probing)
=============================================================================
