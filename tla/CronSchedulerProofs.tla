------------------------ MODULE CronSchedulerProofs ------------------------
(***************************************************************************)
(* CronScheduler for any sessions and tasks, and however often schedulers  *)
(* are stopped and started and sessions killed: at most one owner while no *)
(* live session's lock was taken for stale, no second fire of a task that  *)
(* is still being removed, and no lock that keeps the others away without  *)
(* somebody who holds it.                                                  *)
(***************************************************************************)
EXTENDS CronScheduler, TLAPS

\* The type invariant in three parts.
LockTypes ==
    /\ alive \subseteq Session /\ isOwner \subseteq alive /\ probing \subseteq alive
    /\ mode \in [Session -> {"new", "stopped", "starting", "running"}]
    /\ acq \in [Session -> {"none", "create", "read", "unlink", "recreate", "write"}]
    /\ rel \in [Session -> {"none", "read", "remove"}]
    /\ load \in [Session -> {"none", "reading", "removing"}]
    /\ lockFile \subseteq Session /\ \A s, u \in lockFile : s = u
    /\ written \in BOOLEAN /\ stolen \in BOOLEAN

FileTypes ==
    /\ content \in {"good", "empty", "garbled"}
    /\ file \subseteq Task /\ known \subseteq Task /\ due \subseteq OneShot
    /\ events \in 0 .. MaxEvents

TaskTypes ==
    /\ list \in [Session -> [tick : BOOLEAN, tasks : SUBSET Task]]
    /\ inFlight \in [Session -> SUBSET OneShot]
    /\ never \in [Session -> SUBSET OneShot]
    /\ asked \in [Session -> SUBSET OneShot]
    /\ job \in [Session -> [Slot -> Job]]
    /\ fired \in [Session -> [OneShot -> 0 .. 2]]
    /\ gone \in [Session -> SUBSET OneShot]

\* The parts make up the type invariant.
LEMMA Types == TypeOK <=> LockTypes /\ FileTypes /\ TaskTypes
BY DEF TypeOK, LockTypes, FileTypes, TaskTypes

\* What a session is doing with the lock and with loadTasks.
Calls ==
    \A s \in Session :
        /\ acq[s] # "none" \/ rel[s] # "none" => s \in alive
        /\ acq[s] # "none" => rel[s] = "none" /\ load[s] = "none" /\ mode[s] # "new"
        /\ s \in isOwner => rel[s] = "none" /\ (acq[s] # "none" => mode[s] = "starting")
        /\ s \in probing => mode[s] = "running" /\ s \notin isOwner /\ load[s] = "none"
        /\ job[s]["missed"].phase # "idle" => load[s] = "removing"

\* Owning the lock, writing it and being about to remove it all mean that the
\* lock file is the session's own.
Exclusive ==
    stolen \/ /\ \A s \in isOwner : lockFile = {s} /\ written
              /\ \A s \in Session : acq[s] = "write" \/ rel[s] = "remove" => lockFile = {s}

\* A task that has been fired is being removed until its removal is over.
Pending ==
    \A s \in Session, t \in OneShot :
        /\ fired[s][t] > 0 => t \in inFlight[s] \cup gone[s]
        /\ fired[s][t] > 1 => t \in gone[s]

IInv == LockTypes /\ FileTypes /\ TaskTypes /\ Calls /\ Exclusive /\ Pending

\* The values jobs and ticks take, and the slots.
LEMMA TypeFacts ==
    /\ NoJob \in Job
    /\ \A S \in SUBSET Task : Removal(S) \in Job /\ Stamping(S) \in Job
    /\ \A S \in SUBSET Task : Removal(S).phase = "ready" /\ Stamping(S).phase = "ready"
    /\ NoJob.phase = "idle"
    /\ "missed" \in Slot /\ "mark" \in Slot /\ "tool" \in Slot
    /\ "missed" \notin OneShot /\ "mark" \notin OneShot /\ "tool" \notin OneShot
    /\ OneShot \subseteq Task /\ OneShot \subseteq Slot
    /\ NoTick \in [tick : BOOLEAN, tasks : SUBSET Task]
<1>1. OneShot \subseteq Task
  BY DEF OneShot
<1> QED
  BY <1>1, SlotAssumption DEF NoJob, Job, Removal, Stamping, Slot, NoTick

LEMMA InitIInv == Init => IInv
<1> SUFFICES ASSUME Init PROVE IInv
  OBVIOUS
<1>1. LockTypes /\ FileTypes
  <2>1. LockTypes
    BY DEF Init, LockTypes
  <2>2. events \in 0 .. MaxEvents
    BY MaxEventsAssumption DEF Init
  <2>3. content = "good" /\ file = known /\ file \in SUBSET Task /\ due = {}
    BY TaskAssumption DEF Init
  <2> QED
    BY <2>1, <2>2, <2>3 DEF FileTypes
<1>2. TaskTypes
  BY TypeFacts DEF Init, TaskTypes
<1>3. Calls /\ Exclusive /\ Pending
  BY TypeFacts DEF Init, Calls, Exclusive, Pending
<1> QED
  BY <1>1, <1>2, <1>3 DEF IInv

LEMMA AcquiredOK ==
    ASSUME LockTypes, Calls, NEW s \in Session, NEW owned \in BOOLEAN,
           acq[s] # "none", Acquired(s, owned), UNCHANGED lockRest
    PROVE  /\ isOwner' \subseteq alive /\ probing' \subseteq alive
           /\ mode' \in [Session -> {"new", "stopped", "starting", "running"}]
           /\ acq' \in [Session -> {"none", "create", "read", "unlink", "recreate", "write"}]
           /\ load' \in [Session -> {"none", "reading", "removing"}]
           /\ Calls'
<1>1. s \in alive
  BY DEF Calls
<1>2. /\ isOwner' \subseteq alive /\ probing' \subseteq alive
      /\ mode' \in [Session -> {"new", "stopped", "starting", "running"}]
      /\ acq' \in [Session -> {"none", "create", "read", "unlink", "recreate", "write"}]
      /\ load' \in [Session -> {"none", "reading", "removing"}]
  BY <1>1 DEF LockTypes, Acquired
<1>3. Calls'
  <2> SUFFICES ASSUME NEW u \in Session
      PROVE  /\ acq'[u] # "none" \/ rel[u] # "none" => u \in alive
             /\ acq'[u] # "none" => rel[u] = "none" /\ load'[u] = "none" /\ mode'[u] # "new"
             /\ u \in isOwner' => rel[u] = "none" /\ (acq'[u] # "none" => mode'[u] = "starting")
             /\ u \in probing' => mode'[u] = "running" /\ u \notin isOwner' /\ load'[u] = "none"
             /\ job[u]["missed"].phase # "idle" => load'[u] = "removing"
    BY DEF Calls, lockRest
  <2>1. CASE u = s
    BY <2>1 DEF LockTypes, Calls, Acquired
  <2>2. CASE u # s
    BY <2>2 DEF LockTypes, Calls, Acquired
  <2> QED
    BY <2>1, <2>2
<1> QED
  BY <1>2, <1>3

\* The task part of the state is not touched by the lock protocol.
LEMMA TaskFrame ==
    IInv /\ UNCHANGED <<list, inFlight, never, asked, job, fired, gone>>
        => TaskTypes' /\ Pending'
BY DEF IInv, TaskTypes, Pending

\* TryAcquire: the file is created, or is there.
LEMMA CreateLockIInv == ASSUME NEW s \in Session PROVE IInv /\ CreateLock(s) => IInv'
<1> SUFFICES ASSUME IInv, CreateLock(s) PROVE IInv'
  OBVIOUS
<1>1. TaskTypes' /\ Pending' /\ FileTypes'
  BY TaskFrame DEF CreateLock, lockRest, fileVars, IInv, FileTypes
<1>2. LockTypes /\ Calls /\ Exclusive /\ acq[s] # "none"
  BY DEF IInv, CreateLock
<1>3. CASE /\ lockFile = {} /\ lockFile' = {s} /\ written' = FALSE /\ Step(s, "write")
  <2>1. LockTypes'
    BY <1>2, <1>3 DEF LockTypes, Step, CreateLock, lockRest
  <2>2. Calls'
    BY <1>2, <1>3 DEF LockTypes, Calls, Step, CreateLock, lockRest
  <2>3. Exclusive'
    BY <1>2, <1>3 DEF LockTypes, Exclusive, Step, CreateLock, lockRest
  <2> QED
    BY <1>1, <2>1, <2>2, <2>3 DEF IInv
<1>4. CASE Step(s, "read") /\ UNCHANGED <<lockFile, written>>
  <2>1. LockTypes'
    BY <1>2, <1>4 DEF LockTypes, Step, CreateLock, lockRest
  <2>2. Calls'
    BY <1>2, <1>4 DEF LockTypes, Calls, Step, CreateLock, lockRest
  <2>3. Exclusive'
    BY <1>2, <1>4 DEF LockTypes, Exclusive, Step, CreateLock, lockRest
  <2> QED
    BY <1>1, <2>1, <2>2, <2>3 DEF IInv
<1>5. CASE Acquired(s, FALSE) /\ UNCHANGED <<lockFile, written>>
  <2>1. LockTypes' /\ Calls'
    BY <1>2, <1>5, AcquiredOK DEF LockTypes, CreateLock, lockRest
  <2>2. Exclusive'
    BY <1>2, <1>5 DEF LockTypes, Exclusive, Acquired, CreateLock, lockRest
  <2> QED
    BY <1>1, <2>1, <2>2 DEF IInv
<1> QED
  BY <1>3, <1>4, <1>5 DEF CreateLock

\* TryAcquire: the content is written.
LEMMA WriteLockIInv == ASSUME NEW s \in Session PROVE IInv /\ WriteLock(s) => IInv'
<1> SUFFICES ASSUME IInv, WriteLock(s) PROVE IInv'
  OBVIOUS
<1>1. TaskTypes' /\ Pending' /\ FileTypes'
  BY TaskFrame DEF WriteLock, lockRest, fileVars, IInv, FileTypes
<1>2. LockTypes /\ Calls /\ Exclusive /\ acq[s] = "write"
  BY DEF IInv, WriteLock
<1>3. LockTypes' /\ Calls'
  BY <1>2, AcquiredOK DEF LockTypes, WriteLock, lockRest
<1>4. Exclusive'
  BY <1>2 DEF LockTypes, Exclusive, Acquired, WriteLock, lockRest
<1> QED
  BY <1>1, <1>3, <1>4 DEF IInv

\* TryAcquire: the file is read.
LEMMA ReadLockIInv == ASSUME NEW s \in Session PROVE IInv /\ ReadLock(s) => IInv'
<1> SUFFICES ASSUME IInv, ReadLock(s) PROVE IInv'
  OBVIOUS
<1>1. TaskTypes' /\ Pending' /\ FileTypes'
  BY TaskFrame DEF ReadLock, lockRest, fileVars, IInv, FileTypes
<1>2. LockTypes /\ Calls /\ Exclusive /\ acq[s] = "read"
  BY DEF IInv, ReadLock
<1>3. CASE written /\ lockFile = {s} /\ Acquired(s, TRUE)
  <2>1. LockTypes' /\ Calls'
    BY <1>2, <1>3, AcquiredOK DEF LockTypes, ReadLock, lockRest
  <2>2. Exclusive'
    BY <1>2, <1>3 DEF LockTypes, Exclusive, Acquired, ReadLock, lockRest
  <2> QED
    BY <1>1, <2>1, <2>2 DEF IInv
<1>4. CASE Acquired(s, FALSE)
  <2>1. LockTypes' /\ Calls'
    BY <1>2, <1>4, AcquiredOK DEF LockTypes, ReadLock, lockRest
  <2>2. Exclusive'
    BY <1>2, <1>4 DEF LockTypes, Exclusive, Acquired, ReadLock, lockRest
  <2> QED
    BY <1>1, <2>1, <2>2 DEF IInv
<1>5. CASE Step(s, "unlink")
  <2>1. LockTypes' /\ Calls'
    BY <1>2, <1>5 DEF LockTypes, Calls, Step, ReadLock, lockRest
  <2>2. Exclusive'
    BY <1>2, <1>5 DEF LockTypes, Exclusive, Step, ReadLock, lockRest
  <2> QED
    BY <1>1, <2>1, <2>2 DEF IInv
<1> QED
  BY <1>3, <1>4, <1>5 DEF ReadLock

\* TryAcquire: whatever is there is unlinked.  If that is not the lock of a
\* live session, nobody owns, writes or releases it.
LEMMA UnlinkLockIInv == ASSUME NEW s \in Session PROVE IInv /\ UnlinkLock(s) => IInv'
<1> SUFFICES ASSUME IInv, UnlinkLock(s) PROVE IInv'
  OBVIOUS
<1>1. TaskTypes' /\ Pending' /\ FileTypes'
  BY TaskFrame DEF UnlinkLock, lockRest, fileVars, IInv, FileTypes
<1>2. LockTypes /\ Calls /\ Exclusive /\ acq[s] = "unlink"
  BY DEF IInv, UnlinkLock
<1>3. LockTypes' /\ Calls'
  <2>1. LockTypes'
    BY <1>2 DEF LockTypes, Step, UnlinkLock, lockRest
  <2>2. Calls'
    BY <1>2 DEF LockTypes, Calls, Step, UnlinkLock, lockRest
  <2> QED
    BY <2>1, <2>2
<1>4. Exclusive'
  <2>1. CASE stolen'
    BY <2>1 DEF Exclusive
  <2>2. CASE ~stolen'
    <3>1. ~stolen /\ lockFile \cap alive = {}
      BY <2>2 DEF UnlinkLock
    <3>2. isOwner = {}
      BY <1>2, <3>1 DEF Exclusive, LockTypes
    <3>3. \A u \in Session : acq[u] # "write" /\ rel[u] # "remove"
      BY <1>2, <3>1 DEF Exclusive, LockTypes, Calls
    <3> QED
      BY <1>2, <3>1, <3>2, <3>3 DEF Exclusive, LockTypes, Step, UnlinkLock, lockRest
  <2> QED
    BY <2>1, <2>2
<1> QED
  BY <1>1, <1>3, <1>4 DEF IInv

\* Release.
LEMMA ReadBeforeReleaseIInv ==
    ASSUME NEW s \in Session PROVE IInv /\ ReadBeforeRelease(s) => IInv'
<1> SUFFICES ASSUME IInv, ReadBeforeRelease(s) PROVE IInv'
  OBVIOUS
<1>1. TaskTypes' /\ Pending' /\ FileTypes'
  BY TaskFrame DEF ReadBeforeRelease, relRest, taskVars, fileVars, IInv, FileTypes
<1>2. LockTypes /\ Calls /\ Exclusive /\ rel[s] = "read"
  BY DEF IInv, ReadBeforeRelease
<1>3. LockTypes' /\ Calls'
  BY <1>2 DEF LockTypes, Calls, ReadBeforeRelease, relRest, taskVars
<1>4. Exclusive'
  BY <1>2 DEF LockTypes, Exclusive, ReadBeforeRelease, relRest
<1> QED
  BY <1>1, <1>3, <1>4 DEF IInv

LEMMA RemoveLockIInv == ASSUME NEW s \in Session PROVE IInv /\ RemoveLock(s) => IInv'
<1> SUFFICES ASSUME IInv, RemoveLock(s) PROVE IInv'
  OBVIOUS
<1>1. TaskTypes' /\ Pending' /\ FileTypes'
  BY TaskFrame DEF RemoveLock, relRest, taskVars, fileVars, IInv, FileTypes
<1>2. LockTypes /\ Calls /\ Exclusive /\ rel[s] = "remove"
  BY DEF IInv, RemoveLock
<1>3. LockTypes' /\ Calls'
  <2>1. LockTypes'
    BY <1>2 DEF LockTypes, RemoveLock, relRest, taskVars
  <2>2. Calls'
    BY <1>2 DEF LockTypes, Calls, RemoveLock, relRest, taskVars
  <2> QED
    BY <2>1, <2>2
<1>4. Exclusive'
  <2> SUFFICES ASSUME ~stolen PROVE Exclusive'
    BY DEF Exclusive, RemoveLock
  <2>1. lockFile = {s}
    BY <1>2 DEF Exclusive
  <2>2. \A u \in isOwner : u = s
    BY <1>2, <2>1 DEF Exclusive
  <2>3. isOwner = {}
    BY <1>2, <2>2 DEF Calls, LockTypes
  <2>4. \A u \in Session : acq[u] = "write" \/ rel[u] = "remove" => u = s
    BY <1>2, <2>1 DEF Exclusive
  <2>5. \A u \in Session : acq'[u] # "write" /\ rel'[u] # "remove"
    BY <1>2, <2>4 DEF Calls, LockTypes, RemoveLock, relRest
  <2> QED
    BY <2>3, <2>5 DEF Exclusive, RemoveLock, relRest
<1> QED
  BY <1>1, <1>3, <1>4 DEF IInv

\* Start and the tick of the probe.
LEMMA BeginIInv ==
    ASSUME NEW s \in Session PROVE IInv /\ (Start(s) \/ Probe(s)) => IInv'
<1> SUFFICES ASSUME IInv, Start(s) \/ Probe(s) PROVE IInv'
  OBVIOUS
<1>1. TaskTypes' /\ Pending' /\ FileTypes'
  BY TaskFrame DEF Start, Probe, taskVars, fileVars, IInv, FileTypes
<1>2. LockTypes /\ Calls /\ Exclusive
  BY DEF IInv
<1>3. LockTypes'
  BY <1>2 DEF LockTypes, Start, Probe, taskVars
<1>4. Calls'
  BY <1>2 DEF LockTypes, Calls, LockMuFree, Start, Probe, taskVars
<1>5. Exclusive'
  BY <1>2 DEF LockTypes, Exclusive, Start, Probe
<1> QED
  BY <1>1, <1>3, <1>4, <1>5 DEF IInv

LEMMA StopIInv == ASSUME NEW s \in Session PROVE IInv /\ Stop(s) => IInv'
<1> SUFFICES ASSUME IInv, Stop(s) PROVE IInv'
  OBVIOUS
<1>1. TaskTypes' /\ Pending'
  BY TaskFrame DEF Stop, taskVars
<1>2. FileTypes'
  BY MaxEventsAssumption DEF Stop, End, fileVars, IInv, FileTypes
<1>3. LockTypes /\ Calls /\ Exclusive
  BY DEF IInv
<1>4. LockTypes'
  BY <1>3 DEF LockTypes, Stop, taskVars
<1>5. Calls'
  BY <1>3 DEF LockTypes, Calls, Stop, taskVars
<1>6. Exclusive'
  BY <1>3 DEF LockTypes, Exclusive, Stop
<1> QED
  BY <1>1, <1>2, <1>4, <1>5, <1>6 DEF IInv

LEMMA KillIInv == ASSUME NEW s \in Session PROVE IInv /\ Kill(s) => IInv'
<1> SUFFICES ASSUME IInv, Kill(s) PROVE IInv'
  OBVIOUS
<1>1. LockTypes /\ Calls /\ Exclusive /\ FileTypes /\ TaskTypes /\ Pending
  BY DEF IInv
<1>2. FileTypes'
  BY <1>1, MaxEventsAssumption DEF Kill, End, fileVars, FileTypes
<1>3. TaskTypes'
  BY <1>1, TypeFacts DEF Kill, TaskTypes
<1>4. LockTypes'
  BY <1>1 DEF LockTypes, Kill
<1>5. Calls'
  BY <1>1, TypeFacts DEF LockTypes, TaskTypes, Calls, Kill
<1>6. Exclusive'
  BY <1>1 DEF LockTypes, Exclusive, Kill
<1>7. Pending'
  BY <1>1 DEF TaskTypes, Pending, Kill
<1> QED
  BY <1>2, <1>3, <1>4, <1>5, <1>6, <1>7 DEF IInv

\* The lock part of the state is not touched by the tasks.
LEMMA LockFrame ==
    ASSUME IInv, UNCHANGED <<alive, isOwner, probing, acq, rel, lockFile, written, stolen>>
    PROVE  /\ UNCHANGED <<mode, load>> => LockTypes'
           /\ Exclusive'
<1>1. LockTypes /\ Exclusive
  BY DEF IInv
<1>2. UNCHANGED <<mode, load>> => LockTypes'
  BY <1>1 DEF LockTypes
<1>3. Exclusive'
  BY <1>1 DEF Exclusive
<1> QED
  BY <1>2, <1>3

\* The end of a rewrite.
LEMMA FinishOK ==
    ASSUME IInv, NEW s \in Session, NEW k \in Slot, job[s][k].phase # "idle",
           Finish(s, k), UNCHANGED jobRest
    PROVE  LockTypes' /\ Calls' /\ TaskTypes' /\ Pending'
<1>1. LockTypes /\ Calls /\ TaskTypes /\ Pending
  BY DEF IInv
<1>2. LockTypes'
  BY <1>1 DEF LockTypes, Finish, jobRest
<1>3. TaskTypes'
  <2>1. [job[s] EXCEPT ![k] = NoJob] \in [Slot -> Job]
    BY <1>1, TypeFacts DEF TaskTypes
  <2>2. job' \in [Session -> [Slot -> Job]]
    BY <1>1, <2>1 DEF TaskTypes, Finish, SetJob
  <2> QED
    BY <1>1, <2>2 DEF TaskTypes, Finish, jobRest
<1>4. Calls'
  <2>1. \A u \in Session : job'[u]["missed"].phase # "idle" =>
            job[u]["missed"].phase # "idle" /\ ~(u = s /\ k = "missed")
    BY <1>1, TypeFacts DEF TaskTypes, Finish, SetJob
  <2>2. k = "missed" => load[s] = "removing" /\ acq[s] = "none" /\ s \notin probing
    BY <1>1 DEF Calls, LockTypes
  <2> QED
    BY <1>1, <2>1, <2>2 DEF Calls, LockTypes, Finish, jobRest
<1>5. Pending'
  BY <1>1 DEF TaskTypes, Pending, Finish, jobRest
<1> QED
  BY <1>2, <1>3, <1>4, <1>5

LEMMA ListedTasks == FileTypes => Listed \subseteq Task
BY DEF FileTypes, Listed

\* A job that goes on.
LEMMA JobGoesOn ==
    ASSUME IInv, NEW s \in Session, NEW k \in Slot, NEW j \in Job,
           SetJob(s, k, j), k = "missed" => j.phase = "idle" \/ job[s][k].phase # "idle",
           UNCHANGED <<list, inFlight, never, asked, fired, gone, load, mode, alive,
                       isOwner, probing, acq, rel>>
    PROVE  TaskTypes' /\ Pending' /\ Calls'
<1>1. TaskTypes /\ Pending /\ Calls
  BY DEF IInv
<1>2. [job[s] EXCEPT ![k] = j] \in [Slot -> Job]
  BY <1>1 DEF TaskTypes
<1>3. job' \in [Session -> [Slot -> Job]]
  BY <1>1, <1>2 DEF TaskTypes, SetJob
<1>4. TaskTypes' /\ Pending'
  BY <1>1, <1>3 DEF TaskTypes, Pending
<1>5. \A u \in Session : job'[u]["missed"].phase # "idle" => job[u]["missed"].phase # "idle"
  BY <1>1, TypeFacts DEF TaskTypes, SetJob
<1>6. Calls'
  BY <1>1, <1>5 DEF Calls
<1> QED
  BY <1>4, <1>6

LEMMA ReadTasksIInv ==
    ASSUME NEW s \in Session, NEW k \in Slot PROVE IInv /\ ReadTasks(s, k) => IInv'
<1> SUFFICES ASSUME IInv, ReadTasks(s, k) PROVE IInv'
  OBVIOUS
<1>1. FileTypes' /\ Exclusive'
  BY LockFrame DEF ReadTasks, jobRest, IInv, FileTypes
<1>2. CASE Finish(s, k)
  BY <1>1, <1>2, FinishOK DEF ReadTasks, IInv
<1>3. CASE ~Finish(s, k)
  <2> DEFINE j == [job[s][k] EXCEPT !.phase = "read", !.write = Listed \ job[s][k].drop]
  <2>1. SetJob(s, k, j) /\ UNCHANGED <<mode, load, inFlight, gone, jobRest>>
    BY <1>3 DEF ReadTasks
  <2>2. job[s][k] \in Job /\ Listed \subseteq Task
    BY ListedTasks DEF IInv, TaskTypes
  <2>3. j \in Job
    BY <2>2 DEF Job
  <2>4. job[s][k].phase # "idle"
    BY DEF ReadTasks
  <2> HIDE DEF j
  <2>5. TaskTypes' /\ Pending' /\ Calls'
    BY <2>1, <2>3, <2>4, JobGoesOn DEF jobRest
  <2>6. LockTypes'
    BY <2>1, LockFrame DEF jobRest
  <2> QED
    BY <1>1, <2>5, <2>6 DEF IInv
<1> QED
  BY <1>2, <1>3

LEMMA TruncateTasksIInv ==
    ASSUME NEW s \in Session, NEW k \in Slot PROVE IInv /\ TruncateTasks(s, k) => IInv'
<1> SUFFICES ASSUME IInv, TruncateTasks(s, k) PROVE IInv'
  OBVIOUS
<1> DEFINE j == [job[s][k] EXCEPT !.phase = "truncated"]
<1>1. FileTypes' /\ Exclusive' /\ LockTypes'
  BY LockFrame DEF TruncateTasks, jobRest, IInv, FileTypes
<1>2. j \in Job
  <2>1. job[s][k] \in Job
    BY DEF IInv, TaskTypes
  <2> QED
    BY <2>1 DEF Job
<1>3. job[s][k].phase # "idle" /\ SetJob(s, k, j)
  BY DEF TruncateTasks
<1> HIDE DEF j
<1>4. TaskTypes' /\ Pending' /\ Calls'
  BY <1>2, <1>3, JobGoesOn DEF TruncateTasks, jobRest
<1> QED
  BY <1>1, <1>4 DEF IInv

LEMMA WriteTasksIInv ==
    ASSUME NEW s \in Session, NEW k \in Slot PROVE IInv /\ WriteTasks(s, k) => IInv'
<1> SUFFICES ASSUME IInv, WriteTasks(s, k) PROVE IInv'
  OBVIOUS
<1>1. job[s][k].write \subseteq Task
  BY DEF IInv, TaskTypes, Job
<1>2. FileTypes'
  BY <1>1 DEF WriteTasks, jobRest, IInv, FileTypes
<1>3. Exclusive'
  BY LockFrame DEF WriteTasks, jobRest
<1>4. LockTypes' /\ Calls' /\ TaskTypes' /\ Pending'
  BY FinishOK DEF WriteTasks
<1> QED
  BY <1>2, <1>3, <1>4 DEF IInv

\* The cron tools.
LEMMA ToolIInv ==
    ASSUME NEW s \in Session, NEW t \in Task
    PROVE  IInv /\ (CreateTask(s, t) \/ DeleteTask(s, t)) => IInv'
<1> SUFFICES ASSUME IInv, CreateTask(s, t) \/ DeleteTask(s, t) PROVE IInv'
  OBVIOUS
<1>1. Listed \subseteq Task
  BY ListedTasks DEF IInv
<1>2. PICK w \in SUBSET Task : Tool(s, w) /\ known' \subseteq Task
  BY <1>1 DEF CreateTask, DeleteTask, IInv, FileTypes
<1> DEFINE j == [NoJob EXCEPT !.phase = "read", !.write = w]
<1>3. j \in Job
  BY TypeFacts DEF Job
<1>4. SetJob(s, "tool", j) /\ "tool" \in Slot /\ "tool" # "missed"
  BY <1>2, TypeFacts DEF Tool
<1> HIDE DEF j
<1>5. TaskTypes' /\ Pending' /\ Calls'
  BY <1>2, <1>3, <1>4, JobGoesOn DEF Tool, lockVars
<1>6. LockTypes' /\ Exclusive'
  BY <1>2, LockFrame DEF Tool, lockVars
<1>7. FileTypes'
  BY <1>2, MaxEventsAssumption DEF Tool, Edit, IInv, FileTypes
<1> QED
  BY <1>5, <1>6, <1>7 DEF IInv

\* The check loop: what it fires is not being removed already.
LEMMA TickIInv == ASSUME NEW s \in Session PROVE IInv /\ Tick(s) => IInv'
<1> SUFFICES ASSUME IInv, Tick(s) PROVE IInv'
  OBVIOUS
<1>1. Listed \subseteq Task
  BY ListedTasks DEF IInv
<1>2. TaskTypes'
  BY <1>1 DEF IInv, Tick, tickRest, TaskTypes
<1>3. LockTypes' /\ Exclusive'
  BY LockFrame DEF Tick, tickRest, lockVars
<1>4. Calls' /\ Pending' /\ FileTypes'
  BY DEF IInv, Calls, Pending, FileTypes, Tick, tickRest, lockVars, fileVars
<1> QED
  BY <1>2, <1>3, <1>4 DEF IInv

LEMMA CheckIInv == ASSUME NEW s \in Session PROVE IInv /\ Check(s) => IInv'
<1> SUFFICES ASSUME IInv, Check(s) PROVE IInv'
  OBVIOUS
<1> DEFINE F == DueNow(s)
<1>1. PICK R \in SUBSET (list[s].tasks \cap Recurring) : Fire(s, F, R)
  BY DEF Check
<1>2. F \subseteq OneShot /\ F \cap inFlight[s] = {} /\ R \subseteq Task
  BY TaskAssumption DEF DueNow, IInv, FileTypes
<1> HIDE DEF F
<1>3. TaskTypes /\ Pending /\ Calls
  BY DEF IInv
<1> DEFINE j == [k \in Slot |-> IF k \in F THEN Removal({k})
                                ELSE IF k = "mark" /\ R # {} THEN Stamping(R) ELSE job[s][k]]
<1>4. j \in [Slot -> Job] /\ j["missed"] = job[s]["missed"]
  BY <1>2, <1>3, TypeFacts DEF TaskTypes
<1>5. job' = [job EXCEPT ![s] = j]
  BY <1>1 DEF Fire
<1> HIDE DEF j
<1> DEFINE f == [t \in OneShot |-> IF t \in F /\ fired[s][t] < 2 THEN fired[s][t] + 1
                                   ELSE fired[s][t]]
<1>6. f \in [OneShot -> 0 .. 2] /\ fired' = [fired EXCEPT ![s] = f]
  BY <1>1, <1>3 DEF Fire, TaskTypes
<1>7. TaskTypes'
  <2>1. job' \in [Session -> [Slot -> Job]]
    BY <1>3, <1>4, <1>5 DEF TaskTypes
  <2>2. fired' \in [Session -> [OneShot -> 0 .. 2]]
    BY <1>3, <1>6 DEF TaskTypes
  <2>3. list' \in [Session -> [tick : BOOLEAN, tasks : SUBSET Task]]
    BY <1>1, <1>3, TypeFacts DEF Fire, TaskTypes
  <2> QED
    BY <1>1, <1>2, <1>3, <2>1, <2>2, <2>3 DEF Fire, tickRest, TaskTypes
<1>8. Pending'
  <2> SUFFICES ASSUME NEW u \in Session, NEW t \in OneShot
               PROVE  /\ fired'[u][t] > 0 => t \in inFlight'[u] \cup gone[u]
                      /\ fired'[u][t] > 1 => t \in gone[u]
    BY <1>1 DEF Pending, Fire, tickRest
  <2>1. CASE u # s
    BY <1>1, <1>3, <2>1 DEF Pending, TaskTypes, Fire
  <2>2. CASE u = s /\ t \notin F
    BY <1>1, <1>3, <2>2 DEF Pending, TaskTypes, Fire
  <2>3. CASE u = s /\ t \in F
    <3>1. fired[s][t] \in 0 .. 2 /\ (fired[s][t] > 0 => t \in gone[s])
      BY <1>2, <1>3, <2>3 DEF Pending, TaskTypes
    <3>2. t \in inFlight'[s]
      BY <1>1, <1>3, <2>3 DEF Fire, TaskTypes
    <3>3. fired'[s][t] > 1 => fired[s][t] > 0
      BY <1>3, <1>6, <3>1, <2>3 DEF TaskTypes
    <3> QED
      BY <2>3, <3>1, <3>2, <3>3
  <2> QED
    BY <2>1, <2>2, <2>3
<1>9. Calls'
  <2>1. \A u \in Session : job'[u]["missed"] = job[u]["missed"]
    BY <1>3, <1>4, <1>5 DEF TaskTypes
  <2>2. UNCHANGED <<alive, isOwner, probing, acq, rel, mode, load>>
    BY <1>1 DEF Fire, tickRest, lockVars
  <2> QED
    BY <1>3, <2>1, <2>2 DEF Calls
<1>10. LockTypes' /\ Exclusive'
  BY <1>1, LockFrame DEF Fire, tickRest, lockVars
<1>11. FileTypes'
  BY <1>1, MaxEventsAssumption DEF Fire, Edit, tickRest, fileVars, IInv, FileTypes
<1> QED
  BY <1>7, <1>8, <1>9, <1>10, <1>11 DEF IInv

\* loadTasks runs only while no call of TryAcquire does.
LEMMA LoadIInv == ASSUME NEW s \in Session PROVE IInv /\ Load(s) => IInv'
<1> SUFFICES ASSUME IInv, Load(s) PROVE IInv'
  OBVIOUS
<1> DEFINE missed == (Listed \cap due) \ asked[s]
<1>1. missed \subseteq OneShot /\ missed \subseteq Task
  BY TypeFacts DEF IInv, FileTypes
<1>2. /\ asked' = [asked EXCEPT ![s] = asked[s] \cup missed]
      /\ never' = [never EXCEPT ![s] = never[s] \cup missed]
      /\ load[s] = "reading"
      /\ \/ /\ SetJob(s, "missed", Removal(missed))
            /\ load' = [load EXCEPT ![s] = "removing"]
            /\ UNCHANGED mode
         \/ /\ load' = [load EXCEPT ![s] = "none"]
            /\ mode' = [mode EXCEPT ![s] = IF mode[s] = "starting" THEN "running" ELSE mode[s]]
            /\ UNCHANGED job
      /\ UNCHANGED <<alive, isOwner, probing, acq, rel, lockFile, written, stolen, fileVars,
                     list, inFlight, fired, gone, events>>
  BY DEF Load
<1> HIDE DEF missed
<1>3. LockTypes /\ Calls /\ TaskTypes
  BY DEF IInv
<1>4. LockTypes'
  BY <1>2, <1>3 DEF LockTypes
<1>5. TaskTypes'
  <2>1. [job[s] EXCEPT !["missed"] = Removal(missed)] \in [Slot -> Job]
    BY <1>1, <1>3, TypeFacts DEF TaskTypes
  <2>2. job' \in [Session -> [Slot -> Job]]
    BY <1>2, <1>3, <2>1 DEF TaskTypes, SetJob
  <2> QED
    BY <1>1, <1>2, <1>3, <2>2 DEF TaskTypes
<1>6. Calls'
  <2>1. acq[s] = "none" /\ s \notin probing
    BY <1>2, <1>3 DEF Calls
  <2>2. \A u \in Session \ {s} : job'[u] = job[u]
    BY <1>2, <1>3 DEF SetJob, TaskTypes
  <2>3. job[s]["missed"].phase = "idle"
    BY <1>2, <1>3 DEF Calls
  <2> QED
    BY <1>2, <1>3, <2>1, <2>2, <2>3 DEF Calls, LockTypes
<1>7. Exclusive'
  BY <1>2, LockFrame
<1>8. Pending' /\ FileTypes'
  BY <1>2 DEF IInv, Pending, FileTypes, fileVars
<1> QED
  BY <1>4, <1>5, <1>6, <1>7, <1>8 DEF IInv

\* The moment of a task.
LEMMA MomentIInv == ASSUME NEW t \in Task PROVE IInv /\ Moment(t) => IInv'
<1> SUFFICES ASSUME IInv, Moment(t) PROVE IInv'
  OBVIOUS
<1>1. TaskTypes' /\ Pending'
  BY TaskFrame DEF Moment, taskVars
<1>2. LockTypes' /\ Exclusive'
  BY LockFrame DEF Moment, taskVars, lockVars
<1>3. Calls' /\ FileTypes'
  BY DEF IInv, Calls, FileTypes, Moment, taskVars, lockVars
<1> QED
  BY <1>1, <1>2, <1>3 DEF IInv

\* Every step keeps the invariant.
LEMMA NextIInv == IInv /\ [Next]_vars => IInv'
<1>1. ASSUME IInv, NEW s \in Session, LockStep(s) PROVE IInv'
  BY <1>1, CreateLockIInv, WriteLockIInv, ReadLockIInv, UnlinkLockIInv,
     ReadBeforeReleaseIInv, RemoveLockIInv DEF LockStep
<1>2. ASSUME IInv, NEW s \in Session, TaskStep(s) PROVE IInv'
  BY <1>2, ReadTasksIInv, TruncateTasksIInv, WriteTasksIInv, ToolIInv, TickIInv,
     CheckIInv, LoadIInv DEF TaskStep
<1>3. ASSUME IInv, NEW s \in Session, Start(s) \/ Stop(s) \/ Probe(s) \/ Kill(s) PROVE IInv'
  BY <1>3, BeginIInv, StopIInv, KillIInv
<1>4. ASSUME IInv, UNCHANGED vars PROVE IInv'
  <2>1. TaskTypes' /\ Pending'
    BY <1>4, TaskFrame DEF vars, taskVars
  <2>2. LockTypes' /\ Exclusive'
    BY <1>4, LockFrame DEF vars, taskVars, lockVars
  <2>3. Calls' /\ FileTypes'
    BY <1>4 DEF IInv, Calls, FileTypes, vars, taskVars, lockVars, fileVars
  <2> QED
    BY <2>1, <2>2, <2>3 DEF IInv
<1> QED
  BY <1>1, <1>2, <1>3, <1>4, MomentIInv DEF Next

\* The invariant holds of every behaviour of the sessions.
LEMMA SpecIInv == Spec => []IInv
BY InitIInv, NextIInv, PTL DEF Spec

\* The type invariant.
THEOREM TypesHold == Spec => []TypeOK
<1>1. IInv => TypeOK
  BY Types DEF IInv
<1> QED
  BY <1>1, SpecIInv, PTL

\* However many sessions come, stop, start again and are killed, two of them
\* own the scheduler only when the lock of a live one was taken for stale.
THEOREM OneOwnerHolds == Spec => []OneOwner
<1>1. IInv => OneOwner
  BY DEF IInv, Exclusive, OneOwner
<1> QED
  BY <1>1, SpecIInv, PTL

\* No check loop fires a one-shot task again while it is removing it, however
\* many sessions and tools rewrite the file at the same time.
THEOREM FiresAgainHolds == Spec => []FiresAgain
<1>1. IInv => FiresAgain
  BY DEF IInv, Pending, FiresAgain
<1> QED
  BY <1>1, SpecIInv, PTL

-----------------------------------------------------------------------------
(* A lock keeps the others away only while somebody holds it. *)

\* The lock of a live session is being written, owned or released, even when
\* locks are taken for stale that are not.
Held ==
    /\ \A s \in Session : acq[s] = "recreate" => s \notin lockFile
    /\ \A s \in lockFile \cap alive :
          IF written THEN s \in isOwner \/ rel[s] # "none" ELSE acq[s] = "write"
    /\ \A s \in probing : rel[s] = "none"

\* The steps that a call of TryAcquire has still to take.
AcquireLeft(s) ==
    CASE acq[s] = "create" -> 5 [] acq[s] = "read" -> 4 [] acq[s] = "unlink" -> 3
      [] acq[s] = "recreate" -> 2 [] acq[s] = "write" -> 1 [] OTHER -> 0

\* A call of TryAcquire comes to its end, and a probe comes back without the
\* lock only when another session has a lock file.
AcquireGoesOn(s) ==
    acq[s] # "none" /\ acq'[s] # acq[s] =>
        /\ AcquireLeft(s)' < AcquireLeft(s)
        /\ acq'[s] = "none" /\ s \in probing' => s \notin lockFile' /\ lockFile' # {}

LEMMA InitHeld == Init => Held
BY DEF Init, Held

\* Each step of the lock protocol keeps Held; no other session's call moves.
LEMMA CreateLockHeld ==
    ASSUME IInv, Held, NEW s \in Session, CreateLock(s)
    PROVE  Held' /\ \A u \in Session : AcquireGoesOn(u)
<1>1. LockTypes /\ Calls
  BY DEF IInv
<1>2. UNCHANGED <<alive, rel>>
  BY DEF CreateLock, lockRest
<1>3. CASE /\ lockFile = {} /\ lockFile' = {s} /\ written' = FALSE /\ Step(s, "write")
  <2>1. Held'
    BY <1>1, <1>2, <1>3 DEF LockTypes, Calls, Held, Step
  <2>2. \A u \in Session : AcquireGoesOn(u)
    BY <1>1, <1>3 DEF LockTypes, AcquireGoesOn, AcquireLeft, Step, CreateLock
  <2> QED
    BY <2>1, <2>2
<1>4. CASE acq[s] = "create" /\ Step(s, "read") /\ UNCHANGED <<lockFile, written>>
  <2>1. Held'
    BY <1>1, <1>2, <1>4 DEF LockTypes, Calls, Held, Step
  <2>2. \A u \in Session : AcquireGoesOn(u)
    BY <1>1, <1>4 DEF LockTypes, AcquireGoesOn, AcquireLeft, Step
  <2> QED
    BY <2>1, <2>2
<1>5. CASE /\ lockFile # {} /\ acq[s] = "recreate"
           /\ Acquired(s, FALSE) /\ UNCHANGED <<lockFile, written>>
  <2>1. s \notin lockFile
    BY <1>5 DEF Held
  <2>2. Held'
    BY <1>1, <1>2, <1>5, <2>1 DEF LockTypes, Calls, Held, Acquired
  <2>3. \A u \in Session : AcquireGoesOn(u)
    BY <1>1, <1>5, <2>1 DEF LockTypes, AcquireGoesOn, AcquireLeft, Acquired
  <2> QED
    BY <2>2, <2>3
<1> QED
  BY <1>3, <1>4, <1>5 DEF CreateLock

LEMMA WriteLockHeld ==
    ASSUME IInv, Held, NEW s \in Session, WriteLock(s)
    PROVE  Held' /\ \A u \in Session : AcquireGoesOn(u)
<1>1. LockTypes /\ Calls
  BY DEF IInv
<1>2. UNCHANGED <<alive, rel, lockFile>>
  BY DEF WriteLock, lockRest
<1>3. Held'
  <2>1. CASE lockFile = {s}
    BY <1>1, <1>2, <2>1 DEF LockTypes, Held, Acquired, WriteLock
  <2>2. CASE lockFile # {s}
    <3>1. s \notin lockFile /\ written' = written
      BY <1>1, <2>2 DEF LockTypes, WriteLock
    <3>2. /\ \A u \in Session : u # s => acq'[u] = acq[u]
          /\ isOwner' = isOwner \cup {s} /\ probing' \subseteq probing /\ acq'[s] = "none"
      BY <1>1 DEF LockTypes, Acquired, WriteLock
    <3> QED
      BY <1>1, <1>2, <3>1, <3>2 DEF LockTypes, Held
  <2> QED
    BY <2>1, <2>2
<1>4. \A u \in Session : AcquireGoesOn(u)
  BY <1>1 DEF LockTypes, AcquireGoesOn, AcquireLeft, Acquired, WriteLock
<1> QED
  BY <1>3, <1>4

LEMMA ReadLockHeld ==
    ASSUME IInv, Held, NEW s \in Session, ReadLock(s)
    PROVE  Held' /\ \A u \in Session : AcquireGoesOn(u)
<1>1. LockTypes /\ Calls /\ acq[s] = "read"
  BY DEF IInv, ReadLock
<1>2. UNCHANGED <<alive, rel, lockFile, written>>
  BY DEF ReadLock, lockRest
<1>3. CASE Acquired(s, TRUE)
  <2>1. Held'
    BY <1>1, <1>2, <1>3 DEF LockTypes, Calls, Held, Acquired
  <2>2. \A u \in Session : AcquireGoesOn(u)
    BY <1>1, <1>3 DEF LockTypes, AcquireGoesOn, AcquireLeft, Acquired
  <2> QED
    BY <2>1, <2>2
<1>4. CASE HeldByOther(s) /\ Acquired(s, FALSE)
  <2>1. s \notin lockFile /\ lockFile # {}
    BY <1>1, <1>4 DEF HeldByOther, LockTypes
  <2>2. Held'
    BY <1>1, <1>2, <1>4, <2>1 DEF LockTypes, Calls, Held, Acquired
  <2>3. \A u \in Session : AcquireGoesOn(u)
    BY <1>1, <1>2, <1>4, <2>1 DEF LockTypes, AcquireGoesOn, AcquireLeft, Acquired
  <2> QED
    BY <2>2, <2>3
<1>5. CASE Step(s, "unlink")
  <2>1. Held'
    BY <1>1, <1>2, <1>5 DEF LockTypes, Calls, Held, Step
  <2>2. \A u \in Session : AcquireGoesOn(u)
    BY <1>1, <1>5 DEF LockTypes, AcquireGoesOn, AcquireLeft, Step
  <2> QED
    BY <2>1, <2>2
<1> QED
  BY <1>3, <1>4, <1>5 DEF ReadLock

LEMMA UnlinkLockHeld ==
    ASSUME IInv, Held, NEW s \in Session, UnlinkLock(s)
    PROVE  Held' /\ \A u \in Session : AcquireGoesOn(u)
<1>1. LockTypes /\ Calls
  BY DEF IInv
<1>2. Held'
  BY <1>1 DEF LockTypes, Held, Step, UnlinkLock, lockRest
<1>3. \A u \in Session : AcquireGoesOn(u)
  BY <1>1 DEF LockTypes, AcquireGoesOn, AcquireLeft, Step, UnlinkLock
<1> QED
  BY <1>2, <1>3

\* Whoever releases a lock leaves none, or not its own.
LEMMA ReleaseHeld ==
    ASSUME IInv, Held, NEW s \in Session, ReadBeforeRelease(s) \/ RemoveLock(s)
    PROVE  Held'
<1>1. LockTypes /\ Calls
  BY DEF IInv
<1>2. CASE ReadBeforeRelease(s)
  BY <1>1, <1>2 DEF LockTypes, Calls, Held, ReadBeforeRelease, relRest
<1>3. CASE RemoveLock(s)
  BY <1>1, <1>3 DEF LockTypes, Held, RemoveLock, relRest
<1> QED
  BY <1>2, <1>3

LEMMA ComesAndGoesHeld ==
    ASSUME IInv, Held, NEW s \in Session, Start(s) \/ Stop(s) \/ Probe(s) \/ Kill(s)
    PROVE  Held' /\ \A u \in Session : AcquireGoesOn(u)
<1>1. LockTypes /\ Calls
  BY DEF IInv
<1>2. CASE Start(s) \/ Probe(s)
  <2>1. Held'
    BY <1>1, <1>2 DEF LockTypes, Calls, Held, Start, Probe, LockMuFree
  <2>2. \A u \in Session : AcquireGoesOn(u)
    BY <1>1, <1>2 DEF LockTypes, AcquireGoesOn, Start, Probe, LockMuFree
  <2> QED
    BY <2>1, <2>2
<1>3. CASE Stop(s)
  <2>1. Held'
    BY <1>1, <1>3 DEF LockTypes, Calls, Held, Stop
  <2>2. \A u \in Session : AcquireGoesOn(u)
    BY <1>3 DEF AcquireGoesOn, Stop
  <2> QED
    BY <2>1, <2>2
<1>4. CASE Kill(s)
  <2>1. Held'
    BY <1>1, <1>4 DEF LockTypes, Calls, Held, Kill
  <2>2. \A u \in Session : AcquireGoesOn(u)
    BY <1>1, <1>4 DEF LockTypes, AcquireGoesOn, AcquireLeft, Kill
  <2> QED
    BY <2>1, <2>2
<1> QED
  BY <1>2, <1>3, <1>4

\* The other steps leave the lock protocol alone, but for a mode.
LEMMA ElsewhereHeld ==
    ASSUME Held, UNCHANGED <<alive, isOwner, probing, acq, rel, lockFile, written>>
    PROVE  Held' /\ \A u \in Session : AcquireGoesOn(u)
BY DEF Held, AcquireGoesOn

LEMMA NextHeld ==
    ASSUME IInv, Held, [Next]_vars PROVE Held' /\ \A u \in Session : AcquireGoesOn(u)
<1>1. ASSUME NEW s \in Session, LockStep(s)
      PROVE  Held' /\ \A u \in Session : AcquireGoesOn(u)
  <2>1. CASE ReadBeforeRelease(s) \/ RemoveLock(s)
    BY <2>1, ReleaseHeld DEF AcquireGoesOn, ReadBeforeRelease, RemoveLock, relRest
  <2> QED
    BY <1>1, <2>1, CreateLockHeld, WriteLockHeld, ReadLockHeld, UnlinkLockHeld DEF LockStep
<1>2. ASSUME NEW s \in Session, TaskStep(s)
      PROVE  UNCHANGED <<alive, isOwner, probing, acq, rel, lockFile, written>>
  BY <1>2 DEF TaskStep, ReadTasks, TruncateTasks, WriteTasks, CreateTask, DeleteTask, Tool, Tick,
     Check, Fire, tickRest, Load, jobRest, lockVars
<1>3. ASSUME (\E t \in Task : Moment(t)) \/ UNCHANGED vars
      PROVE  UNCHANGED <<alive, isOwner, probing, acq, rel, lockFile, written>>
  BY <1>3 DEF Moment, lockVars, vars
<1> QED
  BY <1>1, <1>2, <1>3, ComesAndGoesHeld, ElsewhereHeld DEF Next

\* What a probing session finds: its lock call is under way, or the next tick
\* of the probe can begin one; and the lock that would make it give up is one
\* that its owner runs under or releases.
Replaceable ==
    \A s \in probing :
        /\ s \in alive /\ mode[s] = "running"
        /\ acq[s] = "none" => LockMuFree(s)
        /\ HeldByOther(s) => \E u \in Session \ {s} :
              /\ lockFile = {u} /\ u \in alive
              /\ u \in isOwner \/ rel[u] # "none"

\* No lock of a session that is alive but neither owns nor releases it keeps a
\* probe away for good, at whatever step sessions are stopped and killed; and
\* a call of TryAcquire always ends, with the lock or with another's in place.
THEOREM ProbesGoOn == Spec => []Replaceable /\ [][\A s \in Session : AcquireGoesOn(s)]_vars
<1>1. IInv /\ Held => Replaceable
  <2> SUFFICES ASSUME IInv, Held, NEW s \in probing
               PROVE  /\ s \in alive /\ mode[s] = "running"
                      /\ acq[s] = "none" => LockMuFree(s)
                      /\ HeldByOther(s) => \E u \in Session \ {s} :
                            /\ lockFile = {u} /\ u \in alive
                            /\ u \in isOwner \/ rel[u] # "none"
    BY DEF Replaceable
  <2>1. LockTypes /\ Calls /\ s \in Session
    BY DEF IInv, LockTypes
  <2>2. s \in alive /\ mode[s] = "running" /\ (acq[s] = "none" => LockMuFree(s))
    BY <2>1 DEF LockTypes, Calls, Held, LockMuFree
  <2>3. ASSUME HeldByOther(s)
        PROVE  \E u \in Session \ {s} :
                  /\ lockFile = {u} /\ u \in alive
                  /\ u \in isOwner \/ rel[u] # "none"
    <3>1. PICK u \in Session : u \in lockFile /\ u \in alive /\ u # s /\ written
      BY <2>1, <2>3 DEF HeldByOther, LockTypes
    <3>2. lockFile = {u}
      BY <2>1, <3>1 DEF LockTypes
    <3> QED
      BY <3>1, <3>2 DEF Held
  <2> QED
    BY <2>2, <2>3
<1>2. IInv /\ Held /\ [Next]_vars => Held' /\ \A s \in Session : AcquireGoesOn(s)
  BY NextHeld
<1> QED
  BY <1>1, <1>2, InitHeld, SpecIInv, PTL DEF Spec
=============================================================================
