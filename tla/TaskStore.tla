----------------------------- MODULE TaskStore -----------------------------
(***************************************************************************)
(* The task list that several processes share (CLAUDE_CODE_TASK_LIST_ID):  *)
(* FileStore of core/task, one JSON file per task, and the two tools that  *)
(* write to it, TaskCreate and TaskUpdate.  withLock makes the operations  *)
(* of the store exclusive, but an operation is several file writes, and a  *)
(* process that is killed leaves the rest of them undone and the file it   *)
(* was writing truncated.  TaskUpdate takes the lock twice: it merges what *)
(* it read under the first into what it writes under the second.           *)
(*                                                                         *)
(* Texts, metadata and the order of the dependency lists are left out.     *)
(***************************************************************************)
EXTENDS Integers, FiniteSets

CONSTANTS
    Proc,       \* tool calls in flight, each in any process
    Agent,      \* names a task can be owned by
    NoOwner,    \* the empty owner
    MaxId,      \* bound: identifiers that are handed out
    Requests,   \* the TaskUpdate inputs tried
    MaxCalls,   \* bound: calls other than TaskCreate
    MaxCrashes  \* bound: processes killed in the middle of a call

Id == 1 .. MaxId
Status == {"pending", "in_progress", "completed"}

\* Input of TaskUpdate; "keep" for a field the input leaves out.
Request == [id : 0 .. MaxId, owner : Agent \cup {NoOwner, "keep"},
            status : Status \cup {"keep", "deleted"},
            addBlocks : SUBSET Id, addBlockedBy : SUBSET Id]

ASSUME MaxIdAssumption == MaxId \in Nat
ASSUME RequestsAssumption == Requests \subseteq Request
ASSUME OwnerAssumption == NoOwner \notin Agent /\ "keep" \notin Agent \cup {NoOwner}
ASSUME BoundsAssumption == MaxCalls \in Nat /\ MaxCrashes \in Nat

Task == [owner : Agent \cup {NoOwner}, status : Status,
         blocks : SUBSET Id, blockedBy : SUBSET Id]

\* A file whose writer was killed after truncating it; it does not parse.
Torn == [owner |-> NoOwner, status |-> "torn", blocks |-> {}, blockedBy |-> {}]

NewTask == [owner |-> NoOwner, status |-> "pending", blocks |-> {}, blockedBy |-> {}]
NoRequest == [id |-> 0, owner |-> "keep", status |-> "keep",
              addBlocks |-> {}, addBlockedBy |-> {}]

\* One file write of an operation; writes of a lower stage come first.
FileWrite == [stage : 0 .. 3, kind : {"mark", "put", "del"}, id : Id, task : Task]

VARIABLES
    files,      \* the task files: a function from the ids that have one
    mark,       \* .highwatermark, 0 when absent or unreadable
    lock,       \* {p} while p holds the flock, {} when it is free
    plan,       \* file writes the holder has left
    pc,         \* where the call of p is
    req,        \* its input, as far as it is still needed
    snap,       \* what TaskUpdate read of the task under its first lock
    issued,     \* history: the ids that ever had a file
    calls,      \* calls begun, TaskCreate apart
    crashes     \* processes killed

vars == <<files, mark, lock, plan, pc, req, snap, issued, calls, crashes>>

\* Where a call is while it holds the lock.
Holding == {"creating", "updating", "deleting", "linking", "claiming",
            "claimingIdle", "resetting", "unassigning"}

\* The type invariant; the lock has at most one holder, which has writes left.
TypeOK ==
    /\ DOMAIN files \subseteq Id
    /\ \A i \in DOMAIN files : files[i] \in Task \cup {Torn}
    /\ mark \in 0 .. MaxId
    /\ lock \subseteq Proc /\ \A p, q \in lock : p = q
    /\ plan \subseteq FileWrite
    /\ lock = {} <=> plan = {}
    /\ pc \in [Proc -> Holding \cup {"idle", "created", "got", "checked"}]
    /\ \A p \in Proc : p \in lock <=> pc[p] \in Holding
    /\ req \in [Proc -> Request]
    /\ snap \in [Proc -> Task]
    /\ issued \subseteq Id
    /\ calls \in 0 .. MaxCalls
    /\ crashes \in 0 .. MaxCrashes

Init ==
    /\ files = [i \in {} |-> NewTask]
    /\ mark = 0
    /\ lock = {} /\ plan = {}
    /\ pc = [p \in Proc |-> "idle"]
    /\ req = [p \in Proc |-> NoRequest]
    /\ snap = [p \in Proc |-> NewTask]
    /\ issued = {}
    /\ calls = 0 /\ crashes = 0

-----------------------------------------------------------------------------
(* The store: what is read under the lock, and the writes that follow. *)

Readable(i) == i \in DOMAIN files /\ files[i] # Torn
Listed == {i \in DOMAIN files : files[i] # Torn}
Unresolved == {i \in Listed : files[i].status # "completed"}

Mark(i) == [stage |-> 0, kind |-> "mark", id |-> i, task |-> NewTask]
Del(i) == [stage |-> 1, kind |-> "del", id |-> i, task |-> NewTask]
Put(s, i, t) == [stage |-> s, kind |-> "put", id |-> i, task |-> t]

\* Faulty: only the files count, not the mark.
NextIdFromFiles(i) ==
    /\ \A j \in DOMAIN files : j < i
    /\ i - 1 \in DOMAIN files \cup {0}

\* nextID: one above the highest file and the mark.
NextId(i) ==
    /\ \A j \in DOMAIN files \cup {mark} : j < i
    /\ i - 1 \in DOMAIN files \cup {mark}

\* Raises the mark to i, if it is below.
RaiseMark(i) == IF i > mark THEN {Mark(i)} ELSE {}

\* Delete.
DeleteWrites(i) ==
    RaiseMark(i) \cup
    IF i \notin DOMAIN files THEN {}
    ELSE {Del(i)} \cup
         {Put(2, j, [files[j] EXCEPT !.blocks = files[j].blocks \ {i},
                                     !.blockedBy = files[j].blockedBy \ {i}]) :
            j \in {k \in Listed \ {i} : i \in files[k].blocks \cup files[k].blockedBy}}

\* applyUpdates; r.addBlocks and r.addBlockedBy were merged into the lists of s.
ApplyUpdates(t, r, s) ==
    [owner |-> IF r.owner = "keep" THEN t.owner ELSE r.owner,
     status |-> IF r.status = "keep" THEN t.status ELSE r.status,
     blocks |-> IF r.addBlocks = {} THEN t.blocks ELSE s.blocks \cup r.addBlocks,
     blockedBy |-> IF r.addBlockedBy = {} THEN t.blockedBy
                   ELSE s.blockedBy \cup r.addBlockedBy]

\* Faulty: the reverse references of the blockers are forgotten.
UpdateWritesHalf(r, s) ==
    {Put(1, r.id, ApplyUpdates(files[r.id], r, s))} \cup
    {Put(2, j, [files[j] EXCEPT !.blockedBy = files[j].blockedBy \cup {r.id}]) :
        j \in {k \in r.addBlocks : r.id \notin files[k].blockedBy}}

\* Faulty: what the input leaves out is written back as it was read first.
UpdateWritesWhole(r, s) ==
    {Put(1, r.id, ApplyUpdates(s, r, s))} \cup
    {Put(2, j, [files[j] EXCEPT !.blockedBy = files[j].blockedBy \cup {r.id}]) :
        j \in {k \in r.addBlocks : r.id \notin files[k].blockedBy}} \cup
    {Put(3, j, [files[j] EXCEPT !.blocks = files[j].blocks \cup {r.id}]) :
        j \in {k \in r.addBlockedBy : r.id \notin files[k].blocks}}

\* UpdateWithDependencies on the tasks it needs: every target was copied
\* before the first write, and each copy is written back with one id more.
UpdateWrites(r, s) ==
    {Put(1, r.id, ApplyUpdates(files[r.id], r, s))} \cup
    {Put(2, j, [files[j] EXCEPT !.blockedBy = files[j].blockedBy \cup {r.id}]) :
        j \in {k \in r.addBlocks : r.id \notin files[k].blockedBy}} \cup
    {Put(3, j, [files[j] EXCEPT !.blocks = files[j].blocks \cup {r.id}]) :
        j \in {k \in r.addBlockedBy : r.id \notin files[k].blocks}}

\* Faulty: the lock is not awaited.
EnterUnlocked(p, op, r, W) ==
    \/ /\ W # {}
       /\ lock' = {p} /\ plan' = W
       /\ pc' = [pc EXCEPT ![p] = op]
       /\ req' = [req EXCEPT ![p] = r]
    \/ /\ W = {}
       /\ pc' = [pc EXCEPT ![p] = "idle"]
       /\ req' = [req EXCEPT ![p] = NoRequest]
       /\ UNCHANGED <<lock, plan>>

\* withLock around the reads that led to the writes W; a call with nothing to
\* write returns at once.
Enter(p, op, r, W) ==
    /\ lock = {}
    /\ \/ /\ W # {}
          /\ lock' = {p} /\ plan' = W
          /\ pc' = [pc EXCEPT ![p] = op]
          /\ req' = [req EXCEPT ![p] = r]
       \/ /\ W = {}
          /\ pc' = [pc EXCEPT ![p] = "idle"]
          /\ req' = [req EXCEPT ![p] = NoRequest]
          /\ UNCHANGED <<lock, plan>>

Return(p) ==
    /\ pc' = [pc EXCEPT ![p] = "idle"]
    /\ req' = [req EXCEPT ![p] = NoRequest]
    /\ snap' = [snap EXCEPT ![p] = NewTask]

\* Another call of p begins.
Begin(p) == pc[p] = "idle" /\ calls < MaxCalls /\ calls' = calls + 1

Disk(f, m) == files' = f /\ mark' = m /\ issued' = issued \cup DOMAIN f
DiskUnchanged == UNCHANGED <<files, mark, issued>>

WithFile(i, t) == [j \in DOMAIN files \cup {i} |-> IF j = i THEN t ELSE files[j]]

\* The next write of the holder p.
Write(p) ==
    /\ p \in lock
    /\ \E w \in plan :
        /\ \A v \in plan : w.stage <= v.stage
        /\ \/ w.kind = "mark" /\ Disk(files, w.id)
           \/ w.kind = "put" /\ Disk(WithFile(w.id, w.task), mark)
           \/ w.kind = "del" /\ Disk([j \in DOMAIN files \ {w.id} |-> files[j]], mark)
        /\ plan' = plan \ {w}
    /\ \/ plan' # {} /\ UNCHANGED <<lock, pc, req, snap>>
       \/ plan' = {} /\ lock' = {} /\ pc[p] # "creating" /\ Return(p)
       \/ /\ plan' = {} /\ lock' = {} /\ pc[p] = "creating"
          /\ pc' = [pc EXCEPT ![p] = "created"]
          /\ UNCHANGED <<req, snap>>
    /\ UNCHANGED <<calls, crashes>>

\* The process of p is killed.  The kernel frees its lock; the file it was
\* writing is as it was, or truncated.
Crash(p) ==
    /\ pc[p] # "idle" /\ crashes < MaxCrashes
    /\ crashes' = crashes + 1
    /\ \/ DiskUnchanged
       \/ /\ p \in lock
          /\ \E w \in plan :
                /\ \A v \in plan : w.stage <= v.stage
                /\ \/ w.kind = "mark" /\ Disk(files, 0)
                   \/ w.kind = "put" /\ Disk(WithFile(w.id, Torn), mark)
    /\ lock' = lock \ {p}
    /\ plan' = IF p \in lock THEN {} ELSE plan
    /\ Return(p)
    /\ UNCHANGED calls

-----------------------------------------------------------------------------
(* TaskCreate. *)

Create(p) ==
    /\ pc[p] = "idle"
    /\ \E i \in Id :
        /\ NextId(i)
        /\ Enter(p, "creating", [NoRequest EXCEPT !.id = i], {Put(1, i, NewTask)})
    /\ DiskUnchanged /\ UNCHANGED <<snap, calls, crashes>>

\* The TaskCreated hooks, after the store has let go of the lock.
HooksAccept(p) ==
    /\ pc[p] = "created"
    /\ Return(p)
    /\ DiskUnchanged /\ UNCHANGED <<lock, plan, calls, crashes>>

HooksRefuse(p) ==
    /\ pc[p] = "created"
    /\ Enter(p, "deleting", req[p], DeleteWrites(req[p].id))
    /\ DiskUnchanged /\ UNCHANGED <<snap, calls, crashes>>

-----------------------------------------------------------------------------
(* TaskUpdate. *)

\* The fields that differ from what was read, and the new dependencies.
Changes(r, t) ==
    [r EXCEPT !.owner = IF r.owner = t.owner THEN "keep" ELSE r.owner,
              !.status = IF r.status = t.status THEN "keep" ELSE r.status,
              !.addBlocks = r.addBlocks \ t.blocks,
              !.addBlockedBy = r.addBlockedBy \ t.blockedBy]

NoChange(r) == r = [NoRequest EXCEPT !.id = r.id]

\* The first lock: Get.  A call that changes nothing returns.
Get(p) ==
    /\ Begin(p) /\ lock = {}
    /\ \E r \in Requests :
        /\ Readable(r.id)
        /\ ~NoChange(Changes(r, files[r.id]))
        /\ pc' = [pc EXCEPT ![p] = "got"]
        /\ req' = [req EXCEPT ![p] = Changes(r, files[r.id])]
        /\ snap' = [snap EXCEPT ![p] = files[r.id]]
    /\ DiskUnchanged /\ UNCHANGED <<lock, plan, crashes>>

DeleteTask(p) ==
    /\ pc[p] = "got" /\ req[p].status = "deleted"
    /\ Enter(p, "deleting", req[p], DeleteWrites(req[p].id))
    /\ snap' = [snap EXCEPT ![p] = NewTask]
    /\ DiskUnchanged /\ UNCHANGED <<calls, crashes>>

\* Each new target is read in its turn.  (Taken together: the commit reads
\* them again.)
CheckTargets(p) ==
    /\ pc[p] = "got" /\ req[p].status # "deleted" /\ lock = {}
    /\ \/ /\ \A j \in req[p].addBlocks \cup req[p].addBlockedBy : Readable(j)
          /\ pc' = [pc EXCEPT ![p] = "checked"]
          /\ UNCHANGED <<req, snap>>
       \/ /\ \E j \in req[p].addBlocks \cup req[p].addBlockedBy : ~Readable(j)
          /\ Return(p)
    /\ DiskUnchanged /\ UNCHANGED <<lock, plan, calls, crashes>>

\* A TaskCompleted hook blocks the update.
HooksBlock(p) ==
    /\ pc[p] = "checked" /\ req[p].status = "completed"
    /\ Return(p)
    /\ DiskUnchanged /\ UNCHANGED <<lock, plan, calls, crashes>>

\* The second lock: UpdateWithDependencies.
UpdateWithDependencies(p) ==
    LET r == req[p]
        all == \A j \in {r.id} \cup r.addBlocks \cup r.addBlockedBy : Readable(j) IN
    /\ pc[p] = "checked"
    /\ Enter(p, "updating", r, IF all THEN UpdateWrites(r, snap[p]) ELSE {})
    /\ snap' = [snap EXCEPT ![p] = NewTask]
    /\ DiskUnchanged /\ UNCHANGED <<calls, crashes>>

-----------------------------------------------------------------------------
(* Operations of the store no tool calls. *)

\* Update, without lists.
Update(p) ==
    /\ Begin(p)
    /\ \E r \in Requests :
        /\ r.status # "deleted" /\ r.addBlocks = {} /\ r.addBlockedBy = {}
        /\ Readable(r.id)
        /\ Enter(p, "updating", r, UpdateWrites(r, files[r.id]))
    /\ DiskUnchanged /\ UNCHANGED <<snap, crashes>>

BlockTask(p) ==
    /\ Begin(p)
    /\ \E i, j \in Listed :
        Enter(p, "linking", [NoRequest EXCEPT !.id = i, !.addBlocks = {j}],
            (IF j \in files[i].blocks THEN {}
             ELSE {Put(1, i, [files[i] EXCEPT !.blocks = files[i].blocks \cup {j}])}) \cup
            (IF i \in files[j].blockedBy THEN {}
             ELSE {Put(2, j, [files[j] EXCEPT !.blockedBy = files[j].blockedBy \cup {i}])}))
    /\ DiskUnchanged /\ UNCHANGED <<snap, crashes>>

\* Faulty: only work in progress keeps an agent busy.
IdleIfNotStarted(i, a) ==
    \A j \in Unresolved \ {i} : files[j].owner = a => files[j].status # "in_progress"

\* a owns no unresolved task beside i.
Idle(i, a) == \A j \in Unresolved \ {i} : files[j].owner # a

Claimable(i, a) ==
    /\ i \in Unresolved /\ files[i].owner \in {NoOwner, a}
    /\ files[i].blockedBy \cap Unresolved = {}

\* ClaimTask without and with CheckAgentBusy.
ClaimTask(p) ==
    /\ Begin(p)
    /\ \E i \in Id, a \in Agent, op \in {"claiming", "claimingIdle"} :
        /\ Claimable(i, a)
        /\ op = "claimingIdle" => Idle(i, a)
        /\ Enter(p, op, [NoRequest EXCEPT !.id = i, !.owner = a],
                 {Put(1, i, [files[i] EXCEPT !.owner = a])})
    /\ DiskUnchanged /\ UNCHANGED <<snap, crashes>>

ResetTaskList(p) ==
    /\ Begin(p)
    /\ \E h \in DOMAIN files :
        /\ \A j \in DOMAIN files : j <= h
        /\ Enter(p, "resetting", NoRequest, RaiseMark(h) \cup {Del(j) : j \in DOMAIN files})
    /\ DiskUnchanged /\ UNCHANGED <<snap, crashes>>

UnassignTeammateTasks(p) ==
    /\ Begin(p)
    /\ \E a \in Agent :
        /\ Enter(p, "unassigning", [NoRequest EXCEPT !.owner = a],
             {Put(1, i, [files[i] EXCEPT !.owner = NoOwner, !.status = "pending"]) :
                i \in {k \in Unresolved : files[k].owner = a}})
    /\ DiskUnchanged /\ UNCHANGED <<snap, crashes>>

Next ==
    \E p \in Proc :
        \/ Write(p) \/ Crash(p)
        \/ Create(p) \/ HooksAccept(p) \/ HooksRefuse(p)
        \/ Get(p) \/ DeleteTask(p) \/ CheckTargets(p) \/ HooksBlock(p)
        \/ UpdateWithDependencies(p)
        \/ Update(p) \/ BlockTask(p) \/ ClaimTask(p)
        \/ ResetTaskList(p) \/ UnassignTeammateTasks(p)

Spec == Init /\ [][Next]_vars

-----------------------------------------------------------------------------
(* Properties. *)

\* A file that appears has an id that no file had before, whatever was
\* deleted, reset or cut short: a reference that somebody still holds cannot
\* come to mean another task, and a late write cannot bring a task back.
IdsNotReused ==
    [][\A i \in DOMAIN files' \ DOMAIN files : i \notin issued]_vars

\* The list as it will be when the writes under way are done.
Finished(f, W) ==
    LET puts(i) == {w \in W : w.kind = "put" /\ w.id = i}
        last(i) == CHOOSE w \in puts(i) : \A v \in puts(i) : v.stage <= w.stage
        dels == {w.id : w \in {v \in W : v.kind = "del"}}
        ids == (DOMAIN f \cup {i \in Id : puts(i) # {}}) \ dels
    IN  [i \in ids |-> IF puts(i) = {} THEN f[i] ELSE last(i).task]

\* The references of f to a task that is gone or does not refer back.
Broken(f) ==
    LET gone(i, j) ==
            \/ /\ j \in f[i].blocks
               /\ j \in DOMAIN f => f[j] # Torn /\ i \notin f[j].blockedBy
            \/ /\ j \in f[i].blockedBy
               /\ j \in DOMAIN f => f[j] # Torn /\ i \notin f[j].blocks
    IN  {e \in (DOMAIN f) \X Id : gone(e[1], e[2])}

\* p writes dependency lists merged from a task that changed after it read it.
CommitsStale(p) ==
    /\ pc[p] = "checked" /\ pc'[p] = "updating"
    /\ \/ req[p].addBlocks # {} /\ snap[p].blocks # files[req[p].id].blocks
       \/ req[p].addBlockedBy # {} /\ snap[p].blockedBy # files[req[p].id].blockedBy

\* p links a task to itself, or in both directions to one task.
LinksTwice(p) ==
    /\ pc'[p] \in {"updating", "linking"} /\ pc[p] # pc'[p]
    /\ LET r == req'[p] IN r.id \in r.addBlocks \cup r.addBlockedBy
                           \/ r.addBlocks \cap r.addBlockedBy # {}

\* "A blocks B" and "B is blocked by A" stay one fact: only a TaskUpdate that
\* merges lists it read before they changed, one that names a task twice, or
\* a killed process breaks a reference.
DependenciesKept ==
    [][Broken(Finished(files', plan')) \subseteq Broken(Finished(files, plan))
       \/ crashes' # crashes
       \/ \E p \in Proc : CommitsStale(p) \/ LinksTwice(p)]_vars

\* A task changes hands only for a reason: a TaskUpdate names the new owner, a
\* teammate's unresolved tasks are taken from it, or an agent claims a task
\* nobody owns, every blocker of which is resolved.  (A TaskUpdate that links
\* the task to itself undoes the owner it has just written.)
OwnerChanges ==
    [][\A i \in DOMAIN files \cap DOMAIN files' :
        LET old == files[i].owner  new == files'[i].owner IN
        old # new /\ files'[i].status # "torn" =>
            \E p \in lock :
                \/ /\ pc[p] = "updating" /\ req[p].id = i
                   /\ new = req[p].owner \/ i \in req[p].addBlocks \cup req[p].addBlockedBy
                \/ pc[p] = "unassigning" /\ old = req[p].owner /\ new = NoOwner
                \/ /\ pc[p] \in {"claiming", "claimingIdle"} /\ old = NoOwner
                   /\ files[i].status # "completed"
                   /\ \A j \in files[i].blockedBy \cap DOMAIN files :
                        files[j].status \in {"completed", "torn"}]_vars

WorkOf(f, a) == {i \in DOMAIN f : f[i].owner = a /\ f[i].status \in {"pending", "in_progress"}}

\* An agent comes to own a second unresolved task only through a claim that
\* did not ask for the busy check, or through an update that gives it the task
\* or opens the task again.
BusyCheckHolds ==
    [][\A a \in Agent :
        Cardinality(WorkOf(files', a)) > 1 /\ ~(WorkOf(files', a) \subseteq WorkOf(files, a))
            => \E p \in lock : pc[p] \in {"claiming", "updating"}]_vars
=============================================================================
