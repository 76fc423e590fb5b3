-------------------------- MODULE TaskStoreProofs --------------------------
(***************************************************************************)
(* TaskStore for any processes, identifiers and requests: the types; that  *)
(* no identifier is ever used again; why a task changes hands, and how an  *)
(* agent comes to own two; and what breaks a dependency.                   *)
(***************************************************************************)
EXTENDS TaskStore, FiniteSetTheorems, TLAPS

\* The type invariant in two parts.
DiskTypes ==
    /\ DOMAIN files \subseteq Id
    /\ \A i \in DOMAIN files : files[i] \in Task \cup {Torn}
    /\ mark \in 0 .. MaxId
    /\ issued \subseteq Id

CallTypes ==
    /\ lock \subseteq Proc /\ \A p, q \in lock : p = q
    /\ plan \subseteq FileWrite
    /\ lock = {} <=> plan = {}
    /\ pc \in [Proc -> Holding \cup {"idle", "created", "got", "checked"}]
    /\ \A p \in Proc : p \in lock <=> pc[p] \in Holding
    /\ req \in [Proc -> Request]
    /\ snap \in [Proc -> Task]
    /\ calls \in 0 .. MaxCalls
    /\ crashes \in 0 .. MaxCrashes

\* The parts make up the type invariant.
LEMMA Types == TypeOK <=> DiskTypes /\ CallTypes
BY DEF TypeOK, DiskTypes, CallTypes

\* What nextID relies on: the mark or a file is at least as high as any id
\* that was ever used.
Marked ==
    /\ DOMAIN files \subseteq issued
    /\ \A i \in issued : i <= mark \/ \E j \in DOMAIN files : i <= j

\* The id a call will delete or update was used by then.
Known ==
    \A p \in Proc :
        /\ pc[p] \in {"created", "got", "checked"} => req[p].id \in issued
        /\ pc[p] = "creating" => plan = {Put(1, req[p].id, NewTask)}

\* What was checked is no deletion.
Checked == \A p \in Proc : pc[p] = "checked" => req[p].status # "deleted"

\* Writes that neither bring an id back nor lower what is marked: the mark is
\* raised first, to the id of a file that is still there; only a new id gets a
\* new file; what is deleted is marked.
MarkGood(w, W) ==
    /\ w.kind = "mark" => w.stage = 0 /\ w.id > mark /\ \E j \in DOMAIN files : w.id <= j
    /\ w.kind # "mark" => w.stage > 0
    /\ w.kind = "mark" => \A v \in W : v.kind = "mark" => v = w
PutGood(w, W) ==
    w.kind = "put" => /\ w.id \in DOMAIN files \/ w.id \notin issued
                      /\ \A v \in W : v.kind = "del" => v.id # w.id
DelGood(w, W) ==
    w.kind = "del" => w.id <= mark \/ \E v \in W : v.kind = "mark" /\ w.id <= v.id

Good(W) == \A w \in W : MarkGood(w, W) /\ PutGood(w, W) /\ DelGood(w, W)

IInv == DiskTypes /\ CallTypes /\ Marked /\ Known /\ Checked /\ Good(plan)

LEMMA Basics ==
    /\ NewTask \in Task /\ NoRequest \in Request
    /\ Torn \notin Task
    /\ Id \subseteq Nat /\ \A i \in Id : i <= MaxId /\ i > 0
    /\ \A i \in Id : Mark(i) \in FileWrite /\ Del(i) \in FileWrite
    /\ \A i \in Id, s \in 0 .. 3, t \in Task : Put(s, i, t) \in FileWrite
<1>1. NewTask \in Task /\ NoRequest \in Request
  BY MaxIdAssumption DEF NewTask, Task, NoRequest, Request, Status
<1>2. Torn \notin Task
  BY DEF Torn, Task, Status
<1>3. Id \subseteq Nat /\ \A i \in Id : i <= MaxId /\ i > 0
  BY MaxIdAssumption DEF Id
<1>4. \A i \in Id : Mark(i) \in FileWrite /\ Del(i) \in FileWrite
  BY <1>1 DEF Mark, Del, FileWrite
<1>5. \A i \in Id, s \in 0 .. 3, t \in Task : Put(s, i, t) \in FileWrite
  BY DEF Put, FileWrite
<1> QED
  BY <1>1, <1>2, <1>3, <1>4, <1>5

LEMMA InitIInv == Init => IInv
<1> SUFFICES ASSUME Init PROVE IInv
  OBVIOUS
<1>1. DiskTypes /\ Marked
  BY MaxIdAssumption DEF Init, DiskTypes, Marked
<1>2. CallTypes
  BY Basics, BoundsAssumption DEF Init, CallTypes, Holding
<1>3. Known /\ Checked /\ Good(plan)
  BY DEF Init, Known, Checked, Good
<1> QED
  BY <1>1, <1>2, <1>3 DEF IInv

-----------------------------------------------------------------------------
(* Calls that take the lock. *)

\* withLock around good writes keeps the invariant.
LEMMA EnterOK ==
    ASSUME IInv, NEW p \in Proc, NEW op \in Holding, NEW r \in Request, NEW W,
           W \subseteq FileWrite, Good(W), Enter(p, op, r, W), DiskUnchanged,
           op = "creating" => W = {Put(1, r.id, NewTask)},
           snap' \in [Proc -> Task], calls' \in 0 .. MaxCalls, crashes' \in 0 .. MaxCrashes
    PROVE  IInv'
<1>0. Checked'
  BY DEF Enter, IInv, CallTypes, Checked, Holding
<1>1. DiskTypes' /\ Marked'
  BY DEF IInv, DiskTypes, Marked, DiskUnchanged
<1>2. CASE W = {}
  <2>1. /\ pc' = [pc EXCEPT ![p] = "idle"] /\ req' = [req EXCEPT ![p] = NoRequest]
        /\ lock = {} /\ plan = {} /\ lock' = {} /\ plan' = {}
    BY <1>2 DEF Enter, IInv, CallTypes
  <2>2. "idle" \notin Holding /\ \A q \in Proc : pc[q] \notin Holding
    BY <2>1 DEF IInv, CallTypes, Holding
  <2>3. CallTypes'
    BY <2>1, <2>2, Basics DEF IInv, CallTypes
  <2>4. Known'
    BY <2>1, <2>2 DEF IInv, CallTypes, Known, Holding, DiskUnchanged
  <2>5. Good(plan)'
    BY <2>1 DEF Good
  <2> QED
    BY <1>0, <1>1, <2>3, <2>4, <2>5 DEF IInv
<1>3. CASE W # {}
  <2>1. /\ pc' = [pc EXCEPT ![p] = op] /\ req' = [req EXCEPT ![p] = r]
        /\ lock = {} /\ lock' = {p} /\ plan' = W
    BY <1>3 DEF Enter
  <2>2. \A q \in Proc : pc[q] \notin Holding
    BY <2>1 DEF IInv, CallTypes
  <2>3. CallTypes'
    BY <1>3, <2>1, <2>2 DEF IInv, CallTypes
  <2>4. Known'
    <3> SUFFICES ASSUME NEW q \in Proc
                 PROVE  /\ pc'[q] \in {"created", "got", "checked"} => req'[q].id \in issued
                        /\ pc'[q] = "creating" => plan' = {Put(1, req'[q].id, NewTask)}
      BY DEF Known, DiskUnchanged
    <3>1. CASE q = p
      BY <2>1, <3>1 DEF IInv, CallTypes, Holding
    <3>2. CASE q # p
      BY <2>1, <2>2, <3>2 DEF IInv, CallTypes, Known, Holding
    <3> QED
      BY <3>1, <3>2
  <2>5. Good(plan)'
    BY <2>1 DEF Good, MarkGood, PutGood, DelGood, DiskUnchanged
  <2> QED
    BY <1>0, <1>1, <2>3, <2>4, <2>5 DEF IInv
<1> QED
  BY <1>2, <1>3

\* A step of a call that is outside the lock and stays there.
LEMMA OutsideOK ==
    ASSUME IInv, NEW p \in Proc, pc[p] \notin Holding,
           NEW x \in {"idle", "got", "checked"}, NEW r \in Request, NEW t \in Task,
           pc' = [pc EXCEPT ![p] = x], req' = [req EXCEPT ![p] = r],
           snap' = [snap EXCEPT ![p] = t],
           x # "idle" => r.id \in issued, x = "checked" => r.status # "deleted",
           DiskUnchanged, UNCHANGED <<lock, plan, crashes>>, calls' \in 0 .. MaxCalls
    PROVE  IInv'
<1>1. DiskTypes' /\ Marked'
  BY DEF IInv, DiskTypes, Marked, DiskUnchanged
<1>2. x \notin Holding
  BY DEF Holding
<1>3. CallTypes'
  BY <1>2 DEF IInv, CallTypes
<1>4. Known'
  <2> SUFFICES ASSUME NEW q \in Proc
               PROVE  /\ pc'[q] \in {"created", "got", "checked"} => req'[q].id \in issued
                      /\ pc'[q] = "creating" => plan = {Put(1, req'[q].id, NewTask)}
    BY DEF Known, DiskUnchanged
  <2>1. CASE q = p
    BY <2>1 DEF IInv, CallTypes
  <2>2. CASE q # p
    BY <2>2 DEF IInv, CallTypes, Known
  <2> QED
    BY <2>1, <2>2
<1>5. Good(plan)'
  BY DEF IInv, Good, MarkGood, PutGood, DelGood, DiskUnchanged
<1>6. Checked'
  BY DEF IInv, CallTypes, Checked
<1> QED
  BY <1>1, <1>3, <1>4, <1>5, <1>6 DEF IInv

-----------------------------------------------------------------------------
(* The writes of each operation are good. *)

\* The id that nextID returns was never used.
LEMMA NextIdFresh ==
    ASSUME IInv, NEW i \in Id, NextId(i) PROVE i \notin issued
<1> SUFFICES ASSUME i \in issued PROVE FALSE
  OBVIOUS
<1>1. i <= mark \/ \E j \in DOMAIN files : i <= j
  BY DEF IInv, Marked
<1>2. \A j \in DOMAIN files \cup {mark} : j < i
  BY DEF NextId
<1>3. \A j \in DOMAIN files \cup {mark} : j \in Int
  <2>1. mark \in Int
    BY MaxIdAssumption DEF IInv, DiskTypes
  <2>2. \A j \in DOMAIN files : j \in Nat
    BY Basics DEF IInv, DiskTypes
  <2> QED
    BY <2>1, <2>2
<1>4. i \in Int
  BY Basics
<1> QED
  BY <1>1, <1>2, <1>3, <1>4

\* A listed task is a task, of an id that was used.
LEMMA ListedOK ==
    ASSUME IInv, NEW j, j \in Listed \/ Readable(j)
    PROVE  files[j] \in Task /\ j \in DOMAIN files /\ j \in issued /\ j \in Id
BY DEF IInv, DiskTypes, Marked, Listed, Readable

\* Tasks that are written back.
LEMMA PutsGood ==
    ASSUME IInv, NEW W,
           \A w \in W : \E s \in 1 .. 3, j \in DOMAIN files, t \in Task : w = Put(s, j, t)
    PROVE  W \subseteq FileWrite /\ Good(W)
<1>1. W \subseteq FileWrite
  <2> SUFFICES ASSUME NEW w \in W PROVE w \in FileWrite
    OBVIOUS
  <2>1. PICK s \in 1 .. 3, j \in DOMAIN files, t \in Task : w = Put(s, j, t)
    OBVIOUS
  <2>2. s \in 0 .. 3 /\ j \in Id
    BY DEF IInv, DiskTypes
  <2> QED
    BY <2>1, <2>2, Basics
<1>2. \A w \in W : w.kind = "put" /\ w.stage > 0 /\ w.id \in DOMAIN files
  BY DEF Put
<1> QED
  BY <1>1, <1>2 DEF Good, MarkGood, PutGood, DelGood

\* What an update writes for a target keeps it a task.
LEMMA FieldsOK ==
    ASSUME NEW t \in Task, NEW B \in SUBSET Id
    PROVE  /\ [t EXCEPT !.blocks = B] \in Task
           /\ [t EXCEPT !.blockedBy = B] \in Task
           /\ \A a \in Agent \cup {NoOwner} : /\ [t EXCEPT !.owner = a] \in Task
                                              /\ [t EXCEPT !.owner = a, !.status = "pending"] \in Task
BY DEF Task, Status

LEMMA UpdateGood ==
    ASSUME IInv, NEW r \in Request, r.status # "deleted", NEW s \in Task,
           \A j \in {r.id} \cup r.addBlocks \cup r.addBlockedBy : Readable(j)
    PROVE  UpdateWrites(r, s) \subseteq FileWrite /\ Good(UpdateWrites(r, s))
<1>1. r.id \in Id /\ r.id \in DOMAIN files /\ files[r.id] \in Task
  BY ListedOK
<1>2. ApplyUpdates(files[r.id], r, s) \in Task
  BY <1>1 DEF ApplyUpdates, Task, Request
<1>3. \A j \in r.addBlocks : [files[j] EXCEPT !.blockedBy = files[j].blockedBy \cup {r.id}] \in Task
  <2> SUFFICES ASSUME NEW j \in r.addBlocks
               PROVE  [files[j] EXCEPT !.blockedBy = files[j].blockedBy \cup {r.id}] \in Task
    OBVIOUS
  <2>1. files[j] \in Task
    BY ListedOK
  <2>2. files[j].blockedBy \cup {r.id} \in SUBSET Id
    BY <1>1, <2>1 DEF Task
  <2> QED
    BY <2>1, <2>2, FieldsOK
<1>4. \A j \in r.addBlockedBy : [files[j] EXCEPT !.blocks = files[j].blocks \cup {r.id}] \in Task
  <2> SUFFICES ASSUME NEW j \in r.addBlockedBy
               PROVE  [files[j] EXCEPT !.blocks = files[j].blocks \cup {r.id}] \in Task
    OBVIOUS
  <2>1. files[j] \in Task
    BY ListedOK
  <2>2. files[j].blocks \cup {r.id} \in SUBSET Id
    BY <1>1, <2>1 DEF Task
  <2> QED
    BY <2>1, <2>2, FieldsOK
<1>5. \A j \in r.addBlocks \cup r.addBlockedBy : j \in DOMAIN files
  BY ListedOK
<1>6. \A w \in UpdateWrites(r, s) :
        \E k \in 1 .. 3, j \in DOMAIN files, t \in Task : w = Put(k, j, t)
  <2> SUFFICES ASSUME NEW w \in UpdateWrites(r, s)
               PROVE  \E k \in 1 .. 3, j \in DOMAIN files, t \in Task : w = Put(k, j, t)
    OBVIOUS
  <2>1. CASE w = Put(1, r.id, ApplyUpdates(files[r.id], r, s))
    BY <1>1, <1>2, <2>1
  <2>2. CASE \E j \in r.addBlocks :
               w = Put(2, j, [files[j] EXCEPT !.blockedBy = files[j].blockedBy \cup {r.id}])
    BY <1>3, <1>5, <2>2
  <2>3. CASE \E j \in r.addBlockedBy :
               w = Put(3, j, [files[j] EXCEPT !.blocks = files[j].blocks \cup {r.id}])
    BY <1>4, <1>5, <2>3
  <2> QED
    BY <2>1, <2>2, <2>3 DEF UpdateWrites
<1> QED
  BY <1>6, PutsGood

\* The mark is raised before the file goes.
LEMMA DeleteGood ==
    ASSUME IInv, NEW i \in issued
    PROVE  DeleteWrites(i) \subseteq FileWrite /\ Good(DeleteWrites(i))
<1> DEFINE D == DeleteWrites(i)
<1>1. i \in Id /\ i \in Nat /\ mark \in Nat
  BY Basics, MaxIdAssumption DEF IInv, DiskTypes
<1>2. \A w \in D : \/ w = Mark(i) /\ i > mark
                   \/ w = Del(i)
                   \/ \E j \in Listed \ {i}, t \in Task : w = Put(2, j, t)
  <2> SUFFICES ASSUME NEW w \in D, ~(w = Mark(i) /\ i > mark), w # Del(i)
               PROVE  \E j \in Listed \ {i}, t \in Task : w = Put(2, j, t)
    OBVIOUS
  <2>1. PICK j \in Listed \ {i} :
           w = Put(2, j, [files[j] EXCEPT !.blocks = files[j].blocks \ {i},
                                          !.blockedBy = files[j].blockedBy \ {i}])
    <3>1. w \notin RaiseMark(i)
      BY DEF RaiseMark
    <3> QED
      BY <3>1 DEF DeleteWrites
  <2>2. files[j] \in Task
    BY ListedOK
  <2>3. [files[j] EXCEPT !.blocks = files[j].blocks \ {i},
                         !.blockedBy = files[j].blockedBy \ {i}] \in Task
    BY <2>2 DEF Task
  <2> QED
    BY <2>1, <2>3
<1>3. i > mark => Mark(i) \in D /\ \E j \in DOMAIN files : i <= j
  <2>1. i > mark => Mark(i) \in D
    BY DEF DeleteWrites, RaiseMark
  <2>2. i > mark => \E j \in DOMAIN files : i <= j
    BY <1>1 DEF IInv, Marked
  <2> QED
    BY <2>1, <2>2
<1>4. \A j \in Listed : j \in DOMAIN files /\ j \in Id
  BY ListedOK
<1> HIDE DEF D
<1>5. D \subseteq FileWrite
  <2> SUFFICES ASSUME NEW w \in D PROVE w \in FileWrite
    OBVIOUS
  <2>1. CASE w = Mark(i) \/ w = Del(i)
    BY <1>1, <2>1, Basics
  <2>2. ASSUME NEW j \in Listed \ {i}, NEW t \in Task, w = Put(2, j, t) PROVE w \in FileWrite
    <3>1. j \in Id /\ 2 \in 0 .. 3
      BY <1>4
    <3> QED
      BY <2>2, <3>1, Basics
  <2> QED
    BY <1>2, <2>1, <2>2
<1>6. ASSUME NEW w \in D PROVE MarkGood(w, D)
  BY <1>2, <1>3, <1>6 DEF MarkGood, Mark, Del, Put
<1>7. ASSUME NEW w \in D PROVE PutGood(w, D)
  BY <1>2, <1>4, <1>7 DEF PutGood, Mark, Del, Put
<1>8. ASSUME NEW w \in D PROVE DelGood(w, D)
  BY <1>1, <1>2, <1>3, <1>8 DEF DelGood, Mark, Del, Put
<1> QED
  BY <1>5, <1>6, <1>7, <1>8 DEF Good, D

-----------------------------------------------------------------------------
(* What one file write, whole or cut short, does to the disk. *)

First(w) == w \in plan /\ \A v \in plan : w.stage <= v.stage

Fresh == \A i \in DOMAIN files' \ DOMAIN files : i \notin issued

\* The parts of a write.
LEMMA WriteTyped ==
    ASSUME IInv, NEW w \in plan
    PROVE  w.id \in Id /\ w.id \in Int /\ w.id <= MaxId /\ w.task \in Task /\ mark \in Int
<1>1. w \in FileWrite
  BY DEF IInv, CallTypes
<1>2. w.id \in Id /\ w.task \in Task
  BY <1>1 DEF FileWrite
<1>3. mark \in Int
  BY MaxIdAssumption DEF IInv, DiskTypes
<1>4. w.id \in Nat /\ w.id <= MaxId
  BY <1>2, Basics
<1> QED
  BY <1>2, <1>3, <1>4

\* While a file is written or deleted, nothing is left to be marked.
LEMMA NoMarkLeft ==
    ASSUME IInv, NEW w, First(w), w.kind # "mark" PROVE \A v \in plan : v.kind # "mark"
<1> SUFFICES ASSUME NEW v \in plan, v.kind = "mark" PROVE FALSE
  OBVIOUS
<1>1. v.stage = 0 /\ w.stage > 0 /\ w.stage <= v.stage
  BY DEF IInv, Good, MarkGood, First
<1>2. w.stage \in 0 .. 3
  BY DEF First, IInv, CallTypes, FileWrite
<1> QED
  BY <1>1, <1>2

LEMMA PutDisk ==
    ASSUME IInv, NEW w, First(w), w.kind = "put", NEW t \in Task \cup {Torn},
           Disk(WithFile(w.id, t), mark)
    PROVE  DiskTypes' /\ Marked' /\ issued \subseteq issued' /\ Fresh
<1>1. w.id \in Id /\ w.id \in Int /\ (w.id \in DOMAIN files \/ w.id \notin issued)
  BY WriteTyped DEF First, IInv, Good, PutGood
<1>2. /\ DOMAIN files' = DOMAIN files \cup {w.id} /\ mark' = mark
      /\ issued' = issued \cup DOMAIN files'
      /\ \A i \in DOMAIN files' : files'[i] = IF i = w.id THEN t ELSE files[i]
  BY DEF Disk, WithFile
<1>3. DiskTypes'
  BY <1>1, <1>2 DEF IInv, DiskTypes
<1>4. Marked'
  BY <1>1, <1>2 DEF IInv, Marked
<1> QED
  BY <1>1, <1>2, <1>3, <1>4 DEF Fresh

LEMMA DelDisk ==
    ASSUME IInv, NEW w, First(w), w.kind = "del",
           Disk([j \in DOMAIN files \ {w.id} |-> files[j]], mark)
    PROVE  DiskTypes' /\ Marked' /\ issued \subseteq issued' /\ Fresh
<1>1. w.id \in Id /\ w.id \in Int /\ mark \in Int /\ w.id <= mark
  <2>1. w.id \in Id /\ w.id \in Int /\ mark \in Int
    BY WriteTyped DEF First
  <2> QED
    BY <2>1, NoMarkLeft DEF First, IInv, Good, DelGood
<1>2. /\ DOMAIN files' = DOMAIN files \ {w.id} /\ mark' = mark
      /\ issued' = issued \cup DOMAIN files'
      /\ \A i \in DOMAIN files' : files'[i] = files[i]
  BY DEF Disk
<1>3. issued' = issued
  BY <1>2 DEF IInv, Marked
<1>4. DiskTypes'
  BY <1>2, <1>3 DEF IInv, DiskTypes
<1>5. \A i \in issued : i \in Int
  BY Basics DEF IInv, DiskTypes
<1>6. Marked'
  <2>1. DOMAIN files' \subseteq issued'
    BY <1>2, <1>3 DEF IInv, Marked
  <2>2. ASSUME NEW i \in issued PROVE i <= mark \/ \E j \in DOMAIN files' : i <= j
    <3>1. CASE i <= mark
      BY <3>1
    <3>2. ASSUME NEW j \in DOMAIN files, i <= j PROVE i <= mark \/ \E k \in DOMAIN files' : i <= k
      BY <1>1, <1>2, <1>5, <3>2
    <3> QED
      BY <3>1, <3>2 DEF IInv, Marked
  <2> QED
    BY <1>2, <1>3, <2>1, <2>2 DEF Marked
<1> QED
  BY <1>2, <1>3, <1>4, <1>6 DEF Fresh

\* The mark may be raised, or cut short: the file it is for is still there.
LEMMA MarkDisk ==
    ASSUME IInv, NEW w, First(w), w.kind = "mark", NEW m \in {0, w.id}, Disk(files, m)
    PROVE  DiskTypes' /\ Marked' /\ issued \subseteq issued' /\ Fresh
<1>1. /\ w.id \in Id /\ w.id \in Int /\ w.id <= MaxId /\ mark \in Int /\ w.id > mark
      /\ \E j \in DOMAIN files : w.id <= j
  BY WriteTyped DEF First, IInv, Good, MarkGood
<1>2. files' = files /\ mark' = m /\ issued' = issued
  BY DEF Disk, IInv, Marked
<1>3. DiskTypes'
  BY <1>1, <1>2, MaxIdAssumption, Basics DEF IInv, DiskTypes
<1>4. \A i \in issued : i \in Int
  BY Basics DEF IInv, DiskTypes
<1>5. \A j \in DOMAIN files : j \in Int
  BY <1>4 DEF IInv, Marked
<1>6. \A i \in issued : \E j \in DOMAIN files : i <= j
  <2> SUFFICES ASSUME NEW i \in issued PROVE \E j \in DOMAIN files : i <= j
    OBVIOUS
  <2>1. PICK k \in DOMAIN files : w.id <= k
    BY <1>1
  <2>2. i <= mark => i <= k
    BY <1>1, <1>4, <1>5, <2>1
  <2> QED
    BY <2>2 DEF IInv, Marked
<1>7. Marked'
  BY <1>2, <1>6 DEF IInv, Marked
<1> QED
  BY <1>2, <1>3, <1>7 DEF Fresh

\* The writes that are left are good after a write.
LEMMA LeftGood ==
    ASSUME IInv, NEW w, First(w), plan' = plan \ {w},
           \/ w.kind = "mark" /\ Disk(files, w.id)
           \/ w.kind = "put" /\ Disk(WithFile(w.id, w.task), mark)
           \/ w.kind = "del" /\ Disk([j \in DOMAIN files \ {w.id} |-> files[j]], mark)
    PROVE  Good(plan)'
<1> SUFFICES ASSUME NEW v \in plan, v # w
             PROVE  MarkGood(v, plan)' /\ PutGood(v, plan)' /\ DelGood(v, plan)'
  BY DEF Good
<1>1. w \in plan /\ MarkGood(v, plan) /\ PutGood(v, plan) /\ DelGood(v, plan) /\ MarkGood(w, plan)
  BY DEF First, IInv, Good
<1>2. DOMAIN files \subseteq issued
  BY DEF IInv, Marked
<1>3. CASE w.kind = "mark" /\ Disk(files, w.id)
  <2>1. files' = files /\ issued' = issued /\ mark' = w.id
    BY <1>2, <1>3 DEF Disk
  <2>2. v.kind # "mark" /\ w.id > mark
    BY <1>1, <1>3 DEF MarkGood
  <2>3. v.id \in Int /\ w.id \in Int /\ mark \in Int
    BY <1>1, WriteTyped
  <2>4. MarkGood(v, plan)' /\ PutGood(v, plan)'
    BY <1>1, <2>1, <2>2 DEF MarkGood, PutGood
  <2>5. v.kind = "del" => v.id <= w.id
    BY <1>1, <1>3, <2>2, <2>3 DEF DelGood, MarkGood
  <2> QED
    BY <2>1, <2>4, <2>5 DEF DelGood
<1>4. CASE w.kind = "put" /\ Disk(WithFile(w.id, w.task), mark)
  <2>1. /\ DOMAIN files' = DOMAIN files \cup {w.id} /\ mark' = mark
        /\ issued' = issued \cup DOMAIN files'
    BY <1>4 DEF Disk, WithFile
  <2>2. \A u \in plan : u.kind # "mark"
    BY <1>4, NoMarkLeft
  <2>3. v.kind = "del" => v.id <= mark
    BY <1>1, <2>2 DEF DelGood
  <2>4. MarkGood(v, plan)' /\ DelGood(v, plan)'
    BY <1>1, <2>1, <2>2, <2>3 DEF MarkGood, DelGood
  <2>5. PutGood(v, plan)'
    BY <1>1, <1>2, <2>1 DEF PutGood
  <2> QED
    BY <2>4, <2>5
<1>5. CASE w.kind = "del" /\ Disk([j \in DOMAIN files \ {w.id} |-> files[j]], mark)
  <2>1. DOMAIN files' = DOMAIN files \ {w.id} /\ mark' = mark /\ issued' = issued
    BY <1>2, <1>5 DEF Disk
  <2>2. \A u \in plan : u.kind # "mark"
    BY <1>5, NoMarkLeft
  <2>3. v.kind = "del" => v.id <= mark
    BY <1>1, <2>2 DEF DelGood
  <2>4. MarkGood(v, plan)' /\ DelGood(v, plan)'
    BY <1>1, <2>1, <2>2, <2>3 DEF MarkGood, DelGood
  <2>5. PutGood(v, plan)'
    BY <1>1, <1>5, <2>1 DEF PutGood
  <2> QED
    BY <2>4, <2>5
<1> QED
  BY <1>3, <1>4, <1>5

-----------------------------------------------------------------------------
(* Each action keeps the invariant. *)

LEMMA CreateIInv == ASSUME NEW p \in Proc PROVE IInv /\ Create(p) => IInv'
<1> SUFFICES ASSUME IInv, Create(p) PROVE IInv'
  OBVIOUS
<1>1. PICK i \in Id :
        NextId(i) /\ Enter(p, "creating", [NoRequest EXCEPT !.id = i], {Put(1, i, NewTask)})
  BY DEF Create
<1> DEFINE r == [NoRequest EXCEPT !.id = i]
           W == {Put(1, i, NewTask)}
<1>2. r \in Request /\ r.id = i
  BY MaxIdAssumption, Basics DEF NoRequest, Request
<1>3. W \subseteq FileWrite /\ Good(W)
  <2>1. i \notin issued
    BY <1>1, NextIdFresh
  <2>2. W \subseteq FileWrite
    BY Basics
  <2> QED
    BY <2>1, <2>2 DEF Good, MarkGood, PutGood, DelGood, Put
<1>4. /\ DiskUnchanged /\ snap' \in [Proc -> Task]
      /\ calls' \in 0 .. MaxCalls /\ crashes' \in 0 .. MaxCrashes
  BY DEF Create, IInv, CallTypes
<1>5. "creating" \in Holding
  BY DEF Holding
<1> HIDE DEF r, W
<1>6. W = {Put(1, r.id, NewTask)} /\ Enter(p, "creating", r, W)
  BY <1>1, <1>2 DEF W, r
<1> QED
  BY <1>2, <1>3, <1>4, <1>5, <1>6, EnterOK


LEMMA WriteStep ==
    ASSUME IInv, NEW p \in Proc, Write(p) PROVE IInv' /\ Fresh
<1>1. PICK w \in plan :
        /\ \A v \in plan : w.stage <= v.stage
        /\ \/ w.kind = "mark" /\ Disk(files, w.id)
           \/ w.kind = "put" /\ Disk(WithFile(w.id, w.task), mark)
           \/ w.kind = "del" /\ Disk([j \in DOMAIN files \ {w.id} |-> files[j]], mark)
        /\ plan' = plan \ {w}
  BY DEF Write
<1>2. First(w) /\ w.task \in Task \cup {Torn}
  BY <1>1, WriteTyped DEF First
<1>3. DiskTypes' /\ Marked' /\ issued \subseteq issued' /\ Fresh
  BY <1>1, <1>2, PutDisk, DelDisk, MarkDisk
<1>4. Good(plan)'
  BY <1>1, <1>2, LeftGood
<1>5. p \in lock /\ lock = {p} /\ pc[p] \in Holding /\ plan' \subseteq FileWrite
      /\ UNCHANGED <<calls, crashes>>
  BY <1>1 DEF Write, IInv, CallTypes
<1>6. \A q \in Proc : pc[q] \in Holding => q = p
  BY <1>5 DEF IInv, CallTypes
<1>7. Checked'
  BY DEF Write, Return, IInv, CallTypes, Checked
<1>8. CASE plan' # {} /\ UNCHANGED <<lock, pc, req, snap>>
  <2>1. CallTypes'
    BY <1>5, <1>8 DEF IInv, CallTypes
  <2>2. \A q \in Proc : pc[q] # "creating"
    <3> SUFFICES ASSUME NEW q \in Proc, pc[q] = "creating" PROVE FALSE
      OBVIOUS
    <3>1. plan = {Put(1, req[q].id, NewTask)}
      BY DEF IInv, Known
    <3> QED
      BY <1>1, <1>8, <3>1
  <2>3. Known'
    BY <1>3, <1>8, <2>2 DEF IInv, Known
  <2> QED
    BY <1>3, <1>4, <1>7, <2>1, <2>3 DEF IInv
<1>9. CASE plan' = {} /\ lock' = {} /\ pc[p] # "creating" /\ Return(p)
  <2>1. /\ pc' = [pc EXCEPT ![p] = "idle"] /\ req' = [req EXCEPT ![p] = NoRequest]
        /\ snap' = [snap EXCEPT ![p] = NewTask] /\ "idle" \notin Holding
    BY <1>9 DEF Return, Holding
  <2>2. CallTypes'
    BY <1>5, <1>6, <1>9, <2>1, Basics DEF IInv, CallTypes
  <2>3. Known'
    <3> SUFFICES ASSUME NEW q \in Proc
                 PROVE  /\ pc'[q] \in {"created", "got", "checked"} => req'[q].id \in issued'
                        /\ pc'[q] # "creating"
      BY DEF Known
    <3>1. CASE q = p
      BY <2>1, <3>1 DEF IInv, CallTypes
    <3>2. CASE q # p
      <4>1. pc'[q] = pc[q] /\ req'[q] = req[q] /\ pc[q] # "creating"
        BY <1>6, <2>1, <3>2 DEF IInv, CallTypes, Holding
      <4> QED
        BY <1>3, <4>1 DEF IInv, Known
    <3> QED
      BY <3>1, <3>2
  <2> QED
    BY <1>3, <1>4, <1>7, <2>2, <2>3 DEF IInv
<1>10. CASE /\ plan' = {} /\ lock' = {} /\ pc[p] = "creating"
           /\ pc' = [pc EXCEPT ![p] = "created"] /\ UNCHANGED <<req, snap>>
  <2>1. "created" \notin Holding
    BY DEF Holding
  <2>2. CallTypes'
    BY <1>5, <1>6, <1>10, <2>1 DEF IInv, CallTypes
  <2>3. req[p].id \in issued'
    <3>1. w = Put(1, req[p].id, NewTask)
      BY <1>1, <1>10 DEF IInv, Known
    <3>2. w.kind = "put" /\ w.id = req[p].id
      BY <3>1 DEF Put
    <3>3. Disk(WithFile(w.id, w.task), mark)
      BY <1>1, <3>2
    <3> QED
      BY <3>2, <3>3 DEF Disk, WithFile
  <2>4. Known'
    <3> SUFFICES ASSUME NEW q \in Proc
                 PROVE  /\ pc'[q] \in {"created", "got", "checked"} => req'[q].id \in issued'
                        /\ pc'[q] # "creating"
      BY DEF Known
    <3>1. CASE q = p
      BY <1>10, <2>3, <3>1 DEF IInv, CallTypes
    <3>2. CASE q # p
      <4>1. pc'[q] = pc[q] /\ req'[q] = req[q] /\ pc[q] # "creating"
        BY <1>6, <1>10, <3>2 DEF IInv, CallTypes, Holding
      <4> QED
        BY <1>3, <4>1 DEF IInv, Known
    <3> QED
      BY <3>1, <3>2
  <2> QED
    BY <1>3, <1>4, <1>7, <2>2, <2>4 DEF IInv
<1> QED
  BY <1>8, <1>9, <1>10 DEF Write


LEMMA CrashStep == ASSUME IInv, NEW p \in Proc, Crash(p) PROVE IInv' /\ Fresh
<1>1. /\ lock' = lock \ {p} /\ plan' = IF p \in lock THEN {} ELSE plan
      /\ pc' = [pc EXCEPT ![p] = "idle"] /\ req' = [req EXCEPT ![p] = NoRequest]
      /\ snap' = [snap EXCEPT ![p] = NewTask] /\ calls' = calls /\ crashes' \in 0 .. MaxCrashes
  BY BoundsAssumption DEF Crash, Return, IInv, CallTypes
<1>2. \/ DiskUnchanged
      \/ /\ p \in lock
         /\ \E w \in plan : /\ First(w)
                            /\ \/ w.kind = "mark" /\ Disk(files, 0)
                               \/ w.kind = "put" /\ Disk(WithFile(w.id, Torn), mark)
  BY DEF Crash, First
<1>3. DiskTypes' /\ Marked' /\ issued \subseteq issued' /\ Fresh
  <2>1. CASE DiskUnchanged
    BY <2>1 DEF IInv, DiskTypes, Marked, DiskUnchanged, Fresh
  <2>2. ASSUME NEW w \in plan, First(w), w.kind = "mark" /\ Disk(files, 0)
        PROVE  DiskTypes' /\ Marked' /\ issued \subseteq issued' /\ Fresh
    BY <2>2, MarkDisk
  <2>3. ASSUME NEW w \in plan, First(w), w.kind = "put" /\ Disk(WithFile(w.id, Torn), mark)
        PROVE  DiskTypes' /\ Marked' /\ issued \subseteq issued' /\ Fresh
    BY <2>3, PutDisk
  <2> QED
    BY <1>2, <2>1, <2>2, <2>3
<1>4. Good(plan)'
  <2>1. CASE p \in lock
    BY <1>1, <2>1 DEF Good
  <2>2. CASE p \notin lock
    BY <1>1, <1>2, <2>2 DEF IInv, Good, MarkGood, PutGood, DelGood, DiskUnchanged
  <2> QED
    BY <2>1, <2>2
<1>5. "idle" \notin Holding /\ "creating" \in Holding
  BY DEF Holding
<1>6. CallTypes'
  <2>1. lock' \subseteq Proc /\ (\A q, r \in lock' : q = r) /\ plan' \subseteq FileWrite
    BY <1>1 DEF IInv, CallTypes
  <2>2. lock' = {} <=> plan' = {}
    BY <1>1 DEF IInv, CallTypes
  <2>3. \A q \in Proc : q \in lock' <=> pc'[q] \in Holding
    BY <1>1, <1>5 DEF IInv, CallTypes
  <2>4. /\ pc' \in [Proc -> Holding \cup {"idle", "created", "got", "checked"}]
        /\ req' \in [Proc -> Request] /\ snap' \in [Proc -> Task]
    BY <1>1, Basics DEF IInv, CallTypes
  <2> QED
    BY <1>1, <2>1, <2>2, <2>3, <2>4 DEF IInv, CallTypes
<1>7. Known'
  <2> SUFFICES ASSUME NEW q \in Proc
               PROVE  /\ pc'[q] \in {"created", "got", "checked"} => req'[q].id \in issued'
                      /\ pc'[q] = "creating" => plan' = {Put(1, req'[q].id, NewTask)}
    BY DEF Known
  <2>1. CASE q = p
    BY <1>1, <2>1 DEF IInv, CallTypes
  <2>2. CASE q # p
    <3>1. pc'[q] = pc[q] /\ req'[q] = req[q]
      BY <1>1, <2>2 DEF IInv, CallTypes
    <3>2. pc[q] = "creating" => plan' = plan
      BY <1>1, <1>5, <2>2 DEF IInv, CallTypes
    <3> QED
      BY <1>3, <3>1, <3>2 DEF IInv, Known
  <2> QED
    BY <2>1, <2>2
<1>8. Checked'
  BY <1>1 DEF IInv, CallTypes, Checked
<1> QED
  BY <1>3, <1>4, <1>6, <1>7, <1>8 DEF IInv

LEMMA HooksIInv ==
    ASSUME IInv, NEW p \in Proc, HooksAccept(p) \/ HooksBlock(p) \/ HooksRefuse(p) \/ DeleteTask(p)
    PROVE  IInv'
<1>1. CASE HooksAccept(p) \/ HooksBlock(p)
  <2>1. /\ pc[p] \notin Holding /\ DiskUnchanged /\ UNCHANGED <<lock, plan, crashes>>
        /\ pc' = [pc EXCEPT ![p] = "idle"] /\ req' = [req EXCEPT ![p] = NoRequest]
        /\ snap' = [snap EXCEPT ![p] = NewTask] /\ calls' \in 0 .. MaxCalls
    BY <1>1 DEF HooksAccept, HooksBlock, Holding, Return, IInv, CallTypes
  <2> QED
    BY <2>1, Basics, OutsideOK
<1>2. CASE HooksRefuse(p) \/ DeleteTask(p)
  <2>1. req[p].id \in issued /\ req[p] \in Request
    BY <1>2 DEF HooksRefuse, DeleteTask, IInv, Known, CallTypes
  <2>2. /\ Enter(p, "deleting", req[p], DeleteWrites(req[p].id)) /\ DiskUnchanged
        /\ calls' \in 0 .. MaxCalls /\ crashes' \in 0 .. MaxCrashes
    BY <1>2 DEF HooksRefuse, DeleteTask, IInv, CallTypes
  <2>3. snap' \in [Proc -> Task]
    BY <1>2, Basics DEF HooksRefuse, DeleteTask, IInv, CallTypes
  <2>4. "deleting" \in Holding
    BY DEF Holding
  <2> QED
    BY <2>1, <2>2, <2>3, <2>4, DeleteGood, EnterOK
<1> QED
  BY <1>1, <1>2

LEMMA GetIInv == ASSUME IInv, NEW p \in Proc, Get(p) PROVE IInv'
<1>1. PICK r \in Requests :
        /\ Readable(r.id)
        /\ pc' = [pc EXCEPT ![p] = "got"]
        /\ req' = [req EXCEPT ![p] = Changes(r, files[r.id])]
        /\ snap' = [snap EXCEPT ![p] = files[r.id]]
  BY DEF Get
<1>2. r \in Request /\ files[r.id] \in Task /\ r.id \in issued
  BY <1>1, ListedOK, RequestsAssumption
<1>3. Changes(r, files[r.id]) \in Request /\ Changes(r, files[r.id]).id = r.id
  BY <1>2 DEF Changes, Request, Task
<1>4. /\ pc[p] \notin Holding /\ DiskUnchanged /\ UNCHANGED <<lock, plan, crashes>>
      /\ calls' \in 0 .. MaxCalls
  BY BoundsAssumption DEF Get, Begin, Holding, IInv, CallTypes
<1> QED
  BY <1>1, <1>2, <1>3, <1>4, OutsideOK

LEMMA CheckTargetsIInv == ASSUME IInv, NEW p \in Proc, CheckTargets(p) PROVE IInv'
<1>1. /\ pc[p] \notin Holding /\ DiskUnchanged /\ UNCHANGED <<lock, plan, crashes>>
      /\ calls' \in 0 .. MaxCalls
  BY DEF CheckTargets, Holding, IInv, CallTypes
<1>2. CASE pc' = [pc EXCEPT ![p] = "checked"] /\ UNCHANGED <<req, snap>>
  <2>1. /\ req[p] \in Request /\ req[p].id \in issued /\ snap[p] \in Task
        /\ req[p].status # "deleted"
    BY DEF CheckTargets, IInv, Known, CallTypes
  <2>2. req' = [req EXCEPT ![p] = req[p]] /\ snap' = [snap EXCEPT ![p] = snap[p]]
    BY <1>2 DEF IInv, CallTypes
  <2> QED
    BY <1>1, <1>2, <2>1, <2>2, OutsideOK
<1>3. CASE Return(p)
  <2>1. /\ pc' = [pc EXCEPT ![p] = "idle"] /\ req' = [req EXCEPT ![p] = NoRequest]
        /\ snap' = [snap EXCEPT ![p] = NewTask]
    BY <1>3 DEF Return
  <2> QED
    BY <1>1, <2>1, Basics, OutsideOK
<1> QED
  BY <1>2, <1>3 DEF CheckTargets

\* Calls that start with the lock leave what was read before alone.
LEMMA BeginTypes ==
    ASSUME IInv, NEW p \in Proc, Begin(p), UNCHANGED <<snap, crashes>>
    PROVE  snap' \in [Proc -> Task] /\ calls' \in 0 .. MaxCalls /\ crashes' \in 0 .. MaxCrashes
BY BoundsAssumption DEF IInv, CallTypes, Begin

LEMMA UpdateIInv ==
    ASSUME IInv, NEW p \in Proc, UpdateWithDependencies(p) \/ Update(p) PROVE IInv'
<1>1. "updating" \in Holding /\ DiskUnchanged
  BY DEF Holding, UpdateWithDependencies, Update
<1>2. CASE UpdateWithDependencies(p)
  <2> DEFINE r == req[p]
             all == \A j \in {r.id} \cup r.addBlocks \cup r.addBlockedBy : Readable(j)
             W == IF all THEN UpdateWrites(r, snap[p]) ELSE {}
  <2>1. /\ r \in Request /\ snap[p] \in Task /\ snap' \in [Proc -> Task]
        /\ calls' \in 0 .. MaxCalls /\ crashes' \in 0 .. MaxCrashes
    BY <1>2, Basics DEF UpdateWithDependencies, IInv, CallTypes
  <2>2. r.status # "deleted" /\ Enter(p, "updating", r, W)
    BY <1>2 DEF UpdateWithDependencies, IInv, Checked
  <2>3. W \subseteq FileWrite /\ Good(W)
    <3>1. CASE all
      BY <2>1, <2>2, <3>1, UpdateGood
    <3>2. CASE ~all
      BY <3>2 DEF Good
    <3> QED
      BY <3>1, <3>2
  <2> HIDE DEF r, W
  <2> QED
    BY <1>1, <2>1, <2>2, <2>3, EnterOK
<1>3. CASE Update(p)
  <2>1. PICK r \in Requests :
          /\ r.status # "deleted" /\ r.addBlocks = {} /\ r.addBlockedBy = {} /\ Readable(r.id)
          /\ Enter(p, "updating", r, UpdateWrites(r, files[r.id]))
    BY <1>3 DEF Update
  <2>2. r \in Request /\ files[r.id] \in Task
    BY <2>1, RequestsAssumption, ListedOK
  <2>3. \A j \in {r.id} \cup r.addBlocks \cup r.addBlockedBy : Readable(j)
    BY <2>1
  <2>4. snap' \in [Proc -> Task] /\ calls' \in 0 .. MaxCalls /\ crashes' \in 0 .. MaxCrashes
    BY <1>3, BeginTypes DEF Update
  <2> QED
    BY <1>1, <2>1, <2>2, <2>3, <2>4, UpdateGood, EnterOK
<1> QED
  BY <1>2, <1>3

LEMMA BlockTaskIInv == ASSUME IInv, NEW p \in Proc, BlockTask(p) PROVE IInv'
<1> DEFINE to(i, j) == IF j \in files[i].blocks THEN {}
                       ELSE {Put(1, i, [files[i] EXCEPT !.blocks = files[i].blocks \cup {j}])}
           from(i, j) == IF i \in files[j].blockedBy THEN {}
                         ELSE {Put(2, j, [files[j] EXCEPT !.blockedBy = files[j].blockedBy \cup {i}])}
<1>1. PICK i \in Listed, j \in Listed :
        Enter(p, "linking", [NoRequest EXCEPT !.id = i, !.addBlocks = {j}], to(i, j) \cup from(i, j))
  BY DEF BlockTask
<1>2. files[i] \in Task /\ files[j] \in Task /\ i \in Id /\ j \in Id
      /\ i \in DOMAIN files /\ j \in DOMAIN files
  BY ListedOK
<1>3. files[i].blocks \cup {j} \in SUBSET Id /\ files[j].blockedBy \cup {i} \in SUBSET Id
  BY <1>2 DEF Task
<1>4. /\ [files[i] EXCEPT !.blocks = files[i].blocks \cup {j}] \in Task
      /\ [files[j] EXCEPT !.blockedBy = files[j].blockedBy \cup {i}] \in Task
  BY <1>2, <1>3, FieldsOK
<1>5. \A w \in to(i, j) \cup from(i, j) :
        \E s \in 1 .. 3, k \in DOMAIN files, t \in Task : w = Put(s, k, t)
  BY <1>2, <1>4
<1>6. [NoRequest EXCEPT !.id = i, !.addBlocks = {j}] \in Request
  <2>1. i \in 0 .. MaxId /\ {j} \in SUBSET Id
    BY <1>2, MaxIdAssumption DEF Id
  <2> QED
    BY <2>1, Basics DEF Request
<1> HIDE DEF to, from
<1>7. /\ snap' \in [Proc -> Task] /\ calls' \in 0 .. MaxCalls /\ crashes' \in 0 .. MaxCrashes
      /\ DiskUnchanged /\ "linking" \in Holding
  BY BeginTypes DEF BlockTask, Holding
<1> QED
  BY <1>1, <1>5, <1>6, <1>7, PutsGood, EnterOK

LEMMA ClaimTaskIInv == ASSUME IInv, NEW p \in Proc, ClaimTask(p) PROVE IInv'
<1>1. PICK i \in Id, a \in Agent, op \in {"claiming", "claimingIdle"} :
        /\ Claimable(i, a)
        /\ Enter(p, op, [NoRequest EXCEPT !.id = i, !.owner = a],
                 {Put(1, i, [files[i] EXCEPT !.owner = a])})
  BY DEF ClaimTask
<1>2. files[i] \in Task /\ i \in DOMAIN files
  BY <1>1, ListedOK DEF Claimable, Unresolved
<1>3. [files[i] EXCEPT !.owner = a] \in Task
  BY <1>2 DEF Task
<1>4. \A w \in {Put(1, i, [files[i] EXCEPT !.owner = a])} :
        \E s \in 1 .. 3, k \in DOMAIN files, t \in Task : w = Put(s, k, t)
  BY <1>2, <1>3
<1>5. [NoRequest EXCEPT !.id = i, !.owner = a] \in Request
  <2>1. i \in 0 .. MaxId
    BY MaxIdAssumption DEF Id
  <2> QED
    BY <2>1, Basics DEF Request
<1>6. /\ snap' \in [Proc -> Task] /\ calls' \in 0 .. MaxCalls /\ crashes' \in 0 .. MaxCrashes
      /\ DiskUnchanged /\ op \in Holding /\ op # "creating"
  BY BeginTypes DEF ClaimTask, Holding
<1> QED
  BY <1>1, <1>4, <1>5, <1>6, PutsGood, EnterOK

LEMMA UnassignIInv == ASSUME IInv, NEW p \in Proc, UnassignTeammateTasks(p) PROVE IInv'
<1> DEFINE W(a) == {Put(1, i, [files[i] EXCEPT !.owner = NoOwner, !.status = "pending"]) :
                      i \in {k \in Unresolved : files[k].owner = a}}
<1>1. PICK a \in Agent : Enter(p, "unassigning", [NoRequest EXCEPT !.owner = a], W(a))
  BY DEF UnassignTeammateTasks
<1>2. \A i \in Unresolved : files[i] \in Task /\ i \in DOMAIN files
  BY ListedOK DEF Unresolved
<1>3. \A i \in Unresolved : [files[i] EXCEPT !.owner = NoOwner, !.status = "pending"] \in Task
  BY <1>2 DEF Task, Status
<1>4. ASSUME NEW w \in W(a)
      PROVE  \E s \in 1 .. 3, k \in DOMAIN files, t \in Task : w = Put(s, k, t)
  <2>1. PICK i \in Unresolved :
          w = Put(1, i, [files[i] EXCEPT !.owner = NoOwner, !.status = "pending"])
    OBVIOUS
  <2> HIDE DEF W
  <2>2. i \in DOMAIN files /\ 1 \in 1 .. 3
    BY <1>2
  <2> DEFINE t == [files[i] EXCEPT !.owner = NoOwner, !.status = "pending"]
  <2>3. t \in Task /\ w = Put(1, i, t)
    BY <1>3, <2>1
  <2> HIDE DEF t
  <2> QED
    BY <2>2, <2>3
<1>5. [NoRequest EXCEPT !.owner = a] \in Request
  BY Basics DEF Request
<1> HIDE DEF W
<1>6. /\ snap' \in [Proc -> Task] /\ calls' \in 0 .. MaxCalls /\ crashes' \in 0 .. MaxCrashes
      /\ DiskUnchanged /\ "unassigning" \in Holding
  BY BeginTypes DEF UnassignTeammateTasks, Holding
<1> QED
  BY <1>1, <1>4, <1>5, <1>6, PutsGood, EnterOK

LEMMA ResetTaskListIInv == ASSUME IInv, NEW p \in Proc, ResetTaskList(p) PROVE IInv'
<1>1. PICK h \in DOMAIN files :
        /\ \A j \in DOMAIN files : j <= h
        /\ Enter(p, "resetting", NoRequest, RaiseMark(h) \cup {Del(j) : j \in DOMAIN files})
  BY DEF ResetTaskList
<1> DEFINE W == RaiseMark(h) \cup {Del(j) : j \in DOMAIN files}
<1> HIDE DEF W
<1>2. /\ h \in Id /\ h \in Int /\ mark \in Int
      /\ \A j \in DOMAIN files : j \in Id /\ j \in Int
  <2>1. \A j \in DOMAIN files : j \in Id
    BY DEF IInv, DiskTypes
  <2>2. mark \in Int
    BY MaxIdAssumption DEF IInv, DiskTypes
  <2>3. \A j \in Id : j \in Int
    BY MaxIdAssumption DEF Id
  <2> QED
    BY <1>1, <2>1, <2>2, <2>3
<1>3. \A w \in W : \/ w = Mark(h) /\ h > mark
                   \/ \E j \in DOMAIN files : w = Del(j)
  BY DEF RaiseMark, W
<1>4. h > mark => Mark(h) \in W
  BY DEF RaiseMark, W
<1>5. W \subseteq FileWrite
  BY <1>2, <1>3, Basics
<1>6. ASSUME NEW w \in W PROVE MarkGood(w, W) /\ PutGood(w, W)
  BY <1>2, <1>3, <1>6 DEF MarkGood, PutGood, Mark, Del
<1>7. ASSUME NEW w \in W PROVE DelGood(w, W)
  BY <1>1, <1>2, <1>3, <1>4, <1>7 DEF DelGood, Mark, Del
<1>8. /\ snap' \in [Proc -> Task] /\ calls' \in 0 .. MaxCalls /\ crashes' \in 0 .. MaxCrashes
      /\ DiskUnchanged /\ "resetting" \in Holding
  BY BeginTypes DEF ResetTaskList, Holding
<1>9. Good(W) /\ Enter(p, "resetting", NoRequest, W)
  BY <1>1, <1>6, <1>7 DEF Good, W
<1> QED
  BY <1>5, <1>8, <1>9, Basics, EnterOK

\* Every step keeps the invariant, and no file appears under a used id.
LEMMA NextStep == IInv /\ [Next]_vars => IInv' /\ Fresh
<1>1. ASSUME IInv, NEW p \in Proc, DiskUnchanged PROVE Fresh
  BY <1>1 DEF Fresh, DiskUnchanged
<1>2. ASSUME IInv, UNCHANGED vars PROVE IInv' /\ Fresh
  BY <1>2 DEF vars, IInv, DiskTypes, CallTypes, Marked, Known, Checked, Good, MarkGood,
              PutGood, DelGood, Fresh
<1>3. ASSUME IInv, NEW p \in Proc, Write(p) \/ Crash(p) PROVE IInv' /\ Fresh
  BY <1>3, WriteStep, CrashStep
<1>4. ASSUME IInv, NEW p \in Proc,
             \/ Create(p) \/ HooksAccept(p) \/ HooksRefuse(p)
             \/ Get(p) \/ DeleteTask(p) \/ CheckTargets(p) \/ HooksBlock(p)
             \/ UpdateWithDependencies(p)
             \/ Update(p) \/ BlockTask(p) \/ ClaimTask(p)
             \/ ResetTaskList(p) \/ UnassignTeammateTasks(p)
      PROVE  IInv' /\ Fresh
  <2>1. IInv'
    BY <1>4, CreateIInv, HooksIInv, GetIInv, CheckTargetsIInv, UpdateIInv, BlockTaskIInv,
       ClaimTaskIInv, ResetTaskListIInv, UnassignIInv
  <2>2. DiskUnchanged
    BY <1>4 DEF Create, HooksAccept, HooksRefuse, Get, DeleteTask, CheckTargets, HooksBlock,
                UpdateWithDependencies, Update, BlockTask, ClaimTask, ResetTaskList,
                UnassignTeammateTasks
  <2> QED
    BY <1>1, <1>4, <2>1, <2>2
<1> QED
  BY <1>2, <1>3, <1>4 DEF Next

LEMMA SpecIInv == Spec => []IInv
BY InitIInv, NextStep, PTL DEF Spec

-----------------------------------------------------------------------------

\* The type invariant, and with it that one call at a time is inside the store.
THEOREM TypesHold == Spec => []TypeOK
<1>1. IInv => TypeOK
  BY Types DEF IInv
<1> QED
  BY <1>1, SpecIInv, PTL

\* No identifier is used twice, whatever calls delete and reset and wherever a
\* process is killed: for any processes, requests and number of tasks.
THEOREM IdsNotReusedHolds == Spec => IdsNotReused
<1>1. IInv /\ [Next]_vars => [\A i \in DOMAIN files' \ DOMAIN files : i \notin issued]_vars
  BY NextStep DEF Fresh
<1> QED
  BY <1>1, SpecIInv, PTL DEF Spec, IdsNotReused

-----------------------------------------------------------------------------
(* Owners: what the writes of the holder say about who owns a task. *)

Unassigned(t) == [t EXCEPT !.owner = NoOwner, !.status = "pending"]

\* The writes of an update: only the task itself may change hands, and unless
\* it is linked to itself there is one write for it.
UpdateOwners(r, W) ==
    LET linked == r.id \in r.addBlocks \cup r.addBlockedBy IN
    /\ \A w \in W : w.kind = "put" /\ w.id \in DOMAIN files
    /\ \A w \in W : w.id # r.id => w.task.owner = files[w.id].owner
    /\ ~linked => \A w \in W : w.id = r.id => w.task.owner \in {files[r.id].owner, r.owner}
    /\ ~linked => \A v, w \in W : v.id = r.id /\ w.id = r.id => v = w

\* The writes W that the operation op with input r has left.
OwnersOf(op, r, W) ==
    /\ op = "creating" => \A w \in W : w.id \notin DOMAIN files /\ w.task = NewTask
    /\ op \in {"deleting", "linking"} =>
          \A w \in W : w.kind = "put" => /\ w.id \in DOMAIN files
                                         /\ w.task.owner = files[w.id].owner
                                         /\ w.task.status = files[w.id].status
    /\ op = "unassigning" =>
          \A w \in W : /\ w.id \in DOMAIN files /\ files[w.id].owner = r.owner
                       /\ w = Put(1, w.id, Unassigned(files[w.id]))
    /\ op \in {"claiming", "claimingIdle"} =>
          /\ W = {Put(1, r.id, [files[r.id] EXCEPT !.owner = r.owner])}
          /\ Claimable(r.id, r.owner) /\ r.owner \in Agent
          /\ op = "claimingIdle" => Idle(r.id, r.owner)
    /\ op = "updating" => UpdateOwners(r, W)
    /\ op = "resetting" => \A w \in W : w.kind # "put"

Owners == \A p \in lock : OwnersOf(pc[p], req[p], plan)

\* withLock around such writes.
LEMMA EnterOwners ==
    ASSUME IInv, NEW p \in Proc, NEW op, NEW r, NEW W, Enter(p, op, r, W), DiskUnchanged,
           W # {} => OwnersOf(op, r, W)
    PROVE  Owners'
<1>1. CASE W = {}
  BY <1>1 DEF Enter, Owners
<1>2. CASE W # {}
  <2>1. lock' = {p} /\ plan' = W /\ pc'[p] = op /\ req'[p] = r /\ files' = files
    BY <1>2 DEF Enter, DiskUnchanged, IInv, CallTypes
  <2>2. OwnersOf(op, r, W)'
    BY <1>2, <2>1 DEF OwnersOf, UpdateOwners, Claimable, Idle, Unresolved, Listed
  <2> QED
    BY <2>1, <2>2 DEF Owners
<1> QED
  BY <1>1, <1>2

\* A step outside the lock.
LEMMA OutsideOwners ==
    ASSUME IInv, NEW p \in Proc, pc[p] \notin Holding, DiskUnchanged, UNCHANGED <<lock, plan>>,
           \A q \in Proc \ {p} : pc'[q] = pc[q] /\ req'[q] = req[q], Owners
    PROVE  Owners'
<1> SUFFICES ASSUME NEW q \in lock PROVE OwnersOf(pc[q], req[q], plan)'
  BY DEF Owners
<1>1. q \in Proc /\ q # p
  BY DEF IInv, CallTypes
<1>2. OwnersOf(pc[q], req[q], plan)
  BY DEF Owners
<1>3. pc'[q] = pc[q] /\ req'[q] = req[q] /\ plan' = plan /\ files' = files
  BY <1>1 DEF DiskUnchanged
<1> QED
  BY <1>2, <1>3 DEF OwnersOf, UpdateOwners, Claimable, Idle, Unresolved, Listed


\* The writes of each operation.
LEMMA UpdateOwnersOK ==
    ASSUME IInv, NEW r \in Request, NEW s \in Task,
           \A j \in {r.id} \cup r.addBlocks \cup r.addBlockedBy : Readable(j)
    PROVE  OwnersOf("updating", r, UpdateWrites(r, s))
<1> DEFINE W == UpdateWrites(r, s)
           own == Put(1, r.id, ApplyUpdates(files[r.id], r, s))
<1>1. own.kind = "put" /\ own.id = r.id /\ own.task.owner \in {files[r.id].owner, r.owner}
  BY DEF Put, ApplyUpdates
<1>2. \A j \in {r.id} \cup r.addBlocks \cup r.addBlockedBy : files[j] \in Task /\ j \in DOMAIN files
  BY ListedOK
<1>3. ASSUME NEW w \in W, w # own
      PROVE  /\ w.kind = "put" /\ w.id \in r.addBlocks \cup r.addBlockedBy
             /\ w.task.owner = files[w.id].owner
  <2>1. CASE \E j \in r.addBlocks :
               w = Put(2, j, [files[j] EXCEPT !.blockedBy = files[j].blockedBy \cup {r.id}])
    BY <1>2, <2>1 DEF Put, Task
  <2>2. CASE \E j \in r.addBlockedBy :
               w = Put(3, j, [files[j] EXCEPT !.blocks = files[j].blocks \cup {r.id}])
    BY <1>2, <2>2 DEF Put, Task
  <2> QED
    BY <1>3, <2>1, <2>2 DEF UpdateWrites
<1> HIDE DEF W, own
<1>4. \A w \in W : w = own \/ w # own
  OBVIOUS
<1>5. UpdateOwners(r, W)
  BY <1>1, <1>2, <1>3 DEF UpdateOwners
<1> QED
  BY <1>5 DEF OwnersOf, W

LEMMA DeleteOwnersOK ==
    ASSUME IInv, NEW r, r.id \in issued PROVE OwnersOf("deleting", r, DeleteWrites(r.id))
<1> SUFFICES ASSUME NEW w \in DeleteWrites(r.id), w.kind = "put"
             PROVE  /\ w.id \in DOMAIN files /\ w.task.owner = files[w.id].owner
                    /\ w.task.status = files[w.id].status
  BY DEF OwnersOf
<1>1. PICK j \in Listed :
         w = Put(2, j, [files[j] EXCEPT !.blocks = files[j].blocks \ {r.id},
                                        !.blockedBy = files[j].blockedBy \ {r.id}])
  <2>1. w \notin RaiseMark(r.id) /\ w # Del(r.id)
    BY DEF RaiseMark, Mark, Del
  <2> QED
    BY <2>1 DEF DeleteWrites
<1>2. files[j] \in Task /\ j \in DOMAIN files
  BY ListedOK
<1> QED
  BY <1>1, <1>2 DEF Put, Task

LEMMA CreateOwners == ASSUME IInv, NEW p \in Proc, Create(p) PROVE Owners'
<1>1. PICK i \in Id :
        NextId(i) /\ Enter(p, "creating", [NoRequest EXCEPT !.id = i], {Put(1, i, NewTask)})
  BY DEF Create
<1>2. i \notin DOMAIN files
  BY <1>1, NextIdFresh DEF IInv, Marked
<1>3. OwnersOf("creating", [NoRequest EXCEPT !.id = i], {Put(1, i, NewTask)})
  BY <1>2 DEF OwnersOf, Put
<1> QED
  BY <1>1, <1>3, EnterOwners DEF Create

LEMMA DeleteOwners ==
    ASSUME IInv, NEW p \in Proc, HooksRefuse(p) \/ DeleteTask(p) PROVE Owners'
<1>1. req[p].id \in issued /\ DiskUnchanged
      /\ Enter(p, "deleting", req[p], DeleteWrites(req[p].id))
  BY DEF HooksRefuse, DeleteTask, IInv, Known
<1> QED
  BY <1>1, DeleteOwnersOK, EnterOwners

LEMMA UpdateOwnersStep ==
    ASSUME IInv, NEW p \in Proc, UpdateWithDependencies(p) \/ Update(p) PROVE Owners'
<1>1. CASE UpdateWithDependencies(p)
  <2> DEFINE r == req[p]
             all == \A j \in {r.id} \cup r.addBlocks \cup r.addBlockedBy : Readable(j)
             W == IF all THEN UpdateWrites(r, snap[p]) ELSE {}
  <2>1. r \in Request /\ snap[p] \in Task /\ Enter(p, "updating", r, W) /\ DiskUnchanged
    BY <1>1 DEF UpdateWithDependencies, IInv, CallTypes
  <2>2. W # {} => OwnersOf("updating", r, W)
    BY <2>1, UpdateOwnersOK
  <2> HIDE DEF r, W
  <2> QED
    BY <2>1, <2>2, EnterOwners
<1>2. CASE Update(p)
  <2>1. PICK r \in Requests :
          /\ r.addBlocks = {} /\ r.addBlockedBy = {} /\ Readable(r.id)
          /\ Enter(p, "updating", r, UpdateWrites(r, files[r.id]))
    BY <1>2 DEF Update
  <2>2. r \in Request /\ files[r.id] \in Task
    BY <2>1, RequestsAssumption, ListedOK
  <2>3. OwnersOf("updating", r, UpdateWrites(r, files[r.id]))
    BY <2>1, <2>2, UpdateOwnersOK
  <2> QED
    BY <1>2, <2>1, <2>3, EnterOwners DEF Update
<1> QED
  BY <1>1, <1>2

LEMMA BlockOwners == ASSUME IInv, NEW p \in Proc, BlockTask(p) PROVE Owners'
<1> DEFINE to(i, j) == IF j \in files[i].blocks THEN {}
                       ELSE {Put(1, i, [files[i] EXCEPT !.blocks = files[i].blocks \cup {j}])}
           from(i, j) == IF i \in files[j].blockedBy THEN {}
                         ELSE {Put(2, j, [files[j] EXCEPT !.blockedBy = files[j].blockedBy \cup {i}])}
<1>1. PICK i \in Listed, j \in Listed :
        Enter(p, "linking", [NoRequest EXCEPT !.id = i, !.addBlocks = {j}], to(i, j) \cup from(i, j))
  BY DEF BlockTask
<1>2. /\ files[i] \in Task /\ files[j] \in Task
      /\ i \in DOMAIN files /\ j \in DOMAIN files
  BY ListedOK
<1>3. \A w \in to(i, j) \cup from(i, j) :
        /\ w.id \in DOMAIN files /\ w.task.owner = files[w.id].owner
        /\ w.task.status = files[w.id].status
  BY <1>2 DEF Put, Task
<1> HIDE DEF to, from
<1>4. OwnersOf("linking", [NoRequest EXCEPT !.id = i, !.addBlocks = {j}], to(i, j) \cup from(i, j))
  BY <1>3 DEF OwnersOf
<1> QED
  BY <1>1, <1>4, EnterOwners DEF BlockTask

LEMMA ClaimOwners == ASSUME IInv, NEW p \in Proc, ClaimTask(p) PROVE Owners'
<1>1. PICK i \in Id, a \in Agent, op \in {"claiming", "claimingIdle"} :
        /\ Claimable(i, a)
        /\ op = "claimingIdle" => Idle(i, a)
        /\ Enter(p, op, [NoRequest EXCEPT !.id = i, !.owner = a],
                 {Put(1, i, [files[i] EXCEPT !.owner = a])})
  BY DEF ClaimTask
<1> DEFINE r == [NoRequest EXCEPT !.id = i, !.owner = a]
<1>2. r.id = i /\ r.owner = a
  BY DEF NoRequest
<1> HIDE DEF r
<1>3. OwnersOf(op, r, {Put(1, i, [files[i] EXCEPT !.owner = a])})
  BY <1>1, <1>2 DEF OwnersOf
<1> QED
  BY <1>1, <1>3, EnterOwners DEF ClaimTask, r

LEMMA UnassignOwners == ASSUME IInv, NEW p \in Proc, UnassignTeammateTasks(p) PROVE Owners'
<1> DEFINE W(a) == {Put(1, i, [files[i] EXCEPT !.owner = NoOwner, !.status = "pending"]) :
                      i \in {k \in Unresolved : files[k].owner = a}}
<1>1. PICK a \in Agent : Enter(p, "unassigning", [NoRequest EXCEPT !.owner = a], W(a))
  BY DEF UnassignTeammateTasks
<1>2. ASSUME NEW w \in W(a)
      PROVE  /\ w.id \in DOMAIN files /\ files[w.id].owner = a
             /\ w = Put(1, w.id, Unassigned(files[w.id]))
  <2>1. PICK i \in Unresolved :
          /\ files[i].owner = a
          /\ w = Put(1, i, [files[i] EXCEPT !.owner = NoOwner, !.status = "pending"])
    BY <1>2
  <2>2. i \in DOMAIN files
    BY DEF Unresolved, Listed
  <2>3. w = Put(1, i, Unassigned(files[i]))
    BY <2>1 DEF Unassigned
  <2>4. w.id = i
    BY <2>3 DEF Put
  <2> QED
    BY <2>1, <2>2, <2>3, <2>4
<1> HIDE DEF W
<1>3. [NoRequest EXCEPT !.owner = a].owner = a
  BY DEF NoRequest
<1>4. OwnersOf("unassigning", [NoRequest EXCEPT !.owner = a], W(a))
  BY <1>2, <1>3 DEF OwnersOf
<1> QED
  BY <1>1, <1>4, EnterOwners DEF UnassignTeammateTasks

LEMMA ResetOwners == ASSUME IInv, NEW p \in Proc, ResetTaskList(p) PROVE Owners'
<1>1. PICK h \in DOMAIN files :
        Enter(p, "resetting", NoRequest, RaiseMark(h) \cup {Del(j) : j \in DOMAIN files})
  BY DEF ResetTaskList
<1>2. OwnersOf("resetting", NoRequest, RaiseMark(h) \cup {Del(j) : j \in DOMAIN files})
  BY DEF OwnersOf, RaiseMark, Mark, Del
<1> QED
  BY <1>1, <1>2, EnterOwners DEF ResetTaskList


\* A write leaves the others of the operation as they were.
LEMMA LeftOwners ==
    ASSUME IInv, NEW p \in lock, OwnersOf(pc[p], req[p], plan), NEW w, First(w),
           plan' = plan \ {w}, plan' # {}, UNCHANGED <<pc, req>>,
           \/ w.kind = "mark" /\ Disk(files, w.id)
           \/ w.kind = "put" /\ Disk(WithFile(w.id, w.task), mark)
           \/ w.kind = "del" /\ Disk([j \in DOMAIN files \ {w.id} |-> files[j]], mark)
    PROVE  OwnersOf(pc[p], req[p], plan)'
<1>1. w \in plan /\ pc'[p] = pc[p] /\ req'[p] = req[p] /\ p \in Proc
  BY DEF First, IInv, CallTypes
<1>2. \A v \in plan' : v \in plan /\ v # w
  OBVIOUS
\* What becomes of the file that a write left over is for.
<1>3. ASSUME NEW v \in plan', v.id \in DOMAIN files, v.kind = "put"
      PROVE  /\ v.id \in DOMAIN files'
             /\ \/ files'[v.id] = files[v.id]
                \/ w.kind = "put" /\ w.id = v.id /\ files'[v.id] = w.task
  <2>1. CASE w.kind = "mark"
    BY <1>3, <2>1 DEF Disk
  <2>2. CASE w.kind = "put"
    BY <1>3, <2>2 DEF Disk, WithFile
  <2>3. CASE w.kind = "del"
    <3>1. w.id # v.id
      BY <1>1, <1>2, <1>3, <2>3 DEF IInv, Good, PutGood
    <3> QED
      BY <1>3, <2>3, <3>1 DEF Disk
  <2> QED
    BY <2>1, <2>2, <2>3
<1>4. pc[p] # "creating"
  <2> SUFFICES ASSUME pc[p] = "creating" PROVE FALSE
    OBVIOUS
  <2>1. plan = {Put(1, req[p].id, NewTask)}
    BY <1>1 DEF IInv, Known
  <2> QED
    BY <1>1, <2>1
<1>5. pc[p] \notin {"claiming", "claimingIdle"}
  BY <1>1 DEF OwnersOf
<1>6. CASE pc[p] \in {"deleting", "linking"}
  BY <1>1, <1>2, <1>3, <1>6 DEF OwnersOf
<1>7. CASE pc[p] = "unassigning"
  <2> SUFFICES ASSUME NEW v \in plan'
               PROVE  /\ v.id \in DOMAIN files' /\ files'[v.id].owner = req[p].owner
                      /\ v = Put(1, v.id, Unassigned(files'[v.id]))
    BY <1>1, <1>7 DEF OwnersOf
  <2>1. /\ v.id \in DOMAIN files /\ files[v.id].owner = req[p].owner
        /\ v = Put(1, v.id, Unassigned(files[v.id]))
        /\ w = Put(1, w.id, Unassigned(files[w.id]))
    BY <1>1, <1>2, <1>7 DEF OwnersOf
  <2>2. v.kind = "put" /\ v.id # w.id
    BY <1>2, <2>1 DEF Put
  <2>3. v.id \in DOMAIN files' /\ files'[v.id] = files[v.id]
    BY <1>3, <2>1, <2>2
  <2> QED
    BY <2>1, <2>3
<1>8. CASE pc[p] = "updating"
  <2>1. UpdateOwners(req[p], plan)
    BY <1>8 DEF OwnersOf
  <2>2. \A v \in plan' : v.kind = "put" /\ v.id \in DOMAIN files /\ v.id \in DOMAIN files'
    BY <1>2, <1>3, <2>1 DEF UpdateOwners
  <2>3. ASSUME NEW v \in plan', v.id # req[p].id PROVE v.task.owner = files'[v.id].owner
    BY <1>1, <1>2, <1>3, <2>1, <2>2, <2>3 DEF UpdateOwners
  <2>4. ASSUME NEW v \in plan', v.id = req[p].id,
               req[p].id \notin req[p].addBlocks \cup req[p].addBlockedBy
        PROVE  v.task.owner \in {files'[v.id].owner, req[p].owner}
    BY <1>1, <1>2, <1>3, <2>1, <2>2, <2>4 DEF UpdateOwners
  <2>5. UpdateOwners(req[p], plan)'
    <3>1. req[p].id \notin req[p].addBlocks \cup req[p].addBlockedBy =>
             \A u, v \in plan' : u.id = req[p].id /\ v.id = req[p].id => u = v
      BY <1>2, <2>1 DEF UpdateOwners
    <3> QED
      BY <1>1, <2>2, <2>3, <2>4, <3>1 DEF UpdateOwners
  <2> QED
    BY <1>1, <1>8, <2>5 DEF OwnersOf
<1>9. CASE pc[p] = "resetting"
  BY <1>1, <1>2, <1>9 DEF OwnersOf
<1>10. pc[p] \in Holding
  BY <1>1 DEF IInv, CallTypes
<1> QED
  BY <1>4, <1>5, <1>6, <1>7, <1>8, <1>9, <1>10 DEF Holding


LEMMA WriteOwners ==
    ASSUME IInv, Owners, NEW p \in Proc, Write(p) PROVE Owners'
<1>1. PICK w \in plan :
        /\ \A v \in plan : w.stage <= v.stage
        /\ \/ w.kind = "mark" /\ Disk(files, w.id)
           \/ w.kind = "put" /\ Disk(WithFile(w.id, w.task), mark)
           \/ w.kind = "del" /\ Disk([j \in DOMAIN files \ {w.id} |-> files[j]], mark)
        /\ plan' = plan \ {w}
  BY DEF Write
<1>2. p \in lock /\ lock = {p}
  BY DEF Write, IInv, CallTypes
<1>3. CASE plan' = {}
  BY <1>3 DEF Write, Owners
<1>4. CASE plan' # {}
  <2>1. lock' = lock /\ UNCHANGED <<pc, req>>
    BY <1>4 DEF Write
  <2>2. OwnersOf(pc[p], req[p], plan)'
    BY <1>1, <1>2, <1>4, <2>1, LeftOwners DEF Owners, First
  <2> QED
    BY <1>2, <2>1, <2>2 DEF Owners
<1> QED
  BY <1>3, <1>4

LEMMA CrashOwners ==
    ASSUME IInv, Owners, NEW p \in Proc, Crash(p) PROVE Owners'
<1>1. CASE p \in lock
  BY <1>1 DEF Crash, IInv, CallTypes, Owners
<1>2. CASE p \notin lock
  BY <1>2, OutsideOwners DEF Crash, Return, IInv, CallTypes
<1> QED
  BY <1>1, <1>2

LEMMA QuietOwners ==
    ASSUME IInv, Owners, NEW p \in Proc,
           HooksAccept(p) \/ Get(p) \/ CheckTargets(p) \/ HooksBlock(p)
    PROVE  Owners'
<1>1. pc[p] \notin Holding /\ DiskUnchanged /\ UNCHANGED <<lock, plan>>
  BY DEF HooksAccept, Get, CheckTargets, HooksBlock, Begin, Holding
<1>2. \A q \in Proc \ {p} : pc'[q] = pc[q] /\ req'[q] = req[q]
  BY DEF HooksAccept, Get, CheckTargets, HooksBlock, Return, IInv, CallTypes
<1> QED
  BY <1>1, <1>2, OutsideOwners

Owned == IInv /\ Owners

LEMMA OwnedStep == Owned /\ [Next]_vars => Owned'
<1> SUFFICES ASSUME IInv, Owners, [Next]_vars PROVE Owners'
  BY NextStep DEF Owned
<1>1. CASE UNCHANGED vars
  BY <1>1 DEF vars, Owners, OwnersOf, UpdateOwners, Claimable, Idle, Unresolved, Listed
<1>2. ASSUME NEW p \in Proc,
             \/ Write(p) \/ Crash(p)
             \/ Create(p) \/ HooksAccept(p) \/ HooksRefuse(p)
             \/ Get(p) \/ DeleteTask(p) \/ CheckTargets(p) \/ HooksBlock(p)
             \/ UpdateWithDependencies(p)
             \/ Update(p) \/ BlockTask(p) \/ ClaimTask(p)
             \/ ResetTaskList(p) \/ UnassignTeammateTasks(p)
      PROVE  Owners'
  BY <1>2, WriteOwners, CrashOwners, CreateOwners, QuietOwners, DeleteOwners, UpdateOwnersStep,
     BlockOwners, ClaimOwners, ResetOwners, UnassignOwners
<1> QED
  BY <1>1, <1>2 DEF Next

LEMMA SpecOwned == Spec => []Owned
<1>1. Init => Owned
  BY InitIInv DEF Init, Owned, Owners
<1> QED
  BY <1>1, OwnedStep, PTL DEF Spec

\* The file that a write or a crash changes.
LEMMA OneFile ==
    ASSUME Owned, [Next]_vars, NEW i \in DOMAIN files', i \in DOMAIN files => files'[i] # files[i]
    PROVE  \/ files'[i] = Torn
           \/ \E p \in lock, w \in plan : /\ w.kind = "put" /\ w.id = i /\ files'[i] = w.task
                                          /\ OwnersOf(pc[p], req[p], plan)
<1>1. files' # files
  OBVIOUS
<1>2. PICK p \in Proc : Write(p) \/ Crash(p)
  BY <1>1 DEF Next, vars, DiskUnchanged, Create, HooksAccept, HooksRefuse, Get, DeleteTask,
              CheckTargets, HooksBlock, UpdateWithDependencies, Update, BlockTask, ClaimTask,
              ResetTaskList, UnassignTeammateTasks
<1>3. CASE Write(p)
  <2>1. PICK w \in plan :
          \/ w.kind = "mark" /\ Disk(files, w.id)
          \/ w.kind = "put" /\ Disk(WithFile(w.id, w.task), mark)
          \/ w.kind = "del" /\ Disk([j \in DOMAIN files \ {w.id} |-> files[j]], mark)
    BY <1>3 DEF Write
  <2>2. p \in lock
    BY <1>3 DEF Write
  <2>3. w.kind = "put" /\ w.id = i /\ files'[i] = w.task
    BY <2>1 DEF Disk, WithFile
  <2> QED
    BY <2>2, <2>3 DEF Owned, Owners
<1>4. CASE Crash(p)
  <2>1. PICK w \in plan : \/ w.kind = "mark" /\ Disk(files, 0)
                          \/ w.kind = "put" /\ Disk(WithFile(w.id, Torn), mark)
    BY <1>1, <1>4 DEF Crash, DiskUnchanged
  <2> QED
    BY <2>1 DEF Disk, WithFile
<1> QED
  BY <1>2, <1>3, <1>4

\* The body of OwnerChanges.
ChangesHands ==
    \A i \in DOMAIN files \cap DOMAIN files' :
        LET old == files[i].owner  new == files'[i].owner IN
        old # new /\ files'[i].status # "torn" =>
            \E p \in lock :
                \/ /\ pc[p] = "updating" /\ req[p].id = i
                   /\ new = req[p].owner \/ i \in req[p].addBlocks \cup req[p].addBlockedBy
                \/ pc[p] = "unassigning" /\ old = req[p].owner /\ new = NoOwner
                \/ /\ pc[p] \in {"claiming", "claimingIdle"} /\ old = NoOwner
                   /\ files[i].status # "completed"
                   /\ \A j \in files[i].blockedBy \cap DOMAIN files :
                        files[j].status \in {"completed", "torn"}

LEMMA ChangesHandsStep == Owned /\ [Next]_vars => ChangesHands
<1> SUFFICES ASSUME Owned, [Next]_vars, NEW i \in DOMAIN files, i \in DOMAIN files',
                    files[i].owner # files'[i].owner, files'[i].status # "torn"
             PROVE  \E p \in lock :
                \/ /\ pc[p] = "updating" /\ req[p].id = i
                   /\ \/ files'[i].owner = req[p].owner
                      \/ i \in req[p].addBlocks \cup req[p].addBlockedBy
                \/ pc[p] = "unassigning" /\ files[i].owner = req[p].owner /\ files'[i].owner = NoOwner
                \/ /\ pc[p] \in {"claiming", "claimingIdle"} /\ files[i].owner = NoOwner
                   /\ files[i].status # "completed"
                   /\ \A j \in files[i].blockedBy \cap DOMAIN files :
                        files[j].status \in {"completed", "torn"}
  BY DEF ChangesHands
<1>1. files'[i] # Torn
  BY DEF Torn
<1>2. PICK p \in lock, w \in plan :
         /\ w.kind = "put" /\ w.id = i /\ files'[i] = w.task /\ OwnersOf(pc[p], req[p], plan)
  BY <1>1, OneFile
<1>3. pc[p] \in Holding
  BY DEF Owned, IInv, CallTypes
<1>4. pc[p] \notin {"creating", "deleting", "linking", "resetting"}
  BY <1>2 DEF OwnersOf
<1>5. CASE pc[p] = "updating"
  BY <1>2, <1>5 DEF OwnersOf, UpdateOwners
<1>6. CASE pc[p] = "unassigning"
  <2>1. files[i].owner = req[p].owner /\ w = Put(1, i, Unassigned(files[i]))
    BY <1>2, <1>6 DEF OwnersOf
  <2>2. w.task = Unassigned(files[i])
    BY <2>1 DEF Put
  <2>3. files[i] \in Task \cup {Torn}
    BY DEF Owned, IInv, DiskTypes
  <2>4. w.task.owner = NoOwner
    BY <2>2, <2>3 DEF Unassigned, Task, Torn
  <2> QED
    BY <1>2, <1>6, <2>1, <2>4
<1>7. CASE pc[p] \in {"claiming", "claimingIdle"}
  <2>1. /\ w = Put(1, req[p].id, [files[req[p].id] EXCEPT !.owner = req[p].owner])
        /\ Claimable(req[p].id, req[p].owner)
    BY <1>2, <1>7 DEF OwnersOf
  <2>2. req[p].id = i /\ w.task = [files[i] EXCEPT !.owner = req[p].owner]
    BY <1>2, <2>1 DEF Put
  <2>3. files[i] \in Task
    BY <2>1, <2>2, ListedOK DEF Claimable, Unresolved, Owned
  <2>4. files'[i].owner = req[p].owner
    BY <1>2, <2>2, <2>3 DEF Task
  <2>5. files[i].owner = NoOwner /\ files[i].status # "completed"
    BY <2>1, <2>2, <2>4 DEF Claimable, Unresolved
  <2>6. ASSUME NEW j \in files[i].blockedBy, j \in DOMAIN files
        PROVE  files[j].status \in {"completed", "torn"}
    BY <2>1, <2>2, <2>6 DEF Claimable, Unresolved, Listed, Torn
  <2> QED
    BY <1>7, <2>5, <2>6
<1> QED
  BY <1>3, <1>4, <1>5, <1>6, <1>7 DEF Holding

\* A task changes hands only for a reason, for any calls, agents, requests and
\* crashes: an update that names the new owner, an unassignment, or a claim of
\* a task that nobody owns and no unresolved task blocks.
THEOREM OwnerChangesHolds == Spec => OwnerChanges
<1>1. Owned /\ [Next]_vars => [ChangesHands]_vars
  BY ChangesHandsStep
<1> QED
  BY <1>1, SpecOwned, PTL DEF Spec, OwnerChanges, ChangesHands

\* The body of BusyCheckHolds.
BusyCheck ==
    \A a \in Agent :
        Cardinality(WorkOf(files', a)) > 1 /\ ~(WorkOf(files', a) \subseteq WorkOf(files, a))
            => \E p \in lock : pc[p] \in {"claiming", "updating"}

LEMMA BusyCheckStep == Owned /\ [Next]_vars => BusyCheck
<1> SUFFICES ASSUME Owned, [Next]_vars, NEW a \in Agent,
                    \A p \in lock : pc[p] \notin {"claiming", "updating"},
                    NEW i \in WorkOf(files', a), i \notin WorkOf(files, a)
             PROVE  ~(Cardinality(WorkOf(files', a)) > 1)
  BY DEF BusyCheck
<1>1. /\ i \in DOMAIN files' /\ files'[i].owner = a
      /\ files'[i].status \in {"pending", "in_progress"} /\ files'[i] # Torn
  BY DEF WorkOf, Torn
<1>2. i \in DOMAIN files => files'[i] # files[i]
  BY <1>1 DEF WorkOf
<1>3. PICK p \in lock, w \in plan :
         /\ w.kind = "put" /\ w.id = i /\ files'[i] = w.task /\ OwnersOf(pc[p], req[p], plan)
  BY <1>1, <1>2, OneFile
<1>4. a # NoOwner
  BY OwnerAssumption
<1>5. pc[p] \in Holding /\ pc[p] \notin {"claiming", "updating"}
  BY DEF Owned, IInv, CallTypes
<1>6. pc[p] \notin {"creating", "resetting"}
  BY <1>1, <1>3, <1>4 DEF OwnersOf, NewTask
<1>7. pc[p] \notin {"deleting", "linking"}
  BY <1>1, <1>3 DEF OwnersOf, WorkOf
<1>8. pc[p] # "unassigning"
  <2> SUFFICES ASSUME pc[p] = "unassigning" PROVE FALSE
    OBVIOUS
  <2>1. i \in DOMAIN files /\ w = Put(1, i, Unassigned(files[i]))
    BY <1>3 DEF OwnersOf
  <2>2. w.task = Unassigned(files[i]) /\ files[i] \in Task \cup {Torn}
    BY <2>1 DEF Put, Owned, IInv, DiskTypes
  <2>3. w.task.owner = NoOwner
    BY <2>2 DEF Unassigned, Task, Torn
  <2> QED
    BY <1>1, <1>3, <1>4, <2>3
<1>9. pc[p] = "claimingIdle"
  BY <1>5, <1>6, <1>7, <1>8 DEF Holding
<1>10. /\ plan = {w} /\ i = req[p].id /\ Idle(i, req[p].owner)
       /\ w.task = [files[i] EXCEPT !.owner = req[p].owner] /\ Claimable(i, req[p].owner)
  BY <1>3, <1>9 DEF OwnersOf, Put
<1>11. req[p].owner = a
  <2>1. files[i] \in Task
    BY <1>10, ListedOK DEF Claimable, Unresolved, Owned
  <2> QED
    BY <1>1, <1>3, <1>10, <2>1 DEF Task
<1>12. WorkOf(files', a) \subseteq {i}
  <2> SUFFICES ASSUME NEW j \in WorkOf(files', a), j # i PROVE FALSE
    OBVIOUS
  <2>1. j \in DOMAIN files' /\ files'[j] # Torn /\ files'[j].owner = a
        /\ files'[j].status \in {"pending", "in_progress"}
    BY DEF WorkOf, Torn
  <2>2. j \in DOMAIN files /\ files'[j] = files[j]
    <3>1. \A v \in plan : v.id # j
      BY <1>3, <1>10
    <3> QED
      BY <2>1, <3>1, OneFile
  <2>3. j \in Unresolved \ {i}
    BY <2>1, <2>2 DEF Unresolved, Listed
  <2> QED
    BY <1>10, <1>11, <2>1, <2>2, <2>3 DEF Idle
<1>13. WorkOf(files', a) = {i}
  BY <1>12
<1>14. Cardinality({i}) = 1
  BY FS_Singleton
<1> QED
  BY <1>13, <1>14

\* With the busy check, no claim gives an agent a second unresolved task, for
\* any number of agents, calls and crashes.
THEOREM BusyCheckHoldsAlways == Spec => BusyCheckHolds
<1>1. Owned /\ [Next]_vars => [BusyCheck]_vars
  BY BusyCheckStep
<1> QED
  BY <1>1, SpecOwned, PTL DEF Spec, BusyCheckHolds, BusyCheck

-----------------------------------------------------------------------------
(* Dependencies: what the list will be when the writes under way are done. *)

Puts(W, i) == {w \in W : w.kind = "put" /\ w.id = i}
Last(P) == CHOOSE w \in P : \A v \in P : v.stage <= w.stage
LastPut(W, i) == Last(Puts(W, i))
Dels(W) == {w.id : w \in {v \in W : v.kind = "del"}}

LEMMA FinishedShape ==
    ASSUME NEW f, NEW W
    PROVE  /\ DOMAIN Finished(f, W) = (DOMAIN f \cup {i \in Id : Puts(W, i) # {}}) \ Dels(W)
           /\ \A i \in DOMAIN Finished(f, W) :
                Finished(f, W)[i] = IF Puts(W, i) = {} THEN f[i] ELSE LastPut(W, i).task
BY DEF Finished, Puts, LastPut, Last, Dels

\* The write of a file that counts is the one of the highest stage.
LEMMA LastPutIs ==
    ASSUME NEW W \in SUBSET FileWrite, NEW i, NEW w \in Puts(W, i),
           \A v \in Puts(W, i) : v.stage <= w.stage,
           \A v \in Puts(W, i) : v.stage = w.stage => v = w
    PROVE  LastPut(W, i) = w
<1>1. \A v \in Puts(W, i) : v.stage \in Int
  BY DEF Puts, FileWrite
<1>2. LastPut(W, i) \in Puts(W, i) /\ \A v \in Puts(W, i) : v.stage <= LastPut(W, i).stage
  BY DEF LastPut, Last
<1>3. w.stage <= LastPut(W, i).stage /\ LastPut(W, i).stage <= w.stage
  BY <1>2
<1>4. LastPut(W, i).stage = w.stage
  BY <1>1, <1>2, <1>3
<1> QED
  BY <1>2, <1>4

\* A file has one write of each stage.
Staged(W) == \A v, w \in W : v.kind = "put" /\ w.kind = "put" /\ v.id = w.id /\ v.stage = w.stage
                             => v = w

\* There is a last write for a file that is written.
LEMMA LastPutExists ==
    ASSUME NEW W \in SUBSET FileWrite, NEW i, Puts(W, i) # {}, Staged(W)
    PROVE  /\ LastPut(W, i) \in Puts(W, i)
           /\ \A v \in Puts(W, i) : v.stage <= LastPut(W, i).stage
           /\ \A v \in Puts(W, i) : v.stage = LastPut(W, i).stage => v = LastPut(W, i)
<1>1. \A v \in Puts(W, i) : v.stage \in 0 .. 3
  BY DEF Puts, FileWrite
<1>2. \E w \in Puts(W, i) : \A v \in Puts(W, i) : v.stage <= w.stage
  <2>1. CASE \E w \in Puts(W, i) : w.stage = 3
    BY <1>1, <2>1
  <2>2. CASE ~\E w \in Puts(W, i) : w.stage = 3
    <3>1. CASE \E w \in Puts(W, i) : w.stage = 2
      BY <1>1, <2>2, <3>1
    <3>2. CASE ~\E w \in Puts(W, i) : w.stage = 2
      <4>1. CASE \E w \in Puts(W, i) : w.stage = 1
        BY <1>1, <2>2, <3>2, <4>1
      <4>2. CASE ~\E w \in Puts(W, i) : w.stage = 1
        BY <1>1, <2>2, <3>2, <4>2
      <4> QED
        BY <4>1, <4>2
    <3> QED
      BY <3>1, <3>2
  <2> QED
    BY <2>1, <2>2
<1>3. /\ LastPut(W, i) \in Puts(W, i)
      /\ \A v \in Puts(W, i) : v.stage <= LastPut(W, i).stage
  BY <1>2 DEF LastPut, Last
<1>4. \A v \in Puts(W, i) : v \in W /\ v.kind = "put" /\ v.id = i
  BY DEF Puts
<1>5. \A v \in Puts(W, i) : v.stage = LastPut(W, i).stage => v = LastPut(W, i)
  BY <1>3, <1>4 DEF Staged
<1> QED
  BY <1>3, <1>5

\* The write w is the next one of W and turns the files f into g; no file is
\* written and deleted.
FirstOf(W, w) ==
    /\ \A v \in W : w.stage <= v.stage
    /\ \A u, v \in W : u.kind = "put" /\ v.kind = "del" => u.id # v.id
Done(f, w, g) ==
    \/ w.kind = "mark" /\ g = f
    \/ /\ w.kind = "put" /\ DOMAIN g = DOMAIN f \cup {w.id}
       /\ \A j \in DOMAIN g : g[j] = IF j = w.id THEN w.task ELSE f[j]
    \/ /\ w.kind = "del" /\ DOMAIN g = DOMAIN f \ {w.id}
       /\ \A j \in DOMAIN g : g[j] = f[j]

\* The list as it will be does not change when a write is done.
LEMMA StepFinished ==
    ASSUME NEW f, NEW W \in SUBSET FileWrite, Staged(W), NEW w \in W, FirstOf(W, w),
           NEW g, Done(f, w, g)
    PROVE  /\ DOMAIN Finished(g, W \ {w}) = DOMAIN Finished(f, W)
           /\ \A k \in DOMAIN Finished(f, W) : Finished(g, W \ {w})[k] = Finished(f, W)[k]
<1> USE DEF FirstOf, Done
<1> DEFINE V == W \ {w}
           F == Finished(f, W)
           G == Finished(g, V)
<1>1. V \in SUBSET FileWrite /\ Staged(V) /\ w.id \in Id
  BY DEF Staged, FileWrite
<1>2. /\ DOMAIN F = (DOMAIN f \cup {i \in Id : Puts(W, i) # {}}) \ Dels(W)
      /\ \A i \in DOMAIN F : F[i] = IF Puts(W, i) = {} THEN f[i] ELSE LastPut(W, i).task
      /\ DOMAIN G = (DOMAIN g \cup {i \in Id : Puts(V, i) # {}}) \ Dels(V)
      /\ \A i \in DOMAIN G : G[i] = IF Puts(V, i) = {} THEN g[i] ELSE LastPut(V, i).task
  <2> HIDE DEF V
  <2>1. /\ DOMAIN F = (DOMAIN f \cup {i \in Id : Puts(W, i) # {}}) \ Dels(W)
        /\ \A i \in DOMAIN F : F[i] = IF Puts(W, i) = {} THEN f[i] ELSE LastPut(W, i).task
    BY FinishedShape
  <2>2. /\ DOMAIN G = (DOMAIN g \cup {i \in Id : Puts(V, i) # {}}) \ Dels(V)
        /\ \A i \in DOMAIN G : G[i] = IF Puts(V, i) = {} THEN g[i] ELSE LastPut(V, i).task
    BY FinishedShape
  <2> QED
    BY <2>1, <2>2
<1>3. \A i : Puts(V, i) = Puts(W, i) => LastPut(V, i) = LastPut(W, i)
  BY DEF LastPut
<1> HIDE DEF F, G
<1> SUFFICES DOMAIN G = DOMAIN F /\ \A k \in DOMAIN F : G[k] = F[k]
  BY DEF F, G
<1>4. CASE w.kind = "mark"
  <2>1. g = f
    BY <1>4
  <2>2. Dels(V) = Dels(W) /\ \A i : Puts(V, i) = Puts(W, i)
    BY <1>4 DEF Puts, Dels
  <2> HIDE DEF V
  <2> QED
    BY <1>2, <1>3, <2>1, <2>2
<1>5. CASE w.kind = "put"
  <2>1. \A i : i # w.id => Puts(V, i) = Puts(W, i)
    BY DEF Puts
  <2>2. Dels(V) = Dels(W) /\ w.id \notin Dels(W)
    BY <1>5 DEF Dels
  <2>3. w \in Puts(W, w.id) /\ Puts(V, w.id) = Puts(W, w.id) \ {w}
    BY <1>5 DEF Puts
  <2>4. /\ DOMAIN g = DOMAIN f \cup {w.id}
        /\ \A j \in DOMAIN g : g[j] = IF j = w.id THEN w.task ELSE f[j]
    BY <1>5
  <2>5. DOMAIN G = DOMAIN F
    <3>1. \A k \in Id : k # w.id => (Puts(V, k) # {} <=> Puts(W, k) # {})
      BY <2>1
    <3>2. Puts(W, w.id) # {}
      BY <2>3
    <3> HIDE DEF V
    <3>3. \A k : k \in DOMAIN G <=> k \in DOMAIN F
      BY <1>1, <1>2, <2>2, <2>4, <3>1, <3>2
    <3> QED
      BY <1>2, <3>3
  <2>6. ASSUME NEW k \in DOMAIN F, k # w.id PROVE G[k] = F[k]
    BY <1>2, <1>3, <2>1, <2>4, <2>5, <2>6
  <2>7. CASE Puts(V, w.id) = {}
    <3>1. LastPut(W, w.id) = w
      <4>1. \A v \in Puts(W, w.id) : v = w
        BY <2>3, <2>7
      <4>2. w.stage <= w.stage
        BY DEF FileWrite
      <4> QED
        BY <2>3, <4>1, <4>2, LastPutIs
    <3>2. w.id \in DOMAIN F => F[w.id] = w.task /\ G[w.id] = w.task
      BY <1>2, <2>3, <2>4, <2>5, <2>7, <3>1
    <3> QED
      BY <2>5, <2>6, <3>2
  <2>8. CASE Puts(V, w.id) # {}
    <3> DEFINE x == LastPut(V, w.id)
    <3>1. /\ x \in Puts(V, w.id)
          /\ \A v \in Puts(V, w.id) : v.stage <= x.stage
          /\ \A v \in Puts(V, w.id) : v.stage = x.stage => v = x
      BY <1>1, <2>8, LastPutExists
    <3>2. x \in W /\ x.kind = "put" /\ x.id = w.id /\ x # w /\ x \in Puts(W, w.id)
      BY <3>1 DEF Puts
    <3>3. w.stage <= x.stage /\ w.stage # x.stage
      BY <1>5, <3>2 DEF Staged
    <3> HIDE DEF x
    <3>4. /\ \A v \in Puts(W, w.id) : v.stage <= x.stage
          /\ \A v \in Puts(W, w.id) : v.stage = x.stage => v = x
      BY <2>3, <3>1, <3>3
    <3>5. LastPut(W, w.id) = LastPut(V, w.id)
      BY <3>2, <3>4, LastPutIs DEF x
    <3>6. w.id \in DOMAIN F => F[w.id] = G[w.id]
      BY <1>2, <2>3, <2>5, <2>8, <3>5, ZenonT(60)
    <3> QED
      BY <2>5, <2>6, <3>6
  <2> QED
    BY <2>7, <2>8
<1>6. CASE w.kind = "del"
  <2>1. \A i : Puts(V, i) = Puts(W, i)
    BY <1>6 DEF Puts
  <2>2. Dels(W) = Dels(V) \cup {w.id}
    BY <1>6 DEF Dels
  <2>3. Puts(W, w.id) = {}
    BY <1>6 DEF Puts
  <2>4. DOMAIN g = DOMAIN f \ {w.id} /\ \A j \in DOMAIN g : g[j] = f[j]
    BY <1>6
  <2> HIDE DEF V
  <2>5. \A k : k \in DOMAIN G <=> k \in DOMAIN F
    BY <1>2, <2>1, <2>2, <2>3, <2>4
  <2>6. DOMAIN G = DOMAIN F
    BY <1>2, <2>5
  <2> QED
    BY <1>2, <1>3, <2>1, <2>2, <2>4, <2>6
<1> QED
  BY <1>4, <1>5, <1>6


\* A broken reference of task i to id j.
Gone(f, i, j) ==
    \/ /\ j \in f[i].blocks
       /\ j \in DOMAIN f => f[j] # Torn /\ i \notin f[j].blockedBy
    \/ /\ j \in f[i].blockedBy
       /\ j \in DOMAIN f => f[j] # Torn /\ i \notin f[j].blocks

LEMMA BrokenKept ==
    ASSUME NEW f, NEW g,
           \A i \in DOMAIN g, j \in Id : Gone(g, i, j) => i \in DOMAIN f /\ Gone(f, i, j)
    PROVE  Broken(g) \subseteq Broken(f)
<1> SUFFICES ASSUME NEW e \in Broken(g) PROVE e \in Broken(f)
  OBVIOUS
<1>1. e \in (DOMAIN g) \X Id /\ Gone(g, e[1], e[2])
  BY DEF Broken, Gone
<1>2. e[1] \in DOMAIN g /\ e[2] \in Id
  BY <1>1
<1>3. e[1] \in DOMAIN f /\ Gone(f, e[1], e[2])
  BY <1>1, <1>2
<1>4. e \in (DOMAIN f) \X Id
  BY <1>1, <1>3
<1> QED
  BY <1>3, <1>4 DEF Broken, Gone

\* References that are added on both sides break nothing.
LEMMA Grown ==
    ASSUME NEW f, NEW g, DOMAIN g = DOMAIN f,
           \A k \in DOMAIN f : /\ g[k] = Torn => f[k] = Torn
                               /\ f[k] = Torn => g[k] = Torn
                               /\ f[k].blocks \subseteq g[k].blocks
                               /\ f[k].blockedBy \subseteq g[k].blockedBy,
           \A k \in DOMAIN f : \A l \in g[k].blocks \ f[k].blocks :
                l \in DOMAIN f /\ k \in g[l].blockedBy,
           \A k \in DOMAIN f : \A l \in g[k].blockedBy \ f[k].blockedBy :
                l \in DOMAIN f /\ k \in g[l].blocks
    PROVE  Broken(g) \subseteq Broken(f)
<1> SUFFICES ASSUME NEW i \in DOMAIN g, NEW j \in Id, Gone(g, i, j)
             PROVE  i \in DOMAIN f /\ Gone(f, i, j)
  BY BrokenKept
<1>1. CASE /\ j \in g[i].blocks
           /\ j \in DOMAIN g => g[j] # Torn /\ i \notin g[j].blockedBy
  <2>1. j \in f[i].blocks
    BY <1>1
  <2> QED
    BY <1>1, <2>1 DEF Gone
<1>2. CASE /\ j \in g[i].blockedBy
           /\ j \in DOMAIN g => g[j] # Torn /\ i \notin g[j].blocks
  <2>1. j \in f[i].blockedBy
    BY <1>2
  <2> QED
    BY <1>2, <2>1 DEF Gone
<1> QED
  BY <1>1, <1>2 DEF Gone

\* The list after writes that are one for each file.
LEMMA FinishedAt ==
    ASSUME NEW f, NEW W \in SUBSET FileWrite,
           \A v, w \in W : v.kind = "put" /\ w.kind = "put" /\ v.id = w.id => v = w,
           \A w \in W : w.kind = "put" => w.id \in DOMAIN f /\ w.id \notin Dels(W)
    PROVE  /\ DOMAIN Finished(f, W) = DOMAIN f \ Dels(W)
           /\ \A w \in W : w.kind = "put" => Finished(f, W)[w.id] = w.task
           /\ \A k \in DOMAIN f \ Dels(W) :
                (\A w \in W : w.kind = "put" => w.id # k) => Finished(f, W)[k] = f[k]
<1> DEFINE F == Finished(f, W)
<1>1. /\ DOMAIN F = (DOMAIN f \cup {i \in Id : Puts(W, i) # {}}) \ Dels(W)
      /\ \A i \in DOMAIN F : F[i] = IF Puts(W, i) = {} THEN f[i] ELSE LastPut(W, i).task
  BY FinishedShape
<1> HIDE DEF F
<1>2. \A i \in Id : Puts(W, i) # {} => i \in DOMAIN f
  BY DEF Puts
<1>3. DOMAIN F = DOMAIN f \ Dels(W)
  BY <1>1, <1>2
<1>4. ASSUME NEW w \in W, w.kind = "put" PROVE F[w.id] = w.task
  <2>1. w \in Puts(W, w.id) /\ \A v \in Puts(W, w.id) : v = w
    BY <1>4 DEF Puts
  <2>2. w.stage <= w.stage
    BY DEF FileWrite
  <2>3. LastPut(W, w.id) = w
    BY <2>1, <2>2, LastPutIs
  <2> QED
    BY <1>1, <1>3, <1>4, <2>1, <2>3
<1>5. ASSUME NEW k \in DOMAIN f \ Dels(W), \A w \in W : w.kind = "put" => w.id # k
      PROVE  F[k] = f[k]
  <2>1. Puts(W, k) = {}
    BY <1>5 DEF Puts
  <2> QED
    BY <1>1, <1>3, <2>1
<1> QED
  BY <1>3, <1>4, <1>5 DEF F

Kept(W) == Broken(Finished(files, W)) \subseteq Broken(files)

\* The references of task k once i blocks B and is blocked by C.
MoreBlocks(k, i, B, C) ==
    files[k].blocks \cup (IF k = i THEN B ELSE IF k \in C THEN {i} ELSE {})
MoreBlockedBy(k, i, B, C) ==
    files[k].blockedBy \cup (IF k = i THEN C ELSE IF k \in B THEN {i} ELSE {})

\* Writes that add references on both sides, or none.
LEMMA KeptGrow ==
    ASSUME IInv, NEW W \in SUBSET FileWrite, NEW i,
           NEW B \in SUBSET Listed, NEW C \in SUBSET Listed,
           i \in Listed \/ B \cup C = {}, i \notin B \cup C,
           \A v, w \in W : v.id = w.id => v = w,
           \A w \in W : /\ w.kind = "put" /\ w.id \in Listed
                        /\ w.task.blocks = MoreBlocks(w.id, i, B, C)
                        /\ w.task.blockedBy = MoreBlockedBy(w.id, i, B, C),
           \A k \in Listed : (\A w \in W : w.id # k) =>
                        /\ files[k].blocks = MoreBlocks(k, i, B, C)
                        /\ files[k].blockedBy = MoreBlockedBy(k, i, B, C)
    PROVE  Kept(W)
<1> DEFINE G == Finished(files, W)
<1>1. Dels(W) = {} /\ DOMAIN files \ {} = DOMAIN files
  BY DEF Dels
<1>2. /\ \A v, w \in W : v.kind = "put" /\ w.kind = "put" /\ v.id = w.id => v = w
      /\ \A w \in W : w.kind = "put" => w.id \in DOMAIN files /\ w.id \notin Dels(W)
  BY <1>1 DEF Listed
<1>3. /\ DOMAIN G = DOMAIN files
      /\ \A w \in W : G[w.id] = w.task
      /\ \A k \in DOMAIN files : (\A w \in W : w.id # k) => G[k] = files[k]
  <2>1. /\ DOMAIN G = DOMAIN files \ Dels(W)
        /\ \A w \in W : w.kind = "put" => G[w.id] = w.task
        /\ \A k \in DOMAIN files \ Dels(W) :
                (\A w \in W : w.kind = "put" => w.id # k) => G[k] = files[k]
    BY <1>2, FinishedAt
  <2> HIDE DEF G
  <2> QED
    BY <1>1, <2>1
<1> HIDE DEF G
<1>4. \A w \in W : w.task # Torn
  BY Basics DEF FileWrite
<1>5. ASSUME NEW k \in Listed
      PROVE  /\ G[k] # Torn
             /\ G[k].blocks = MoreBlocks(k, i, B, C)
             /\ G[k].blockedBy = MoreBlockedBy(k, i, B, C)
  <2>1. CASE \E w \in W : w.id = k
    BY <1>3, <1>4, <2>1
  <2>2. CASE \A w \in W : w.id # k
    BY <1>3, <2>2 DEF Listed
  <2> QED
    BY <2>1, <2>2
<1>6. \A k \in DOMAIN files \ Listed : files[k] = Torn /\ G[k] = files[k]
  BY <1>3 DEF Listed
<1>7. ASSUME NEW k \in DOMAIN files
      PROVE  /\ G[k] = Torn => files[k] = Torn
             /\ files[k] = Torn => G[k] = Torn
             /\ files[k].blocks \subseteq G[k].blocks
             /\ files[k].blockedBy \subseteq G[k].blockedBy
             /\ \A l \in G[k].blocks \ files[k].blocks : l \in DOMAIN files /\ k \in G[l].blockedBy
             /\ \A l \in G[k].blockedBy \ files[k].blockedBy : l \in DOMAIN files /\ k \in G[l].blocks
  <2>1. CASE k \notin Listed
    BY <1>6, <2>1
  <2>2. CASE k \in Listed
    <3>1. /\ G[k] # Torn /\ files[k] # Torn
          /\ G[k].blocks = MoreBlocks(k, i, B, C)
          /\ G[k].blockedBy = MoreBlockedBy(k, i, B, C)
      BY <1>5, <2>2 DEF Listed
    <3>2. /\ files[k].blocks \subseteq G[k].blocks
          /\ files[k].blockedBy \subseteq G[k].blockedBy
      BY <3>1 DEF MoreBlocks, MoreBlockedBy
    <3>3. ASSUME NEW l \in G[k].blocks, l \notin files[k].blocks
          PROVE  l \in DOMAIN files /\ k \in G[l].blockedBy
      <4>1. (k = i /\ l \in B) \/ (k \in C /\ l = i)
        BY <3>1, <3>3 DEF MoreBlocks
      <4>2. l \in Listed
        BY <4>1
      <4>3. G[l].blockedBy = MoreBlockedBy(l, i, B, C)
        BY <1>5, <4>2
      <4> QED
        BY <4>1, <4>2, <4>3 DEF MoreBlockedBy, Listed
    <3>4. ASSUME NEW l \in G[k].blockedBy, l \notin files[k].blockedBy
          PROVE  l \in DOMAIN files /\ k \in G[l].blocks
      <4>1. (k = i /\ l \in C) \/ (k \in B /\ l = i)
        BY <3>1, <3>4 DEF MoreBlockedBy
      <4>2. l \in Listed
        BY <4>1
      <4>3. G[l].blocks = MoreBlocks(l, i, B, C)
        BY <1>5, <4>2
      <4> QED
        BY <4>1, <4>2, <4>3 DEF MoreBlocks, Listed
    <3> QED
      BY <3>1, <3>2, <3>3, <3>4
  <2> QED
    BY <2>1, <2>2
<1>8. Broken(G) \subseteq Broken(files)
  BY <1>3, <1>7, Grown
<1> QED
  BY <1>8 DEF Kept, G

\* A new task without references.
LEMMA KeptCreate ==
    ASSUME IInv, NEW i \in Id, i \notin DOMAIN files PROVE Kept({Put(1, i, NewTask)})
<1> DEFINE W == {Put(1, i, NewTask)}
           G == Finished(files, W)
<1>1. W \in SUBSET FileWrite
  BY Basics
<1>2. Dels(W) = {} /\ \A k \in Id : Puts(W, k) = IF k = i THEN W ELSE {}
  BY DEF Dels, Puts, Put
<1>3. LastPut(W, i) = Put(1, i, NewTask)
  <2>1. Put(1, i, NewTask) \in Puts(W, i) /\ \A v \in Puts(W, i) : v = Put(1, i, NewTask)
    BY <1>2
  <2>2. Put(1, i, NewTask).stage <= Put(1, i, NewTask).stage
    BY DEF Put
  <2> QED
    BY <1>1, <2>1, <2>2, LastPutIs
<1>4. /\ DOMAIN G = (DOMAIN files \cup {k \in Id : Puts(W, k) # {}}) \ Dels(W)
      /\ \A k \in DOMAIN G : G[k] = IF Puts(W, k) = {} THEN files[k] ELSE LastPut(W, k).task
  <2> HIDE DEF W
  <2> QED
    BY FinishedShape
<1> HIDE DEF G
<1>5. /\ DOMAIN G = DOMAIN files \cup {i}
      /\ G[i] = NewTask /\ \A k \in DOMAIN files : G[k] = files[k]
  <2>1. W # {} /\ Put(1, i, NewTask).task = NewTask
    BY DEF Put
  <2> HIDE DEF W
  <2>2. DOMAIN files \subseteq Id
    BY DEF IInv, DiskTypes
  <2>3. \A k : k \in DOMAIN G <=> k \in DOMAIN files \cup {i}
    BY <1>2, <1>4, <2>1, <2>2
  <2>4. DOMAIN G = DOMAIN files \cup {i}
    BY <1>4, <2>3
  <2> QED
    BY <1>2, <1>3, <1>4, <2>1, <2>2, <2>4
<1>6. Broken(G) \subseteq Broken(files)
  <2> SUFFICES ASSUME NEW k \in DOMAIN G, NEW j \in Id, Gone(G, k, j)
               PROVE  k \in DOMAIN files /\ Gone(files, k, j)
    BY BrokenKept
  <2>1. k # i
    BY <1>5 DEF Gone, NewTask
  <2> QED
    BY <1>5, <2>1 DEF Gone
<1> QED
  BY <1>6 DEF Kept, G, W


\* A task is deleted together with every reference to it.
LEMMA KeptDelete == ASSUME IInv, NEW i \in issued PROVE Kept(DeleteWrites(i))
<1> DEFINE W == DeleteWrites(i)
           G == Finished(files, W)
           Refs == {k \in Listed \ {i} : i \in files[k].blocks \cup files[k].blockedBy}
           Without(k) == [files[k] EXCEPT !.blocks = files[k].blocks \ {i},
                                          !.blockedBy = files[k].blockedBy \ {i}]
<1>1. W \in SUBSET FileWrite
  BY DeleteGood
<1>2. \A w \in RaiseMark(i) : w.kind = "mark"
  BY DEF RaiseMark, Mark
<1>3. CASE i \notin DOMAIN files
  <2>1. \A w \in W : w.kind = "mark"
    BY <1>2, <1>3 DEF DeleteWrites
  <2> HIDE DEF W
  <2>2. Dels(W) = {}
    BY <2>1 DEF Dels
  <2>3. /\ \A v, w \in W : v.kind = "put" /\ w.kind = "put" /\ v.id = w.id => v = w
        /\ \A w \in W : w.kind = "put" => w.id \in DOMAIN files /\ w.id \notin Dels(W)
    BY <2>1
  <2>4. /\ DOMAIN G = DOMAIN files \ Dels(W)
        /\ \A k \in DOMAIN files \ Dels(W) :
                (\A w \in W : w.kind = "put" => w.id # k) => G[k] = files[k]
    BY <1>1, <2>3, FinishedAt
  <2> HIDE DEF G
  <2>5. DOMAIN G = DOMAIN files /\ \A k \in DOMAIN files : G[k] = files[k]
    BY <2>1, <2>2, <2>4
  <2>6. Broken(G) \subseteq Broken(files)
    BY <2>5, BrokenKept DEF Gone
  <2> QED
    BY <2>6 DEF Kept, G, W
<1>4. CASE i \in DOMAIN files
  <2>1. W = RaiseMark(i) \cup ({Del(i)} \cup {Put(2, k, Without(k)) : k \in Refs})
    BY <1>4 DEF DeleteWrites
  <2> HIDE DEF W, Refs, Without
  <2>2. \A w \in W : \/ w.kind = "mark" \/ w = Del(i)
                     \/ \E k \in Refs : w = Put(2, k, Without(k))
    BY <1>2, <2>1
  <2>3. /\ \A w \in W : w.kind = "put" => w.id \in Refs /\ w = Put(2, w.id, Without(w.id))
        /\ \A w \in W : w.kind = "del" => w = Del(i)
    BY <2>2 DEF Put, Del
  <2>4. Dels(W) = {i}
    <3>1. Del(i) \in W /\ Del(i).kind = "del" /\ Del(i).id = i
      BY <2>1 DEF Del
    <3> QED
      BY <2>3, <3>1 DEF Dels
  <2>0. Refs \subseteq Listed \ {i} /\ Listed \subseteq DOMAIN files
    BY DEF Refs, Listed
  <2>5. /\ \A v, w \in W : v.kind = "put" /\ w.kind = "put" /\ v.id = w.id => v = w
        /\ \A w \in W : w.kind = "put" => w.id \in DOMAIN files /\ w.id \notin Dels(W)
    BY <2>0, <2>3, <2>4
  <2>6. /\ DOMAIN G = DOMAIN files \ Dels(W)
        /\ \A w \in W : w.kind = "put" => G[w.id] = w.task
        /\ \A k \in DOMAIN files \ Dels(W) :
                (\A w \in W : w.kind = "put" => w.id # k) => G[k] = files[k]
    BY <1>1, <2>5, FinishedAt
  <2> HIDE DEF G
  <2>7. DOMAIN G = DOMAIN files \ {i}
    BY <2>4, <2>6
  <2>8. \A k \in Refs : G[k] = Without(k)
    <3> SUFFICES ASSUME NEW k \in Refs PROVE G[k] = Without(k)
      OBVIOUS
    <3>1. /\ Put(2, k, Without(k)) \in W /\ Put(2, k, Without(k)).kind = "put"
          /\ Put(2, k, Without(k)).id = k /\ Put(2, k, Without(k)).task = Without(k)
      BY <2>1 DEF Put
    <3> QED
      BY <2>6, <3>1
  <2>9. ASSUME NEW k \in DOMAIN files, k # i
        PROVE  /\ G[k] = Torn => files[k] = Torn
               /\ files[k] = Torn => G[k] = Torn
               /\ G[k].blocks = files[k].blocks \ {i}
               /\ G[k].blockedBy = files[k].blockedBy \ {i}
    <3>1. CASE k \in Refs
      <4>1. files[k] \in Task /\ G[k] = Without(k) /\ files[k] # Torn
        BY <2>0, <2>8, <3>1, ListedOK, Basics
      <4>2. G[k] \in Task
        BY <4>1 DEF Task, Without
      <4>3. G[k] # Torn
        BY <4>2, Basics
      <4> QED
        BY <4>1, <4>3 DEF Task, Without
    <3>2. CASE k \notin Refs
      <4>1. \A w \in W : w.kind = "put" => w.id # k
        BY <2>3, <3>2
      <4>2. G[k] = files[k]
        BY <2>4, <2>6, <2>9, <4>1
      <4>3. i \notin files[k].blocks /\ i \notin files[k].blockedBy
        BY <2>9, <3>2 DEF Refs, Listed, Torn
      <4> QED
        BY <4>2, <4>3
    <3> QED
      BY <3>1, <3>2
  <2>10. Broken(G) \subseteq Broken(files)
    <3> SUFFICES ASSUME NEW k \in DOMAIN G, NEW j \in Id, Gone(G, k, j)
                 PROVE  k \in DOMAIN files /\ Gone(files, k, j)
      BY BrokenKept
    <3>1. k \in DOMAIN files /\ k # i
      BY <2>7
    <3>2. G[k].blocks = files[k].blocks \ {i} /\ G[k].blockedBy = files[k].blockedBy \ {i}
      BY <2>9, <3>1
    <3>3. j # i
      BY <3>2 DEF Gone
    <3>4. j \in DOMAIN files => /\ j \in DOMAIN G
                                /\ files[j] = Torn => G[j] = Torn
                                /\ G[j].blocks = files[j].blocks \ {i}
                                /\ G[j].blockedBy = files[j].blockedBy \ {i}
      BY <2>7, <2>9, <3>3
    <3> QED
      BY <3>1, <3>2, <3>3, <3>4 DEF Gone
  <2> QED
    BY <2>10 DEF Kept, G, W
<1> QED
  BY <1>3, <1>4

\* Nothing is left of a list that is reset.
LEMMA KeptReset ==
    ASSUME IInv, NEW h \in DOMAIN files
    PROVE  Kept(RaiseMark(h) \cup {Del(j) : j \in DOMAIN files})
<1> DEFINE W == RaiseMark(h) \cup {Del(j) : j \in DOMAIN files}
           G == Finished(files, W)
<1>1. \A w \in W : w.kind # "put"
  BY DEF RaiseMark, Mark, Del
<1>2. \A j \in DOMAIN files : j \in Dels(W)
  <2> SUFFICES ASSUME NEW j \in DOMAIN files PROVE j \in Dels(W)
    OBVIOUS
  <2>1. Del(j) \in W /\ Del(j).kind = "del" /\ Del(j).id = j
    BY DEF Del
  <2> HIDE DEF W
  <2> QED
    BY <2>1 DEF Dels
<1> HIDE DEF W
<1>3. \A i : Puts(W, i) = {}
  BY <1>1 DEF Puts
<1>4. DOMAIN G = (DOMAIN files \cup {i \in Id : Puts(W, i) # {}}) \ Dels(W)
  BY FinishedShape
<1> HIDE DEF G
<1>5. DOMAIN G = {}
  BY <1>2, <1>3, <1>4
<1>6. Broken(G) \subseteq Broken(files)
  BY <1>5, BrokenKept
<1> QED
  BY <1>6 DEF Kept, G, W

-----------------------------------------------------------------------------
(* Dependencies: the steps. *)

NothingBroken == Broken(Finished(files', plan')) \subseteq Broken(Finished(files, plan))

\* A call that takes the lock.
LEMMA EnterKept ==
    ASSUME IInv, Staged(plan), NEW p, NEW op, NEW r, NEW W, Staged(W),
           Enter(p, op, r, W), DiskUnchanged
    PROVE  Staged(plan)' /\ (W = {} \/ Kept(W) => NothingBroken)
<1>1. CASE W = {}
  BY <1>1 DEF Enter, DiskUnchanged, NothingBroken, Staged
<1>2. CASE W # {}
  <2>1. plan = {} /\ plan' = W /\ files' = files
    BY <1>2 DEF Enter, DiskUnchanged, IInv, CallTypes
  <2>2. Broken(files) \subseteq Broken(Finished(files, {}))
    <3> DEFINE G == Finished(files, {})
    <3>1. Dels({}) = {} /\ {} \in SUBSET FileWrite
      BY DEF Dels
    <3>2. /\ DOMAIN G = DOMAIN files \ Dels({})
          /\ \A k \in DOMAIN files \ Dels({}) : G[k] = files[k]
      BY <3>1, FinishedAt
    <3> HIDE DEF G
    <3>3. DOMAIN G = DOMAIN files /\ \A k \in DOMAIN files : G[k] = files[k]
      BY <3>1, <3>2
    <3>4. Broken(files) \subseteq Broken(G)
      BY <3>3, BrokenKept DEF Gone
    <3> QED
      BY <3>4 DEF G
  <2> QED
    BY <2>1, <2>2 DEF Kept, NothingBroken, Staged
<1> QED
  BY <1>1, <1>2

\* A file write of the holder.
LEMMA WriteKept ==
    ASSUME IInv, Staged(plan), NEW p \in Proc, Write(p)
    PROVE  Staged(plan)' /\ NothingBroken
<1>1. PICK w \in plan :
        /\ \A v \in plan : w.stage <= v.stage
        /\ \/ w.kind = "mark" /\ Disk(files, w.id)
           \/ w.kind = "put" /\ Disk(WithFile(w.id, w.task), mark)
           \/ w.kind = "del" /\ Disk([j \in DOMAIN files \ {w.id} |-> files[j]], mark)
        /\ plan' = plan \ {w}
  BY DEF Write
<1>2. \/ w.kind = "mark" /\ files' = files
      \/ /\ w.kind = "put"
         /\ files' = [j \in DOMAIN files \cup {w.id} |-> IF j = w.id THEN w.task ELSE files[j]]
      \/ w.kind = "del" /\ files' = [j \in DOMAIN files \ {w.id} |-> files[j]]
  BY <1>1 DEF Disk, WithFile
<1>3. \A u, v \in plan : u.kind = "put" /\ v.kind = "del" => u.id # v.id
  BY DEF IInv, Good, PutGood
<1>4. plan \in SUBSET FileWrite
  BY DEF IInv, CallTypes
<1> DEFINE F == Finished(files, plan)
           G == Finished(files', plan')
<1>5. /\ DOMAIN Finished(files', plan \ {w}) = DOMAIN F
      /\ \A k \in DOMAIN F : Finished(files', plan \ {w})[k] = F[k]
  <2>1. FirstOf(plan, w)
    BY <1>1, <1>3 DEF FirstOf
  <2>2. Done(files, w, files')
    BY <1>2 DEF Done
  <2>3. plan \in SUBSET FileWrite /\ w \in plan /\ Staged(plan)
    BY <1>4
  <2>4. DOMAIN Finished(files', plan \ {w}) = DOMAIN F
    BY <2>1, <2>2, <2>3, StepFinished, ZenonT(60)
  <2>5. ASSUME NEW k \in DOMAIN F PROVE Finished(files', plan \ {w})[k] = F[k]
    BY <2>1, <2>2, <2>3, StepFinished
  <2> QED
    BY <2>4, <2>5
<1>6. DOMAIN G = DOMAIN F /\ \A k \in DOMAIN F : G[k] = F[k]
  BY <1>1, <1>5
<1> HIDE DEF F, G
<1>7. Broken(G) \subseteq Broken(F)
  BY <1>6, BrokenKept DEF Gone
<1>8. Staged(plan)'
  BY <1>1 DEF Staged
<1> QED
  BY <1>7, <1>8 DEF F, G, NothingBroken

\* A put of a list that grows, or does not, for each task of an update.
LEMMA UpdateStaged ==
    ASSUME IInv, NEW r \in Request, r.status # "deleted", NEW s \in Task,
           \A j \in {r.id} \cup r.addBlocks \cup r.addBlockedBy : Readable(j)
    PROVE  Staged(UpdateWrites(r, s))
<1> DEFINE T1 == ApplyUpdates(files[r.id], r, s)
           T2(j) == [files[j] EXCEPT !.blockedBy = files[j].blockedBy \cup {r.id}]
           T3(j) == [files[j] EXCEPT !.blocks = files[j].blocks \cup {r.id}]
<1>1. \A w \in UpdateWrites(r, s) : \/ w = Put(1, r.id, T1)
                                    \/ \E j \in Id : w = Put(2, j, T2(j))
                                    \/ \E j \in Id : w = Put(3, j, T3(j))
  BY DEF UpdateWrites, Request
<1> HIDE DEF T1, T2, T3
<1> QED
  BY <1>1 DEF Put, Staged

\* An update whose lists are those of the file links in both directions.
LEMMA UpdateKept ==
    ASSUME IInv, NEW r \in Request, r.status # "deleted", NEW s \in Task,
           \A j \in {r.id} \cup r.addBlocks \cup r.addBlockedBy : Readable(j),
           r.id \notin r.addBlocks \cup r.addBlockedBy, r.addBlocks \cap r.addBlockedBy = {},
           r.addBlocks # {} => s.blocks = files[r.id].blocks,
           r.addBlockedBy # {} => s.blockedBy = files[r.id].blockedBy
    PROVE  Kept(UpdateWrites(r, s))
<1> DEFINE W == UpdateWrites(r, s)
           i == r.id
           B == r.addBlocks
           C == r.addBlockedBy
           T1 == ApplyUpdates(files[i], r, s)
           T2(j) == [files[j] EXCEPT !.blockedBy = files[j].blockedBy \cup {i}]
           T3(j) == [files[j] EXCEPT !.blocks = files[j].blocks \cup {i}]
           B2 == {k \in B : i \notin files[k].blockedBy}
           C2 == {k \in C : i \notin files[k].blocks}
<1>1. W \in SUBSET FileWrite
  BY UpdateGood
<1>2. B \in SUBSET Listed /\ C \in SUBSET Listed /\ i \in Listed /\ i \notin B \cup C
  BY DEF Readable, Listed
<1>3. /\ T1.blocks = files[i].blocks \cup B
      /\ T1.blockedBy = files[i].blockedBy \cup C
  BY DEF ApplyUpdates
<1>4. \A k \in Listed : files[k] \in Task
  BY ListedOK
<1>5. \A j \in Listed : /\ T2(j).blocks = files[j].blocks
                        /\ T2(j).blockedBy = files[j].blockedBy \cup {i}
                        /\ T3(j).blocks = files[j].blocks \cup {i}
                        /\ T3(j).blockedBy = files[j].blockedBy
  BY <1>4 DEF Task
<1>6. W = {Put(1, i, T1)} \cup {Put(2, j, T2(j)) : j \in B2} \cup {Put(3, j, T3(j)) : j \in C2}
  BY DEF UpdateWrites
<1>7. B2 \subseteq B /\ C2 \subseteq C /\ B \cap C = {}
  OBVIOUS
<1>8. /\ \A k \in B \ B2 : i \in files[k].blockedBy
      /\ \A k \in C \ C2 : i \in files[k].blocks
  OBVIOUS
<1> HIDE DEF W, i, B, C, T1, T2, T3, B2, C2
<1>9. \A w \in W : \/ w = Put(1, i, T1)
                   \/ \E j \in B2 : w = Put(2, j, T2(j))
                   \/ \E j \in C2 : w = Put(3, j, T3(j))
  BY <1>6
<1>10. \A w \in W : \/ w.id = i /\ w = Put(1, i, T1) /\ w.task = T1
                    \/ w.id \in B2 /\ w = Put(2, w.id, T2(w.id)) /\ w.task = T2(w.id)
                    \/ w.id \in C2 /\ w = Put(3, w.id, T3(w.id)) /\ w.task = T3(w.id)
  BY <1>9 DEF Put
<1>11. \A v, w \in W : v.id = w.id => v = w
  BY <1>2, <1>7, <1>10
<1>12. ASSUME NEW w \in W
       PROVE  /\ w.kind = "put" /\ w.id \in Listed
              /\ w.task.blocks = MoreBlocks(w.id, i, B, C)
              /\ w.task.blockedBy = MoreBlockedBy(w.id, i, B, C)
  <2>1. w.kind = "put"
    BY <1>9 DEF Put
  <2>2. CASE w.id = i /\ w.task = T1
    BY <1>2, <1>3, <2>1, <2>2 DEF MoreBlocks, MoreBlockedBy
  <2>3. CASE w.id \in B2 /\ w.task = T2(w.id)
    BY <1>2, <1>5, <1>7, <2>1, <2>3 DEF MoreBlocks, MoreBlockedBy
  <2>4. CASE w.id \in C2 /\ w.task = T3(w.id)
    BY <1>2, <1>5, <1>7, <2>1, <2>4 DEF MoreBlocks, MoreBlockedBy
  <2> QED
    BY <1>10, <2>2, <2>3, <2>4
<1>13. ASSUME NEW k \in Listed, \A w \in W : w.id # k
       PROVE  /\ files[k].blocks = MoreBlocks(k, i, B, C)
              /\ files[k].blockedBy = MoreBlockedBy(k, i, B, C)
  <2>1. k # i
    <3>1. Put(1, i, T1) \in W /\ Put(1, i, T1).id = i
      BY <1>6 DEF Put
    <3> QED
      BY <1>13, <3>1
  <2>2. k \notin B2
    <3>1. k \in B2 => Put(2, k, T2(k)) \in W /\ Put(2, k, T2(k)).id = k
      BY <1>6 DEF Put
    <3> QED
      BY <1>13, <3>1
  <2>3. k \notin C2
    <3>1. k \in C2 => Put(3, k, T3(k)) \in W /\ Put(3, k, T3(k)).id = k
      BY <1>6 DEF Put
    <3> QED
      BY <1>13, <3>1
  <2> QED
    BY <1>7, <1>8, <2>1, <2>2, <2>3 DEF MoreBlocks, MoreBlockedBy
<1>14. Kept(W)
  BY <1>1, <1>2, <1>11, <1>12, <1>13, KeptGrow
<1> QED
  BY <1>14 DEF W

\* The two operations that update a task.
LEMMA UpdateDeps ==
    ASSUME IInv, Staged(plan), NEW p \in Proc, UpdateWithDependencies(p) \/ Update(p)
    PROVE  Staged(plan)' /\ (NothingBroken \/ CommitsStale(p) \/ LinksTwice(p))
<1>1. CASE UpdateWithDependencies(p)
  <2> DEFINE r == req[p]
             s == snap[p]
             all == \A j \in {r.id} \cup r.addBlocks \cup r.addBlockedBy : Readable(j)
             W == IF all THEN UpdateWrites(r, s) ELSE {}
  <2>1. pc[p] = "checked" /\ Enter(p, "updating", r, W) /\ DiskUnchanged
    BY <1>1 DEF UpdateWithDependencies
  <2>2. r \in Request /\ r.status # "deleted" /\ s \in Task
    BY <2>1 DEF IInv, CallTypes, Checked
  <2>3. CASE ~all
    <3>1. W = {} /\ Staged(W)
      BY <2>3 DEF Staged
    <3> HIDE DEF W
    <3> QED
      BY <2>1, <3>1, EnterKept
  <2>4. CASE all
    <3>1. W = UpdateWrites(r, s) /\ Staged(W)
      BY <2>2, <2>4, UpdateStaged
    <3>2. Put(1, r.id, ApplyUpdates(files[r.id], r, s)) \in W
      BY <3>1 DEF UpdateWrites
    <3> HIDE DEF W
    <3>3. pc' = [pc EXCEPT ![p] = "updating"] /\ req' = [req EXCEPT ![p] = r]
      BY <2>1, <3>2 DEF Enter
    <3>4. pc'[p] = "updating" /\ req'[p] = r
      BY <3>3 DEF IInv, CallTypes
    <3>5. Staged(plan)' /\ (Kept(W) => NothingBroken)
      BY <2>1, <3>1, EnterKept
    <3>6. Kept(W) \/ CommitsStale(p) \/ LinksTwice(p)
      <4> SUFFICES ASSUME ~CommitsStale(p), ~LinksTwice(p) PROVE Kept(W)
        OBVIOUS
      <4>1. r.id \notin r.addBlocks \cup r.addBlockedBy /\ r.addBlocks \cap r.addBlockedBy = {}
        BY <2>1, <3>4 DEF LinksTwice
      <4>2. /\ r.addBlocks # {} => s.blocks = files[r.id].blocks
            /\ r.addBlockedBy # {} => s.blockedBy = files[r.id].blockedBy
        BY <2>1, <3>4 DEF CommitsStale
      <4> HIDE DEF r, s
      <4> QED
        BY <2>2, <2>4, <3>1, <4>1, <4>2, UpdateKept
    <3> QED
      BY <3>5, <3>6
  <2> QED
    BY <2>3, <2>4
<1>2. CASE Update(p)
  <2>1. PICK r \in Requests :
          /\ r.status # "deleted" /\ r.addBlocks = {} /\ r.addBlockedBy = {}
          /\ Readable(r.id)
          /\ Enter(p, "updating", r, UpdateWrites(r, files[r.id]))
    BY <1>2 DEF Update
  <2>2. r \in Request /\ files[r.id] \in Task
    BY <2>1, RequestsAssumption, ListedOK
  <2>3. \A j \in {r.id} \cup r.addBlocks \cup r.addBlockedBy : Readable(j)
    BY <2>1
  <2>4. Staged(UpdateWrites(r, files[r.id]))
    BY <2>1, <2>2, <2>3, UpdateStaged
  <2>5. Kept(UpdateWrites(r, files[r.id]))
    BY <2>1, <2>2, <2>3, UpdateKept
  <2> QED
    BY <1>2, <2>1, <2>4, <2>5, EnterKept DEF Update
<1> QED
  BY <1>1, <1>2

\* The reverse reference of a link is written with it.
LEMMA BlockDeps ==
    ASSUME IInv, Staged(plan), NEW p \in Proc, BlockTask(p)
    PROVE  Staged(plan)' /\ (NothingBroken \/ LinksTwice(p))
<1> DEFINE TB(i, j) == [files[i] EXCEPT !.blocks = files[i].blocks \cup {j}]
           TA(i, j) == [files[j] EXCEPT !.blockedBy = files[j].blockedBy \cup {i}]
           WB(i, j) == IF j \in files[i].blocks THEN {} ELSE {Put(1, i, TB(i, j))}
           WA(i, j) == IF i \in files[j].blockedBy THEN {} ELSE {Put(2, j, TA(i, j))}
           r(i, j) == [NoRequest EXCEPT !.id = i, !.addBlocks = {j}]
<1>1. PICK i \in Listed, j \in Listed : Enter(p, "linking", r(i, j), WB(i, j) \cup WA(i, j))
  BY DEF BlockTask
<1> DEFINE W == WB(i, j) \cup WA(i, j)
<1>2. files[i] \in Task /\ files[j] \in Task /\ i \in Id /\ j \in Id
  BY ListedOK
<1>3. /\ TB(i, j) \in Task /\ TB(i, j).blocks = files[i].blocks \cup {j}
      /\ TB(i, j).blockedBy = files[i].blockedBy
      /\ TA(i, j) \in Task /\ TA(i, j).blockedBy = files[j].blockedBy \cup {i}
      /\ TA(i, j).blocks = files[j].blocks
  BY <1>2 DEF Task
<1>4. r(i, j).id = i /\ r(i, j).addBlocks = {j}
  BY DEF NoRequest
<1> HIDE DEF TB, TA, r
<1>5. \A w \in W : \/ w = Put(1, i, TB(i, j)) /\ w.id = i /\ w.task = TB(i, j)
                   \/ w = Put(2, j, TA(i, j)) /\ w.id = j /\ w.task = TA(i, j)
  BY DEF Put
<1>6. /\ j \in files[i].blocks \/ Put(1, i, TB(i, j)) \in W
      /\ i \in files[j].blockedBy \/ Put(2, j, TA(i, j)) \in W
  OBVIOUS
<1>7. Enter(p, "linking", r(i, j), W) /\ DiskUnchanged /\ pc[p] = "idle"
  BY <1>1 DEF BlockTask, Begin
<1> HIDE DEF W, WA, WB
<1>8. Staged(W)
  BY <1>5 DEF Staged, Put
<1>9. Staged(plan)' /\ (W = {} \/ Kept(W) => NothingBroken)
  BY <1>7, <1>8, EnterKept
<1>10. W = {} \/ Kept(W) \/ LinksTwice(p)
  <2>1. CASE i = j
    <3>1. W = {} \/ (pc'[p] = "linking" /\ req'[p] = r(i, j))
      BY <1>7 DEF Enter, IInv, CallTypes
    <3> QED
      BY <1>4, <1>7, <2>1, <3>1 DEF LinksTwice
  <2>2. CASE i # j
    <3>1. W \in SUBSET FileWrite
      <4>1. Put(1, i, TB(i, j)) \in FileWrite /\ Put(2, j, TA(i, j)) \in FileWrite
        BY <1>2, <1>3, Basics
      <4> QED
        BY <1>5, <4>1
    <3>2. \A v, w \in W : v.id = w.id => v = w
      BY <1>5, <2>2
    <3>3. \A w \in W : /\ w.kind = "put" /\ w.id \in Listed
                       /\ w.task.blocks = MoreBlocks(w.id, i, {j}, {})
                       /\ w.task.blockedBy = MoreBlockedBy(w.id, i, {j}, {})
      <4> SUFFICES ASSUME NEW w \in W
                   PROVE  /\ w.kind = "put" /\ w.id \in Listed
                          /\ w.task.blocks = MoreBlocks(w.id, i, {j}, {})
                          /\ w.task.blockedBy = MoreBlockedBy(w.id, i, {j}, {})
        OBVIOUS
      <4>1. w.kind = "put"
        BY <1>5 DEF Put
      <4> QED
        BY <1>3, <1>5, <2>2, <4>1 DEF MoreBlocks, MoreBlockedBy
    <3>4. ASSUME NEW k \in Listed, \A w \in W : w.id # k
          PROVE  /\ files[k].blocks = MoreBlocks(k, i, {j}, {})
                 /\ files[k].blockedBy = MoreBlockedBy(k, i, {j}, {})
      <4>1. k = i => j \in files[i].blocks
        <5>1. Put(1, i, TB(i, j)).id = i
          BY DEF Put
        <5> QED
          BY <1>6, <3>4, <5>1
      <4>2. k = j => i \in files[j].blockedBy
        <5>1. Put(2, j, TA(i, j)).id = j
          BY DEF Put
        <5> QED
          BY <1>6, <3>4, <5>1
      <4> QED
        BY <2>2, <4>1, <4>2 DEF MoreBlocks, MoreBlockedBy
    <3>5. {j} \in SUBSET Listed /\ {} \in SUBSET Listed /\ i \in Listed /\ i \notin {j} \cup {}
      BY <2>2
    <3> QED
      BY <3>1, <3>2, <3>3, <3>4, <3>5, KeptGrow, ZenonT(60)
  <2> QED
    BY <2>1, <2>2
<1> QED
  BY <1>9, <1>10

\* A call whose writes leave the references as they are.
LEMMA SameDeps ==
    ASSUME IInv, Staged(plan), NEW p, NEW op, NEW r, NEW W, Enter(p, op, r, W), DiskUnchanged,
           \A w \in W : \E i \in Listed, t \in Task :
                /\ w = Put(1, i, t)
                /\ t.blocks = files[i].blocks /\ t.blockedBy = files[i].blockedBy,
           \A v, w \in W : v.id = w.id => v = w
    PROVE  Staged(plan)' /\ NothingBroken
<1>1. \A w \in W : /\ w.kind = "put" /\ w.id \in Listed /\ w \in FileWrite
                   /\ w.task.blocks = files[w.id].blocks
                   /\ w.task.blockedBy = files[w.id].blockedBy
  <2> SUFFICES ASSUME NEW w \in W
               PROVE  /\ w.kind = "put" /\ w.id \in Listed /\ w \in FileWrite
                      /\ w.task.blocks = files[w.id].blocks
                      /\ w.task.blockedBy = files[w.id].blockedBy
    OBVIOUS
  <2>1. PICK i \in Listed, t \in Task :
          /\ w = Put(1, i, t)
          /\ t.blocks = files[i].blocks /\ t.blockedBy = files[i].blockedBy
    OBVIOUS
  <2>2. w \in FileWrite
    <3>1. i \in Id /\ 1 \in 0 .. 3
      BY ListedOK
    <3> QED
      BY <2>1, <3>1, Basics
  <2> QED
    BY <2>1, <2>2 DEF Put
<1>2. Kept(W)
  <2> DEFINE none == {}
             i == 0
  <2>1. \A k : /\ MoreBlocks(k, i, none, none) = files[k].blocks
               /\ MoreBlockedBy(k, i, none, none) = files[k].blockedBy
    BY DEF MoreBlocks, MoreBlockedBy
  <2>2. W \in SUBSET FileWrite /\ none \in SUBSET Listed /\ i \notin none \cup none
    BY <1>1
  <2>3. i \in Listed \/ none \cup none = {}
    OBVIOUS
  <2> HIDE DEF none, i
  <2>4. \A w \in W : /\ w.kind = "put" /\ w.id \in Listed
                     /\ w.task.blocks = MoreBlocks(w.id, i, none, none)
                     /\ w.task.blockedBy = MoreBlockedBy(w.id, i, none, none)
    BY <1>1, <2>1
  <2>5. \A k \in Listed : (\A w \in W : w.id # k) =>
             /\ files[k].blocks = MoreBlocks(k, i, none, none)
             /\ files[k].blockedBy = MoreBlockedBy(k, i, none, none)
    BY <2>1
  <2> QED
    BY <2>2, <2>3, <2>4, <2>5, KeptGrow
<1>3. Staged(W)
  BY DEF Staged
<1> QED
  BY <1>2, <1>3, EnterKept

LEMMA ClaimDeps ==
    ASSUME IInv, Staged(plan), NEW p \in Proc, ClaimTask(p)
    PROVE  Staged(plan)' /\ NothingBroken
<1>1. PICK i \in Id, a \in Agent, op \in {"claiming", "claimingIdle"} :
        /\ Claimable(i, a)
        /\ Enter(p, op, [NoRequest EXCEPT !.id = i, !.owner = a],
                 {Put(1, i, [files[i] EXCEPT !.owner = a])})
  BY DEF ClaimTask
<1>2. i \in Listed /\ files[i] \in Task
  BY <1>1, ListedOK DEF Claimable, Unresolved
<1> DEFINE t == [files[i] EXCEPT !.owner = a]
<1>3. /\ t \in Task
      /\ t.blocks = files[i].blocks /\ t.blockedBy = files[i].blockedBy
  BY <1>2 DEF Task
<1>4. Enter(p, op, [NoRequest EXCEPT !.id = i, !.owner = a], {Put(1, i, t)}) /\ DiskUnchanged
  BY <1>1 DEF ClaimTask
<1> HIDE DEF t
<1> QED
  BY <1>2, <1>3, <1>4, SameDeps

LEMMA UnassignDeps ==
    ASSUME IInv, Staged(plan), NEW p \in Proc, UnassignTeammateTasks(p)
    PROVE  Staged(plan)' /\ NothingBroken
<1> DEFINE T(i) == [files[i] EXCEPT !.owner = NoOwner, !.status = "pending"]
           W(a) == {Put(1, i, T(i)) : i \in {k \in Unresolved : files[k].owner = a}}
<1>1. PICK a \in Agent : Enter(p, "unassigning", [NoRequest EXCEPT !.owner = a], W(a))
  BY DEF UnassignTeammateTasks
<1>2. \A i \in Listed : /\ T(i) \in Task
                        /\ T(i).blocks = files[i].blocks /\ T(i).blockedBy = files[i].blockedBy
  <2> SUFFICES ASSUME NEW i \in Listed
               PROVE  /\ T(i) \in Task
                      /\ T(i).blocks = files[i].blocks /\ T(i).blockedBy = files[i].blockedBy
    OBVIOUS
  <2>1. files[i] \in Task
    BY ListedOK
  <2> QED
    BY <2>1 DEF Task, Status
<1> HIDE DEF T
<1>3. \A w \in W(a) : \E i \in Listed : w = Put(1, i, T(i)) /\ w.id = i
  BY DEF Unresolved, Put
<1> HIDE DEF W
<1>4. \A v, w \in W(a) : v.id = w.id => v = w
  BY <1>3
<1>5. \A w \in W(a) : \E i \in Listed, t \in Task :
          /\ w = Put(1, i, t)
          /\ t.blocks = files[i].blocks /\ t.blockedBy = files[i].blockedBy
  BY <1>2, <1>3
<1>6. DiskUnchanged
  BY DEF UnassignTeammateTasks
<1> QED
  BY <1>1, <1>4, <1>5, <1>6, SameDeps

LEMMA CreateDeps ==
    ASSUME IInv, Staged(plan), NEW p \in Proc, Create(p)
    PROVE  Staged(plan)' /\ NothingBroken
<1>1. PICK i \in Id :
        /\ NextId(i)
        /\ Enter(p, "creating", [NoRequest EXCEPT !.id = i], {Put(1, i, NewTask)})
  BY DEF Create
<1>2. i \notin DOMAIN files
  BY <1>1, NextIdFresh DEF IInv, Marked
<1>3. Staged({Put(1, i, NewTask)})
  BY DEF Staged
<1> QED
  BY <1>1, <1>2, <1>3, KeptCreate, EnterKept DEF Create

LEMMA DeleteDeps ==
    ASSUME IInv, Staged(plan), NEW p \in Proc, HooksRefuse(p) \/ DeleteTask(p)
    PROVE  Staged(plan)' /\ NothingBroken
<1> DEFINE i == req[p].id
<1>1. Enter(p, "deleting", req[p], DeleteWrites(i)) /\ DiskUnchanged /\ i \in issued
  BY DEF HooksRefuse, DeleteTask, IInv, Known
<1> HIDE DEF i
<1>2. Staged(DeleteWrites(i))
  <2> DEFINE T(j) == [files[j] EXCEPT !.blocks = files[j].blocks \ {i},
                                      !.blockedBy = files[j].blockedBy \ {i}]
  <2>1. \A w \in DeleteWrites(i) : \/ w.kind # "put"
                                   \/ \E j \in Listed : w = Put(2, j, T(j)) /\ w.id = j
    <3>1. \A w \in RaiseMark(i) \cup {Del(i)} : w.kind # "put"
      BY DEF RaiseMark, Mark, Del
    <3>2. \A w \in DeleteWrites(i) \ (RaiseMark(i) \cup {Del(i)}) :
             \E j \in Listed \ {i} : w = Put(2, j, T(j))
      BY DEF DeleteWrites
    <3> HIDE DEF T
    <3>3. \A j : Put(2, j, T(j)).id = j
      BY DEF Put
    <3> QED
      BY <3>1, <3>2, <3>3
  <2> HIDE DEF T
  <2> QED
    BY <2>1 DEF Staged
<1> QED
  BY <1>1, <1>2, KeptDelete, EnterKept

LEMMA ResetDeps ==
    ASSUME IInv, Staged(plan), NEW p \in Proc, ResetTaskList(p)
    PROVE  Staged(plan)' /\ NothingBroken
<1>1. PICK h \in DOMAIN files :
        Enter(p, "resetting", NoRequest, RaiseMark(h) \cup {Del(j) : j \in DOMAIN files})
  BY DEF ResetTaskList
<1>2. Staged(RaiseMark(h) \cup {Del(j) : j \in DOMAIN files})
  BY DEF Staged, RaiseMark, Mark, Del
<1>3. Kept(RaiseMark(h) \cup {Del(j) : j \in DOMAIN files})
  BY KeptReset
<1> QED
  BY <1>1, <1>2, <1>3, EnterKept DEF ResetTaskList

LEMMA CrashDeps ==
    ASSUME IInv, Staged(plan), NEW p \in Proc, Crash(p)
    PROVE  Staged(plan)' /\ crashes' # crashes
<1>1. crashes \in Nat
  BY BoundsAssumption DEF IInv, CallTypes
<1> QED
  BY <1>1 DEF Crash, Staged

LEMMA QuietDeps ==
    ASSUME Staged(plan), NEW p \in Proc,
           HooksAccept(p) \/ Get(p) \/ CheckTargets(p) \/ HooksBlock(p)
    PROVE  Staged(plan)' /\ NothingBroken
BY DEF HooksAccept, Get, CheckTargets, HooksBlock, DiskUnchanged, NothingBroken, Staged

\* The body of DependenciesKept.
Dependencies ==
    \/ Broken(Finished(files', plan')) \subseteq Broken(Finished(files, plan))
    \/ crashes' # crashes
    \/ \E p \in Proc : CommitsStale(p) \/ LinksTwice(p)

LEMMA DependenciesStep ==
    ASSUME IInv, Staged(plan), [Next]_vars
    PROVE  Staged(plan)' /\ [Dependencies]_vars
<1>1. CASE UNCHANGED vars
  BY <1>1 DEF vars, Staged
<1>2. ASSUME NEW p \in Proc,
             \/ Write(p) \/ Crash(p)
             \/ Create(p) \/ HooksAccept(p) \/ HooksRefuse(p)
             \/ Get(p) \/ DeleteTask(p) \/ CheckTargets(p) \/ HooksBlock(p)
             \/ UpdateWithDependencies(p)
             \/ Update(p) \/ BlockTask(p) \/ ClaimTask(p)
             \/ ResetTaskList(p) \/ UnassignTeammateTasks(p)
      PROVE  /\ Staged(plan)'
             /\ NothingBroken \/ crashes' # crashes \/ CommitsStale(p) \/ LinksTwice(p)
  BY <1>2, WriteKept, CrashDeps, CreateDeps, QuietDeps, DeleteDeps, UpdateDeps, BlockDeps,
     ClaimDeps, ResetDeps, UnassignDeps
<1> QED
  BY <1>1, <1>2 DEF Next, NothingBroken, Dependencies

\* "A blocks B" and "B is blocked by A" stay one fact, for any tasks, calls and
\* interleavings of their file writes: what breaks a reference is an update
\* that merges lists read before they changed, one that names a task twice, or
\* a process killed between two writes.
THEOREM DependenciesKeptHolds == Spec => DependenciesKept
<1> DEFINE S == Staged(plan)
<1>1. Init => S
  BY DEF Init, Staged
<1>2. IInv /\ S /\ [Next]_vars => S' /\ [Dependencies]_vars
  BY DependenciesStep
<1>3. Spec => []IInv
  BY InitIInv, NextStep, PTL DEF Spec
<1> HIDE DEF S
<1> QED
  BY <1>1, <1>2, <1>3, PTL DEF Spec, DependenciesKept, Dependencies

=============================================================================
