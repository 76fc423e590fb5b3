------------------------ MODULE StreamingToolsProofs ------------------------
(***************************************************************************)
(* StreamingTools for any number of tool calls, any cap and any            *)
(* interleaving: the invariants of the schedule runs, the finality of the  *)
(* results, and the refinement of ToolSchedule.                            *)
(***************************************************************************)
EXTENDS StreamingTools, FiniteSetTheorems, WellFoundedInduction, TLAPS

\* The variables processQueue works on, for statuses other than the current
\* ones: AddTool runs it on a queue that is one longer.
Status == {"absent", "queued", "executing", "completed", "yielded"}
RunnerState == {"none", "running", "completed", "closed", "exited"}

OneStory(add, st, rs, dn, rn) ==
    \A i \in Tool :
        /\ st[i] = "absent" <=> i > add
        /\ rn[i] = "running" <=> st[i] = "executing"
        /\ st[i] \in {"completed", "yielded"} <=> rs[i] # "none"
        /\ i \in dn \/ rn[i] \in {"completed", "closed", "exited"} => rs[i] # "none"

Ordered(st) ==
    \A i, j \in Tool : i < j /\ st[i] = "queued" => st[j] \in {"absent", "queued"}

Together(st) == Compatible({i \in Tool : st[i] = "executing"})

\* The invariant that a step needs from all the others.
IInv == TypeOK /\ Bookkeeping /\ RunsCompatibly /\ StartsInOrder

\* A compatible set stays so when it loses members.
LEMMA CompatibleSubset ==
    ASSUME NEW R \in SUBSET Tool, NEW T \in SUBSET R, Compatible(R)
    PROVE  Compatible(T)
<1>1. IsFiniteSet(R) /\ Cardinality(R) \in Nat
  <2>1. IsFiniteSet(Tool)
    BY NAssumption, FS_Interval DEF Tool
  <2> QED
    BY <2>1, FS_Subset, FS_CardinalityType
<1>2. Cardinality(T) <= Cardinality(R) /\ Cardinality(T) \in Nat
  BY <1>1, FS_Subset, FS_CardinalityType
<1> QED
  BY <1>1, <1>2, MaxConcurrentAssumption DEF Compatible

\* processQueue keeps the bookkeeping, starts in order and starts only what is
\* compatible with what executes already.
LEMMA ProcessQueueOK ==
    ASSUME TypeOK,
           NEW add \in 0 .. N, NEW st \in [Tool -> Status], NEW rn \in [Tool -> RunnerState],
           OneStory(add, st, result, done, rn), Ordered(st), Together(st),
           ProcessQueue(st, rn)
    PROVE  /\ status' \in [Tool -> Status]
           /\ result' \in [Tool -> Outcome \cup {"none", "synthetic"}]
           /\ done' \in SUBSET Tool
           /\ runner' \in [Tool -> RunnerState]
           /\ OneStory(add, status', result', done', runner')
           /\ Ordered(status')
           /\ Together(status')
<1>1. CASE errored
  <2> DEFINE queued == {i \in Tool : st[i] = "queued"}
  <2>1. /\ status' = [i \in Tool |-> IF i \in queued THEN "completed" ELSE st[i]]
        /\ result' = [i \in Tool |-> IF i \in queued THEN "synthetic" ELSE result[i]]
        /\ done' = done \cup queued
        /\ runner' = rn
    BY <1>1 DEF ProcessQueue
  <2>2. {i \in Tool : status'[i] = "executing"} = {i \in Tool : st[i] = "executing"}
    BY <2>1
  <2>3. OneStory(add, status', result', done', runner')
    BY <2>1 DEF OneStory, Tool
  <2> QED
    BY <2>1, <2>2, <2>3 DEF TypeOK, Ordered, Together, Status
<1>2. CASE ~errored
  <2>1. PICK S \in SUBSET Tool :
            /\ Startable(st, S)
            /\ status' = [i \in Tool |-> IF i \in S THEN "executing" ELSE st[i]]
            /\ runner' = [i \in Tool |-> IF i \in S THEN "running" ELSE rn[i]]
            /\ result' = result
            /\ done' = done
    BY <1>2 DEF ProcessQueue
  <2> DEFINE queued == {i \in Tool : st[i] = "queued"}
             executing == {i \in Tool : st[i] = "executing"}
  <2>2. /\ S \subseteq queued
        /\ \A i \in S : \A j \in queued : j < i => j \in S
        /\ S # {} => Compatible(executing \cup S)
    BY <2>1 DEF Startable
  <2>3. OneStory(add, status', result', done', runner')
    BY <2>1, <2>2 DEF OneStory
  <2>4. Ordered(status')
    <3> SUFFICES ASSUME NEW i \in Tool, NEW j \in Tool, i < j, status'[i] = "queued"
                 PROVE  status'[j] \in {"absent", "queued"}
      BY DEF Ordered
    <3>1. i \notin S /\ i \in queued
      BY <2>1
    <3>2. j \notin S
      BY <2>2, <3>1
    <3>3. st[j] \in {"absent", "queued"}
      BY <3>1 DEF Ordered
    <3> QED
      BY <2>1, <3>2, <3>3
  <2>5. {i \in Tool : status'[i] = "executing"} = executing \cup S
    BY <2>1
  <2>6. Together(status')
    BY <2>2, <2>5 DEF Together
  <2> QED
    BY <2>1, <2>3, <2>4, <2>6 DEF TypeOK, Status, RunnerState
<1> QED
  BY <1>1, <1>2 DEF TypeOK

\* What AwaitAll has waited for: the channels it received from, and all of
\* them unless it was cut short by a cancellation.
Waited ==
    /\ \A i \in Tool : i <= awaited => i \in done
    /\ engine \in {"building", "closing", "closed"} => cancelled \/ awaited = N
    /\ answered # {} /\ ~cancelled => answered = Tool
    /\ cancelled => MayCancel

LEMMA InitIInv == Init => IInv /\ Waited
<1> SUFFICES ASSUME Init PROVE IInv /\ Waited
  OBVIOUS
<1>1. With("executing") = {}
  BY DEF Init, With
<1>2. RunsCompatibly
  BY <1>1, FS_EmptySet, MaxConcurrentAssumption DEF RunsCompatibly, Compatible
<1>3. TypeOK
  <2>1. added \in 0 .. N /\ awaited \in 0 .. N
    BY NAssumption DEF Init
  <2>2. /\ status \in [Tool -> Status] /\ runner \in [Tool -> RunnerState]
        /\ result \in [Tool -> Outcome \cup {"none", "synthetic"}]
    BY DEF Init, Status, RunnerState
  <2>3. done \in SUBSET Tool /\ answered \in SUBSET Tool
    BY DEF Init
  <2>4. errored \in BOOLEAN /\ cancelled \in BOOLEAN /\ sentLate \in BOOLEAN
    BY DEF Init
  <2> QED
    BY <2>1, <2>2, <2>3, <2>4 DEF Init, TypeOK, Status, RunnerState
<1>4. Bookkeeping
  BY NAssumption DEF Init, Bookkeeping, Tool
<1>5. StartsInOrder
  BY DEF Init, StartsInOrder
<1>6. Waited
  BY NAssumption DEF Init, Waited, Tool
<1> QED
  BY <1>2, <1>3, <1>4, <1>5, <1>6 DEF IInv

\* A tool is added to the queue and the queue is looked at.
LEMMA AddToolIInv == IInv /\ AddTool => IInv'
<1> SUFFICES ASSUME IInv, AddTool PROVE IInv'
  OBVIOUS
<1> DEFINE st == [status EXCEPT ![added + 1] = "queued"]
<1>1. /\ TypeOK /\ Bookkeeping /\ RunsCompatibly /\ StartsInOrder
      /\ engine = "adding" /\ added' = added + 1
      /\ ProcessQueue(st, runner)
  BY DEF IInv, AddTool
<1>2. added + 1 \in 0 .. N /\ added \in 0 .. N /\ added + 1 \in Tool
  BY <1>1, NAssumption DEF TypeOK, Bookkeeping, Tool
<1>3. st \in [Tool -> Status] /\ runner \in [Tool -> RunnerState]
  BY <1>1 DEF TypeOK, Status, RunnerState
<1>4. OneStory(added + 1, st, result, done, runner)
  BY <1>1, <1>2 DEF TypeOK, Bookkeeping, OneStory, Tool
<1>5. Ordered(st)
  <2> SUFFICES ASSUME NEW i \in Tool, NEW j \in Tool, i < j, st[i] = "queued"
               PROVE  st[j] \in {"absent", "queued"}
    BY DEF Ordered
  <2>1. CASE i = added + 1
    BY <1>1, <1>2, <2>1 DEF TypeOK, Bookkeeping, Tool
  <2>2. CASE i # added + 1
    BY <1>1, <1>2, <2>2 DEF TypeOK, StartsInOrder, Tool
  <2> QED
    BY <2>1, <2>2
<1>6. Together(st)
  <2>1. status[added + 1] = "absent"
    BY <1>1, <1>2 DEF Bookkeeping, TypeOK
  <2>2. {i \in Tool : st[i] = "executing"} = With("executing")
    BY <1>1, <2>1 DEF With, TypeOK
  <2> QED
    BY <1>1, <2>2 DEF RunsCompatibly, Together, Compatible
<1>7. /\ status' \in [Tool -> Status]
      /\ result' \in [Tool -> Outcome \cup {"none", "synthetic"}]
      /\ done' \in SUBSET Tool
      /\ runner' \in [Tool -> RunnerState]
      /\ OneStory(added + 1, status', result', done', runner')
      /\ Ordered(status')
      /\ Together(status')
  <2> HIDE DEF st
  <2> QED
    BY <1>1, <1>2, <1>3, <1>4, <1>5, <1>6, ProcessQueueOK
<1>8. TypeOK'
  BY <1>1, <1>2, <1>7 DEF AddTool, TypeOK, Status, RunnerState
<1>9. Bookkeeping'
  BY <1>1, <1>2, <1>7, NAssumption DEF AddTool, Bookkeeping, OneStory
<1>10. StartsInOrder'
  BY <1>7 DEF StartsInOrder, Ordered
<1>11. RunsCompatibly'
  <2>1. kind' = kind
    BY DEF AddTool
  <2> QED
    BY <1>7, <2>1 DEF RunsCompatibly, Together, With, Compatible
<1> QED
  BY <1>8, <1>9, <1>10, <1>11 DEF IInv

\* A goroutine that ends looks at the queue.
LEMMA RequeueIInv == ASSUME NEW i \in Tool PROVE IInv /\ Requeue(i) => IInv'
<1> SUFFICES ASSUME IInv, Requeue(i) PROVE IInv'
  OBVIOUS
<1> DEFINE rn == [runner EXCEPT ![i] = "exited"]
<1>1. /\ TypeOK /\ Bookkeeping /\ RunsCompatibly /\ StartsInOrder
      /\ runner[i] = "closed"
      /\ ProcessQueue(status, rn)
  BY DEF IInv, Requeue
<1>2. status \in [Tool -> Status] /\ rn \in [Tool -> RunnerState] /\ added \in 0 .. N
  BY <1>1 DEF TypeOK, Status, RunnerState
<1>3. OneStory(added, status, result, done, rn)
  BY <1>1 DEF TypeOK, Bookkeeping, OneStory
<1>4. Ordered(status) /\ Together(status)
  BY <1>1 DEF StartsInOrder, Ordered, RunsCompatibly, Together, With, Compatible
<1>5. /\ status' \in [Tool -> Status]
      /\ result' \in [Tool -> Outcome \cup {"none", "synthetic"}]
      /\ done' \in SUBSET Tool
      /\ runner' \in [Tool -> RunnerState]
      /\ OneStory(added, status', result', done', runner')
      /\ Ordered(status')
      /\ Together(status')
  <2> HIDE DEF rn
  <2> QED
    BY <1>1, <1>2, <1>3, <1>4, ProcessQueueOK
<1>6. TypeOK'
  BY <1>1, <1>5 DEF Requeue, TypeOK, Status, RunnerState
<1>7. Bookkeeping'
  BY <1>1, <1>5 DEF Requeue, Bookkeeping, OneStory
<1>8. StartsInOrder'
  BY <1>5 DEF StartsInOrder, Ordered
<1>9. RunsCompatibly'
  <2>1. kind' = kind
    BY DEF Requeue
  <2> QED
    BY <1>5, <2>1 DEF RunsCompatibly, Together, With, Compatible
<1> QED
  BY <1>6, <1>7, <1>8, <1>9 DEF IInv

\* A step that starts nothing and queues nothing keeps the schedule.
LEMMA NothingStarts ==
    ASSUME IInv, kind' = kind,
           \A j \in Tool : status'[j] = "executing" => status[j] = "executing",
           \A j \in Tool : status'[j] = "queued" <=> status[j] = "queued",
           \A j \in Tool : status'[j] = "absent" <=> status[j] = "absent",
           status' \in [Tool -> Status]
    PROVE  RunsCompatibly' /\ StartsInOrder'
<1>1. With("executing")' \in SUBSET With("executing") /\ With("executing") \in SUBSET Tool
  BY DEF With
<1>2. Compatible(With("executing")')
  BY <1>1, CompatibleSubset DEF IInv, RunsCompatibly, Compatible
<1>3. RunsCompatibly'
  BY <1>2 DEF RunsCompatibly, Compatible
<1>4. StartsInOrder'
  BY DEF IInv, StartsInOrder, Status
<1> QED
  BY <1>3, <1>4

LEMMA CompleteIInv ==
    ASSUME NEW i \in Tool, NEW o \in Outcome PROVE IInv /\ Complete(i, o) => IInv'
<1> SUFFICES ASSUME IInv, Complete(i, o) PROVE IInv'
  OBVIOUS
<1>1. /\ TypeOK /\ Bookkeeping /\ runner[i] = "running" /\ status[i] = "executing"
      /\ kind' = kind /\ status' = [status EXCEPT ![i] = "completed"]
  BY DEF IInv, Complete, Bookkeeping
<1>2. TypeOK'
  BY <1>1 DEF Complete, TypeOK, Outcome
<1>3. Bookkeeping'
  BY <1>1 DEF Complete, Bookkeeping, TypeOK, Outcome
<1>4. RunsCompatibly' /\ StartsInOrder'
  BY <1>1, NothingStarts DEF TypeOK, Status
<1> QED
  BY <1>2, <1>3, <1>4 DEF IInv

LEMMA CollectIInv == IInv /\ AwaitCollect => IInv'
<1> SUFFICES ASSUME IInv, AwaitCollect PROVE IInv'
  OBVIOUS
<1>1. /\ TypeOK /\ Bookkeeping /\ kind' = kind
      /\ status' = [i \in Tool |-> IF Yields(i) THEN "yielded" ELSE status[i]]
  BY DEF IInv, AwaitCollect
<1>2. \A i \in Tool : Yields(i) => status[i] = "completed"
  BY DEF Yields
<1>3. \A i \in Tool :
        status'[i] = IF Yields(i) THEN "yielded" ELSE status[i]
  BY <1>1
<1>4. TypeOK'
  BY <1>1 DEF AwaitCollect, TypeOK
<1>5. Bookkeeping'
  BY <1>1, <1>2, <1>3 DEF AwaitCollect, Bookkeeping, TypeOK
<1>6. RunsCompatibly' /\ StartsInOrder'
  BY <1>1, <1>2, <1>3, NothingStarts DEF TypeOK, Status
<1> QED
  BY <1>4, <1>5, <1>6 DEF IInv

LEMMA NextIInv == IInv /\ [Next]_vars => IInv'
<1> SUFFICES ASSUME IInv, [Next]_vars PROVE IInv'
  OBVIOUS
<1>1. CASE AddTool
  BY <1>1, AddToolIInv
<1>2. CASE AwaitDone
  <2>1. TypeOK'
    BY <1>2, NAssumption DEF IInv, AwaitDone, TypeOK
  <2> QED
    BY <1>2, <2>1
    DEF IInv, AwaitDone, Bookkeeping, RunsCompatibly, StartsInOrder, With, Compatible
<1>3. CASE AwaitCancelled \/ BuildToolResultMessage \/ CloseOut
  <2>1. TypeOK'
    BY <1>3 DEF IInv, AwaitCancelled, BuildToolResultMessage, CloseOut, TypeOK, With
  <2> QED
    BY <1>3, <2>1
    DEF IInv, AwaitCancelled, BuildToolResultMessage, CloseOut, Bookkeeping,
        RunsCompatibly, StartsInOrder, With, Compatible
<1>4. CASE AwaitCollect
  BY <1>4, CollectIInv
<1>5. ASSUME NEW i \in Tool, NEW o \in Outcome, Complete(i, o) PROVE IInv'
  BY <1>5, CompleteIInv
<1>6. ASSUME NEW i \in Tool, CloseDone(i) PROVE IInv'
  <2>1. TypeOK'
    <3>1. done' \in SUBSET Tool
      BY <1>6 DEF IInv, CloseDone, TypeOK
    <3>2. runner' \in [Tool -> RunnerState]
      BY <1>6 DEF IInv, CloseDone, TypeOK, RunnerState
    <3>3. TypeOK /\ UNCHANGED <<kind, added, status, result, errored, cancelled,
                                engine, awaited, answered, sentLate>>
      BY <1>6 DEF IInv, CloseDone
    <3> QED
      BY <3>1, <3>2, <3>3 DEF TypeOK, RunnerState
  <2>2. Bookkeeping'
    BY <1>6 DEF IInv, CloseDone, TypeOK, Bookkeeping
  <2> QED
    BY <1>6, <2>1, <2>2
    DEF IInv, CloseDone, RunsCompatibly, StartsInOrder, With, Compatible
<1>7. ASSUME NEW i \in Tool, Requeue(i) PROVE IInv'
  BY <1>7, RequeueIInv
<1>8. ASSUME NEW i \in Tool, SendEvent(i) PROVE IInv'
  <2>1. TypeOK'
    BY <1>8 DEF IInv, SendEvent, TypeOK
  <2> QED
    BY <1>8, <2>1
    DEF IInv, SendEvent, Bookkeeping, RunsCompatibly, StartsInOrder, With, Compatible
<1>9. CASE Cancel
  <2>1. TypeOK'
    BY <1>9 DEF IInv, Cancel, TypeOK
  <2> QED
    BY <1>9, <2>1
    DEF IInv, Cancel, Bookkeeping, RunsCompatibly, StartsInOrder, With, Compatible
<1>10. CASE UNCHANGED vars
  BY <1>10
  DEF IInv, vars, TypeOK, Bookkeeping, RunsCompatibly, StartsInOrder, With, Compatible
<1> QED
  BY <1>1, <1>2, <1>3, <1>4, <1>5, <1>6, <1>7, <1>8, <1>9, <1>10
  DEF Next, Engine, Runner

LEMMA Inductive == Spec => []IInv
<1>1. Init => IInv
  BY InitIInv
<1> QED
  BY <1>1, NextIInv, PTL DEF Spec

-----------------------------------------------------------------------------
\* Every variable keeps its type.
THEOREM TypeCorrect == Spec => []TypeOK
<1>1. IInv => TypeOK
  BY DEF IInv
<1> QED
  BY <1>1, Inductive, PTL

\* Statuses, goroutines, results and done channels agree.
THEOREM BookkeepingCorrect == Spec => []Bookkeeping
<1>1. IInv => Bookkeeping
  BY DEF IInv
<1> QED
  BY <1>1, Inductive, PTL

\* Exclusive tools run alone and safe tools never exceed the cap.
THEOREM Exclusion == Spec => []RunsCompatibly
<1>1. IInv => RunsCompatibly
  BY DEF IInv
<1> QED
  BY <1>1, Inductive, PTL

\* Tool calls start in the order of the response.
THEOREM InOrder == Spec => []StartsInOrder
<1>1. IInv => StartsInOrder
  BY DEF IInv
<1> QED
  BY <1>1, Inductive, PTL

\* A stored result is never overwritten: only processQueue and Complete store
\* one, for tools that are queued or executing.
LEMMA ResultStep == IInv /\ [Next]_vars => \A i \in Tool : result[i] # "none" => result'[i] = result[i]
<1> SUFFICES ASSUME IInv, [Next]_vars, NEW i \in Tool, result[i] # "none"
             PROVE  result'[i] = result[i]
  OBVIOUS
<1>1. /\ TypeOK /\ Bookkeeping
      /\ status[i] \in {"completed", "yielded"}
      /\ i <= added
  BY DEF IInv, Bookkeeping, TypeOK, Tool
<1>2. CASE AddTool
  <2>1. ProcessQueue([status EXCEPT ![added + 1] = "queued"], runner) /\ i # added + 1
    BY <1>1, <1>2 DEF AddTool, TypeOK, Tool
  <2> QED
    BY <1>1, <2>1 DEF ProcessQueue, TypeOK
<1>3. ASSUME NEW j \in Tool, Requeue(j) PROVE result'[i] = result[i]
  BY <1>1, <1>3 DEF Requeue, ProcessQueue, TypeOK
<1>4. ASSUME NEW j \in Tool, NEW o \in Outcome, Complete(j, o) PROVE result'[i] = result[i]
  <2>1. i # j
    BY <1>1, <1>4 DEF Complete, Bookkeeping
  <2> QED
    BY <1>1, <1>4, <2>1 DEF Complete, TypeOK
<1>5. CASE UNCHANGED result
  BY <1>5
<1> QED
  BY <1>2, <1>3, <1>4, <1>5
  DEF Next, Engine, Runner, AwaitDone, AwaitCancelled, AwaitCollect,
      BuildToolResultMessage, CloseOut, CloseDone, SendEvent, Cancel, vars

\* Neither a late tool nor the cascade changes a result once it is stored.
THEOREM OneResult == Spec => ResultsFinal
<1>1. IInv /\ [Next]_vars => [\A i \in Tool : result[i] # "none" => result'[i] = result[i]]_vars
  BY ResultStep
<1> QED
  BY <1>1, Inductive, PTL DEF Spec, ResultsFinal

-----------------------------------------------------------------------------
\* What AwaitAll waits for stays waited for.
LEMMA NextWaited == IInv /\ Waited /\ [Next]_vars => Waited'
<1> SUFFICES ASSUME IInv, Waited, [Next]_vars PROVE Waited'
  OBVIOUS
<1>1. TypeOK /\ Bookkeeping /\ N \in Nat
  BY NAssumption DEF IInv
<1>2. ASSUME NEW st, NEW rn, ProcessQueue(st, rn),
             UNCHANGED <<cancelled, awaited, answered>>,
             engine' = engine \/ engine' \in {"adding", "awaiting"}
      PROVE  Waited'
  <2>1. done \subseteq done'
    BY <1>2 DEF ProcessQueue
  <2> QED
    BY <1>2, <2>1 DEF Waited
<1>3. CASE AddTool
  <2>1. ProcessQueue([status EXCEPT ![added + 1] = "queued"], runner)
    BY <1>3 DEF AddTool
  <2> QED
    BY <1>2, <1>3, <2>1 DEF AddTool
<1>4. CASE AwaitDone
  BY <1>1, <1>4 DEF AwaitDone, Waited, TypeOK, Tool
<1>5. CASE AwaitCancelled \/ AwaitCollect \/ CloseOut
  BY <1>5 DEF AwaitCancelled, AwaitCollect, CloseOut, Waited
<1>6. CASE BuildToolResultMessage
  <2>1. ASSUME ~cancelled PROVE answered' = Tool
    <3>1. \A i \in Tool : i \in done
      BY <1>1, <1>6, <2>1 DEF BuildToolResultMessage, Waited, Tool
    <3>2. \A i \in Tool : status[i] \in {"completed", "yielded"}
      BY <1>1, <3>1 DEF Bookkeeping
    <3> QED
      BY <1>6, <3>2 DEF BuildToolResultMessage, With
  <2> QED
    BY <1>6, <2>1 DEF BuildToolResultMessage, Waited
<1>7. ASSUME NEW i \in Tool, Runner(i) \/ SendEvent(i) PROVE Waited'
  <2>1. CASE Requeue(i)
    BY <1>2, <2>1 DEF Requeue
  <2>2. CASE CloseDone(i)
    BY <2>2 DEF CloseDone, Waited
  <2>3. CASE SendEvent(i) \/ \E o \in Outcome : Complete(i, o)
    BY <2>3 DEF SendEvent, Complete, Waited
  <2> QED
    BY <1>7, <2>1, <2>2, <2>3 DEF Runner
<1>8. CASE Cancel
  BY <1>8 DEF Cancel, Waited
<1>9. CASE UNCHANGED vars
  BY <1>9 DEF vars, Waited
<1> QED
  BY <1>3, <1>4, <1>5, <1>6, <1>7, <1>8, <1>9 DEF Next, Engine

LEMMA WaitedCorrect == Spec => []Waited
<1>1. Init => Waited
  BY InitIInv
<1> QED
  BY <1>1, NextWaited, Inductive, PTL DEF Spec

\* A run that nobody cancelled leaves no tool_use without its tool_result.
THEOREM EveryCallAnswered == Spec => []AllAnswered
<1>1. Waited => AllAnswered
  BY DEF Waited, AllAnswered
<1> QED
  BY <1>1, WaitedCorrect, PTL

\* Where the user cannot cancel, no tool outlives the event channel.
THEOREM NoLateSend == ASSUME MayCancel = FALSE PROVE Spec => []NoSendAfterClose
<1>1. Init => NoSendAfterClose
  BY DEF Init, NoSendAfterClose
<1>2. IInv /\ Waited /\ NoSendAfterClose /\ [Next]_vars => NoSendAfterClose'
  <2> SUFFICES ASSUME IInv, Waited, NoSendAfterClose, [Next]_vars PROVE NoSendAfterClose'
    OBVIOUS
  <2>1. ASSUME NEW i \in Tool, SendEvent(i) PROVE engine # "closed"
    <3> SUFFICES ASSUME engine = "closed" PROVE FALSE
      OBVIOUS
    <3>1. i \in done
      BY NAssumption DEF Waited, Tool
    <3>2. status[i] \in {"completed", "yielded"}
      BY <3>1 DEF IInv, Bookkeeping
    <3> QED
      BY <2>1, <3>2 DEF SendEvent, IInv, Bookkeeping
  <2> QED
    BY <2>1
    DEF Next, Engine, Runner, AddTool, AwaitDone, AwaitCancelled, AwaitCollect,
        BuildToolResultMessage, CloseOut, Complete, CloseDone, Requeue, SendEvent,
        Cancel, vars, NoSendAfterClose
<1> QED
  BY <1>1, <1>2, Inductive, WaitedCorrect, PTL DEF Spec

-----------------------------------------------------------------------------
(* Nobody waits in vain. *)

Alive == {"running", "completed", "closed"}

\* A queue is never left without a goroutine that will look at it.
QueueAttended(st, rn) ==
    (\E i \in Tool : st[i] = "queued") => \E j \in Tool : rn[j] \in Alive

\* A result whose done channel is still open is about to close it.
ChannelAttended(st, dn, rn) ==
    \A i \in Tool : st[i] \in {"completed", "yielded"} /\ i \notin dn => rn[i] = "completed"

Attended == QueueAttended(status, runner) /\ ChannelAttended(status, done, runner)

LEMMA FirstTool ==
    ASSUME NEW S \in SUBSET Tool, S # {}
    PROVE  \E i \in S : \A j \in S : ~(j < i)
<1>1. Tool \subseteq Nat
  BY NAssumption DEF Tool
<1>2. PICK i \in S : \A j \in S : <<j, i>> \notin OpToRel(<, Nat)
  BY <1>1, NatLessThanWellFounded, WFMin, Zenon
<1>3. ASSUME NEW j \in S PROVE ~(j < i)
  <2>1. <<j, i>> \notin OpToRel(<, Nat) /\ j \in Nat /\ i \in Nat
    BY <1>1, <1>2
  <2> QED
    BY <2>1 DEF OpToRel
<1> QED
  BY <1>3

\* When nothing executes processQueue starts the head of the queue, or fails
\* the whole queue after an error: it never goes away and leaves work behind.
LEMMA ProcessQueueAttends ==
    ASSUME TypeOK,
           NEW st \in [Tool -> Status], NEW rn \in [Tool -> RunnerState],
           \A i \in Tool : st[i] = "executing" => rn[i] = "running",
           ChannelAttended(st, done, rn),
           ProcessQueue(st, rn)
    PROVE  Attended'
<1>1. CASE errored
  <2> DEFINE queued == {i \in Tool : st[i] = "queued"}
  <2>1. /\ status' = [i \in Tool |-> IF i \in queued THEN "completed" ELSE st[i]]
        /\ done' = done \cup queued
        /\ runner' = rn
    BY <1>1 DEF ProcessQueue
  <2>2. \A i \in Tool : status'[i] # "queued"
    BY <2>1
  <2>3. ChannelAttended(status', done', runner')
    BY <2>1 DEF ChannelAttended
  <2>4. QueueAttended(status', runner')
    BY <2>2 DEF QueueAttended
  <2> QED
    BY <2>3, <2>4 DEF Attended, QueueAttended, ChannelAttended
<1>2. CASE ~errored
  <2>1. PICK S \in SUBSET Tool :
            /\ Startable(st, S)
            /\ status' = [i \in Tool |-> IF i \in S THEN "executing" ELSE st[i]]
            /\ runner' = [i \in Tool |-> IF i \in S THEN "running" ELSE rn[i]]
            /\ done' = done
    BY <1>2 DEF ProcessQueue
  <2> DEFINE queued == {i \in Tool : st[i] = "queued"}
             executing == {i \in Tool : st[i] = "executing"}
  <2>2. ChannelAttended(status', done', runner')
    BY <2>1 DEF ChannelAttended
  <2>3. QueueAttended(status', runner')
    <3>1. CASE S # {}
      BY <2>1, <3>1 DEF QueueAttended, Alive
    <3>2. CASE executing # {}
      <4>1. PICK j \in Tool : st[j] = "executing" /\ rn[j] = "running"
        BY <3>2
      <4>2. runner'[j] = "running"
        BY <2>1, <4>1
      <4> QED
        BY <4>1, <4>2 DEF QueueAttended, Alive
    <3>3. CASE S = {} /\ executing = {} /\ queued # {}
      <4>1. PICK i \in queued : \A j \in queued : ~(j < i)
        BY <3>3, FirstTool
      <4>2. ~Compatible(executing \cup S \cup {i})
        BY <2>1, <3>3, <4>1 DEF Startable
      <4>3. executing \cup S \cup {i} = {i}
        BY <3>3
      <4>4. Compatible({i})
        <5>1. Cardinality({i}) = 1
          BY FS_Singleton
        <5> QED
          BY <5>1, MaxConcurrentAssumption DEF Compatible
      <4> QED
        BY <4>2, <4>3, <4>4
    <3>4. CASE S = {} /\ queued = {}
      <4>1. \A i \in Tool : status'[i] # "queued"
        BY <2>1, <3>4
      <4> QED
        BY <4>1 DEF QueueAttended
    <3> HIDE DEF queued, executing
    <3> QED
      BY <3>1, <3>2, <3>3, <3>4
  <2> QED
    BY <2>2, <2>3 DEF Attended, QueueAttended, ChannelAttended
<1> QED
  BY <1>1, <1>2

LEMMA NextAttended == IInv /\ Attended /\ [Next]_vars => Attended'
<1> SUFFICES ASSUME IInv, Attended, [Next]_vars PROVE Attended'
  OBVIOUS
<1>1. TypeOK /\ Bookkeeping
  BY DEF IInv
<1>2. status \in [Tool -> Status] /\ runner \in [Tool -> RunnerState]
  BY <1>1 DEF TypeOK, Status, RunnerState
<1>3. CASE AddTool
  <2> DEFINE st == [status EXCEPT ![added + 1] = "queued"]
  <2>1. ProcessQueue(st, runner)
    BY <1>3 DEF AddTool
  <2>2. st \in [Tool -> Status]
    BY <1>2 DEF Status
  <2>3. \A i \in Tool : st[i] = "executing" => runner[i] = "running"
    BY <1>1, <1>2 DEF Bookkeeping
  <2>4. ChannelAttended(st, done, runner)
    BY <1>2 DEF Attended, ChannelAttended
  <2> QED
    BY <1>1, <1>2, <2>1, <2>2, <2>3, <2>4, ProcessQueueAttends
<1>4. CASE AwaitCollect
  <2>1. UNCHANGED <<runner, done>>
    BY <1>4 DEF AwaitCollect
  <2>2. \A i \in Tool : status'[i] = status[i] \/ (status[i] = "completed" /\ status'[i] = "yielded")
    BY <1>2, <1>4 DEF AwaitCollect, Yields
  <2> QED
    BY <2>1, <2>2 DEF Attended, QueueAttended, ChannelAttended
<1>5. ASSUME NEW i \in Tool, NEW o \in Outcome, Complete(i, o) PROVE Attended'
  <2>1. /\ status' = [status EXCEPT ![i] = "completed"]
        /\ runner' = [runner EXCEPT ![i] = "completed"]
        /\ done' = done
    BY <1>5 DEF Complete
  <2>2. ChannelAttended(status', done', runner')
    BY <1>2, <2>1 DEF Attended, ChannelAttended
  <2>3. runner'[i] = "completed"
    BY <1>2, <2>1
  <2>4. QueueAttended(status', runner')
    BY <2>3 DEF QueueAttended, Alive
  <2> QED
    BY <2>2, <2>4 DEF Attended, QueueAttended, ChannelAttended
<1>6. ASSUME NEW i \in Tool, CloseDone(i) PROVE Attended'
  <2>1. /\ status' = status /\ done' = done \cup {i}
        /\ runner' = [runner EXCEPT ![i] = "closed"]
    BY <1>6 DEF CloseDone
  <2>2. ChannelAttended(status', done', runner')
    BY <1>2, <2>1 DEF Attended, ChannelAttended
  <2>3. runner'[i] = "closed"
    BY <1>2, <2>1
  <2>4. QueueAttended(status', runner')
    BY <2>3 DEF QueueAttended, Alive
  <2> QED
    BY <2>2, <2>4 DEF Attended, QueueAttended, ChannelAttended
<1>7. ASSUME NEW i \in Tool, Requeue(i) PROVE Attended'
  <2> DEFINE rn == [runner EXCEPT ![i] = "exited"]
  <2>1. ProcessQueue(status, rn) /\ runner[i] = "closed"
    BY <1>7 DEF Requeue
  <2>2. rn \in [Tool -> RunnerState]
    BY <1>2 DEF RunnerState
  <2>3. \A j \in Tool : status[j] = "executing" => rn[j] = "running"
    BY <1>1, <1>2, <2>1 DEF Bookkeeping
  <2>4. ChannelAttended(status, done, rn)
    BY <1>2, <2>1 DEF Attended, ChannelAttended
  <2> QED
    BY <1>1, <1>2, <2>1, <2>2, <2>3, <2>4, ProcessQueueAttends
<1>8. CASE UNCHANGED <<status, done, runner>>
  BY <1>8 DEF Attended, QueueAttended, ChannelAttended
<1> QED
  BY <1>3, <1>4, <1>5, <1>6, <1>7, <1>8
  DEF Next, Engine, Runner, AwaitDone, AwaitCancelled, BuildToolResultMessage,
      CloseOut, SendEvent, Cancel, vars

NobodyWaitsInVain ==
    \A i \in 1 .. added :
        \/ i \in done
        \/ runner[i] \in {"running", "completed"}
        \/ status[i] = "queued" /\ \E j \in Tool : runner[j] \in Alive

\* No lost wakeup: a tool call that has been added is done, or its goroutine
\* has still to finish it, or it is queued and some goroutine has yet to look
\* at the queue; what AwaitAll waits for is always on its way.
THEOREM NoLostWakeup == Spec => []NobodyWaitsInVain
<1>1. Init => Attended
  BY DEF Init, Attended, QueueAttended, ChannelAttended
<1>2. IInv /\ Attended => NobodyWaitsInVain
  <2> SUFFICES ASSUME IInv, Attended, NEW i \in 1 .. added
               PROVE  \/ i \in done
                      \/ runner[i] \in {"running", "completed"}
                      \/ status[i] = "queued" /\ \E j \in Tool : runner[j] \in Alive
    BY DEF NobodyWaitsInVain
  <2>1. i \in Tool /\ ~(i > added)
    BY NAssumption DEF IInv, TypeOK, Tool
  <2>2. status[i] \in Status \ {"absent"}
    BY <2>1 DEF IInv, TypeOK, Bookkeeping, Status
  <2>3. CASE status[i] = "queued"
    BY <2>1, <2>3 DEF Attended, QueueAttended
  <2>4. CASE status[i] = "executing"
    BY <2>1, <2>4 DEF IInv, Bookkeeping
  <2>5. CASE status[i] \in {"completed", "yielded"}
    BY <2>1, <2>5 DEF Attended, ChannelAttended
  <2> QED
    BY <2>2, <2>3, <2>4, <2>5 DEF Status
<1> QED
  BY <1>1, <1>2, NextAttended, Inductive, PTL DEF Spec

-----------------------------------------------------------------------------
(* The refinement: the barred variables are those of ToolSchedule. *)

barExclusive == {i \in Tool : kind[i] # "safe"}
Phase(s) ==
    CASE s \in {"absent", "queued"} -> "pending"
      [] s = "executing" -> "running"
      [] OTHER -> "finished"
barPhase == [i \in Tool |-> Phase(status[i])]
barNext == [Schedule!Next]_<<barExclusive, barPhase, errored>>

LEMMA BarVars ==
    /\ Schedule!vars = <<barExclusive, barPhase, errored>>
    /\ Schedule!Tool = Tool
BY DEF Schedule!vars, Schedule!Tool, Tool, barExclusive, barPhase, Phase

\* A step of processQueue is a Start or an Abandon of the schedule, or none.
LEMMA QueueRefines ==
    ASSUME IInv, NEW st \in [Tool -> Status], NEW rn,
           \A i \in Tool : Phase(st[i]) = Phase(status[i]),
           \A i, j \in Tool : i < j /\ st[j] = "queued" => st[i] # "absent",
           ProcessQueue(st, rn), UNCHANGED <<kind, errored>>
    PROVE  \/ \E S \in SUBSET Tool : Schedule!Start(S) \/ Schedule!Abandon(S)
           \/ UNCHANGED barPhase
<1>1. CASE errored
  <2> DEFINE S == {i \in Tool : st[i] = "queued"}
  <2>1. status' = [i \in Tool |-> IF i \in S THEN "completed" ELSE st[i]]
    BY <1>1 DEF ProcessQueue
  <2>2. barPhase' = [i \in Tool |-> IF i \in S THEN "finished" ELSE barPhase[i]]
    BY <2>1 DEF barPhase, Phase
  <2>3. S \subseteq {i \in Tool : barPhase[i] = "pending"}
    BY DEF barPhase, Phase
  <2>4. CASE S = {}
    BY <2>2, <2>4 DEF barPhase
  <2>5. CASE S # {}
    <3>1. Schedule!Abandon(S)
      BY <1>1, <2>2, <2>3, <2>5
      DEF Schedule!Abandon, Schedule!In, Schedule!Tool, Tool, barPhase, Phase
    <3> QED
      BY <3>1
  <2> QED
    BY <2>4, <2>5
<1>2. CASE ~errored
  <2>1. PICK S \in SUBSET Tool :
            /\ Startable(st, S)
            /\ status' = [i \in Tool |-> IF i \in S THEN "executing" ELSE st[i]]
    BY <1>2 DEF ProcessQueue
  <2> DEFINE queued == {i \in Tool : st[i] = "queued"}
             executing == {i \in Tool : st[i] = "executing"}
             pending == {i \in Tool : barPhase[i] = "pending"}
  <2>2. /\ S \subseteq queued
        /\ \A i \in S : \A j \in queued : j < i => j \in S
        /\ S # {} => Compatible(executing \cup S)
    BY <2>1 DEF Startable
  <2>3. barPhase' = [i \in Tool |-> IF i \in S THEN "running" ELSE barPhase[i]]
    BY <2>1 DEF barPhase, Phase
  <2>4. CASE S = {}
    BY <2>3, <2>4 DEF barPhase
  <2>5. CASE S # {}
    <3>1. pending = {i \in Tool : st[i] \in {"absent", "queued"}}
      BY DEF barPhase, Phase, Status
    <3>2. S \subseteq pending
      BY <2>2, <3>1
    <3>3. \A i \in S : \A j \in pending : j < i => j \in S
      BY <2>2, <3>1
    <3>4. {i \in Tool : barPhase[i] = "running"} = executing
      BY DEF barPhase, Phase, Status
    <3>5. Cardinality(executing \cup S) <= MaxConcurrent
      BY <2>2, <2>5 DEF Compatible
    <3>6. \A i, j \in executing \cup S : i \in barExclusive => i = j
      BY <2>2, <2>5 DEF Compatible, barExclusive
    <3>7. Schedule!Compatible(executing \cup S)
      <4>1. Schedule!Cardinality(executing \cup S) = Cardinality(executing \cup S)
        BY DEF Schedule!Cardinality, Cardinality
      <4> QED
        BY <3>5, <3>6, <4>1 DEF Schedule!Compatible, barExclusive
    <3>8. Schedule!Start(S)
      BY <1>2, <2>3, <2>5, <3>2, <3>3, <3>4, <3>7
      DEF Schedule!Start, Schedule!In, Schedule!Tool, Tool, barExclusive, barPhase, Phase
    <3> QED
      BY <3>8
  <2> QED
    BY <2>4, <2>5
<1> QED
  BY <1>1, <1>2

LEMMA StepRefines == IInv /\ [Next]_vars => [Schedule!Next]_Schedule!vars
<1> SUFFICES ASSUME IInv, [Next]_vars PROVE barNext
  BY DEF barNext, Schedule!vars, barExclusive, barPhase, Phase
<1>1. TypeOK /\ Bookkeeping
  BY DEF IInv
<1>2. CASE AddTool
  <2> DEFINE st == [status EXCEPT ![added + 1] = "queued"]
  <2>1. /\ ProcessQueue(st, runner) /\ UNCHANGED <<kind, errored>>
        /\ added + 1 \in Tool /\ status[added + 1] = "absent"
    BY <1>1, <1>2, NAssumption DEF AddTool, TypeOK, Bookkeeping, Tool
  <2>2. st \in [Tool -> Status]
    BY <1>1 DEF TypeOK, Status
  <2>3. \A i \in Tool : Phase(st[i]) = Phase(status[i])
    BY <1>1, <2>1 DEF Phase, TypeOK
  <2>4. \A i, j \in Tool : i < j /\ st[j] = "queued" => st[i] # "absent"
    BY <1>1, <2>1 DEF TypeOK, Bookkeeping, Tool
  <2>5. \/ \E S \in SUBSET Tool : Schedule!Start(S) \/ Schedule!Abandon(S)
        \/ UNCHANGED barPhase
    <3> HIDE DEF st
    <3> QED
      BY <2>1, <2>2, <2>3, <2>4, QueueRefines
  <2> QED
    BY <2>1, <2>5, BarVars DEF Schedule!Next, barNext, barExclusive
<1>3. ASSUME NEW i \in Tool, Requeue(i) PROVE barNext
  <2> DEFINE rn == [runner EXCEPT ![i] = "exited"]
  <2>1. ProcessQueue(status, rn) /\ UNCHANGED <<kind, errored>>
    BY <1>3 DEF Requeue
  <2>2. status \in [Tool -> Status]
    BY <1>1 DEF TypeOK, Status
  <2>3. \A j, k \in Tool : j < k /\ status[k] = "queued" => status[j] # "absent"
    BY <1>1 DEF TypeOK, Bookkeeping, Tool
  <2>4. \/ \E S \in SUBSET Tool : Schedule!Start(S) \/ Schedule!Abandon(S)
        \/ UNCHANGED barPhase
    <3> HIDE DEF rn
    <3> QED
      BY <2>1, <2>2, <2>3, QueueRefines
  <2> QED
    BY <2>1, <2>4, BarVars DEF Schedule!Next, barNext, barExclusive
<1>4. ASSUME NEW i \in Tool, NEW o \in Outcome, Complete(i, o) PROVE barNext
  <2>1. barPhase[i] = "running"
    BY <1>1, <1>4 DEF Complete, Bookkeeping, barPhase, Phase
  <2>2. barPhase' = [barPhase EXCEPT ![i] = "finished"]
    BY <1>1, <1>4 DEF Complete, TypeOK, barPhase, Phase
  <2>3. errored' \in {errored, TRUE}
    BY <1>1, <1>4 DEF Complete, TypeOK
  <2>4. Schedule!Finish(i)
    BY <1>4, <2>1, <2>2, <2>3
    DEF Complete, Schedule!Finish, barExclusive, barPhase, Phase
  <2> QED
    BY <2>4, BarVars DEF Schedule!Next, barNext
<1>5. CASE AwaitCollect
  <2>1. \A i \in Tool : Yields(i) => status[i] = "completed"
    BY DEF Yields
  <2>2. UNCHANGED barPhase
    BY <1>5, <2>1 DEF AwaitCollect, barPhase, Phase
  <2> QED
    BY <1>5, <2>2 DEF AwaitCollect, barNext, barExclusive
<1>6. CASE UNCHANGED <<kind, status, errored>>
  BY <1>6 DEF barNext, barExclusive, barPhase
<1> QED
  BY <1>2, <1>3, <1>4, <1>5, <1>6
  DEF Next, Engine, Runner, AwaitDone, AwaitCancelled, BuildToolResultMessage,
      CloseOut, CloseDone, SendEvent, Cancel, vars

\* The executor, with its locks, goroutines and channels, implements the
\* schedule.
THEOREM Refinement == Spec => ImplementsSchedule
<1>1. Init => Schedule!Init
  BY DEF Init, Schedule!Init, Schedule!Tool, Tool
<1> QED
  BY <1>1, StepRefines, Inductive, PTL DEF Spec, ImplementsSchedule, Schedule!Spec
=============================================================================
