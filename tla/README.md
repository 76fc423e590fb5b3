# TLA+ verification of claude-code-go

This directory holds TLA+ models of the parts of this repository where a mistake would
come from the *order* of things: goroutines that race for a mutex, answers that arrive
late, retries, failovers, compactions of a conversation in the middle of a tool round,
processes that share files and are killed between two writes.
TLC checks the models on small instances; TLAPS proves the most important facts for
every value of the constants.

Paths below are relative to `src/`; `engine/` stands for `internal/runtime/engine/`.

## 1. The system

Claude Code Go is a terminal agent. A user's message starts a *run*: the engine sends the
conversation to a model provider, executes the tools the answer asks for, appends their
results, and repeats until the model answers without a tool call.

| Component | State | Operations | Interacts with |
|---|---|---|---|
| **Engine run loop** `engine/engine.go` (`Run`, `runLoop`), `engine/budget.go` | history, tool-loop / continuation / recovery / compaction counters, token budget tracker | one loop turn: auto-compact, model call, emergency recovery, continuation, nudge, stop hooks, tool round | compaction, model call, tool executor, hooks; owns the event channel to the UI |
| **Conversation compaction** `internal/core/compact/compact.go`, `boundary.go` | none (pure functions on messages) and failure counters | strip images, split off the preserved tail, summarize, truncate the head when the summary request is too long | engine, model provider |
| **Model call** `engine/engine.go` (`streamAndConsume`), `engine/retry.go`, `engine/provider_pool.go` | attempt counter, last error, provider order | attempt, backoff, pool failover, fallback model, fallback clients | circuit-breaker clients |
| **Circuit breaker** `internal/core/model/circuit_breaker.go`, `engine/circuit_breaker_client.go` | state, failure / trial / success counters, time of the last failure | `CanExecute`, `RecordSuccess`, `RecordFailure` | shared by the main conversation and all sub-agents |
| **Streaming tool executor** `engine/streaming_tool.go`, `sibling_cascade.go` | queue of tracked tools, statuses, done channels, cascade flag | `AddTool`, `processQueue`, `runTool`, `CollectResults`, `AwaitAll`, cascade on a failing Bash call | engine goroutine, one goroutine per tool, event channel, run context |
| **Task store** `internal/core/task/store.go`, tools `task_create`, `task_update` | one JSON file per task, `.highwatermark`, `.lock` | create, update, delete, block, claim, reset, unassign; TaskUpdate in two locked steps | agents of several processes |
| **Background tasks** `internal/runtime/session/background_tasks.go`, `services/tools/agent/background.go`, Bash and PowerShell tools | entries with a snapshot and a controller | register, update, remove, stop, resume | goroutines of agents and commands, TaskStop, `/tasks` |
| **Cron** `internal/runtime/cron/`, `platform/store/cron_persistence.go`, cron tools | `scheduled_tasks.lock`, `scheduled_tasks.json`; per session: owner, tasks in flight | start, stop, probe, check, load missed tasks, create, delete | sessions of one project, through the two files |
| **Mailbox** `internal/platform/mailbox/`, tool `send_message` | one JSON inbox per teammate, its lock file; per poller: running flag, stop channel | send, create the inbox, start, stop, poll, mark as read | agents of several processes, through the file; the poller's callback |
| **Coordinator** `internal/runtime/coordinator/` | workers with a state and a cancel function | schedule, execute, stop, collect | sub-agent runner |
| **Batch tool execution** `internal/runtime/executor/`, `engine/tool_cycle.go` | none beyond a call | run a batch of calls in groups | tools |
| **Approval** `internal/runtime/approval/`, **hooks**, **sessions and transcripts**, **team files**, **REPL, UI**, **provider / MCP / LSP / OAuth clients** | see `PROJECT.json` | | |

What is hard about each, and what makes it correct:

* *Circuit breaker.* The provider is called outside the lock, so a result may be recorded
  in a state other than the one that admitted the call. Correct: counters agree with the
  state; at most `HalfOpenMaxRequests` trials are under way; an open breaker lets nobody
  through; it recovers after its timeout.
* *Tool executor.* Every goroutine that finishes scans the queue. Correct: an exclusive
  tool runs alone, at most the configured number run together, calls start in the order
  the model issued them, nothing is forgotten in the queue, every call gets exactly one
  result, and nobody uses the event channel after it is closed.
* *Run loop and compaction.* Messages are cut, summarized and put back. Correct: every
  `tool_use` in a request is answered by the next message and no `tool_result` is without
  its `tool_use`; a truncated answer keeps its cut-off point until the model resumes it;
  the latest user turn reaches the model unaltered; the run ends.
* *Model call.* Retries, pool failover and fallback searches nest. Correct: no fallback
  before its time and none skipped; the number of paid requests is bounded; the call
  ends; shared breakers stay consistent and recover.
* *Task store.* An operation is exclusive but writes several files, and a process may be
  killed before any of them; `TaskUpdate` reads under one lock and writes under the next.
  Correct: an identifier never means a second task; "blocks" and "is blocked by" stay one
  fact; a task changes hands for a reason; the busy check means what it says.
* *Background tasks.* `Stop` and `Resume` read an entry, let go of the mutex around the call
  to its controller, and write the entry; a cancelled run reports late. Correct: a run at
  work can be stopped, a task listed as running runs, the end of a command is told once.
* *Cron.* Sessions decide by a lock file who fires tasks, and rewrite the task file without a
  lock between processes. Correct: one owner, who is replaced when it is gone; no task fires
  again while it is being removed.
* *Mailbox.* Writers hold a lock, readers do not, a rewrite truncates the file first, and a poll
  is a read, a callback and a rewrite. Correct: no message and no mark is lost; what is marked as
  read was handed over; a message is handed over once; a send is not refused.
* *Coordinator.* A stop can come before the cancel function is stored.

`PROJECT.json` lists every hazard with its line under `hazards`.

## 2. The modules

    CircuitBreaker ── BreakerClient ── MCBreakerClient          BreakerClientProofs
          └── ModelFallback ── MCModelFallback                  ModelFallbackProofs
    ToolSchedule ◁── StreamingTools ── MCStreamingTools         StreamingToolsProofs
    Conversation ── EngineLoop ── MCEngineLoop                  EngineLoopProofs
    TaskStore ── MCTaskStore                                    TaskStoreProofs
    BackgroundTasks ── MCBackgroundTasks                        BackgroundTasksProofs
    CronScheduler ── MCCronScheduler                            CronSchedulerProofs
    Mailbox ── MCMailbox                                        MailboxProofs

(◁ "is implemented by", ── "is extended by")

**CircuitBreaker** — the Go type's methods as operators from a breaker to a breaker, since
each of them runs under the type's mutex. `elapsed` is all that `CanExecute` learns from
the clock. `WellFormed` says how counters and state belong together.

**BreakerClient** — `CircuitBreakerClient.Stream` called by concurrent `Callers`. `TryStream`
is the part before the call of the wrapped client, `Return` the part after it; the call in
between holds no lock. `call[c]` distinguishes trials of the current half-open episode from
stale ones; the code does not, and the distinction never guards an action.

**ToolSchedule** — the abstract promise: calls start in order, compatibly, and after a fatal
failure no more start.

**StreamingTools** — the executor itself, goroutine by goroutine. `e.mu` makes `AddTool`, the
completion block of `runTool`, `processQueue` and `CollectResults` atomic; closing the done
channel and scanning the queue are separate steps of a finished goroutine (`CloseDone`,
`Requeue`). The engine goroutine adds, awaits, builds the tool_result message and closes the
event channel; the user may cancel at any time. `Schedule` maps its state to ToolSchedule.

**Conversation** — messages as records (kind, number of the model reply, media) and the pure
functions: `Compacted`, `TruncateHead`, `SummaryRequest`, `RecoveryTail`,
`AppendMissingTail`, `Recovered`; and the provider's demands on a request
(`CallsHaveResults`, `ResultsHaveCalls`, `CallsOnce`).

**EngineLoop** — `runLoop`. One action per branch: `AutoCompact`/`Send`, `Recover`/`Fail`,
`ToolRound`/`TooManyRounds`, `Resume`, `Nudge`, `Block`, `Finish`. A model call is one step,
with its retries and its tools (ModelFallback, StreamingTools) inside it. Whether a history is
"too long" is a free choice, because the estimate of its tokens is not modelled.

**ModelFallback** — `streamAndConsume`, `tryFallback` and the pool, for several agents that
share the breakers. What an agent does next is a function of its record (`PrimaryFailed`,
`SearchClients`, `Failed`); each question to a breaker and each answer is a step of its own.

**TaskStore** — `FileStore` and the tools that write to it. An operation that gets the lock
(`Enter`) computes its file writes (`plan`) from what it reads, as the code does before its
first write; `Write` performs them one at a time, in stages where the code orders them, and
the lock is free after the last. `Crash` kills the process at any point: the kernel frees
the lock, and the file being written may be left truncated (`Torn`; for the mark, 0). Which
of several writes of one stage comes first is open, where the code goes by a list whose order
is not modelled. TaskUpdate is `Get`, then `CheckTargets` and the hooks without the lock,
then `UpdateWithDependencies`; TaskCreate is `Create`, then `HooksAccept` or `HooksRefuse`.
`Broken(Finished(files, plan))` are the one-sided references that will be left when the
writes under way are done.

**BackgroundTasks** — the in-memory store with the goroutines that write to it. A run of a
task has a number, since a resumed agent is a new run under the old identifier; `stopper` is
the run that the controller in the entry cancels. `Stop` is three steps (read, cancel, write
back), `Resume` too (read, register a new run, write back). The output of a command is
held by its shell and then perhaps by a process that the shell left behind (`ShellEnds`,
`ChildEnds`); `Wait` returns (`Returns`) when nobody holds it. A command is in the foreground
until its result, its blocking budget or an interrupt comes; then its consumer updates,
removes and notifies, in the order its tool has them.

**CronScheduler** — several sessions, the lock file and the task file. `TryAcquire...` is a
step per file operation (create, write, read, remove, create again), `Release...` two. Each
rewrite of the task file is read, truncate, write, by the goroutine it runs in (`job[s][k]`).
`Tick` and `Check` are apart because the file is read before the scheduler's mutex is
taken. `stolen`, `fired`, `gone` and `known` are history variables and guard nothing.

**Mailbox** — one inbox. `Send` stamps the message and finds out whether the file exists; its
creator fills it with an empty list (`WriteEmpty`) before it takes the lock. From then on a call
is `AppendMessage` (read under the lock), `SendTruncates`, `SendReturns`, or `SendFails` when the
file does not parse. The poller's goroutines are `loop[l]`: a stopped one finishes its poll, so a
poller that is started again may have two at work. `ReadUnread` and `LookBeforeMarking` take no
lock. A message is its number, its sender, the second of its time stamp and its mark. `List` is
the inbox as it will be when the holder of the lock has written it; `told`, `missed` and the
numbers are history and guard nothing, and neither does `stopped` beyond the closed channel it
stands for. Nothing in the application starts a poller yet; the half that polls is the contract
of the library.

The operators marked "Faulty" in the modules are plausible mistakes (a dropped guard, an
off-by-one). They are used nowhere; `PROJECT.json` names for each property the one with which
TLC must find that property violated.

## 3. The runs

| Run | Asks | Bounds, and why they suffice |
|---|---|---|
| `breaker_recovery` | Do late answers exceed the trial limit, get past the open breaker, or keep it from recovering when it is told every outcome (finding 1)? | 3 callers, threshold 2, 2 trial slots and 2 successes to close: one slot may be free, taken or stale while another answer arrives. 1 903 states. |
| `tools_run` | One result per call, nothing forgotten, and the refinement of ToolSchedule, which has order, exclusion and the cap. | 3 calls of any kinds (safe, exclusive, Bash), cap 2: the cap binds, and a call can be overtaken, cascaded and cancelled. 344 271 states. |
| `tools_closed` | Is the event channel used after it is closed? **Violated** (finding 2). | 2 calls. |
| `engine_run` | Are all requests and summary requests well formed, is the cut-off point kept, does the run end? | 1 tool round, 1 continuation, 1 failed compaction, 1 blocking hook, replies of 1 or 2 tokens for a budget of 4, initial histories with and without an earlier turn and images. Every pair of loop branches can follow each other; counters only limit repetition. 1 945 243 states. |
| `engine_media`, `engine_orphan` | Does the model see the latest user turn as it is? Does a tool_result keep its tool_use? **Violated** (findings 3, 4). | As above; `engine_orphan` without empty replies. |
| `fallback_call` | Is the fallback due, is giving up honest, are requests bounded, does each call end? | 2 agents, a pool of 2 and one fallback client, a fallback model, 1 retry, fallback after the 2nd attempt, answers "ok" or a breaker failure, breakers with threshold 1. 1 054 400 states. The other outcomes only shorten calls. |
| `fallback_probe` | Does the breaker of a fallback client recover? **Violated** (finding 5). | Default half-open settings, 1 agent, 1 provider, 1 fallback client. |
| `tasks_list` | Are identifiers used once, dependencies mutual, changes of hands justified, the busy check sound, wherever a process is killed? | 2 calls in flight, 2 agents, 3 identifiers, 3 calls beside TaskCreate, 1 crash; the inputs of TaskUpdate are those of `SmallRequests`: hand over, complete, delete, a dependency in each direction, a task that names itself, one that is named in both lists. Two calls suffice because the lock admits one at a time and a call waits at most once between its two locked steps. About 1 230 000 states. |
| `background_all` | Which orders lose a run from the list or leave it listed as running? Is the end of a command told exactly once, unless a process it left behind keeps `Wait` from returning (finding 15)? | 1 agent with 3 runs, 1 command, 2 callers of Stop and Resume with 4 calls: a stop, a late report and two resumes can overlap. The command may leave a process behind, for a while or for ever. 1 667 490 states. |
| `cron_sessions` | Is there one owner, is a lost one replaced, does a task fire again while it is being removed? | 2 sessions, one one-shot and one recurring task, 2 events (stopping or killing counts one, an edit of the task file two): a session dies or stops at any step of its own or of the other. 1 066 277 states. |
| `mailbox_inbox` | Which messages can be lost, refused, handed over twice or never? | 3 calls of 2 agents, 2 messages in 2 seconds, a poller started twice, 1 kill: messages share their sender, their second, both or neither; a call, two polls and a kill meet in any order. 84 969 states. |

Deadlock checking is off where the system stops by itself: a run or an executor that has
finished, and in the last four runs, whose calls and events are bounded. The breaker and the
fallback model never stop and are checked for deadlock.

`tasks_list` is symmetric in its two calls: it checks no liveness, and no operator of TaskStore
tells the calls apart. No other run uses symmetry: each checks liveness.

Bounds in the guards: `MaxId`, `MaxCalls` and `MaxCrashes` of TaskStore, `MaxRuns` and
`MaxCalls` of BackgroundTasks and `MaxEvents` of CronScheduler, and the four bounds of Mailbox (messages, seconds, starts, kills) limit how much happens; the code
has no such limits, and the safety theorems hold for every value. `MaxBlocks` limits how often stop hooks block. The code has no such
limit; it tells hooks of the re-entry (`stopHookActive`) and relies on them to give way, so
`RunEnds` holds under that assumption only. All other limits are limits of the code.

### Fairness

* *BreakerClient*: weak fairness of `Elapse` (the clock runs) and of each `Return` (HTTP clients
  have a timeout). Nobody is obliged to call.
* *StreamingTools*: weak fairness of the engine goroutine and of each tool goroutine. The Go
  scheduler gives the first half; that a tool ends is an assumption. Tools have timeouts, but
  the Bash tool does not heed its own when a process left behind holds the output: finding 15
  is as true of the foreground (`platform/shell/exec.go:135`). Neither cancellation nor progress
  events are fair.
* *EngineLoop*: weak fairness of the next step, as `WF_pc(Moves)`: every step changes `pc`
  and every state that is not final has a step.
* *BackgroundTasks*: weak fairness of the end of a command's shell (its timeout, which is always
  set, kills it), of the return of `Wait` when nobody holds the output any more, of the end of
  the foreground wait (the blocking budget) and of each step of the goroutine that consumes the
  result. A process that the shell left behind is not fair: no timeout and no `Stop` reaches it.
  Nobody is obliged to stop or resume, and agents need not end.
* *CronScheduler*: weak fairness of each session's steps on the lock file and of its probe
  (a ticker). The check loop, the rewrites and the user are not fair. A session that is killed has
  no step left.
* *Mailbox*: weak fairness of each call that has begun and of each goroutine of the poller: a ticker
  fires, and the lock is held for one read and one write. Nobody is obliged to send, start or stop.
* *TaskStore*: none; it has no liveness property.
* *ModelFallback*: weak fairness of each agent's own step and of each clock. `BusySpec`, used
  only by `fallback_probe`, also has the agents call again: without that a breaker nobody asks
  could not be said to fail to recover.

## 4. Findings

Findings 2 to 5 are runs whose property quotes a comment and which TLC violates.

1. **A trial that ends in an unrecorded error disables a provider** (`RecoversIfTold`).
   `Stream` reports only some errors; in the half-open state any other one keeps its slot.
   With the default settings, one slot, the breaker then admits nobody for the rest of the process.
   `SlotsLostSilently` and `RecoversIfTold`, which has this exception, show that nothing else can
   do this.
2. **Send on a closed channel** (`tools_closed`). After a cancellation `AwaitAll` returns with
   tools running, the run ends and closes the channel, and the tools still send.
   Theorem `NoLateSend`: without cancellation it cannot happen.
3. **The latest image is replaced before the model sees it** (`engine_media`).
4. **Orphaned tool_result after recovery** (`engine_orphan`), when the result holds an image.
   `OnlyRecoveryUnpairs` shows that no other step breaks up a pair.
5. **The probe takes the slot** (`fallback_probe`): `tryFallback` asks `CanExecute`, and then
   `Stream` asks it again.

The others are exceptions that a property of a passing run has to make, or that the model had
to make to go on: without the exception TLC finds the property violated.

6. **A new scheduler does not start** (`cron_sessions`): `Start` returns unless the scheduler
   was stopped before. The model goes on only because `Stop` may come first.
7. **Two sessions may own the scheduler lock** (`OneOwner`, exception `stolen`): a lock that is
   created and not yet written is taken for corrupt and removed.
8. **A stopped scheduler may become the owner** (`Takeover`), when its probe is acquiring the lock
   while `Stop` runs; it keeps the lock without a check loop.
9. **TaskUpdate undoes a dependency** that was added or removed between its two locked steps
   (`DependenciesKept`, exception `CommitsStale`).
10. **A task named twice loses one side of a dependency** (`DependenciesKept`, `LinksTwice`).
11. **A finished Bash command is gone at once** (`background_all`), where `Stop` and TaskOutput
    are said to leave it visible.
12. **A resumed agent becomes unstoppable** when the run it replaced reports late
    (`RunsStayStoppable`, which names two more ways).
13. **A send may be refused while the inbox is created** (`SendsGetThrough`): the file is created
    and filled outside the lock that is said to protect all writes.
14. **A message may be marked as read without being handed over** (`NothingLost`, `AllHanded`,
    exception `SameStamp`), when its sender had sent another one in the same second.
15. **A background command may have no end** (`ShellAlwaysTold`, exception `output[t] = "child"`):
    the timeout and `Stop` kill the shell alone, and `Wait` goes on waiting for the output while a
    process that the shell left behind holds it. Nothing is told, and a command that nobody
    stops stays listed as running.

`RequestAnswerable` also records a limit: a stop hook that blocks with an empty stderr sends
a request that ends with the assistant's own message.

## 5. What is proved

TLAPS checks these for every value of the constants that satisfies the named assumptions
(`SettingsAssumption`: positive breaker settings, which the constructor guarantees;
`CallersAssumption`, `OutcomesAssumption`; `NAssumption`, `MaxConcurrentAssumption`,
`MayCancelAssumption`; `FallbackAssumption`; `LimitsAssumption` and `RetriesAssumption`: the
limits of the run loop and of the compaction are numbers, and the threshold of diminishing
returns, 500 in the code, is not zero). The assumptions of the four modules on shared stores only say that the bounds are numbers, that requests and owners have their type, and that names of
different kinds differ (`OwnerAssumption`, `TaskAssumption`, `SlotAssumption`).

* **BreakerClientProofs**: `TypeCorrect`, `ShapeCorrect`, `TrialsBounded`, `OpenMeansSilent`,
  `NoSlotLost`, `NeverStuck`. The inductive invariant is the conjunction of type, `BreakerShape` and
  `TrialsHoldSlots`: that a late answer cannot free a slot needs that stale callers are no
  trials, and the bound needs the shape of the counters. `NoSlotLost` adds an argument by
  cases on how the number of trials changes (`TryStreamTrials`, `ReturnTrials`). `NeverStuck` has
  a hypothesis, `EnoughSlots`: the constructor accepts settings (the defaults are not among them)
  by which the slots of an episode cannot close the breaker.
* **StreamingToolsProofs**: `TypeCorrect`, `BookkeepingCorrect`, `Exclusion`, `InOrder`,
  `OneResult`, `EveryCallAnswered`, `NoLateSend`, `NoLostWakeup`, and `Refinement` (StreamingTools
  implements ToolSchedule). `IInv` joins types, bookkeeping, exclusion and order; without the bookkeeping
  a finishing goroutine could be thought to start a tool twice. `Waited` says that the engine
  has passed `AwaitAll` only with every result stored, unless the run was cancelled. `NoLostWakeup`
  is the safety half of `NoneForgotten`: `ProcessQueueAttends` shows that `processQueue` never goes
  away and leaves a queue behind without a goroutine that will look at it again, since the head
  of the queue can start when nothing executes; and a stored result whose channel is still open
  belongs to a goroutine that is about to close it.
* **ModelFallbackProofs**: for any number of agents, providers and any retry policy,
  `SharedBreakers` (from what each breaker method preserves, stated for any client),
  `TypeCorrect`, `NeverEarly`, `NoneSkipped`, `BoundedCost` and `CallShrinks`. `NeverEarly` and
  `NoneSkipped` rest on `RunOK`, what one agent's record says by itself: a search is due, an agent waits only
  for an attempt it still has, and the clients it has passed by are those before its place. One
  lemma per function of the record (`SearchClientsOK`, `PrimaryFailedOK`, `FailedOK`) carries it.
  `BoundedCost` (`RequestsBounded`) adds `CountOK`: the requests sent are at most `Budget` of the
  attempts and searches that are over, `SearchesBefore` counting the latter, plus the place in the
  current list. The last attempt is the delicate one, since it may be followed by two searches,
  the one that was due and the final one. `CallShrinks` gives every record a number, `CallLeft`,
  that each step of its agent lowers: the attempts left, the final search if it is still to come,
  and the places left in the current list.
* **EngineLoopProofs**: for any limits, lengths of replies and token budget, `TypeCorrect`,
  `RequestsAnswerable`, `OnlyRecoveryUnpairsHolds`, `CutOffKeptHolds`, `SummaryRequestsHold`,
  `CallsBounded` and `RunShrinks`. `IInv` adds to the types that the history begins with the
  user, that every call is followed by its results, that it ends with the user's message unless a
  continuation is pending or a hook has blocked, and that the tracker has counted no more tokens
  than there were. The work is in what the functions of Conversation do to pairs. `CompactedOK`:
  a compacted history is a boundary, a summary and the preserved end of the old one, which is
  empty, one message, or calls with their results; `CompactPaired` concludes that paired messages
  stay paired. `RecoveredTurn` and `RecoveredContinuation` do the same for the emergency
  compaction; only the second, which restores the end of a pending continuation, can repeat or
  separate messages, and even it leaves no call without its results.
  `SummaryRequest` is a recursive function; `RetriesExist` shows by a smallest counterexample
  that a function with its two equations exists, so that each retry is the one before it with its
  head cut off (`TruncateHeadOK`, `CutOK`), and a cut never begins with results that have lost
  their calls.
  For the length of a run, `NudgesLeft` bounds the nudges that a token budget allows until the
  next tool round: each one beyond the first few has gained `DiminishingThreshold` tokens, or
  follows one that has. With it `RepliesLeft` counts the replies after which the run may go
  on, `MaxReplies` all of them, and `StepsLeft` the steps; every step lowers `StepsLeft`. A
  threshold of zero would break this, which is why `LimitsAssumption` excludes it.
* **TaskStoreProofs**: `TypesHold`, `IdsNotReusedHolds`, `OwnerChangesHolds`, `BusyCheckHoldsAlways`
  and `DependenciesKeptHolds`, for any calls, requests, identifiers and crashes. The types are not inductive by themselves: `Marked` says that the mark or a file that
  is still there is as high as every identifier ever used, and `Good(plan)` that the writes left
  to do keep it so (the mark is raised before the deletion it is for, only a new identifier gets
  a new file). A crash in front of any write, or in the middle of it, then loses nothing that
  `nextID` relies on; `Known` ties what a call remembers to identifiers already used. `Owners` says
  of the holder's remaining writes what they do to owners (a claim still finds its task as it was
  checked, other operations write back the owner they read), from which the two theorems about
  owners follow. For the dependencies, `StepFinished` shows that a single file write does not
  change what the list will be at the end, provided a file has one write of each stage (`Staged`);
  what is left is to compare, for each operation, the list before with the list after all its
  writes (`KeptGrow`, `KeptCreate`, `KeptDelete`, `KeptReset`).
* **BackgroundTasksProofs**: `TypesHold`, `ShellToldOnceHolds`, `RunsStayStoppableHolds`,
  `RunningMeansRunningHolds`, `CommandsGoOn`. `Known` says what `Stop` and `Resume` remember across the call without
  the mutex, `Commands` how far a command's goroutine is and what was told. The two action properties
  follow by a comparison of each step with `StepOK`. `CommandsGoOn` is the part of `ShellAlwaysTold`
  that is not fairness: until its end is told, `Wait` for a command has not returned or its goroutine
  can go on (`Awaited`), and a step that concerns the command or its processes takes it closer to
  the end (`CommandLeft`), whatever callers of `Stop` do.
* **CronSchedulerProofs**: `TypesHold`, `OneOwnerHolds`, `FiresAgainHolds`, `ProbesGoOn`. `Exclusive` says that
  owning, writing and being about to remove the lock each mean that the file is the session's own
  unless a live lock was removed; `Pending` that a task that fired is in flight until its removal
  is over. `ProbesGoOn` does not need `Exclusive`: also when locks were wrongly taken for stale,
  the lock of a live session is being written, owned or released (`Held`), and a session that
  replaces a lock never finds its own.
* **MailboxProofs**: `TypesHold`, `NothingLostHolds`, `SendsGetThroughHolds`, `HandedOnceHolds`,
  `PollsHandOver`. `Exclusive` and `Shape` say who may be in a locked section while the file looks as it does: a
  file that does not parse is being created or written, or its writer was killed. With them each
  step either leaves `List` as it is, appends to it or marks it (`CallList`, `AppendList`,
  `PollList`, `MarkList`, `IdleList`), from which `NothingLost` follows by `MarkedKeeps`. For
  `HandedOnce`, `Numbers` keeps the numbers of waiting calls apart from all that is in the file or
  was handed over, and `Once` accounts for every unread message that was handed over: its poll is
  about to mark it, or gave up. `PollsHandOver` goes the other way: what a running poller has not
  handed over is unread (`Unmarked`), so that a poll that reads between two writes takes it.

Every safety property that a passing run checks is proved. Only model-checked is liveness
(`RecoversIfTold`, `NoneForgotten`, `RunEnds`, `CallEnds`, `ShellAlwaysTold`, `Takeover`,
`AllHanded`): fairness and ENABLED are out of the prover's reach. For each
of them the part that is not fairness is proved, for every value of the constants:

| property | theorem | what it shows |
|---|---|---|
| `RunEnds`, `CallEnds` | `RunShrinks`, `CallShrinks` | every step lowers a number, so that only the next step has to be taken |
| `NoneForgotten` | `NoLostWakeup` | a queued tool call always has a goroutine that will look at the queue, which has to go on |
| `ShellAlwaysTold` | `CommandsGoOn` | the goroutine of a command always has something to wait for or to do |
| `RecoversIfTold` | `NeverStuck` | a breaker that rejects waits for the clock, or for one of finitely many trials |
| `Takeover` | `ProbesGoOn` | calls that acquire end; a lock that keeps a probe away has an owner, or its release is under way |
| `AllHanded` | `PollsHandOver` | a running poller keeps polling, and a poll that reads between two writes of the file hands everything over |

Also out of reach is an induction over data that needs the library's
induction theorems; the one recursion that a property depends on, `SummaryRequest`, runs
over numbers and is treated by a smallest counterexample.

## 6. What is not modelled

* Text, formatting, logging, analytics and UI events, except for the use of the event channel.
* The number of tokens in a history, and times: which of two timeouts comes first is a choice.
* In the engine: hooks other than stop hooks, transcripts, the serial path without a streaming
  executor, the API-side task budget, partial and session-memory compaction.
* In the fallback: round-robin and manual provider selection, model names, backoff lengths.
* `Discard` of the executor: it is only called on an executor without tools.
* In the task store: texts, metadata, the order of lists, files that cannot be written or locked;
  the retries and the timeout of the lock.
* In the background tasks: `Replace` (it has no caller), readers such as TaskOutput, and how a
  command is executed.
* In cron: how fire times, jitter and ages are computed (whether a task is due is a choice), I/O
  errors, the limit of 50 tasks, a `Start` that overtakes steps of the last one, and a new process
  with the process id of a killed session (`isProcessRunning` would take its lock for a live one).
* In the mailbox: texts and protocol messages, I/O errors other than a file that does not parse,
  operations without a caller (`MarkMessagesAsRead`, `MarkMessageAsReadByIndex`, `ClearMailbox`),
  and TeamDelete, which removes the directory of the inboxes.
* The components marked `not_modelled` in `PROJECT.json`, with their reasons.

## 7. Plan

Done, in order of importance: breaker and its client; tool executor with its refinement; run
loop and compaction; model call and fallback; task store; background tasks; cron;
mailbox.

Next:

1. `Workers`: the coordinator's workers, with a `Stop` that comes between the locked sections of
   `Execute`, when the application schedules onto them; it only creates the scheduler now.
2. Sessions and transcripts, where several processes share files without a lock.
