----------------------------- MODULE EngineLoop -----------------------------
(***************************************************************************)
(* One run of the engine: runLoop alternates model calls and tool rounds   *)
(* until the model answers without a tool call.  On the way it compacts    *)
(* the history when it is long, compacts it in an emergency when the       *)
(* provider rejects it as too long, asks the model to resume a truncated   *)
(* answer, nudges it towards a token budget, and lets stop hooks send it   *)
(* back to work.                                                           *)
(*                                                                         *)
(* A model call is one step: streamAndConsume hides its retries and runs   *)
(* the tools before it returns (StreamingTools, ModelFallback).  Hooks     *)
(* other than stop hooks, transcripts and events do not steer the loop.    *)
(***************************************************************************)
EXTENDS Conversation

CONSTANTS
    MaxToolIterations,      \* tool rounds of one run
    MaxContinuations,       \* maxContinuationAttempts
    MaxCompactFailures,     \* MaxConsecutiveAutoCompactFailures
    TokenBudget,            \* target of output tokens, 0 for none
    DiminishingThreshold,   \* a reply shorter than this makes little progress
    DiminishingMinCount,    \* nudges before diminishing returns are looked for
    Lengths,                \* output tokens that a reply may have
    MaxBlocks,              \* how often a stop hook blocks; hooks are told of
                            \* re-entry by stopHookActive and must give way
    MediaResults,           \* whether tool results may carry images
    EmptyReplies            \* whether the model may answer without content

ASSUME LimitsAssumption ==
    /\ {MaxToolIterations, MaxContinuations, MaxCompactFailures, DiminishingMinCount,
        TokenBudget, MaxBlocks} \subseteq Nat
    /\ DiminishingThreshold \in Nat \ {0}
    /\ Lengths \subseteq Nat
    /\ {MediaResults, EmptyReplies} \subseteq BOOLEAN

VARIABLES
    pc,             \* "top" of the loop, model call "sent", "done", "failed"
    history,        \* history.Messages
    transient,      \* transientMessages: "none", "resume" or "nudge"
    replies,        \* model calls that succeeded
    toolLoops,
    continuations,  \* continuationAttempts
    recovered,      \* hasAttemptedRecovery
    compactFailures,\* compactTracking.ConsecutiveFailures
    tokens,         \* responseOutputTokens
    tracker,        \* budgetTracker
    blocked         \* blocking stop hooks so far; stopHookActive if not zero

vars == <<pc, history, transient, replies, toolLoops, continuations, recovered,
          compactFailures, tokens, tracker, blocked>>

NewBudgetTracker == [count |-> 0, lastDelta |-> 0, lastTokens |-> 0]

\* checkTokenBudget: whether to nudge, and the tracker after a nudge.
Diminishing(t, n) ==
    /\ t.count >= DiminishingMinCount
    /\ n - t.lastTokens < DiminishingThreshold
    /\ t.lastDelta < DiminishingThreshold

Nudges(t, n) ==
    /\ TokenBudget > 0
    /\ ~Diminishing(t, n)
    /\ n < (9 * TokenBudget) \div 10

Nudged(t, n) ==
    [count |-> t.count + 1, lastDelta |-> n - t.lastTokens, lastTokens |-> n]

\* The user's own message, alone or after an earlier turn of the session.
InitialHistories ==
    {<<Msg("prompt", 0, m)>> : m \in {"none", "media"}} \cup
    {<<Msg("prompt", 0, "none"), Msg("calls", 0, "none"), Msg("results", 0, "none"),
       Msg("text", 0, "none"), Msg("feedback", 0, m)>> : m \in {"none", "media"}}

Init ==
    /\ pc = "top"
    /\ history \in InitialHistories
    /\ transient = "none"
    /\ replies = 0
    /\ toolLoops = 0
    /\ continuations = 0
    /\ recovered = FALSE
    /\ compactFailures = 0
    /\ tokens = 0
    /\ tracker = NewBudgetTracker
    /\ blocked = 0

Request == IF transient = "none" THEN history ELSE Append(history, Msg("prompt", 0, "none"))

-----------------------------------------------------------------------------
(* The top of the loop. *)

\* Faulty: the pending continuation does not keep the history from being
\* compacted.
AutoCompactAnyTime ==
    /\ pc = "top"
    /\ compactFailures < MaxCompactFailures
    /\ \/ /\ history' = Compacted(history, replies)
          /\ compactFailures' = 0
       \/ /\ compactFailures' = compactFailures + 1
          /\ UNCHANGED history
    /\ pc' = "sent"
    /\ UNCHANGED <<transient, replies, toolLoops, continuations, recovered, tokens, tracker, blocked>>

\* The history is estimated to be long: it is compacted, or that fails.
AutoCompact ==
    /\ pc = "top"
    /\ transient = "none"
    /\ compactFailures < MaxCompactFailures
    /\ \/ /\ history' = Compacted(history, replies)
          /\ compactFailures' = 0
       \/ /\ compactFailures' = compactFailures + 1
          /\ UNCHANGED history
    /\ pc' = "sent"
    /\ UNCHANGED <<transient, replies, toolLoops, continuations, recovered, tokens, tracker, blocked>>

\* It is not, or must not be compacted now.
Send ==
    /\ pc = "top"
    /\ pc' = "sent"
    /\ UNCHANGED <<history, transient, replies, toolLoops, continuations, recovered,
                   compactFailures, tokens, tracker, blocked>>

(* The model call fails. *)

\* Faulty: one recovery after the other.
RecoverAgain ==
    /\ pc = "sent"
    /\ history' = Recovered(history, transient # "none", replies)
    /\ recovered' = TRUE
    /\ pc' = "top"
    /\ UNCHANGED <<transient, replies, toolLoops, continuations, compactFailures, tokens,
                   tracker, blocked>>

\* The provider finds the prompt too long, for the first time since it last
\* accepted one, and the emergency compaction succeeds.
Recover ==
    /\ pc = "sent"
    /\ ~recovered
    /\ history' = Recovered(history, transient # "none", replies)
    /\ recovered' = TRUE
    /\ pc' = "top"
    /\ UNCHANGED <<transient, replies, toolLoops, continuations, compactFailures, tokens,
                   tracker, blocked>>

Fail ==
    /\ pc = "sent"
    /\ pc' = "failed"
    /\ UNCHANGED <<history, transient, replies, toolLoops, continuations, recovered,
                   compactFailures, tokens, tracker, blocked>>

(* The model call succeeds. *)

\* The bookkeeping after every reply; h is what the reply adds to the history.
Reply(h) ==
    /\ pc = "sent"
    /\ replies' = replies + 1
    /\ recovered' = FALSE
    /\ history' = history \o h
    /\ UNCHANGED compactFailures

\* Faulty: one more round than allowed.
ToolRoundOneMore(m) ==
    /\ toolLoops <= MaxToolIterations
    /\ Reply(<<Msg("calls", replies + 1, "none"), Msg("results", replies + 1, m)>>)
    /\ pc' = "top"
    /\ transient' = "none"
    /\ toolLoops' = toolLoops + 1
    /\ continuations' = 0
    /\ tokens' = 0
    /\ tracker' = NewBudgetTracker
    /\ UNCHANGED blocked

\* The reply calls tools; their results are the next message.
ToolRound(m) ==
    /\ toolLoops < MaxToolIterations
    /\ Reply(<<Msg("calls", replies + 1, "none"), Msg("results", replies + 1, m)>>)
    /\ pc' = "top"
    /\ transient' = "none"
    /\ toolLoops' = toolLoops + 1
    /\ continuations' = 0
    /\ tokens' = 0
    /\ tracker' = NewBudgetTracker
    /\ UNCHANGED blocked

\* Faulty: the loop goes on without the results.
TooManyRoundsIgnored ==
    /\ toolLoops >= MaxToolIterations
    /\ Reply(<<Msg("calls", replies + 1, "none")>>)
    /\ pc' = "top"
    /\ transient' = "none"
    /\ UNCHANGED <<toolLoops, continuations, tokens, tracker, blocked>>

\* The tools of this reply have been run too, but the run ends in an error.
TooManyRounds ==
    /\ toolLoops >= MaxToolIterations
    /\ Reply(<<Msg("calls", replies + 1, "none")>>)
    /\ pc' = "failed"
    /\ transient' = "none"
    /\ UNCHANGED <<toolLoops, continuations, tokens, tracker, blocked>>

\* What a reply without tool calls adds to the history.
Answer == {<<Msg("text", replies + 1, "none")>>} \cup (IF EmptyReplies THEN {<<>>} ELSE {})

\* max_tokens: ask for the rest, a few times.
Resume(h, n) ==
    /\ continuations < MaxContinuations
    /\ Reply(h)
    /\ pc' = "top"
    /\ transient' = "resume"
    /\ continuations' = continuations + 1
    /\ tokens' = tokens + n
    /\ UNCHANGED <<toolLoops, tracker, blocked>>

\* The model stopped by itself, short of the token budget.
Nudge(h, n) ==
    /\ Nudges(tracker, tokens + n)
    /\ Reply(h)
    /\ pc' = "top"
    /\ transient' = "nudge"
    /\ tracker' = Nudged(tracker, tokens + n)
    /\ tokens' = tokens + n
    /\ UNCHANGED <<toolLoops, continuations, blocked>>

\* A stop hook blocks (exit code 2) and its stderr becomes a user message; a
\* hook that wrote nothing blocks all the same.
Block(h, n) ==
    /\ blocked < MaxBlocks
    /\ \E stderr \in {<<Msg("feedback", replies + 1, "none")>>, <<>>} : Reply(h \o stderr)
    /\ pc' = "top"
    /\ transient' = "none"
    /\ blocked' = blocked + 1
    /\ tokens' = tokens + n
    /\ UNCHANGED <<toolLoops, continuations, tracker>>

\* ConversationDone with this history: no hook blocks, or one ends the run.
Finish(h, n) ==
    /\ Reply(h)
    /\ pc' = "done"
    /\ transient' = "none"
    /\ tokens' = tokens + n
    /\ UNCHANGED <<toolLoops, continuations, tracker, blocked>>

\* The reply without tool calls, by its stop reason and length.
Answered ==
    \E h \in Answer, n \in Lengths, stop \in {"end_turn", "max_tokens"} :
        \/ stop = "max_tokens" /\ Resume(h, n)
        \/ stop = "end_turn" /\ Nudge(h, n)
        \/ /\ stop = "max_tokens" => continuations >= MaxContinuations
           /\ stop = "end_turn" => ~Nudges(tracker, tokens + n)
           /\ Block(h, n) \/ Finish(h, n)

Next ==
    \/ AutoCompact \/ Send
    \/ Recover \/ Fail
    \/ \E m \in IF MediaResults THEN {"none", "media"} ELSE {"none"} : ToolRound(m)
    \/ TooManyRounds
    \/ Answered

Spec == Init /\ [][Next]_vars

\* Providers, tools and hooks answer, or run into their timeouts.  Every step
\* moves pc and only the two ends have none: this is fairness of Next, in the
\* form that TLC evaluates quickly.
Moves == pc \in {"top", "sent"} /\ pc' \in {"top", "sent", "done", "failed"}

FairSpec == Spec /\ WF_pc(Moves)

-----------------------------------------------------------------------------
\* The types of runLoop's locals; the counters stay within their limits and
\* messages belong to replies that were received.
TypeOK ==
    /\ pc \in {"top", "sent", "done", "failed"}
    /\ history \in Seq([kind : Kind, reply : 0 .. replies, media : Media])
    /\ transient \in {"none", "resume", "nudge"}
    /\ replies \in Nat
    /\ toolLoops \in 0 .. MaxToolIterations
    /\ continuations \in 0 .. MaxContinuations
    /\ recovered \in BOOLEAN
    /\ compactFailures \in 0 .. MaxCompactFailures
    /\ tokens \in Nat
    /\ tracker \in [count : Nat, lastDelta : Nat, lastTokens : Nat]
    /\ blocked \in 0 .. MaxBlocks

\* No request leaves a tool call unanswered, whatever was compacted, restored
\* or injected before it; it begins with a message of the user, and ends with
\* one unless a stop hook has blocked.
RequestAnswerable ==
    pc = "sent" =>
        /\ CallsHaveResults(Request)
        /\ ~FromAssistant(Request[1])
        /\ FromAssistant(Last(Request)) => blocked > 0

\* Only the recovery of a continuation ever breaks up calls and results, or
\* repeats them, in a run that goes on or finishes.
OnlyRecoveryUnpairs ==
    [][pc' # "failed" /\ Paired(history) /\ ~Paired(history') =>
            ~recovered /\ recovered' /\ transient # "none"]_vars

\* While a continuation is pending the message it continues stays the last one:
\* the model sees the exact cut-off point when it resumes.
CutOffKept ==
    [][transient # "none" /\ replies' = replies => Last(history') = Last(history)]_vars

\* The summarizer is sent well-formed messages too, and so are its retries
\* with ever fewer of them.
SummaryRequestsPaired ==
    pc = "sent" /\ Paired(history) =>
        LET request == SummaryRequest(history)
        IN  \A k \in 0 .. MaxPTLRetries :
            LET s == request[k]
            IN  s # <<>> => CallsHaveResults(s) /\ ResultsHaveCalls(s) /\ ~FromAssistant(s[1])

\* Whatever the model answers and however often it rejects the prompt, the run
\* comes to an end.
RunEnds == <>(pc \in {"done", "failed"})

\* The model is shown the latest user turn as it is, not a placeholder.
LatestTurnExact == pc = "sent" => Last(history).media # "stripped"

\* A tool_result never loses the tool_use it answers.
NoOrphanResult == pc = "sent" => ResultsHaveCalls(Request)
=============================================================================
