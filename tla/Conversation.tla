---------------------------- MODULE Conversation ----------------------------
(***************************************************************************)
(* The conversation history as the engine sends it to the model, and the   *)
(* pure functions of core/compact and the engine that rewrite it: what a   *)
(* compaction keeps, what it sends to the summarizer, and what the engine  *)
(* restores of a conversation that had become too long.                    *)
(*                                                                         *)
(* A message is known by its kind, the number of the model reply it        *)
(* belongs to, and whether it carries an image or document ("media"), or   *)
(* the placeholder text that compaction puts in its place ("stripped").    *)
(***************************************************************************)
EXTENDS Naturals, SequencesExt

CONSTANT MaxPTLRetries      \* retries of a summary request that is too long

ASSUME RetriesAssumption == MaxPTLRetries \in Nat

\* "calls" and "text" are the assistant's messages, with and without tool_use
\* blocks; "results" answers all calls of the reply with the same number.
Kind == {"prompt", "feedback", "boundary", "summary", "marker", "calls", "text", "results"}
Media == {"none", "media", "stripped"}

Msg(k, n, m) == [kind |-> k, reply |-> n, media |-> m]

FromAssistant(m) == m.kind \in {"calls", "text"}

\* isToolResultOnlyMessage: an image beside the tool_result, or the text that
\* stands for one, makes it FALSE.
ToolResultOnly(m) == m.kind = "results" /\ m.media = "none"

\* What the engine takes for a user's own turn.
UserTurn(m) == ~FromAssistant(m) /\ ~ToolResultOnly(m)

-----------------------------------------------------------------------------
(* core/compact *)

\* stripImagesFromMessages touches user messages only; others have no media.
Strip(s) ==
    [i \in DOMAIN s |-> IF s[i].media = "media" THEN [s[i] EXCEPT !.media = "stripped"] ELSE s[i]]

\* GetMessagesAfterCompactBoundary includes the boundary.
AfterBoundary(s) ==
    LET b == SelectLastInSeq(s, LAMBDA m : m.kind = "boundary")
    IN  IF b = 0 THEN s ELSE SubSeq(s, b, Len(s))

\* Faulty: the tool_result is kept and the tool_use it answers is not.
PreservedCountResultOnly(s) ==
    IF s = <<>> \/ FromAssistant(Last(s)) THEN 0 ELSE 1

\* preservedTailCount: the user message at the end, with the tool calls it
\* answers.
PreservedCount(s) ==
    IF s = <<>> \/ FromAssistant(Last(s)) THEN 0
    ELSE IF Last(s).kind = "results" /\ Len(s) > 1 /\ s[Len(s) - 1].kind = "calls" THEN 2
    ELSE 1

\* CompactConversation's result: boundary, summary and preserved tail.  The
\* tail is taken from the stripped messages.
Compacted(s, n) ==
    LET c == AfterBoundary(Strip(s))
    IN  <<Msg("boundary", n, "none"), Msg("summary", n, "none")>>
            \o SubSeq(c, Len(c) - PreservedCount(c) + 1, Len(c))

\* Faulty: the head is cut after any message.
TruncateHeadAnywhere(s) ==
    IF Len(s) < 2 THEN <<>> ELSE <<Msg("marker", 0, "none")>> \o SubSeq(s, 3, Len(s))

\* TruncateHeadForPTLRetry without a token gap: groups begin at assistant
\* messages, a fifth of them (at least one, never all) is dropped, and a
\* marker takes the place of the first user message.
TruncateHead(s) ==
    LET t == IF s # <<>> /\ s[1].kind = "marker" THEN Tail(s) ELSE s
        starts == {1} \cup {i \in DOMAIN t : FromAssistant(t[i])}
        n == Cardinality(starts)
        drop == Max({1, n \div 5})
        kept == {i \in starts : Cardinality({j \in starts : j < i}) >= drop}
    IN  IF t = <<>> \/ n < 2 THEN <<>>
        ELSE <<Msg("marker", 0, "none")>> \o SubSeq(t, Min(kept), Len(t))

\* The messages of the first request to the summarizer and of its retries.
SummaryRequest(s) ==
    LET c == AfterBoundary(Strip(s))
        request[k \in 0 .. MaxPTLRetries] ==
            IF k = 0 THEN SubSeq(c, 1, Len(c) - PreservedCount(c))
            ELSE TruncateHead(request[k - 1])
    IN  request

-----------------------------------------------------------------------------
(* The engine's part. *)

\* findLatestContinuationUserMessage, 0 if there is none.
LastUserTurn(s) == SelectLastInSeq(s, UserTurn)

\* findContinuationRecoveryTail.
RecoveryTail(s) ==
    IF LastUserTurn(s) = 0 THEN <<>> ELSE SubSeq(s, LastUserTurn(s), Len(s))

\* appendMissingMessageTail leaves out what s already ends with.
AppendMissingTail(s, tail) ==
    LET overlaps == {k \in 0 .. Min({Len(s), Len(tail)}) :
                        SubSeq(s, Len(s) - k + 1, Len(s)) = SubSeq(tail, 1, k)}
    IN  s \o SubSeq(tail, Max(overlaps) + 1, Len(tail))

\* The history after an emergency compaction: a truncated reply comes back
\* with the turn it belongs to, a user's own message with its media.
Recovered(s, continuing, n) ==
    LET c == Compacted(s, n)
        last == Last(s)
    IN  IF continuing THEN AppendMissingTail(c, RecoveryTail(s))
        ELSE IF UserTurn(last) /\ ~Contains(c, last)
             THEN Append(IF UserTurn(Last(c)) THEN Front(c) ELSE c, last)
             ELSE c

-----------------------------------------------------------------------------
(* What the API demands of the messages of a request. *)

\* Every reply with tool calls is answered by the very next message.
CallsHaveResults(s) ==
    \A i \in DOMAIN s : s[i].kind = "calls" =>
        /\ i < Len(s)
        /\ s[i + 1].kind = "results" /\ s[i + 1].reply = s[i].reply

\* Every tool_result follows the call it answers.
ResultsHaveCalls(s) ==
    \A i \in DOMAIN s : s[i].kind = "results" =>
        /\ i > 1
        /\ s[i - 1].kind = "calls" /\ s[i - 1].reply = s[i].reply

\* No tool call is sent twice.
CallsOnce(s) ==
    \A i, j \in DOMAIN s : s[i].kind = "calls" /\ s[j] = s[i] => i = j

Paired(s) == CallsHaveResults(s) /\ ResultsHaveCalls(s) /\ CallsOnce(s)
=============================================================================
