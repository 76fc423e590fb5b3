---------------------------- MODULE BreakerClient ----------------------------
(***************************************************************************)
(* Concurrent callers of one CircuitBreakerClient: the main conversation   *)
(* and the sub-agents share the client and therefore its breaker.  Stream  *)
(* asks the breaker, calls the provider without holding any lock, and      *)
(* reports the outcome when the provider answers, so outcomes reach the    *)
(* breaker in any order and in a state it may since have left.             *)
(***************************************************************************)
EXTENDS CircuitBreaker, FiniteSets

CONSTANTS
    Callers,    \* goroutines that use the client
    Outcomes    \* what the wrapped client may answer, a subset of AllOutcomes

\* "ignored" is an error that RecordFailure is not told about: auth_error,
\* quota_exceeded, invalid_request, ssl_cert_error, unknown, a cancelled call.
AllOutcomes == {"ok", "trips", "ignored"}

ASSUME CallersAssumption == IsFiniteSet(Callers)
ASSUME OutcomesAssumption == Outcomes \subseteq AllOutcomes

VARIABLES
    breaker,    \* the shared breaker
    call        \* call[c]: where caller c stands in Stream

vars == <<breaker, call>>

\* "sent": admitted while closed.  "trial": admitted by the half-open breaker
\* of the current episode.  "stale": a trial of an episode that has ended
\* (the code does not distinguish the three: they wait in client.Stream).
Waiting == {"sent", "trial", "stale"}
Returned == {"none", "ok", "error", "rejected"}

\* The breaker keeps its counters within its settings and callers stand at a
\* known place of Stream.
TypeOK ==
    /\ breaker \in Breaker
    /\ call \in [Callers -> Waiting \cup Returned]

Trials == {c \in Callers : call[c] = "trial"}

-----------------------------------------------------------------------------
Init ==
    /\ breaker = NewCircuitBreaker
    /\ call = [c \in Callers |-> "none"]

\* Stream up to the call of the wrapped client.
TryStream(c) ==
    /\ call[c] \in Returned
    /\ breaker' = CanExecute(breaker)
    /\ call' = [call EXCEPT ![c] =
                    IF ~Admits(breaker) THEN "rejected"
                    ELSE IF breaker'.state = "half-open" THEN "trial" ELSE "sent"]

\* What Stream tells the breaker about an answer of the wrapped client.
Record(b, outcome) ==
    CASE outcome = "ok" -> RecordSuccess(b)
      [] outcome = "trips" -> RecordFailure(b)
      [] outcome = "ignored" -> b

\* Stream after the wrapped client returned.
Return(c) ==
    /\ call[c] \in Waiting
    /\ \E outcome \in Outcomes :
        /\ breaker' = Record(breaker, outcome)
        /\ LET ended == breaker.state = "half-open" /\ breaker'.state # "half-open"
           IN  call' = [d \in Callers |->
                    IF d = c THEN IF outcome = "ok" THEN "ok" ELSE "error"
                    ELSE IF ended /\ call[d] = "trial" THEN "stale"
                    ELSE call[d]]

Elapse ==
    /\ ~breaker.elapsed
    /\ breaker' = TimeoutElapses(breaker)
    /\ UNCHANGED call

Next ==
    \/ \E c \in Callers : TryStream(c) \/ Return(c)
    \/ Elapse

Spec == Init /\ [][Next]_vars

\* The clock runs, and the HTTP clients return within their timeout.
Fairness ==
    /\ WF_vars(Elapse)
    /\ \A c \in Callers : WF_vars(Return(c))

FairSpec == Spec /\ Fairness

-----------------------------------------------------------------------------
\* Answers that arrive late, and in a state of the breaker other than the one
\* that admitted the request, leave the counters consistent with the state.
BreakerShape == WellFormed(breaker)

\* HalfOpenMaxRequests bounds the trial requests that are under way together,
\* however late the answers to earlier requests come in.
TrialsHoldSlots ==
    /\ Cardinality(Trials) <= breaker.reqs
    /\ breaker.state # "half-open" => Trials = {}

\* Every slot a half-open breaker has granted is still awaited or was a
\* success: any other slot never comes back.
SlotsAccounted ==
    breaker.state = "half-open" => breaker.reqs <= Cardinality(Trials) + breaker.success

\* A slot is lost only with an answer that the breaker is not told of.
SlotsLostSilently == [][SlotsAccounted /\ ~SlotsAccounted' => breaker' = breaker]_vars

\* While the breaker is open and the timeout has not passed, nobody who was
\* not already waiting reaches the provider.
NothingSentWhileOpen ==
    [][breaker.state = "open" /\ ~breaker.elapsed =>
            \A c \in Callers : call[c] \in Returned => call'[c] \in Returned]_vars

\* The breaker recovers automatically: whatever happened, there is always a
\* later moment at which it admits a request, unless it was not told of the
\* outcome of a trial.
RecoversIfTold == []<>(Admits(breaker) \/ ~SlotsAccounted)
=============================================================================
