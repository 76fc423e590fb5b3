--------------------------- MODULE CircuitBreaker ---------------------------
(***************************************************************************)
(* The three-state circuit breaker of internal/core/model.  Every method   *)
(* of the Go type runs under one mutex, so a method is one operator from   *)
(* the breaker before the call to the breaker after it.                    *)
(*                                                                         *)
(* Time is what CanExecute makes of it: "elapsed" says whether             *)
(* RecoveryTimeout has passed since lastFailureTime.  tripCount is only    *)
(* ever displayed and is left out.                                         *)
(***************************************************************************)
EXTENDS Naturals

CONSTANTS
    FailureThreshold,           \* consecutive failures that trip a closed breaker
    HalfOpenMaxRequests,        \* trial requests granted by a half-open breaker
    HalfOpenSuccessThreshold    \* successes that close a half-open breaker

\* NewCircuitBreaker replaces zero and negative settings by defaults.
ASSUME SettingsAssumption ==
    /\ FailureThreshold \in Nat \ {0}
    /\ HalfOpenMaxRequests \in Nat \ {0}
    /\ HalfOpenSuccessThreshold \in Nat \ {0}

Breaker ==
    [state    : {"closed", "open", "half-open"},
     failures : 0 .. FailureThreshold,
     elapsed  : BOOLEAN,
     reqs     : 0 .. HalfOpenMaxRequests,
     success  : 0 .. HalfOpenSuccessThreshold]

\* The zero lastFailureTime is long past.
NewCircuitBreaker ==
    [state |-> "closed", failures |-> 0, elapsed |-> TRUE, reqs |-> 0, success |-> 0]

-----------------------------------------------------------------------------
\* Faulty variants that the runs must be able to tell from the code.
NeverRecovered(b) == b
RecoveredAtOnce(b) ==
    IF b.state = "open" THEN [b EXCEPT !.state = "half-open", !.reqs = 0, !.success = 0] ELSE b

\* The half-open switch at the top of CanExecute.
Recovered(b) ==
    IF b.state = "open" /\ b.elapsed
    THEN [b EXCEPT !.state = "half-open", !.reqs = 0, !.success = 0]
    ELSE b

\* What CanExecute answers on breaker b ...
Admits(b) ==
    LET r == Recovered(b) IN
    \/ r.state = "closed"
    \/ r.state = "half-open" /\ r.reqs < HalfOpenMaxRequests

\* Faulty: no trial is counted; every call in the half-open state is counted.
CanExecuteUncounted(b) == Recovered(b)
CanExecuteUncapped(b) ==
    LET r == Recovered(b) IN
    IF r.state = "half-open" THEN [r EXCEPT !.reqs = @ + 1] ELSE r

\* ... and the breaker CanExecute leaves behind: a grant in the half-open
\* state takes one of the trial slots.
CanExecute(b) ==
    LET r == Recovered(b) IN
    IF r.state = "half-open" /\ r.reqs < HalfOpenMaxRequests
    THEN [r EXCEPT !.reqs = @ + 1]
    ELSE r

RecordSuccess(b) ==
    LET closes == b.state = "half-open" /\ b.success + 1 >= HalfOpenSuccessThreshold
    IN  [state    |-> IF closes THEN "closed" ELSE b.state,
         failures |-> IF b.state = "closed" \/ closes THEN 0 ELSE b.failures,
         elapsed  |-> b.elapsed,
         reqs     |-> IF closes THEN 0 ELSE b.reqs,
         success  |-> IF closes THEN 0
                      ELSE IF b.state = "half-open" THEN b.success + 1 ELSE b.success]

\* Faulty: a failed trial does not reopen the breaker.
RecordFailureIgnoresTrials(b) ==
    [b EXCEPT !.state = IF b.state = "closed" /\ b.failures + 1 >= FailureThreshold THEN "open" ELSE @,
              !.failures = IF b.state = "closed" THEN @ + 1 ELSE @,
              !.elapsed = FALSE]

\* lastFailureTime is refreshed in every state, the open one included.
RecordFailure(b) ==
    LET trips == \/ b.state = "closed" /\ b.failures + 1 >= FailureThreshold
                 \/ b.state = "half-open"
    IN  [state    |-> IF trips THEN "open" ELSE b.state,
         failures |-> IF b.state = "closed" THEN b.failures + 1 ELSE b.failures,
         elapsed  |-> FALSE,
         reqs     |-> IF b.state = "half-open" THEN 0 ELSE b.reqs,
         success  |-> IF b.state = "half-open" THEN 0 ELSE b.success]

\* The clock passes lastFailureTime + RecoveryTimeout.
TimeoutElapses(b) == [b EXCEPT !.elapsed = TRUE]

-----------------------------------------------------------------------------
\* What the counters of a breaker say about its state: no trial is counted
\* outside the half-open state, a half-open breaker has granted its first
\* trial, and a breaker is away from closed only with its failure count at
\* the threshold.
WellFormed(b) ==
    /\ b.state = "closed" => b.failures < FailureThreshold
    /\ b.state # "closed" => b.failures = FailureThreshold
    /\ b.state # "half-open" => b.reqs = 0 /\ b.success = 0
    /\ b.state = "half-open" => b.reqs > 0 /\ b.success < HalfOpenSuccessThreshold
=============================================================================
