---------------------------- MODULE ModelFallback ----------------------------
(***************************************************************************)
(* One model call of the engine, streamAndConsume: attempts on the primary *)
(* client with a backoff between them, and the search for a fallback when  *)
(* they fail.  The primary client is a ProviderPool that fails over in     *)
(* order, or with one provider just that provider's CircuitBreakerClient;  *)
(* the fallbacks are the FallbackModel on the primary client and then the  *)
(* FallbackClients.  Agents make their calls concurrently and share every  *)
(* provider's breaker.                                                     *)
(*                                                                         *)
(* Backoff times, the emitted events and the tools that the engine runs    *)
(* after the stream (StreamingTools) are left out.                         *)
(***************************************************************************)
EXTENDS CircuitBreaker, FiniteSets, Sequences

CONSTANTS
    Agents,
    Pool,                   \* providers of the primary client, in order
    Fallbacks,              \* providers of FallbackClients, in order
    UsesFallbackModel,      \* whether FallbackModel is configured
    MaxAttempts,            \* RetryPolicy.MaxAttempts: retries after the first attempt
    FallbackAfterAttempts,  \* 0: fall back only when the retries are exhausted
    Outcomes                \* what a provider may answer, a subset of AllOutcomes

\* "trips" stands for the provider errors that count against the breaker; the
\* other three do not.
AllOutcomes == {"ok", "trips", "auth", "quota", "invalid"}

Providers == {Pool[i] : i \in DOMAIN Pool} \cup {Fallbacks[i] : i \in DOMAIN Fallbacks}

ASSUME FallbackAssumption ==
    /\ Pool \in Seq(Providers) \ {<<>>}
    /\ Fallbacks \in Seq(Providers)
    /\ UsesFallbackModel \in BOOLEAN
    /\ MaxAttempts \in Nat
    /\ FallbackAfterAttempts \in Nat
    /\ Outcomes \subseteq AllOutcomes

VARIABLES
    breaker,    \* breaker[p]: the breaker of provider p
    run         \* run[a]: where agent a stands in streamAndConsume

vars == <<breaker, run>>

\* "open" is the CircuitBreakerOpenError.
Errors == (AllOutcomes \ {"ok"}) \cup {"open", "broken", "cancelled"}
IsRetriable(err) == err \in {"trips", "auth", "open"}
IsImmediateFallback(err) == err \in {"open", "quota"}

\* leg, at: the list of providers an agent goes through and its place in it.
\* err is the last error of the primary client, last that this is the final
\* search for a fallback, refused the fallback clients that this search has
\* found unusable, and sent the requests that this call has sent.
Run ==
    [pc      : {"ask", "probe", "asked", "stream", "search", "backoff", "done", "failed"},
     leg     : {"primary", "model", "clients"},
     at      : Nat \ {0},
     attempt : 0 .. MaxAttempts,
     err     : Errors \cup {"none"},
     last    : BOOLEAN,
     refused : SUBSET DOMAIN Fallbacks,
     sent    : Nat]

Legs(leg) == IF leg = "clients" THEN Fallbacks ELSE Pool
Provider(a) == Legs(run[a].leg)[run[a].at]

NewCall ==
    [pc |-> "ask", leg |-> "primary", at |-> 1, attempt |-> 0, err |-> "none",
     last |-> FALSE, refused |-> {}, sent |-> 0]

\* The call returned; of its locals, what the properties ask for is kept.
Succeeded == [NewCall EXCEPT !.pc = "done"]
FailedWith(r, err) == [NewCall EXCEPT !.pc = "failed", !.err = err, !.refused = r.refused]

\* Where an agent is not in a model call.
Returned == {"done", "failed"}

Init ==
    /\ breaker = [p \in Providers |-> NewCircuitBreaker]
    /\ run = [a \in Agents |-> Succeeded]

-----------------------------------------------------------------------------
(* What an agent does next, as functions of its record. *)

\* Faulty: one retry more than the policy allows.
RetryOnceMore(r) ==
    IF r.attempt <= MaxAttempts THEN [r EXCEPT !.pc = "backoff"]
    ELSE [r EXCEPT !.pc = "search", !.last = TRUE]

\* A wait before the next attempt on the primary, or the final search.
RetryOrLastSearch(r) ==
    IF r.attempt < MaxAttempts THEN [r EXCEPT !.pc = "backoff"]
    ELSE [r EXCEPT !.pc = "search", !.last = TRUE]

\* Faulty: FallbackAfterAttempts switches the fallback on from the first error.
PrimaryFailedEagerly(r, err) ==
    LET s == [r EXCEPT !.err = err] IN
    IF ~IsRetriable(err) /\ err # "quota" THEN FailedWith(r, err)
    ELSE IF IsImmediateFallback(err) THEN [s EXCEPT !.pc = "search", !.last = TRUE]
    ELSE IF FallbackAfterAttempts > 0 THEN [s EXCEPT !.pc = "search"]
    ELSE RetryOrLastSearch(s)

\* Faulty: refusals by the breakers are final.
PrimaryRefused(r, err) ==
    LET s == [r EXCEPT !.err = err] IN
    IF ~IsRetriable(err) \/ err = "open" THEN FailedWith(r, err)
    ELSE IF FallbackAfterAttempts > 0 /\ r.attempt + 1 >= FallbackAfterAttempts
    THEN [s EXCEPT !.pc = "search"]
    ELSE RetryOrLastSearch(s)

\* The primary client failed with err, when connecting or in mid-stream.
PrimaryFailed(r, err) ==
    LET s == [r EXCEPT !.err = err] IN
    IF ~IsRetriable(err) /\ err # "quota" THEN FailedWith(r, err)
    ELSE IF IsImmediateFallback(err) THEN [s EXCEPT !.pc = "search", !.last = TRUE]
    ELSE IF FallbackAfterAttempts > 0 /\ r.attempt + 1 >= FallbackAfterAttempts
    THEN [s EXCEPT !.pc = "search"]
    ELSE RetryOrLastSearch(s)

\* The search goes on with the fallback client at place i, if there is one.
SearchClients(r, i) ==
    IF i <= Len(Fallbacks)
    THEN [r EXCEPT !.pc = "probe", !.leg = "clients", !.at = i]
    ELSE IF r.last THEN FailedWith(r, r.err)
    ELSE RetryOrLastSearch(r)

\* The provider at this place refused, or failed with err.
Failed(r, err) ==
    IF r.leg = "clients"
    THEN SearchClients([r EXCEPT !.refused = @ \cup {r.at}], r.at + 1)
    ELSE IF r.at < Len(Pool) THEN [r EXCEPT !.pc = "ask", !.at = @ + 1]
    ELSE IF r.leg = "model" THEN SearchClients(r, 1)
    ELSE PrimaryFailed(r, err)

-----------------------------------------------------------------------------
Begin(a) ==
    /\ run[a].pc \in Returned
    /\ run' = [run EXCEPT ![a] = NewCall]
    /\ UNCHANGED breaker

\* CircuitBreakerClient.Stream asks the breaker, and sends the request.
Ask(a) ==
    /\ run[a].pc = "ask"
    /\ breaker' = [breaker EXCEPT ![Provider(a)] = CanExecute(@)]
    /\ LET r == run[a] IN
       run' = [run EXCEPT ![a] =
                  IF Admits(breaker[Provider(a)])
                  THEN [r EXCEPT !.pc = "asked", !.sent = r.sent + 1]
                  ELSE Failed(r, "open")]

\* What CircuitBreakerClient.Stream tells the breaker.
Record(b, outcome) ==
    IF outcome = "ok" THEN RecordSuccess(b)
    ELSE IF outcome = "trips" THEN RecordFailure(b) ELSE b

\* The provider opens a stream or answers with an error.
Answer(a) ==
    /\ run[a].pc = "asked"
    /\ \E outcome \in Outcomes :
        /\ breaker' = [breaker EXCEPT ![Provider(a)] = Record(@, outcome)]
        /\ run' = [run EXCEPT ![a] =
                      IF outcome = "ok" THEN [@ EXCEPT !.pc = "stream"]
                      ELSE Failed(@, outcome)]

\* The stream is consumed to its end, or breaks; the breaker is not told.  A
\* broken stream of the primary client is retried if the text of its error
\* looks retriable, one of a fallback is not.
Consume(a) ==
    /\ run[a].pc = "stream"
    /\ \/ run' = [run EXCEPT ![a] = Succeeded]
       \/ /\ run[a].leg = "primary"
          /\ \E err \in {"trips", "invalid"} : run' = [run EXCEPT ![a] = PrimaryFailed(@, err)]
       \/ /\ run[a].leg # "primary"
          /\ run' = [run EXCEPT ![a] = FailedWith(@, "broken")]
    /\ UNCHANGED breaker

\* Faulty: the attempt is not counted.
RetryUncounted(a) ==
    /\ run[a].pc = "backoff"
    /\ run' = [run EXCEPT ![a].pc = "ask", ![a].leg = "primary", ![a].at = 1]
    /\ UNCHANGED breaker

\* The backoff is over, or the context is cancelled during it.
Retry(a) ==
    /\ run[a].pc = "backoff"
    /\ \/ run' = [run EXCEPT ![a].pc = "ask", ![a].leg = "primary", ![a].at = 1,
                             ![a].attempt = @ + 1]
       \/ run' = [run EXCEPT ![a] = FailedWith(@, "cancelled")]
    /\ UNCHANGED breaker

\* tryFallback: FallbackModel first, unless the primary client is a single
\* provider whose breaker is open.  It reads the state as it stands, so a
\* breaker whose timeout has passed still counts as open.
Search(a) ==
    /\ run[a].pc = "search"
    /\ LET r == [run[a] EXCEPT !.refused = {}]
           skipPrimary == Len(Pool) = 1 /\ breaker[Pool[1]].state = "open"
       IN  run' = [run EXCEPT ![a] =
                     IF UsesFallbackModel /\ ~skipPrimary
                     THEN [r EXCEPT !.pc = "ask", !.leg = "model", !.at = 1]
                     ELSE SearchClients(r, 1)]
    /\ UNCHANGED breaker

\* Faulty: the search waits for the client instead of skipping it.
ProbeWaits(a) ==
    /\ run[a].pc = "probe"
    /\ Admits(breaker[Provider(a)])
    /\ breaker' = [breaker EXCEPT ![Provider(a)] = CanExecute(@)]
    /\ run' = [run EXCEPT ![a].pc = "ask"]

\* tryFallback asks the breaker of a fallback client whether it is worth
\* calling: with CanExecute, which grants a request.
Probe(a) ==
    /\ run[a].pc = "probe"
    /\ breaker' = [breaker EXCEPT ![Provider(a)] = CanExecute(@)]
    /\ run' = [run EXCEPT ![a] =
                  IF Admits(breaker[Provider(a)]) THEN [@ EXCEPT !.pc = "ask"]
                  ELSE Failed(@, "open")]

Step(a) == Ask(a) \/ Answer(a) \/ Consume(a) \/ Retry(a) \/ Search(a) \/ Probe(a)

Elapse(p) ==
    /\ ~breaker[p].elapsed
    /\ breaker' = [breaker EXCEPT ![p] = TimeoutElapses(@)]
    /\ UNCHANGED run

Next ==
    \/ \E a \in Agents : Begin(a) \/ Step(a)
    \/ \E p \in Providers : Elapse(p)

Spec == Init /\ [][Next]_vars

\* Providers answer or time out, backoffs end, streams end, the clock runs;
\* no agent has to make a call.
Fairness ==
    /\ \A a \in Agents : WF_vars(Step(a))
    /\ \A p \in Providers : WF_vars(Elapse(p))

FairSpec == Spec /\ Fairness

\* The agents never stop making calls.
BusySpec == FairSpec /\ \A a \in Agents : WF_vars(Begin(a))

-----------------------------------------------------------------------------
\* Types; an agent always stands at an existing place of the provider list it
\* goes through.
TypeOK ==
    /\ breaker \in [Providers -> Breaker]
    /\ run \in [Agents -> Run]
    /\ \A a \in Agents : run[a].at \in DOMAIN Legs(run[a].leg)

\* The breakers that several agents share, probe and report to late stay
\* consistent.
BreakersShape == \A p \in Providers : WellFormed(breaker[p])

\* A call that fails for a reason another provider might not have has found
\* every fallback client refusing or failing since the primary failed.
GivesUpHonestly ==
    \A a \in Agents :
        run[a].pc = "failed" /\ run[a].err \in {"open", "trips", "auth", "quota"} =>
            run[a].refused = DOMAIN Fallbacks

\* Nobody falls back early: the error asks for it at once, or the configured
\* number of attempts has been made.
FallbackWhenDue ==
    \A a \in Agents :
        run[a].leg # "primary" =>
            \/ IsImmediateFallback(run[a].err)
            \/ run[a].attempt = MaxAttempts
            \/ FallbackAfterAttempts > 0 /\ run[a].attempt + 1 >= FallbackAfterAttempts

\* One model call never costs more requests than the attempts and searches
\* that the policy allows.
Searches ==
    IF FallbackAfterAttempts \in 1 .. MaxAttempts + 1
    THEN MaxAttempts + 3 - FallbackAfterAttempts ELSE 1

RequestsBounded ==
    \A a \in Agents :
        run[a].sent <= (MaxAttempts + 1) * Len(Pool)
                        + Searches * (Len(Pool) + Len(Fallbacks))

\* Every call comes to an end.
CallEnds == \A a \in Agents : []<>(run[a].pc \in Returned)

\* The breaker of a fallback client recovers automatically, too.
FallbackRecovers ==
    \A i \in DOMAIN Fallbacks : []<>Admits(breaker[Fallbacks[i]])
=============================================================================
