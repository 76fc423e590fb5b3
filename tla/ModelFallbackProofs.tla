------------------------- MODULE ModelFallbackProofs -------------------------
(***************************************************************************)
(* ModelFallback for any agents, provider lists and retry policy: the      *)
(* shared breakers stay well formed, although a fallback client's breaker  *)
(* is probed outside the protocol of CircuitBreakerClient, no agent        *)
(* falls back before it is due or gives up with a fallback client untried, *)
(* and no call costs more requests or goes on for longer than the policy   *)
(* allows.                                                                 *)
(***************************************************************************)
EXTENDS ModelFallback, Integers, TLAPS

\* Every method of the breaker keeps it well formed, whoever calls it.
LEMMA MethodsOK ==
    ASSUME NEW b \in Breaker, WellFormed(b)
    PROVE  /\ CanExecute(b) \in Breaker /\ WellFormed(CanExecute(b))
           /\ RecordSuccess(b) \in Breaker /\ WellFormed(RecordSuccess(b))
           /\ RecordFailure(b) \in Breaker /\ WellFormed(RecordFailure(b))
           /\ TimeoutElapses(b) \in Breaker /\ WellFormed(TimeoutElapses(b))
<1>1. CanExecute(b) \in Breaker /\ WellFormed(CanExecute(b))
  <2>1. CASE Recovered(b) = b
    BY <2>1, SettingsAssumption DEF CanExecute, WellFormed, Breaker
  <2>2. CASE b.state = "open" /\ b.elapsed
    <3> DEFINE r == [b EXCEPT !.state = "half-open", !.reqs = 0, !.success = 0]
    <3>1. Recovered(b) = r
      BY <2>2 DEF Recovered
    <3>2. /\ r \in Breaker /\ r.state = "half-open" /\ r.reqs = 0 /\ r.success = 0
          /\ r.failures = FailureThreshold
      BY <2>2, SettingsAssumption DEF Breaker, WellFormed
    <3> HIDE DEF r
    <3>3. CanExecute(b) = [r EXCEPT !.reqs = @ + 1]
      BY <3>1, <3>2, SettingsAssumption DEF CanExecute
    <3> QED
      BY <3>1, <3>2, <3>3, SettingsAssumption DEF Breaker, WellFormed
  <2> QED
    BY <2>1, <2>2 DEF Recovered
<1>2. RecordSuccess(b) \in Breaker /\ WellFormed(RecordSuccess(b))
  <2>1. CASE b.state # "half-open"
    BY <2>1, SettingsAssumption DEF RecordSuccess, WellFormed, Breaker
  <2>2. CASE b.state = "half-open"
    BY <2>2, SettingsAssumption DEF RecordSuccess, WellFormed, Breaker
  <2> QED
    BY <2>1, <2>2
<1>3. RecordFailure(b) \in Breaker /\ WellFormed(RecordFailure(b))
  <2>1. CASE b.state = "closed"
    BY <2>1, SettingsAssumption DEF RecordFailure, WellFormed, Breaker
  <2>2. CASE b.state # "closed"
    BY <2>2, SettingsAssumption DEF RecordFailure, WellFormed, Breaker
  <2> QED
    BY <2>1, <2>2
<1>4. TimeoutElapses(b) \in Breaker /\ WellFormed(TimeoutElapses(b))
  BY SettingsAssumption DEF TimeoutElapses, WellFormed, Breaker
<1> QED
  BY <1>1, <1>2, <1>3, <1>4

\* The two parts are inductive together: a method keeps the shape of a breaker
\* that has a breaker's type.
BreakersInv == breaker \in [Providers -> Breaker] /\ BreakersShape

LEMMA InitBreakers == Init => BreakersInv
BY SettingsAssumption
DEF Init, BreakersInv, BreakersShape, NewCircuitBreaker, Breaker, WellFormed

\* A step that replaces one breaker by a well-formed one.
LEMMA OneBreaker ==
    ASSUME BreakersInv, NEW p,
           NEW b, p \in Providers => b \in Breaker /\ WellFormed(b),
           breaker' = [breaker EXCEPT ![p] = b]
    PROVE  BreakersInv'
<1>1. breaker' \in [Providers -> Breaker]
  BY DEF BreakersInv
<1>2. ASSUME NEW q \in Providers PROVE WellFormed(breaker'[q])
  BY DEF BreakersInv, BreakersShape
<1>3. BreakersShape'
  BY <1>2 DEF BreakersShape, WellFormed
<1> QED
  BY <1>1, <1>3 DEF BreakersInv

LEMMA NextBreakers == BreakersInv /\ [Next]_vars => BreakersInv'
<1> SUFFICES ASSUME BreakersInv, [Next]_vars PROVE BreakersInv'
  OBVIOUS
<1>0. \A p \in Providers : breaker[p] \in Breaker /\ WellFormed(breaker[p])
  BY DEF BreakersInv, BreakersShape
<1>1. CASE UNCHANGED breaker
  BY <1>1 DEF BreakersInv, BreakersShape, WellFormed
<1>2. ASSUME NEW a \in Agents, breaker' = [breaker EXCEPT ![Provider(a)] = CanExecute(@)]
      PROVE  BreakersInv'
  <2>1. breaker' = [breaker EXCEPT ![Provider(a)] = CanExecute(breaker[Provider(a)])]
    BY <1>2
  <2>2. Provider(a) \in Providers =>
            /\ CanExecute(breaker[Provider(a)]) \in Breaker
            /\ WellFormed(CanExecute(breaker[Provider(a)]))
    BY <1>0, MethodsOK
  <2> QED
    BY <2>1, <2>2, OneBreaker
<1>3. ASSUME NEW a \in Agents, Answer(a) PROVE BreakersInv'
  <2>1. PICK outcome \in Outcomes :
          breaker' = [breaker EXCEPT ![Provider(a)] = Record(breaker[Provider(a)], outcome)]
    BY <1>3 DEF Answer
  <2>2. Provider(a) \in Providers =>
            /\ Record(breaker[Provider(a)], outcome) \in Breaker
            /\ WellFormed(Record(breaker[Provider(a)], outcome))
    BY <1>0, MethodsOK DEF Record
  <2> QED
    BY <2>1, <2>2, OneBreaker
<1>4. ASSUME NEW p \in Providers, Elapse(p) PROVE BreakersInv'
  <2>1. breaker' = [breaker EXCEPT ![p] = TimeoutElapses(breaker[p])]
    BY <1>4 DEF Elapse
  <2>2. TimeoutElapses(breaker[p]) \in Breaker /\ WellFormed(TimeoutElapses(breaker[p]))
    BY <1>0, MethodsOK
  <2> QED
    BY <2>1, <2>2, OneBreaker
<1> QED
  BY <1>1, <1>2, <1>3, <1>4
  DEF Next, Step, Begin, Ask, Consume, Retry, Search, Probe, vars

\* The breakers that agents share keep counters that agree with their states,
\* whichever of them probe, send and report, in whatever order.
THEOREM SharedBreakers == Spec => []BreakersShape
<1>1. BreakersInv => BreakersShape
  BY DEF BreakersInv
<1> QED
  BY <1>1, InitBreakers, NextBreakers, PTL DEF Spec

-----------------------------------------------------------------------------
(* What an agent's record says, whatever the breakers do. *)

\* The moment for a fallback has come.
Due(r) ==
    \/ IsImmediateFallback(r.err)
    \/ r.attempt = MaxAttempts
    \/ FallbackAfterAttempts > 0 /\ r.attempt + 1 >= FallbackAfterAttempts

WellPlaced(r) == r \in Run /\ r.at \in DOMAIN Legs(r.leg)

\* Beyond the types: only a due fallback is searched or used, an agent waits
\* only for an attempt that it still has, and the clients it has passed by are
\* exactly those before its place.
RunOK(r) ==
    /\ WellPlaced(r)
    /\ r.leg # "primary" \/ r.pc = "search" => Due(r)
    /\ r.pc = "backoff" => r.attempt < MaxAttempts
    /\ r.leg = "model" => r.refused = {}
    /\ r.leg = "clients" /\ r.pc \in {"ask", "probe", "asked", "stream"} =>
            r.refused = 1 .. r.at - 1
    /\ r.pc = "failed" /\ r.err \in {"open", "trips", "auth", "quota"} =>
            r.refused = DOMAIN Fallbacks

RunsInv == run \in [Agents -> Run] /\ \A a \in Agents : RunOK(run[a])

LEMMA Lists ==
    /\ Len(Pool) \in Nat \ {0} /\ DOMAIN Pool = 1 .. Len(Pool)
    /\ Len(Fallbacks) \in Nat /\ DOMAIN Fallbacks = 1 .. Len(Fallbacks)
BY FallbackAssumption

\* The records with which a call begins and ends.
LEMMA EndsOK ==
    /\ RunOK(NewCall)
    /\ RunOK(Succeeded)
    /\ \A r \in Run : \A err \in Errors \cup {"none"} :
        (err \in {"open", "trips", "auth", "quota"} => r.refused = DOMAIN Fallbacks)
            => RunOK(FailedWith(r, err))
<1>1. NewCall \in Run /\ 1 \in DOMAIN Legs("primary")
  BY Lists, FallbackAssumption DEF NewCall, Run, Legs
<1>2. RunOK(NewCall)
  BY <1>1 DEF RunOK, WellPlaced, NewCall
<1>3. RunOK(Succeeded)
  BY <1>1 DEF RunOK, WellPlaced, Succeeded, NewCall, Run
<1>4. ASSUME NEW r \in Run, NEW err \in Errors \cup {"none"},
             err \in {"open", "trips", "auth", "quota"} => r.refused = DOMAIN Fallbacks
      PROVE  RunOK(FailedWith(r, err))
  <2> DEFINE s == FailedWith(r, err)
  <2>1. /\ s = [NewCall EXCEPT !.pc = "failed", !.err = err, !.refused = r.refused]
        /\ r.refused \in SUBSET DOMAIN Fallbacks
    BY DEF FailedWith, Run
  <2>2. s \in Run
    BY <1>1, <2>1 DEF Run
  <2>3. /\ s.pc = "failed" /\ s.leg = "primary" /\ s.at = 1
        /\ s.err = err /\ s.refused = r.refused
    BY <2>1 DEF NewCall
  <2> QED
    BY <1>1, <1>4, <2>2, <2>3 DEF RunOK, WellPlaced
<1> QED
  BY <1>2, <1>3, <1>4

\* Where a search that is due goes when the clients before place i have
\* refused or failed.
LEMMA SearchClientsOK ==
    ASSUME NEW r, WellPlaced(r), Due(r),
           NEW i \in 1 .. Len(Fallbacks) + 1, r.refused = 1 .. i - 1,
           r.leg = "model" => r.refused = {}
    PROVE  RunOK(SearchClients(r, i))
<1>1. CASE i <= Len(Fallbacks)
  <2> DEFINE s == [r EXCEPT !.pc = "probe", !.leg = "clients", !.at = i]
  <2>1. SearchClients(r, i) = s
    BY <1>1 DEF SearchClients
  <2>2. s \in Run /\ s.at \in DOMAIN Legs(s.leg) /\ s.refused = 1 .. s.at - 1
    <3>1. i \in Nat \ {0} /\ i \in DOMAIN Fallbacks
      BY <1>1, Lists
    <3>2. s \in Run /\ s.leg = "clients" /\ s.at = i /\ s.refused = r.refused
      BY <3>1 DEF WellPlaced, Run
    <3>3. Legs(s.leg) = Fallbacks
      BY <3>2 DEF Legs
    <3> QED
      BY <3>1, <3>2, <3>3
  <2>3. Due(s)
    BY DEF Due, WellPlaced, Run
  <2> QED
    BY <2>1, <2>2, <2>3 DEF RunOK, WellPlaced, Run
<1>2. CASE i = Len(Fallbacks) + 1 /\ r.last
  <2>1. SearchClients(r, i) = FailedWith(r, r.err)
    BY <1>2, Lists DEF SearchClients
  <2>2. r.refused = DOMAIN Fallbacks
    BY <1>2, Lists
  <2> QED
    BY <2>1, <2>2, EndsOK DEF WellPlaced, Run
<1>3. CASE i = Len(Fallbacks) + 1 /\ ~r.last
  <2>1. SearchClients(r, i) = RetryOrLastSearch(r)
    BY <1>3, Lists DEF SearchClients
  <2>2. CASE r.attempt < MaxAttempts
    <3> DEFINE s == [r EXCEPT !.pc = "backoff"]
    <3>1. RetryOrLastSearch(r) = s
      BY <2>2 DEF RetryOrLastSearch
    <3>2. /\ s.pc = "backoff" /\ s.leg = r.leg /\ s.at = r.at /\ s.refused = r.refused
          /\ s.attempt = r.attempt /\ s.err = r.err
      BY DEF WellPlaced, Run
    <3>3. WellPlaced(s) /\ Due(s)
      BY <3>2 DEF Due, WellPlaced, Run
    <3>4. RunOK(s)
      BY <2>2, <3>2, <3>3 DEF RunOK
    <3> QED
      BY <2>1, <3>1, <3>4
  <2>3. CASE ~(r.attempt < MaxAttempts)
    <3> DEFINE s == [r EXCEPT !.pc = "search", !.last = TRUE]
    <3>1. RetryOrLastSearch(r) = s
      BY <2>3 DEF RetryOrLastSearch
    <3>2. /\ s.pc = "search" /\ s.leg = r.leg /\ s.at = r.at /\ s.refused = r.refused
          /\ s.attempt = r.attempt /\ s.err = r.err
      BY DEF WellPlaced, Run
    <3>3. WellPlaced(s) /\ Due(s)
      BY <3>2 DEF Due, WellPlaced, Run
    <3>4. RunOK(s)
      BY <3>2, <3>3 DEF RunOK
    <3> QED
      BY <2>1, <3>1, <3>4
  <2> QED
    BY <2>2, <2>3
<1> QED
  BY <1>1, <1>2, <1>3, Lists

\* The primary client failed: the agent gives up for a reason of its own,
\* waits for the next attempt, or searches when it is time to.
LEMMA PrimaryFailedOK ==
    ASSUME NEW r, WellPlaced(r), r.leg = "primary", NEW err \in Errors
    PROVE  RunOK(PrimaryFailed(r, err))
<1> DEFINE s == [r EXCEPT !.err = err]
           last == [s EXCEPT !.pc = "search", !.last = TRUE]
           search == [s EXCEPT !.pc = "search"]
           backoff == [s EXCEPT !.pc = "backoff"]
<1>1. CASE ~IsRetriable(err) /\ err # "quota"
  <2>1. PrimaryFailed(r, err) = FailedWith(r, err)
    BY <1>1 DEF PrimaryFailed
  <2>2. err \notin {"open", "trips", "auth", "quota"}
    BY <1>1 DEF IsRetriable
  <2> QED
    BY <2>1, <2>2, EndsOK DEF WellPlaced
<1>2. /\ s \in Run /\ last \in Run /\ search \in Run /\ backoff \in Run
      /\ s.at \in DOMAIN Legs("primary")
  BY DEF WellPlaced, Run
<1>3. ASSUME Due(last) PROVE RunOK(last)
  BY <1>2, <1>3 DEF RunOK, WellPlaced, Run
<1>4. ASSUME Due(search) PROVE RunOK(search)
  BY <1>2, <1>4 DEF RunOK, WellPlaced, Run
<1>5. ASSUME r.attempt < MaxAttempts PROVE RunOK(backoff)
  BY <1>2, <1>5 DEF RunOK, WellPlaced, Run
<1>6. CASE IsImmediateFallback(err) /\ ~(~IsRetriable(err) /\ err # "quota")
  <2>1. PrimaryFailed(r, err) = last
    BY <1>6 DEF PrimaryFailed
  <2>2. Due(last)
    BY <1>6 DEF Due, WellPlaced, Run
  <2> QED
    BY <2>1, <2>2, <1>3
<1>7. CASE ~IsImmediateFallback(err) /\ ~(~IsRetriable(err) /\ err # "quota")
  <2>1. CASE FallbackAfterAttempts > 0 /\ r.attempt + 1 >= FallbackAfterAttempts
    <3>1. PrimaryFailed(r, err) = search
      BY <1>7, <2>1 DEF PrimaryFailed
    <3>2. Due(search)
      BY <2>1 DEF Due, WellPlaced, Run
    <3> QED
      BY <3>1, <3>2, <1>4
  <2>2. CASE ~(FallbackAfterAttempts > 0 /\ r.attempt + 1 >= FallbackAfterAttempts)
    <3>1. PrimaryFailed(r, err) = RetryOrLastSearch(s)
      BY <1>7, <2>2 DEF PrimaryFailed
    <3>2. s.attempt = r.attempt
      BY DEF WellPlaced, Run
    <3>3. CASE r.attempt < MaxAttempts
      BY <3>1, <3>2, <3>3, <1>5 DEF RetryOrLastSearch
    <3>4. CASE ~(r.attempt < MaxAttempts)
      <4>1. Due(last)
        BY <3>4, FallbackAssumption DEF Due, WellPlaced, Run
      <4> QED
        BY <3>1, <3>2, <3>4, <4>1, <1>3 DEF RetryOrLastSearch
    <3> QED
      BY <3>3, <3>4
  <2> QED
    BY <2>1, <2>2
<1> QED
  BY <1>1, <1>6, <1>7

\* A provider of any leg refused or failed.
LEMMA FailedOK ==
    ASSUME NEW r, RunOK(r), r.pc \in {"ask", "asked", "probe"}, NEW err \in Errors
    PROVE  RunOK(Failed(r, err))
<1>0. r.at \in Nat /\ r.at >= 1
  BY DEF RunOK, WellPlaced, Run
<1>1. CASE r.leg = "clients"
  <2> DEFINE s == [r EXCEPT !.refused = @ \cup {r.at}]
  <2>1. Failed(r, err) = SearchClients(s, r.at + 1)
    BY <1>1 DEF Failed
  <2>2. r.at \in 1 .. Len(Fallbacks)
    BY <1>1, Lists DEF RunOK, WellPlaced, Legs
  <2>3. r.refused = 1 .. r.at - 1
    BY <1>1 DEF RunOK
  <2>4. s.refused = 1 .. (r.at + 1) - 1
    <3>1. s.refused = r.refused \cup {r.at}
      BY DEF RunOK, WellPlaced, Run
    <3> QED
      BY <3>1, <2>3, <1>0
  <2>5. s \in Run /\ s.at = r.at /\ s.leg = "clients"
    BY <1>1, <2>2, Lists DEF RunOK, WellPlaced, Run
  <2>6. WellPlaced(s) /\ Due(s)
    BY <1>1, <2>5 DEF RunOK, WellPlaced, Due, Run
  <2>7. r.at + 1 \in 1 .. Len(Fallbacks) + 1
    BY <2>2, Lists
  <2> QED
    BY <2>1, <2>4, <2>5, <2>6, <2>7, SearchClientsOK
<1>2. CASE r.leg # "clients" /\ r.at < Len(Pool)
  <2> DEFINE s == [r EXCEPT !.pc = "ask", !.at = @ + 1]
  <2>1. Failed(r, err) = s
    BY <1>2 DEF Failed
  <2>2. s \in Run /\ s.at \in DOMAIN Legs(s.leg)
    <3>1. r.at + 1 \in Nat \ {0} /\ r.at + 1 \in DOMAIN Pool
      BY <1>0, <1>2, Lists
    <3>2. s \in Run /\ s.leg = r.leg /\ s.at = r.at + 1
      BY <3>1 DEF RunOK, WellPlaced, Run
    <3>3. Legs(s.leg) = Pool
      BY <1>2, <3>2 DEF Legs
    <3> QED
      BY <3>1, <3>2, <3>3
  <2>3. s.leg = r.leg /\ s.refused = r.refused /\ s.pc = "ask" /\ (Due(r) => Due(s))
    BY DEF RunOK, WellPlaced, Run, Due
  <2> QED
    BY <1>2, <2>1, <2>2, <2>3 DEF RunOK, WellPlaced
<1>3. CASE r.leg = "model" /\ ~(r.at < Len(Pool))
  <2>1. Failed(r, err) = SearchClients(r, 1)
    BY <1>3 DEF Failed
  <2>2. r.refused = 1 .. 1 - 1
    BY <1>3 DEF RunOK
  <2>3. WellPlaced(r) /\ Due(r) /\ 1 \in 1 .. Len(Fallbacks) + 1
    BY <1>3, Lists DEF RunOK
  <2>4. r.leg = "model" => r.refused = {}
    BY DEF RunOK
  <2>5. RunOK(SearchClients(r, 1))
    BY <2>2, <2>3, <2>4, SearchClientsOK
  <2> QED
    BY <2>1, <2>5
<1>4. CASE r.leg = "primary" /\ ~(r.at < Len(Pool))
  <2>1. Failed(r, err) = PrimaryFailed(r, err)
    BY <1>4 DEF Failed
  <2> QED
    BY <1>4, <2>1, PrimaryFailedOK DEF RunOK
<1> QED
  BY <1>1, <1>2, <1>3, <1>4 DEF RunOK, WellPlaced, Run

\* Where a record goes when the agent's provider is asked, ...
LEMMA AskedOK ==
    ASSUME NEW r, RunOK(r), r.pc = "ask"
    PROVE  RunOK([r EXCEPT !.pc = "asked", !.sent = r.sent + 1])
<1> DEFINE s == [r EXCEPT !.pc = "asked", !.sent = r.sent + 1]
<1>1. r \in Run /\ r.sent + 1 \in Nat
  BY DEF RunOK, WellPlaced, Run
<1>2. s \in Run
  BY <1>1 DEF Run
<1>3. /\ s.leg = r.leg /\ s.at = r.at /\ s.refused = r.refused /\ s.pc = "asked"
      /\ s.err = r.err /\ s.attempt = r.attempt
  BY <1>1 DEF Run
<1> QED
  BY <1>2, <1>3 DEF RunOK, WellPlaced, Due

\* ... the next attempt begins, ...
LEMMA AgainOK ==
    ASSUME NEW r, RunOK(r), r.pc = "backoff"
    PROVE  RunOK([r EXCEPT !.pc = "ask", !.leg = "primary", !.at = 1,
                           !.attempt = r.attempt + 1])
<1>1. r \in Run /\ r.attempt + 1 \in 0 .. MaxAttempts
  <2>1. r \in Run /\ r.attempt \in 0 .. MaxAttempts /\ r.attempt < MaxAttempts
    BY DEF RunOK, WellPlaced, Run
  <2> QED
    BY <2>1, FallbackAssumption
<1>2. ASSUME NEW i \in DOMAIN Pool
      PROVE  RunOK([r EXCEPT !.pc = "ask", !.leg = "primary", !.at = i,
                             !.attempt = r.attempt + 1])
  <2> DEFINE s == [r EXCEPT !.pc = "ask", !.leg = "primary", !.at = i,
                            !.attempt = r.attempt + 1]
  <2>1. i \in Nat \ {0}
    BY Lists
  <2>2. s \in Run /\ s.leg = "primary" /\ s.at = i /\ s.pc = "ask"
    BY <1>1, <2>1 DEF Run
  <2> QED
    BY <2>2 DEF RunOK, WellPlaced, Legs
<1>3. 1 \in DOMAIN Pool
  BY Lists
<1> QED
  BY <1>2, <1>3, Zenon

\* ... or the fallback model is tried.
LEMMA ModelOK ==
    ASSUME NEW r \in Run, Due(r), r.refused = {}
    PROVE  RunOK([r EXCEPT !.pc = "ask", !.leg = "model", !.at = 1])
<1>1. ASSUME NEW i \in DOMAIN Pool
      PROVE  RunOK([r EXCEPT !.pc = "ask", !.leg = "model", !.at = i])
  <2> DEFINE s == [r EXCEPT !.pc = "ask", !.leg = "model", !.at = i]
  <2>1. i \in Nat \ {0}
    BY Lists
  <2>2. /\ s \in Run /\ s.leg = "model" /\ s.at = i /\ s.pc = "ask" /\ s.refused = {}
        /\ s.err = r.err /\ s.attempt = r.attempt
    BY <2>1 DEF Run
  <2> QED
    BY <2>2 DEF RunOK, WellPlaced, Due, Legs
<1>2. 1 \in DOMAIN Pool
  BY Lists
<1> QED
  BY <1>1, <1>2, Zenon

\* What a step makes of the record of the agent that takes it.
Becomes(r, s) ==
    \/ r.pc \in Returned /\ s = NewCall
    \/ r.pc = "ask" /\ s = [r EXCEPT !.pc = "asked", !.sent = r.sent + 1]
    \/ r.pc \in {"ask", "asked", "probe"} /\ \E err \in Errors : s = Failed(r, err)
    \/ r.pc = "asked" /\ s = [r EXCEPT !.pc = "stream"]
    \/ r.pc = "stream" /\ s = Succeeded
    \/ r.pc = "stream" /\ r.leg = "primary" /\ \E err \in Errors : s = PrimaryFailed(r, err)
    \/ r.pc \in {"stream", "backoff"} /\ \E err \in {"broken", "cancelled"} : s = FailedWith(r, err)
    \/ r.pc = "backoff" /\ s = [r EXCEPT !.pc = "ask", !.leg = "primary", !.at = 1,
                                         !.attempt = r.attempt + 1]
    \/ r.pc = "search" /\ s = [[r EXCEPT !.refused = {}] EXCEPT !.pc = "ask", !.leg = "model",
                                                                !.at = 1]
    \/ r.pc = "search" /\ s = SearchClients([r EXCEPT !.refused = {}], 1)
    \/ r.pc = "probe" /\ s = [r EXCEPT !.pc = "ask"]

LEMMA AgentBecomes ==
    ASSUME run \in [Agents -> Run], NEW a \in Agents, Begin(a) \/ Step(a)
    PROVE  \E s : Becomes(run[a], s) /\ run' = [run EXCEPT ![a] = s]
<1>1. CASE Begin(a)
  BY <1>1 DEF Begin, Becomes
<1>2. CASE Ask(a)
  BY <1>2, Zenon DEF Ask, Becomes, Errors
<1>3. CASE Answer(a)
  <2>1. PICK outcome \in Outcomes :
          run' = [run EXCEPT ![a] = IF outcome = "ok" THEN [run[a] EXCEPT !.pc = "stream"]
                                    ELSE Failed(run[a], outcome)]
    BY <1>3 DEF Answer
  <2>2. outcome # "ok" => outcome \in Errors
    BY FallbackAssumption DEF Errors
  <2> QED
    BY <1>3, <2>1, <2>2 DEF Answer, Becomes
<1>4. CASE Consume(a)
  <2>1. {"trips", "invalid"} \subseteq Errors
    BY DEF Errors, AllOutcomes
  <2> QED
    BY <1>4, <2>1, Zenon DEF Consume, Becomes
<1>5. CASE Retry(a)
  <2>1. \/ run' = [run EXCEPT ![a] = [run[a] EXCEPT !.pc = "ask", !.leg = "primary", !.at = 1,
                                                    !.attempt = run[a].attempt + 1]]
        \/ run' = [run EXCEPT ![a] = FailedWith(run[a], "cancelled")]
    BY <1>5 DEF Retry
  <2> QED
    BY <1>5, <2>1, Zenon DEF Retry, Becomes
<1>6. CASE Search(a)
  BY <1>6, Zenon DEF Search, Becomes
<1>7. CASE Probe(a)
  BY <1>7, Zenon DEF Probe, Becomes, Errors
<1> QED
  BY <1>1, <1>2, <1>3, <1>4, <1>5, <1>6, <1>7 DEF Step

LEMMA NextBecomes ==
    ASSUME run \in [Agents -> Run], [Next]_vars
    PROVE  \/ UNCHANGED run
           \/ \E a \in Agents : \E s : Becomes(run[a], s) /\ run' = [run EXCEPT ![a] = s]
BY AgentBecomes DEF Next, Elapse, vars

LEMMA BecomesOK ==
    ASSUME NEW r, RunOK(r), NEW s, Becomes(r, s)
    PROVE  RunOK(s)
<1>0. WellPlaced(r) /\ r \in Run
  BY DEF RunOK, WellPlaced
<1>1. CASE s = NewCall \/ s = Succeeded
  BY <1>1, EndsOK
<1>2. CASE r.pc = "ask" /\ s = [r EXCEPT !.pc = "asked", !.sent = r.sent + 1]
  BY <1>2, AskedOK
<1>3. CASE r.pc \in {"ask", "asked", "probe"} /\ \E err \in Errors : s = Failed(r, err)
  BY <1>3, FailedOK
<1>4. CASE r.pc = "asked" /\ s = [r EXCEPT !.pc = "stream"]
  <2>1. /\ s \in Run /\ s.leg = r.leg /\ s.at = r.at /\ s.refused = r.refused
        /\ s.pc = "stream" /\ (Due(r) => Due(s))
    BY <1>0, <1>4 DEF Run, Due
  <2> QED
    BY <1>4, <2>1 DEF RunOK, WellPlaced
<1>5. CASE r.leg = "primary" /\ \E err \in Errors : s = PrimaryFailed(r, err)
  BY <1>0, <1>5, PrimaryFailedOK
<1>6. CASE \E err \in {"broken", "cancelled"} : s = FailedWith(r, err)
  BY <1>0, <1>6, EndsOK DEF Errors
<1>7. CASE /\ r.pc = "backoff"
           /\ s = [r EXCEPT !.pc = "ask", !.leg = "primary", !.at = 1, !.attempt = r.attempt + 1]
  BY <1>7, AgainOK
<1>8. CASE /\ r.pc = "search"
           /\ \/ s = [[r EXCEPT !.refused = {}] EXCEPT !.pc = "ask", !.leg = "model", !.at = 1]
              \/ s = SearchClients([r EXCEPT !.refused = {}], 1)
  <2> DEFINE q == [r EXCEPT !.refused = {}]
  <2>1. /\ q \in Run /\ q.leg = r.leg /\ q.at = r.at /\ q.refused = {}
        /\ Due(r) => Due(q)
    BY <1>0 DEF Run, Due
  <2>2. WellPlaced(q) /\ Due(q)
    BY <1>8, <2>1 DEF RunOK, WellPlaced
  <2>3. RunOK([q EXCEPT !.pc = "ask", !.leg = "model", !.at = 1])
    BY <2>1, <2>2, ModelOK
  <2>4. RunOK(SearchClients(q, 1))
    <3>1. 1 \in 1 .. Len(Fallbacks) + 1 /\ q.refused = 1 .. 1 - 1
      BY <2>1, Lists
    <3> QED
      BY <2>1, <2>2, <3>1, SearchClientsOK
  <2> QED
    BY <1>8, <2>3, <2>4
<1>9. CASE r.pc = "probe" /\ s = [r EXCEPT !.pc = "ask"]
  <2>1. /\ s \in Run /\ s.leg = r.leg /\ s.at = r.at /\ s.refused = r.refused
        /\ s.pc = "ask" /\ (Due(r) => Due(s))
    BY <1>0, <1>9 DEF Run, Due
  <2> QED
    BY <1>9, <2>1 DEF RunOK, WellPlaced
<1> QED
  BY <1>1, <1>2, <1>3, <1>4, <1>5, <1>6, <1>7, <1>8, <1>9, Zenon DEF Becomes

LEMMA InitRuns == Init => RunsInv
BY EndsOK DEF Init, RunsInv, RunOK, WellPlaced

LEMMA NextRuns == RunsInv /\ [Next]_vars => RunsInv'
<1> SUFFICES ASSUME RunsInv, [Next]_vars PROVE RunsInv'
  OBVIOUS
<1>1. CASE UNCHANGED run
  BY <1>1 DEF RunsInv, RunOK, WellPlaced, Due, Legs
<1>2. ASSUME NEW a \in Agents, NEW s, Becomes(run[a], s), run' = [run EXCEPT ![a] = s]
      PROVE  RunsInv'
  <2>1. RunOK(s)
    BY <1>2, BecomesOK DEF RunsInv
  <2>2. run' \in [Agents -> Run]
    BY <1>2, <2>1 DEF RunsInv, RunOK, WellPlaced
  <2>3. ASSUME NEW b \in Agents PROVE RunOK(run'[b])
    BY <1>2, <2>1 DEF RunsInv
  <2>4. (\A b \in Agents : RunOK(run[b]))'
    BY <2>3 DEF RunOK, WellPlaced, Due, Legs
  <2> QED
    BY <2>2, <2>4 DEF RunsInv
<1> QED
  BY <1>1, <1>2, NextBecomes DEF RunsInv

\* All records and breakers keep their types, and nobody leaves the end of the
\* provider list it goes through.
THEOREM TypeCorrect == Spec => []TypeOK
<1>1. BreakersInv /\ RunsInv => TypeOK
  BY DEF BreakersInv, RunsInv, RunOK, WellPlaced, TypeOK
<1> QED
  BY <1>1, InitBreakers, NextBreakers, InitRuns, NextRuns, PTL DEF Spec

\* No agent turns to a fallback before the error asks for it or the attempts
\* that the policy wants have been made.
THEOREM NeverEarly == Spec => []FallbackWhenDue
<1>1. RunsInv => FallbackWhenDue
  BY DEF RunsInv, RunOK, Due, FallbackWhenDue
<1> QED
  BY <1>1, InitRuns, NextRuns, PTL DEF Spec

\* A call fails with an error of the primary client that another provider might
\* not have only when every fallback client has refused or failed.
THEOREM NoneSkipped == Spec => []GivesUpHonestly
<1>1. RunsInv => GivesUpHonestly
  BY DEF RunsInv, RunOK, GivesUpHonestly
<1> QED
  BY <1>1, InitRuns, NextRuns, PTL DEF Spec

-----------------------------------------------------------------------------
(* What a call costs. *)

\* The requests of k attempts on the primary client and n full searches.
Budget(k, n) == k * Len(Pool) + n * (Len(Pool) + Len(Fallbacks))

\* Attempt number k, counted from zero, is followed by a search although it is
\* not the last one; how many such searches the attempts before it had.
SearchDue(k) == FallbackAfterAttempts > 0 /\ k + 1 >= FallbackAfterAttempts
SearchesBefore(k) ==
    IF FallbackAfterAttempts \in 1 .. k THEN k + 1 - FallbackAfterAttempts ELSE 0

\* What a call may have spent when the search that it is in began.  The last
\* attempt may have two: the one that was due and the final one.
SearchStart(r) ==
    Budget(r.attempt + 1,
           SearchesBefore(r.attempt) + IF r.last /\ SearchDue(r.attempt) THEN 1 ELSE 0)

MaySearch(r) == r.last \/ SearchDue(r.attempt)

\* The requests that its place in a list of providers may have cost.
Progress(r) == IF r.pc \in {"asked", "stream"} THEN r.at ELSE r.at - 1

InLeg == {"probe", "ask", "asked", "stream"}

\* Attempts, searches and the place in the list account for every request.
CountOK(r) ==
    /\ r.pc \in Returned => r.sent = 0
    /\ r.pc = "probe" => r.leg = "clients"
    /\ r.pc = "backoff" =>
        ~r.last /\ r.sent <= Budget(r.attempt + 1, SearchesBefore(r.attempt + 1))
    /\ r.pc = "search" => MaySearch(r) /\ r.sent <= SearchStart(r)
    /\ r.pc \in InLeg /\ r.leg = "primary" =>
        ~r.last /\ r.sent <= Budget(r.attempt, SearchesBefore(r.attempt)) + Progress(r)
    /\ r.pc \in InLeg /\ r.leg = "model" =>
        MaySearch(r) /\ r.sent <= SearchStart(r) + Progress(r)
    /\ r.pc \in InLeg /\ r.leg = "clients" =>
        MaySearch(r) /\ r.sent <= SearchStart(r) + Len(Pool) + Progress(r)

CountsInv == RunsInv /\ \A a \in Agents : CountOK(run[a])

\* A budget grows by one leg with every attempt, by two with every search.
LEMMA BudgetGrows ==
    ASSUME NEW k \in Nat, NEW n \in Nat
    PROVE  /\ Budget(k, n) \in Nat
           /\ Budget(k + 1, n) = Budget(k, n) + Len(Pool)
           /\ Budget(k, n + 1) = Budget(k, n) + Len(Pool) + Len(Fallbacks)
BY Lists DEF Budget

LEMMA Product == \A c, d, e \in Nat : d <= e => c * d \in Nat /\ d * c <= e * c
<1> SUFFICES ASSUME NEW c \in Nat, NEW d \in Nat, NEW e \in Nat, d <= e
             PROVE  c * d \in Nat /\ d * c <= e * c
  OBVIOUS
<1>1. PICK x \in Nat : e = d + x
  <2>1. e - d \in Nat /\ e = d + (e - d)
    OBVIOUS
  <2> QED
    BY <2>1
<1>2. e * c = d * c + x * c /\ x * c \in Nat /\ d * c \in Nat
  BY <1>1
<1> QED
  BY <1>2

LEMMA BudgetMonotone ==
    ASSUME NEW k \in Nat, NEW l \in Nat, k <= l, NEW n \in Nat, NEW m \in Nat, n <= m
    PROVE  Budget(k, n) <= Budget(l, m)
<1> DEFINE P == Len(Pool)
           Q == Len(Pool) + Len(Fallbacks)
<1>1. P \in Nat /\ Q \in Nat
  BY Lists
<1>2. Budget(k, n) = k * P + n * Q /\ Budget(l, m) = l * P + m * Q
  BY DEF Budget
<1> HIDE DEF P, Q
<1>3. k * P <= l * P /\ n * Q <= m * Q
  BY <1>1, Product
<1>4. k * P \in Nat /\ l * P \in Nat /\ n * Q \in Nat /\ m * Q \in Nat
  BY <1>1
<1> QED
  BY <1>2, <1>3, <1>4

LEMMA SearchesGrow ==
    ASSUME NEW k \in Nat
    PROVE  /\ SearchesBefore(k) \in Nat
           /\ SearchesBefore(k + 1) = SearchesBefore(k) + IF SearchDue(k) THEN 1 ELSE 0
           /\ SearchesBefore(k + 1) \in Nat /\ SearchesBefore(k) <= SearchesBefore(k + 1)
BY FallbackAssumption DEF SearchesBefore, SearchDue

\* A search starts after the attempt that it follows, and leaves what the next
\* attempt may start with.
LEMMA SearchAccounts ==
    ASSUME NEW r \in Run
    PROVE  /\ SearchStart(r) \in Nat
           /\ Budget(r.attempt, SearchesBefore(r.attempt)) \in Nat
           /\ Budget(r.attempt, SearchesBefore(r.attempt)) + Len(Pool) <= SearchStart(r)
           /\ SearchDue(r.attempt) /\ ~r.last =>
                SearchStart(r) + Len(Pool) + Len(Fallbacks)
                    = Budget(r.attempt + 1, SearchesBefore(r.attempt + 1))
<1> DEFINE k == r.attempt
           n == SearchesBefore(r.attempt)
<1>0. r.attempt \in Nat
  BY FallbackAssumption DEF Run
<1>1. /\ k \in Nat /\ k + 1 \in Nat /\ n \in Nat
      /\ SearchesBefore(k + 1) = n + IF SearchDue(k) THEN 1 ELSE 0
  BY <1>0, SearchesGrow
<1>2. SearchStart(r) = Budget(k + 1, n + IF r.last /\ SearchDue(k) THEN 1 ELSE 0)
  BY DEF SearchStart
<1> HIDE DEF k, n
<1>3. /\ Budget(k, n) \in Nat /\ Budget(k + 1, n) = Budget(k, n) + Len(Pool)
      /\ Budget(k + 1, n) \in Nat
      /\ Budget(k + 1, n + 1) = Budget(k + 1, n) + Len(Pool) + Len(Fallbacks)
  BY <1>1, BudgetGrows
<1>4. SearchStart(r) \in {Budget(k + 1, n), Budget(k + 1, n + 1)}
  BY <1>1, <1>2
<1>5. SearchStart(r) \in Nat /\ Budget(k, n) + Len(Pool) <= SearchStart(r)
  BY <1>3, <1>4, Lists
<1>6. ASSUME SearchDue(k), ~r.last
      PROVE  SearchStart(r) + Len(Pool) + Len(Fallbacks) = Budget(k + 1, SearchesBefore(k + 1))
  BY <1>1, <1>2, <1>3, <1>6
<1> QED
  BY <1>3, <1>5, <1>6 DEF k, n

\* The primary client has failed for good or a client of the search has: the
\* requests so far are those of the legs that are over.
LEMMA SearchClientsCount ==
    ASSUME NEW r \in Run, MaySearch(r), NEW i \in 1 .. Len(Fallbacks) + 1,
           r.sent <= SearchStart(r) + Len(Pool) + i - 1
    PROVE  CountOK(SearchClients(r, i))
<1>0. r.sent \in Nat /\ r.attempt \in Nat /\ r.attempt <= MaxAttempts
  BY FallbackAssumption DEF Run
<1>1. CASE i <= Len(Fallbacks)
  <2> DEFINE s == [r EXCEPT !.pc = "probe", !.leg = "clients", !.at = i]
  <2>1. SearchClients(r, i) = s
    BY <1>1 DEF SearchClients
  <2>2. /\ s.pc = "probe" /\ s.leg = "clients" /\ s.at = i
        /\ s.sent = r.sent /\ s.last = r.last /\ s.attempt = r.attempt
    BY DEF Run
  <2> HIDE DEF s
  <2>3. SearchStart(s) = SearchStart(r) /\ MaySearch(s) /\ Progress(s) = i - 1
    BY <2>2 DEF SearchStart, MaySearch, Progress
  <2>4. s.sent <= SearchStart(s) + Len(Pool) + Progress(s)
    BY <2>2, <2>3, SearchAccounts, Lists
  <2> QED
    BY <2>1, <2>2, <2>3, <2>4 DEF CountOK, InLeg, Returned
<1>2. CASE ~(i <= Len(Fallbacks)) /\ r.last
  BY <1>2 DEF SearchClients, FailedWith, NewCall, CountOK, InLeg, Returned
<1>3. CASE ~(i <= Len(Fallbacks)) /\ ~r.last
  <2>1. SearchClients(r, i) = RetryOrLastSearch(r)
    BY <1>3 DEF SearchClients
  <2>2. SearchDue(r.attempt)
    BY <1>3 DEF MaySearch
  <2>3. r.sent <= Budget(r.attempt + 1, SearchesBefore(r.attempt + 1))
    BY <1>0, <1>3, <2>2, SearchAccounts, Lists
  <2>4. CASE r.attempt < MaxAttempts
    <3> DEFINE s == [r EXCEPT !.pc = "backoff"]
    <3>1. RetryOrLastSearch(r) = s
      BY <2>4 DEF RetryOrLastSearch
    <3>2. /\ s.pc = "backoff" /\ s.sent = r.sent /\ s.last = r.last
          /\ s.attempt = r.attempt
      BY DEF Run
    <3> HIDE DEF s
    <3> QED
      BY <1>3, <2>1, <2>3, <3>1, <3>2 DEF CountOK, InLeg, Returned
  <2>5. CASE ~(r.attempt < MaxAttempts)
    <3> DEFINE s == [r EXCEPT !.pc = "search", !.last = TRUE]
    <3>1. RetryOrLastSearch(r) = s
      BY <2>5 DEF RetryOrLastSearch
    <3>2. /\ s.pc = "search" /\ s.sent = r.sent /\ s.last = TRUE
          /\ s.attempt = r.attempt
      BY DEF Run
    <3> HIDE DEF s
    <3>3. SearchStart(s) = Budget(r.attempt + 1, SearchesBefore(r.attempt + 1))
      BY <1>0, <2>2, <3>2, SearchesGrow DEF SearchStart
    <3>4. MaySearch(s) /\ s.sent <= SearchStart(s)
      BY <2>3, <3>2, <3>3 DEF MaySearch
    <3> QED
      BY <2>1, <3>1, <3>2, <3>4 DEF CountOK, InLeg, Returned
  <2> QED
    BY <2>4, <2>5
<1> QED
  BY <1>1, <1>2, <1>3

LEMMA PrimaryFailedCount ==
    ASSUME NEW r \in Run, ~r.last, NEW err \in Errors,
           r.sent <= Budget(r.attempt, SearchesBefore(r.attempt)) + Len(Pool)
    PROVE  CountOK(PrimaryFailed(r, err))
<1>0. r.sent \in Nat /\ r.attempt \in Nat /\ r.attempt <= MaxAttempts
  BY FallbackAssumption DEF Run
<1>1. ASSUME NEW s \in Run, s.pc = "search", s.sent = r.sent, s.attempt = r.attempt,
             MaySearch(s)
      PROVE  CountOK(s)
  <2>1. Budget(s.attempt, SearchesBefore(s.attempt)) + Len(Pool) <= SearchStart(s)
    BY SearchAccounts
  <2>2. Budget(s.attempt, SearchesBefore(s.attempt)) \in Nat /\ SearchStart(s) \in Nat
    BY <1>0, <1>1, SearchAccounts, BudgetGrows, SearchesGrow
  <2>3. s.sent <= SearchStart(s)
    BY <1>0, <1>1, <2>1, <2>2, Lists
  <2> QED
    BY <1>1, <2>3 DEF CountOK, InLeg, Returned
<1>2. ASSUME NEW s \in Run, s.pc = "backoff", s.sent = r.sent, s.attempt = r.attempt, ~s.last
      PROVE  CountOK(s)
  <2>0. s.attempt \in Nat /\ s.attempt + 1 \in Nat
    BY <1>0, <1>2
  <2>1. /\ SearchesBefore(s.attempt) \in Nat /\ SearchesBefore(s.attempt + 1) \in Nat
        /\ SearchesBefore(s.attempt) <= SearchesBefore(s.attempt + 1)
    BY <2>0, SearchesGrow
  <2>2. Budget(s.attempt, SearchesBefore(s.attempt)) + Len(Pool)
          = Budget(s.attempt + 1, SearchesBefore(s.attempt))
    BY <2>0, <2>1, BudgetGrows
  <2>3. Budget(s.attempt + 1, SearchesBefore(s.attempt))
          <= Budget(s.attempt + 1, SearchesBefore(s.attempt + 1))
    BY <2>0, <2>1, BudgetMonotone
  <2>4. /\ Budget(s.attempt + 1, SearchesBefore(s.attempt)) \in Nat
        /\ Budget(s.attempt + 1, SearchesBefore(s.attempt + 1)) \in Nat
    BY <2>0, <2>1, BudgetGrows
  <2>5. s.sent <= Budget(s.attempt + 1, SearchesBefore(s.attempt + 1))
    BY <1>0, <1>2, <2>2, <2>3, <2>4
  <2> QED
    BY <1>2, <2>5 DEF CountOK, InLeg, Returned
<1> DEFINE s == [r EXCEPT !.err = err]
           last == [s EXCEPT !.pc = "search", !.last = TRUE]
           search == [s EXCEPT !.pc = "search"]
           backoff == [s EXCEPT !.pc = "backoff"]
<1>3. CountOK(FailedWith(r, err))
  BY DEF FailedWith, NewCall, CountOK, InLeg, Returned
<1>4. CountOK(last)
  <2>1. last \in Run /\ last.pc = "search" /\ last.sent = r.sent /\ last.attempt = r.attempt
    BY DEF Run
  <2>2. MaySearch(last)
    BY DEF MaySearch, Run
  <2> QED
    BY <1>1, <2>1, <2>2
<1>5. SearchDue(r.attempt) => CountOK(search)
  <2>1. search \in Run /\ search.pc = "search" /\ search.sent = r.sent
        /\ search.attempt = r.attempt
    BY DEF Run
  <2>2. SearchDue(r.attempt) => MaySearch(search)
    BY <2>1 DEF MaySearch
  <2> QED
    BY <1>1, <2>1, <2>2
<1>6. CountOK(backoff)
  <2>1. /\ backoff \in Run /\ backoff.pc = "backoff" /\ backoff.sent = r.sent
        /\ backoff.attempt = r.attempt /\ ~backoff.last
    BY DEF Run
  <2> QED
    BY <1>2, <2>1
<1>7. \/ PrimaryFailed(r, err) \in {FailedWith(r, err), last, backoff}
      \/ SearchDue(r.attempt) /\ PrimaryFailed(r, err) = search
  BY DEF PrimaryFailed, RetryOrLastSearch, SearchDue
<1> QED
  BY <1>3, <1>4, <1>5, <1>6, <1>7

LEMMA FailedCount ==
    ASSUME NEW r, WellPlaced(r), CountOK(r), r.pc \in {"ask", "asked", "probe"},
           NEW err \in Errors
    PROVE  CountOK(Failed(r, err))
<1>0. r \in Run /\ r.at \in Nat /\ r.at >= 1 /\ r.sent \in Nat /\ SearchStart(r) \in Nat
  BY SearchAccounts DEF WellPlaced, Run
<1>1. Progress(r) \in Nat /\ Progress(r) <= r.at
  BY <1>0 DEF Progress
<1>2. CASE r.leg = "clients"
  <2> DEFINE s == [r EXCEPT !.refused = @ \cup {r.at}]
  <2>1. Failed(r, err) = SearchClients(s, r.at + 1)
    BY <1>2 DEF Failed
  <2>2. r.at \in 1 .. Len(Fallbacks)
    BY <1>2, Lists DEF WellPlaced, Legs
  <2>3. s \in Run
    BY <1>0, <2>2, Lists DEF Run
  <2>4. s.sent = r.sent /\ s.last = r.last /\ s.attempt = r.attempt
    BY <1>0 DEF Run
  <2> HIDE DEF s
  <2>5. MaySearch(r) /\ r.sent <= SearchStart(r) + Len(Pool) + Progress(r)
    BY <1>2 DEF CountOK, InLeg
  <2>6. MaySearch(s) /\ SearchStart(s) = SearchStart(r)
    BY <2>4, <2>5 DEF MaySearch, SearchStart
  <2>7. r.at + 1 \in 1 .. Len(Fallbacks) + 1
    BY <2>2, Lists
  <2>8. s.sent <= SearchStart(s) + Len(Pool) + (r.at + 1) - 1
    BY <1>0, <1>1, <2>4, <2>5, <2>6, Lists
  <2> QED
    BY <2>1, <2>3, <2>6, <2>7, <2>8, SearchClientsCount
<1>3. CASE r.leg # "clients" /\ r.at < Len(Pool)
  <2> DEFINE s == [r EXCEPT !.pc = "ask", !.at = @ + 1]
  <2>1. Failed(r, err) = s
    BY <1>3 DEF Failed
  <2>2. /\ s.pc = "ask" /\ s.leg = r.leg /\ s.at = r.at + 1
        /\ s.sent = r.sent /\ s.last = r.last /\ s.attempt = r.attempt
    BY <1>0 DEF Run
  <2> HIDE DEF s
  <2>3. MaySearch(s) = MaySearch(r) /\ SearchStart(s) = SearchStart(r) /\ Progress(s) = r.at
    BY <1>0, <2>2 DEF MaySearch, SearchStart, Progress
  <2>4. CASE r.leg = "primary"
    <3>1. ~r.last /\ r.sent <= Budget(r.attempt, SearchesBefore(r.attempt)) + Progress(r)
      BY <2>4 DEF CountOK, InLeg
    <3>2. Budget(r.attempt, SearchesBefore(r.attempt)) \in Nat
      BY <1>0, SearchAccounts
    <3>3. s.sent <= Budget(s.attempt, SearchesBefore(s.attempt)) + Progress(s)
      BY <1>0, <1>1, <2>2, <2>3, <3>1, <3>2
    <3> QED
      BY <2>1, <2>2, <2>4, <3>1, <3>3 DEF CountOK, InLeg, Returned
  <2>5. CASE r.leg = "model"
    <3>1. MaySearch(r) /\ r.sent <= SearchStart(r) + Progress(r)
      BY <2>5 DEF CountOK, InLeg
    <3>2. s.sent <= SearchStart(s) + Progress(s)
      BY <1>0, <1>1, <2>2, <2>3, <3>1
    <3> QED
      BY <2>1, <2>2, <2>3, <2>5, <3>1, <3>2 DEF CountOK, InLeg, Returned
  <2> QED
    BY <1>0, <1>3, <2>4, <2>5 DEF Run
<1>4. CASE r.leg = "model" /\ ~(r.at < Len(Pool))
  <2>1. Failed(r, err) = SearchClients(r, 1)
    BY <1>4 DEF Failed
  <2>2. MaySearch(r) /\ r.sent <= SearchStart(r) + Progress(r)
    BY <1>4 DEF CountOK, InLeg
  <2>3. r.at <= Len(Pool) /\ 1 \in 1 .. Len(Fallbacks) + 1
    BY <1>4, Lists DEF WellPlaced, Legs
  <2>4. r.sent <= SearchStart(r) + Len(Pool) + 1 - 1
    BY <1>0, <1>1, <2>2, <2>3, Lists
  <2> QED
    BY <1>0, <2>1, <2>2, <2>3, <2>4, SearchClientsCount
<1>5. CASE r.leg = "primary" /\ ~(r.at < Len(Pool))
  <2>1. Failed(r, err) = PrimaryFailed(r, err)
    BY <1>5 DEF Failed
  <2>2. ~r.last /\ r.sent <= Budget(r.attempt, SearchesBefore(r.attempt)) + Progress(r)
    BY <1>5 DEF CountOK, InLeg
  <2>3. r.at <= Len(Pool)
    BY <1>5, Lists DEF WellPlaced, Legs
  <2>4. Budget(r.attempt, SearchesBefore(r.attempt)) \in Nat
    BY <1>0, SearchAccounts
  <2>5. r.sent <= Budget(r.attempt, SearchesBefore(r.attempt)) + Len(Pool)
    BY <1>0, <1>1, <2>2, <2>3, <2>4, Lists
  <2> QED
    BY <1>0, <2>1, <2>2, <2>5, PrimaryFailedCount
<1> QED
  BY <1>0, <1>2, <1>3, <1>4, <1>5 DEF Run

LEMMA BecomesCount ==
    ASSUME NEW r, RunOK(r), CountOK(r), NEW s, Becomes(r, s)
    PROVE  CountOK(s)
<1>0. /\ WellPlaced(r) /\ r \in Run /\ r.at \in Nat /\ r.at >= 1 /\ r.sent \in Nat
      /\ r.attempt \in Nat /\ SearchStart(r) \in Nat
      /\ Budget(r.attempt, SearchesBefore(r.attempt)) \in Nat
  <2>1. WellPlaced(r) /\ r \in Run /\ r.at \in Nat /\ r.at >= 1 /\ r.sent \in Nat
        /\ r.attempt \in Nat
    BY FallbackAssumption DEF RunOK, WellPlaced, Run
  <2> QED
    BY <2>1, SearchAccounts, SearchesGrow, BudgetGrows
<1>1. CASE s = NewCall
  <2>1. Budget(0, SearchesBefore(0)) \in Nat
    BY SearchesGrow, BudgetGrows
  <2>2. /\ s.pc = "ask" /\ s.leg = "primary" /\ s.at = 1 /\ s.attempt = 0
        /\ s.last = FALSE /\ s.sent = 0
    BY <1>1 DEF NewCall
  <2> QED
    BY <2>1, <2>2 DEF CountOK, InLeg, Returned, Progress
<1>2. CASE s = Succeeded
  BY <1>2 DEF Succeeded, NewCall, CountOK, InLeg, Returned
<1>3. CASE r.pc = "ask" /\ s = [r EXCEPT !.pc = "asked", !.sent = r.sent + 1]
  <2>1. /\ s.pc = "asked" /\ s.leg = r.leg /\ s.at = r.at /\ s.attempt = r.attempt
        /\ s.last = r.last /\ s.sent = r.sent + 1
    BY <1>0, <1>3 DEF Run
  <2>2. /\ MaySearch(s) = MaySearch(r) /\ SearchStart(s) = SearchStart(r)
        /\ Progress(s) = Progress(r) + 1 /\ Progress(r) \in Nat
    BY <1>0, <1>3, <2>1 DEF MaySearch, SearchStart, Progress
  <2>3. CASE r.leg = "primary"
    BY <1>0, <1>3, <2>1, <2>2, <2>3 DEF CountOK, InLeg, Returned
  <2>4. CASE r.leg = "model"
    BY <1>0, <1>3, <2>1, <2>2, <2>4 DEF CountOK, InLeg, Returned
  <2>5. CASE r.leg = "clients"
    BY <1>0, <1>3, <2>1, <2>2, <2>5, Lists DEF CountOK, InLeg, Returned
  <2> QED
    BY <1>0, <2>3, <2>4, <2>5 DEF Run
<1>4. CASE r.pc \in {"ask", "asked", "probe"} /\ \E err \in Errors : s = Failed(r, err)
  BY <1>0, <1>4, FailedCount
<1>5. CASE r.pc = "asked" /\ s = [r EXCEPT !.pc = "stream"]
  <2>1. /\ s.pc = "stream" /\ s.leg = r.leg /\ s.at = r.at /\ s.attempt = r.attempt
        /\ s.last = r.last /\ s.sent = r.sent
    BY <1>0, <1>5 DEF Run
  <2>2. /\ MaySearch(s) = MaySearch(r) /\ SearchStart(s) = SearchStart(r)
        /\ Progress(s) = Progress(r)
    BY <1>5, <2>1 DEF MaySearch, SearchStart, Progress
  <2> QED
    BY <1>5, <2>1, <2>2 DEF CountOK, InLeg, Returned
<1>6. CASE r.pc = "stream" /\ r.leg = "primary" /\ \E err \in Errors : s = PrimaryFailed(r, err)
  <2>1. ~r.last /\ r.sent <= Budget(r.attempt, SearchesBefore(r.attempt)) + r.at
    BY <1>6 DEF CountOK, InLeg, Progress
  <2>2. r.at <= Len(Pool)
    BY <1>0, <1>6, Lists DEF WellPlaced, Legs
  <2>3. r.sent <= Budget(r.attempt, SearchesBefore(r.attempt)) + Len(Pool)
    BY <1>0, <2>1, <2>2, Lists
  <2> QED
    BY <1>0, <1>6, <2>1, <2>3, PrimaryFailedCount
<1>7. CASE \E err \in {"broken", "cancelled"} : s = FailedWith(r, err)
  BY <1>7 DEF FailedWith, NewCall, CountOK, InLeg, Returned
<1>8. CASE /\ r.pc = "backoff"
           /\ s = [r EXCEPT !.pc = "ask", !.leg = "primary", !.at = 1, !.attempt = r.attempt + 1]
  <2>1. /\ s.pc = "ask" /\ s.leg = "primary" /\ s.at = 1 /\ s.attempt = r.attempt + 1
        /\ s.last = r.last /\ s.sent = r.sent
    BY <1>0, <1>8 DEF Run
  <2>2. ~r.last /\ r.sent <= Budget(s.attempt, SearchesBefore(s.attempt))
    BY <1>8, <2>1 DEF CountOK
  <2>3. Budget(s.attempt, SearchesBefore(s.attempt)) \in Nat
    <3>1. s.attempt \in Nat
      BY <1>0, <2>1
    <3> QED
      BY <3>1, SearchesGrow, BudgetGrows
  <2>4. Progress(s) = 0
    BY <2>1 DEF Progress
  <2>5. s.sent <= Budget(s.attempt, SearchesBefore(s.attempt)) + Progress(s)
    BY <1>0, <2>1, <2>2, <2>3, <2>4
  <2> QED
    BY <2>1, <2>2, <2>5 DEF CountOK, InLeg, Returned
<1>9. CASE /\ r.pc = "search"
           /\ \/ s = [[r EXCEPT !.refused = {}] EXCEPT !.pc = "ask", !.leg = "model", !.at = 1]
              \/ s = SearchClients([r EXCEPT !.refused = {}], 1)
  <2> DEFINE q == [r EXCEPT !.refused = {}]
  <2>1. q \in Run
    BY <1>0 DEF Run
  <2>2. q.last = r.last /\ q.attempt = r.attempt /\ q.sent = r.sent
    BY <1>0 DEF Run
  <2> HIDE DEF q
  <2>3. MaySearch(q) /\ q.sent <= SearchStart(q) /\ SearchStart(q) \in Nat
    <3>1. MaySearch(q) = MaySearch(r) /\ SearchStart(q) = SearchStart(r)
      BY <2>2 DEF MaySearch, SearchStart
    <3> QED
      BY <1>0, <1>9, <2>2, <3>1 DEF CountOK
  <2>4. CountOK([q EXCEPT !.pc = "ask", !.leg = "model", !.at = 1])
    <3> DEFINE t == [q EXCEPT !.pc = "ask", !.leg = "model", !.at = 1]
    <3>1. /\ t.pc = "ask" /\ t.leg = "model" /\ t.at = 1
          /\ t.last = q.last /\ t.attempt = q.attempt /\ t.sent = q.sent
      BY <2>1 DEF Run
    <3> HIDE DEF t
    <3>2. MaySearch(t) /\ SearchStart(t) = SearchStart(q) /\ Progress(t) = 0
      BY <2>3, <3>1 DEF MaySearch, SearchStart, Progress
    <3>3. t.sent <= SearchStart(t) + Progress(t)
      BY <2>3, <3>1, <3>2
    <3>4. CountOK(t)
      BY <3>1, <3>2, <3>3 DEF CountOK, InLeg, Returned
    <3> QED
      BY <3>4 DEF t
  <2>5. CountOK(SearchClients(q, 1))
    <3>1. q.sent \in Nat /\ 1 \in 1 .. Len(Fallbacks) + 1
      BY <1>0, <2>2, Lists
    <3>2. q.sent <= SearchStart(q) + Len(Pool) + 1 - 1
      BY <2>3, <3>1, Lists
    <3> QED
      BY <2>1, <2>3, <3>1, <3>2, SearchClientsCount
  <2> QED
    BY <1>9, <2>4, <2>5 DEF q
<1>10. CASE r.pc = "probe" /\ s = [r EXCEPT !.pc = "ask"]
  <2>1. /\ s.pc = "ask" /\ s.leg = "clients" /\ s.at = r.at /\ s.attempt = r.attempt
        /\ s.last = r.last /\ s.sent = r.sent /\ r.leg = "clients"
    BY <1>0, <1>10 DEF Run, CountOK
  <2>2. /\ MaySearch(s) = MaySearch(r) /\ SearchStart(s) = SearchStart(r)
        /\ Progress(s) = Progress(r)
    BY <1>10, <2>1 DEF MaySearch, SearchStart, Progress
  <2> QED
    BY <1>10, <2>1, <2>2 DEF CountOK, InLeg, Returned
<1> QED
  BY <1>1, <1>2, <1>3, <1>4, <1>5, <1>6, <1>7, <1>8, <1>9, <1>10, Zenon DEF Becomes

LEMMA InitCounts == Init => CountsInv
BY InitRuns DEF Init, CountsInv, Succeeded, NewCall, CountOK, InLeg, Returned

LEMMA NextCounts == CountsInv /\ [Next]_vars => CountsInv'
<1> SUFFICES ASSUME CountsInv, [Next]_vars PROVE CountsInv'
  OBVIOUS
<1>0. RunsInv /\ RunsInv'
  BY NextRuns DEF CountsInv
<1>1. CASE UNCHANGED run
  BY <1>0, <1>1 DEF CountsInv, CountOK, MaySearch, SearchStart, Progress
<1>2. ASSUME NEW a \in Agents, NEW s, Becomes(run[a], s), run' = [run EXCEPT ![a] = s]
      PROVE  CountsInv'
  <2>1. CountOK(s)
    BY <1>0, <1>2, BecomesCount DEF CountsInv, RunsInv
  <2>2. ASSUME NEW b \in Agents PROVE CountOK(run'[b])
    BY <1>0, <1>2, <2>1 DEF CountsInv, RunsInv
  <2>3. (\A b \in Agents : CountOK(run[b]))'
    BY <2>2 DEF CountOK, MaySearch, SearchStart, Progress
  <2> QED
    BY <1>0, <2>3 DEF CountsInv
<1> QED
  BY <1>0, <1>1, <1>2, NextBecomes DEF RunsInv

\* The searches that are due within the attempts are those that are allowed.
LEMMA SearchesAllowed ==
    ASSUME NEW k \in 0 .. MaxAttempts
    PROVE  /\ Searches \in Nat
           /\ SearchesBefore(k) + (IF SearchDue(k) THEN 1 ELSE 0) + 1 <= Searches
BY FallbackAssumption DEF Searches, SearchesBefore, SearchDue

\* However its attempts and searches go, a model call sends no more requests
\* than the policy and the lists of providers allow.
THEOREM BoundedCost == Spec => []RequestsBounded
<1>1. CountsInv => RequestsBounded
  <2> SUFFICES ASSUME CountsInv, NEW a \in Agents
               PROVE  run[a].sent <= Budget(MaxAttempts + 1, Searches)
    BY DEF RequestsBounded, Budget
  <2> DEFINE r == run[a]
             k == r.attempt
             n == SearchesBefore(k)
             all == Budget(MaxAttempts + 1, Searches)
  <2>1. RunOK(r) /\ CountOK(r) /\ r \in Run /\ r.at \in DOMAIN Legs(r.leg)
    BY DEF CountsInv, RunsInv, RunOK, WellPlaced
  <2>2. k \in 0 .. MaxAttempts /\ k \in Nat /\ k + 1 \in Nat /\ r.sent \in Nat
    BY <2>1, FallbackAssumption DEF Run
  <2>3. /\ n \in Nat /\ Searches \in Nat
        /\ n + (IF SearchDue(k) THEN 1 ELSE 0) + 1 <= Searches
    BY <2>2, SearchesGrow, SearchesAllowed
  <2>4. ASSUME NEW l \in Nat, l <= MaxAttempts + 1, NEW m \in Nat, m <= Searches
        PROVE  Budget(l, m) <= all
    <3>1. MaxAttempts + 1 \in Nat
      BY FallbackAssumption
    <3> QED
      BY <2>3, <2>4, <3>1, BudgetMonotone
  <2>5. all \in Nat
    <3>1. MaxAttempts + 1 \in Nat
      BY FallbackAssumption
    <3> QED
      BY <2>3, <3>1, BudgetGrows
  <2>6. /\ k + 1 <= MaxAttempts + 1 /\ k <= MaxAttempts + 1
        /\ n + 1 <= Searches /\ n <= Searches
    <3>1. n + 1 <= Searches /\ n <= Searches
      BY <2>3
    <3> QED
      BY <2>2, <3>1, FallbackAssumption
  <2>7. /\ Budget(k, n) \in Nat /\ Budget(k + 1, n) = Budget(k, n) + Len(Pool)
        /\ Budget(k + 1, n) <= all
    BY <2>2, <2>3, <2>4, <2>6, BudgetGrows
  <2>8. SearchStart(r) \in Nat /\ SearchStart(r) + Len(Pool) + Len(Fallbacks) <= all
    <3> DEFINE m == n + IF r.last /\ SearchDue(k) THEN 1 ELSE 0
    <3>1. m \in Nat /\ m + 1 \in Nat /\ m + 1 <= Searches
      BY <2>3
    <3>2. SearchStart(r) = Budget(k + 1, m)
      BY DEF SearchStart
    <3> HIDE DEF m
    <3>3. /\ Budget(k + 1, m) \in Nat
          /\ Budget(k + 1, m + 1) = Budget(k + 1, m) + Len(Pool) + Len(Fallbacks)
      BY <2>2, <3>1, BudgetGrows
    <3>4. Budget(k + 1, m + 1) <= all
      BY <2>2, <2>4, <2>6, <3>1
    <3> QED
      BY <3>2, <3>3, <3>4
  <2>9. r.pc = "backoff" => k + 1 \in 0 .. MaxAttempts
    BY <2>1, <2>2, FallbackAssumption DEF RunOK
  <2>10. CASE r.pc = "backoff"
    <3>1. SearchesBefore(k + 1) \in Nat /\ SearchesBefore(k + 1) <= Searches
      <4>1. SearchesBefore(k + 1) \in Nat
        BY <2>2, SearchesGrow
      <4> QED
        BY <2>9, <2>10, <4>1, SearchesAllowed
    <3>2. Budget(k + 1, SearchesBefore(k + 1)) \in Nat
      BY <2>2, <3>1, BudgetGrows
    <3>3. Budget(k + 1, SearchesBefore(k + 1)) <= all
      BY <2>2, <2>4, <2>6, <3>1
    <3>4. r.sent <= Budget(k + 1, SearchesBefore(k + 1))
      BY <2>1, <2>10 DEF CountOK
    <3> QED
      BY <2>2, <2>5, <3>2, <3>3, <3>4
  <2>11. CASE r.pc \in Returned
    BY <2>1, <2>5, <2>11 DEF CountOK
  <2>12. CASE r.pc = "search"
    <3>1. r.sent <= SearchStart(r)
      BY <2>1, <2>12 DEF CountOK
    <3> QED
      BY <2>2, <2>5, <2>8, <3>1, Lists
  <2>13. CASE r.pc \in InLeg
    <3>1. Progress(r) \in Nat /\ Progress(r) <= Len(Legs(r.leg))
      BY <2>1, Lists DEF Progress, Run, Legs
    <3>2. CASE r.leg = "primary"
      <4>1. r.sent <= Budget(k, n) + Progress(r) /\ Progress(r) <= Len(Pool)
        BY <2>1, <2>13, <3>1, <3>2 DEF CountOK, Legs
      <4> QED
        BY <2>2, <2>5, <2>7, <3>1, <4>1, Lists
    <3>3. CASE r.leg = "model"
      <4>1. r.sent <= SearchStart(r) + Progress(r) /\ Progress(r) <= Len(Pool)
        BY <2>1, <2>13, <3>1, <3>3 DEF CountOK, Legs
      <4> QED
        BY <2>2, <2>5, <2>8, <3>1, <4>1, Lists
    <3>4. CASE r.leg = "clients"
      <4>1. r.sent <= SearchStart(r) + Len(Pool) + Progress(r) /\ Progress(r) <= Len(Fallbacks)
        BY <2>1, <2>13, <3>1, <3>4 DEF CountOK, Legs
      <4> QED
        BY <2>2, <2>5, <2>8, <3>1, <4>1, Lists
    <3> QED
      BY <2>1, <3>2, <3>3, <3>4 DEF Run
  <2> QED
    BY <2>1, <2>10, <2>11, <2>12, <2>13 DEF Run, Returned, InLeg, all, r
<1> QED
  BY <1>1, InitCounts, NextCounts, PTL DEF Spec

-----------------------------------------------------------------------------
(* The length of a call. *)

SearchCost == 2 * Len(Pool) + 3 * Len(Fallbacks) + 3

Rank(r) == IF r.pc = "stream" THEN 1 ELSE IF r.pc = "asked" THEN 2 ELSE IF r.pc = "ask" THEN 3 ELSE 4

\* The steps that the attempt or search at hand may still take, a search after
\* the attempt included.
Ahead(r) ==
    IF r.pc = "backoff" THEN 1
    ELSE IF r.pc = "search" THEN SearchCost - 1
    ELSE IF r.leg = "primary" THEN SearchCost - 1 + 2 * (Len(Pool) - r.at) + Rank(r)
    ELSE IF r.leg = "model" THEN 3 * Len(Fallbacks) + 2 * (Len(Pool) - r.at) + Rank(r)
    ELSE 3 * (Len(Fallbacks) - r.at) + Rank(r)

\* Those of the attempts and of the final search that are still to come.
Later(r) ==
    (MaxAttempts - r.attempt) * (SearchCost + 2 * Len(Pool)) + (IF r.last THEN 0 ELSE SearchCost)

\* How many more steps the call can take.
CallLeft(r) == IF r.pc \in Returned THEN 0 ELSE Later(r) + Ahead(r)

LEMMA LaterOK ==
    ASSUME NEW r \in Run
    PROVE  Later(r) \in Nat /\ SearchCost \in Nat /\ SearchCost >= 5
<1>1. SearchCost \in Nat /\ SearchCost >= 5
  BY Lists DEF SearchCost
<1>2. MaxAttempts - r.attempt \in Nat
  <2>1. r.attempt \in 0 .. MaxAttempts
    BY DEF Run
  <2> QED
    BY <2>1, FallbackAssumption
<1>3. SearchCost + 2 * Len(Pool) \in Nat
  BY <1>1, Lists
<1>4. (MaxAttempts - r.attempt) * (SearchCost + 2 * Len(Pool)) \in Nat
  BY <1>2, <1>3
<1> QED
  BY <1>1, <1>4 DEF Later

LEMMA AheadOK ==
    ASSUME NEW r, RunOK(r), r.pc \notin Returned
    PROVE  Ahead(r) \in Nat /\ Ahead(r) >= 1 /\ CallLeft(r) = Later(r) + Ahead(r)
<1>1. /\ r \in Run /\ r.leg \in {"primary", "model", "clients"}
      /\ r.at \in Nat /\ r.at >= 1 /\ r.at <= Len(Legs(r.leg))
  BY Lists DEF RunOK, WellPlaced, Run, Legs
<1>2. SearchCost \in Nat /\ SearchCost >= 5
  BY <1>1, LaterOK
<1>3. Rank(r) \in 1 .. 4
  BY DEF Rank
<1>4. r.leg # "clients" => r.at <= Len(Pool)
  BY <1>1 DEF Legs
<1>5. r.leg = "clients" => r.at <= Len(Fallbacks)
  BY <1>1 DEF Legs
<1>6. Ahead(r) \in Nat /\ Ahead(r) >= 1
  <2>0. r.at \in Nat /\ Len(Pool) \in Nat /\ Len(Fallbacks) \in Nat
    BY <1>1, Lists
  <2>1. CASE r.leg = "clients" /\ r.pc \notin {"backoff", "search"}
    <3>1. Ahead(r) = 3 * (Len(Fallbacks) - r.at) + Rank(r)
      BY <2>1 DEF Ahead
    <3>2. r.at <= Len(Fallbacks)
      BY <1>5, <2>1
    <3> QED
      BY ONLY <1>2, <1>3, <2>0, <3>1, <3>2
  <2>2. CASE r.leg = "model" /\ r.pc \notin {"backoff", "search"}
    <3>1. Ahead(r) = 3 * Len(Fallbacks) + 2 * (Len(Pool) - r.at) + Rank(r)
      BY <2>2 DEF Ahead
    <3>2. r.at <= Len(Pool)
      BY <1>4, <2>2
    <3> QED
      BY ONLY <1>2, <1>3, <2>0, <3>1, <3>2
  <2>3. CASE r.leg = "primary" /\ r.pc \notin {"backoff", "search"}
    <3>1. Ahead(r) = SearchCost - 1 + 2 * (Len(Pool) - r.at) + Rank(r)
      BY <2>3 DEF Ahead
    <3>2. r.at <= Len(Pool)
      BY <1>4, <2>3
    <3> QED
      BY ONLY <1>2, <1>3, <2>0, <3>1, <3>2
  <2>4. CASE r.pc \in {"backoff", "search"}
    <3>1. Ahead(r) = 1 \/ Ahead(r) = SearchCost - 1
      BY <2>4 DEF Ahead
    <3> QED
      BY <1>2, <3>1
  <2> QED
    BY <1>1, <2>1, <2>2, <2>3, <2>4
<1> QED
  BY <1>6, Zenon DEF CallLeft

\* Later depends on two fields only.
LEMMA LaterSame ==
    ASSUME NEW r, NEW s, s.attempt = r.attempt, s.last = r.last
    PROVE  Later(s) = Later(r)
BY DEF Later

LEMMA LaterFinal ==
    ASSUME NEW r \in Run, ~r.last, NEW s, s.attempt = r.attempt, s.last
    PROVE  Later(s) = Later(r) - SearchCost
<1> DEFINE p == (MaxAttempts - r.attempt) * (SearchCost + 2 * Len(Pool))
<1>1. Later(r) = p + SearchCost /\ Later(s) = p + 0
  BY DEF Later
<1> HIDE DEF p
<1>2. SearchCost \in Nat /\ Later(r) \in Nat /\ Later(r) = p + SearchCost
  BY <1>1, LaterOK
<1>3. p \in Int
  <2>1. MaxAttempts - r.attempt \in Int /\ SearchCost + 2 * Len(Pool) \in Int
    <3>1. r.attempt \in 0 .. MaxAttempts
      BY DEF Run
    <3> QED
      BY <1>2, <3>1, Lists, FallbackAssumption
  <2> QED
    BY <2>1 DEF p
<1> QED
  BY <1>1, <1>2, <1>3

LEMMA RetryLeft ==
    ASSUME NEW r \in Run, ~r.last
    PROVE  CallLeft(RetryOrLastSearch(r)) \in Int /\ CallLeft(RetryOrLastSearch(r)) <= Later(r) + 1
<1>0. Later(r) \in Nat /\ SearchCost \in Nat /\ SearchCost >= 5
  BY LaterOK
<1>1. CASE r.attempt < MaxAttempts
  <2> DEFINE s == [r EXCEPT !.pc = "backoff"]
  <2>1. s.pc = "backoff" /\ s.attempt = r.attempt /\ s.last = r.last
    BY DEF Run
  <2>2. RetryOrLastSearch(r) = s
    BY <1>1 DEF RetryOrLastSearch
  <2> HIDE DEF s
  <2>3. CallLeft(s) = Later(s) + 1
    BY <2>1 DEF CallLeft, Ahead, Returned
  <2> QED
    BY <1>0, <2>1, <2>2, <2>3, LaterSame
<1>2. CASE ~(r.attempt < MaxAttempts)
  <2> DEFINE s == [r EXCEPT !.pc = "search", !.last = TRUE]
  <2>1. s.pc = "search" /\ s.attempt = r.attempt /\ s.last
    BY DEF Run
  <2>2. RetryOrLastSearch(r) = s
    BY <1>2 DEF RetryOrLastSearch
  <2> HIDE DEF s
  <2>3. CallLeft(s) = Later(s) + (SearchCost - 1)
    BY <2>1 DEF CallLeft, Ahead, Returned
  <2>4. Later(s) = Later(r) - SearchCost
    BY <2>1, LaterFinal
  <2> QED
    BY <1>0, <2>2, <2>3, <2>4
<1> QED
  BY <1>1, <1>2

LEMMA SearchClientsLeft ==
    ASSUME NEW r \in Run, NEW i \in 1 .. Len(Fallbacks) + 1
    PROVE  /\ CallLeft(SearchClients(r, i)) \in Int
           /\ CallLeft(SearchClients(r, i)) <= Later(r) + 3 * (Len(Fallbacks) - i) + 4
<1>0. Later(r) \in Nat /\ Len(Fallbacks) \in Nat /\ i \in Nat
  BY LaterOK, Lists
<1>1. CASE i <= Len(Fallbacks)
  <2> DEFINE s == [r EXCEPT !.pc = "probe", !.leg = "clients", !.at = i]
  <2>1. s.pc = "probe" /\ s.leg = "clients" /\ s.at = i /\ s.attempt = r.attempt /\ s.last = r.last
    BY DEF Run
  <2>2. SearchClients(r, i) = s
    BY <1>1 DEF SearchClients
  <2> HIDE DEF s
  <2>3. CallLeft(s) = Later(s) + (3 * (Len(Fallbacks) - i) + 4)
    BY <2>1 DEF CallLeft, Ahead, Rank, Returned
  <2> QED
    BY <1>0, <2>1, <2>2, <2>3, LaterSame
<1>2. CASE i = Len(Fallbacks) + 1 /\ r.last
  <2>1. SearchClients(r, i) = FailedWith(r, r.err)
    BY <1>2, Lists DEF SearchClients
  <2>2. CallLeft(FailedWith(r, r.err)) = 0
    BY DEF CallLeft, FailedWith, NewCall, Returned
  <2> QED
    BY <1>0, <1>2, <2>1, <2>2
<1>3. CASE i = Len(Fallbacks) + 1 /\ ~r.last
  <2>1. SearchClients(r, i) = RetryOrLastSearch(r)
    BY <1>3, Lists DEF SearchClients
  <2>2. CallLeft(SearchClients(r, i)) \in Int /\ CallLeft(SearchClients(r, i)) <= Later(r) + 1
    BY <1>3, <2>1, RetryLeft
  <2>3. Later(r) + 3 * (Len(Fallbacks) - i) + 4 = Later(r) + 1
    BY <1>0, <1>3
  <2> QED
    BY <2>2, <2>3
<1> QED
  BY <1>0, <1>1, <1>2, <1>3

LEMMA PrimaryFailedLeft ==
    ASSUME NEW r \in Run, ~r.last, NEW err
    PROVE  /\ CallLeft(PrimaryFailed(r, err)) \in Int
           /\ CallLeft(PrimaryFailed(r, err)) <= Later(r) + SearchCost - 1
<1> DEFINE s == [r EXCEPT !.err = err]
           last == [s EXCEPT !.pc = "search", !.last = TRUE]
           search == [s EXCEPT !.pc = "search"]
           backoff == [s EXCEPT !.pc = "backoff"]
<1>0. Later(r) \in Nat /\ SearchCost \in Nat /\ SearchCost >= 5
  BY LaterOK
<1>1. /\ last.pc = "search" /\ last.attempt = r.attempt /\ last.last
      /\ search.pc = "search" /\ search.attempt = r.attempt /\ search.last = r.last
      /\ backoff.pc = "backoff" /\ backoff.attempt = r.attempt /\ backoff.last = r.last
  BY DEF Run
<1>2. PrimaryFailed(r, err) \in {FailedWith(r, err), last, search, backoff}
  BY Zenon DEF PrimaryFailed, RetryOrLastSearch
<1>3. CallLeft(FailedWith(r, err)) = 0
  BY DEF CallLeft, FailedWith, NewCall, Returned
<1> HIDE DEF s, last, search, backoff
<1>4. CallLeft(last) = Later(last) + (SearchCost - 1) /\ Later(last) = Later(r) - SearchCost
  BY <1>1, LaterFinal DEF CallLeft, Ahead, Returned
<1>5. CallLeft(search) = Later(search) + (SearchCost - 1) /\ Later(search) = Later(r)
  BY <1>1, LaterSame DEF CallLeft, Ahead, Returned
<1>6. CallLeft(backoff) = Later(backoff) + 1 /\ Later(backoff) = Later(r)
  BY <1>1, LaterSame DEF CallLeft, Ahead, Returned
<1> QED
  BY <1>0, <1>2, <1>3, <1>4, <1>5, <1>6

LEMMA FailedLeft ==
    ASSUME NEW r, RunOK(r), CountOK(r), r.pc \in {"ask", "asked", "probe"}, NEW err
    PROVE  CallLeft(Failed(r, err)) < CallLeft(r)
<1>0. /\ r \in Run /\ r.leg \in {"primary", "model", "clients"} /\ r.pc \notin Returned
      /\ r.at \in Nat /\ r.at >= 1 /\ r.at <= Len(Legs(r.leg))
  BY Lists DEF RunOK, WellPlaced, Run, Legs, Returned
<1>1. /\ CallLeft(r) = Later(r) + Ahead(r) /\ Ahead(r) \in Nat
      /\ Later(r) \in Nat /\ SearchCost \in Nat
      /\ Rank(r) \in Nat /\ Rank(r) >= 2
  BY <1>0, AheadOK, LaterOK DEF Rank
<1>2. CASE r.leg = "clients"
  <2> DEFINE q == [r EXCEPT !.refused = r.refused \cup {r.at}]
  <2>1. r.at <= Len(Fallbacks)
    BY <1>0, <1>2 DEF Legs
  <2>2. q \in Run /\ q.attempt = r.attempt /\ q.last = r.last
    BY <1>0, <2>1, Lists DEF Run
  <2>3. Failed(r, err) = SearchClients(q, r.at + 1)
    BY <1>2 DEF Failed
  <2> HIDE DEF q
  <2>4. r.at + 1 \in 1 .. Len(Fallbacks) + 1
    BY <1>0, <2>1, Lists
  <2>5. /\ CallLeft(Failed(r, err)) \in Int
        /\ CallLeft(Failed(r, err)) <= Later(q) + 3 * (Len(Fallbacks) - (r.at + 1)) + 4
    BY <2>2, <2>3, <2>4, SearchClientsLeft
  <2>6. Later(q) = Later(r)
    BY <2>2, LaterSame
  <2>7. Ahead(r) = 3 * (Len(Fallbacks) - r.at) + Rank(r)
    BY <1>0, <1>2 DEF Ahead
  <2>8. r.at \in Int /\ Len(Fallbacks) \in Int /\ Later(r) \in Int
        /\ Rank(r) \in Int /\ Rank(r) >= 2
    BY <1>0, <1>1, Lists
  <2>9. CallLeft(r) = Later(r) + (3 * (Len(Fallbacks) - r.at) + Rank(r))
    BY <1>1, <2>7
  <2>10. /\ CallLeft(Failed(r, err)) \in Int
         /\ CallLeft(Failed(r, err)) <= Later(r) + 3 * (Len(Fallbacks) - (r.at + 1)) + 4
    BY <2>5, <2>6
  <2>11. \A a, c, f, l, k \in Int :
             k >= 2 /\ c <= l + 3 * (f - (a + 1)) + 4 => c < l + (3 * (f - a) + k)
    OBVIOUS
  <2> QED
    BY ONLY <2>8, <2>9, <2>10, <2>11, Zenon
<1>3. CASE r.leg # "clients" /\ r.at < Len(Pool)
  <2> DEFINE s == [r EXCEPT !.pc = "ask", !.at = r.at + 1]
  <2>1. Failed(r, err) = s
    BY <1>3 DEF Failed
  <2>2. /\ s.pc = "ask" /\ s.leg = r.leg /\ s.at = r.at + 1
        /\ s.last = r.last /\ s.attempt = r.attempt
    BY <1>0 DEF Run
  <2> HIDE DEF s
  <2>3. r.pc # "probe" /\ Rank(r) \in {2, 3}
    BY <1>3 DEF CountOK, Rank
  <2>4. Rank(s) = 3 /\ Later(s) = Later(r) /\ CallLeft(s) = Later(s) + Ahead(s)
    BY <2>2, LaterSame DEF Rank, CallLeft, Returned
  <2>5. PICK base \in Int :
           /\ Ahead(r) = base + 2 * (Len(Pool) - r.at) + Rank(r)
           /\ Ahead(s) = base + 2 * (Len(Pool) - s.at) + Rank(s)
    <3>1. CASE r.leg = "primary"
      <4>1. /\ Ahead(r) = SearchCost - 1 + 2 * (Len(Pool) - r.at) + Rank(r)
            /\ Ahead(s) = SearchCost - 1 + 2 * (Len(Pool) - s.at) + Rank(s)
        BY <1>0, <2>2, <3>1 DEF Ahead
      <4>2. SearchCost - 1 \in Int
        BY <1>1
      <4> QED
        BY <4>1, <4>2, Zenon
    <3>2. CASE r.leg = "model"
      <4>1. /\ Ahead(r) = 3 * Len(Fallbacks) + 2 * (Len(Pool) - r.at) + Rank(r)
            /\ Ahead(s) = 3 * Len(Fallbacks) + 2 * (Len(Pool) - s.at) + Rank(s)
        BY <1>0, <2>2, <3>2 DEF Ahead
      <4>2. 3 * Len(Fallbacks) \in Int
        BY Lists
      <4> QED
        BY <4>1, <4>2, Zenon
    <3> QED
      BY <1>0, <1>3, <3>1, <3>2
  <2>6. /\ r.at \in Int /\ Len(Pool) \in Int /\ Later(r) \in Int
        /\ Rank(r) >= 2 /\ Rank(r) \in Int /\ s.at = r.at + 1 /\ Rank(s) = 3
        /\ CallLeft(r) = Later(r) + Ahead(r) /\ CallLeft(s) = Later(r) + Ahead(s)
    BY <1>0, <1>1, <2>2, <2>3, <2>4, Lists
  <2>7. \A a, b, c, d, e \in Int :
            e >= 2 => a + (b + 2 * (c - (d + 1)) + 3) < a + (b + 2 * (c - d) + e)
    OBVIOUS
  <2>8. CallLeft(s) = Later(r) + (base + 2 * (Len(Pool) - (r.at + 1)) + 3)
    BY <2>5, <2>6, Zenon
  <2>9. CallLeft(r) = Later(r) + (base + 2 * (Len(Pool) - r.at) + Rank(r))
    BY <2>5, <2>6, Zenon
  <2>10. Later(r) \in Int /\ base \in Int /\ Len(Pool) \in Int /\ r.at \in Int
         /\ Rank(r) \in Int /\ Rank(r) >= 2
    BY <2>5, <2>6, Zenon
  <2>11. Later(r) + (base + 2 * (Len(Pool) - (r.at + 1)) + 3)
            < Later(r) + (base + 2 * (Len(Pool) - r.at) + Rank(r))
    BY ONLY <2>7, <2>10, Zenon
  <2> QED
    BY ONLY <2>1, <2>8, <2>9, <2>11, Zenon
<1>4. CASE r.leg = "model" /\ ~(r.at < Len(Pool))
  <2>1. Failed(r, err) = SearchClients(r, 1)
    BY <1>4 DEF Failed
  <2>2. /\ CallLeft(Failed(r, err)) \in Int
        /\ CallLeft(Failed(r, err)) <= Later(r) + 3 * (Len(Fallbacks) - 1) + 4
    BY <1>0, <2>1, SearchClientsLeft, Lists
  <2>3. r.at = Len(Pool)
    BY <1>0, <1>4, Lists DEF Legs
  <2>4. Ahead(r) = 3 * Len(Fallbacks) + 2 * (Len(Pool) - r.at) + Rank(r)
    BY <1>0, <1>4 DEF Ahead
  <2> QED
    BY <1>1, <2>2, <2>3, <2>4, Lists
<1>5. CASE r.leg = "primary" /\ ~(r.at < Len(Pool))
  <2>1. Failed(r, err) = PrimaryFailed(r, err)
    BY <1>5 DEF Failed
  <2>2. ~r.last
    BY <1>5 DEF CountOK, InLeg
  <2>3. /\ CallLeft(Failed(r, err)) \in Int
        /\ CallLeft(Failed(r, err)) <= Later(r) + SearchCost - 1
    BY <1>0, <2>1, <2>2, PrimaryFailedLeft
  <2>4. r.at = Len(Pool)
    BY <1>0, <1>5, Lists DEF Legs
  <2>5. Ahead(r) = SearchCost - 1 + 2 * (Len(Pool) - r.at) + Rank(r)
    BY <1>0, <1>5 DEF Ahead
  <2> QED
    BY <1>1, <2>3, <2>4, <2>5, Lists
<1> QED
  BY <1>0, <1>2, <1>3, <1>4, <1>5

LEMMA BecomesLeft ==
    ASSUME NEW r, RunOK(r), CountOK(r), r.pc \notin Returned, NEW s, Becomes(r, s)
    PROVE  CallLeft(s) < CallLeft(r)
<1>0. /\ r \in Run /\ r.leg \in {"primary", "model", "clients"}
      /\ r.at \in Nat /\ r.at >= 1 /\ r.at <= Len(Legs(r.leg))
  BY Lists DEF RunOK, WellPlaced, Run, Legs
<1>1. /\ CallLeft(r) = Later(r) + Ahead(r) /\ Ahead(r) \in Nat /\ Ahead(r) >= 1
      /\ Later(r) \in Nat /\ SearchCost \in Nat
  BY <1>0, AheadOK, LaterOK
<1>2. ASSUME s \in {Succeeded, FailedWith(r, "broken"), FailedWith(r, "cancelled")}
      PROVE  CallLeft(s) < CallLeft(r)
  <2>1. s.pc \in Returned
    BY <1>2 DEF Succeeded, FailedWith, NewCall, Returned
  <2>2. CallLeft(s) = 0
    BY <2>1, Zenon DEF CallLeft
  <2> QED
    BY <1>1, <2>2
\* Within a place of the list: asked, answered, admitted.
<1>3. ASSUME r.pc \in {"ask", "asked", "probe"}, Rank(s) < Rank(r), s.pc \in {"stream", "asked", "ask"},
             s.leg = r.leg, s.at = r.at, s.last = r.last, s.attempt = r.attempt
      PROVE  CallLeft(s) < CallLeft(r)
  <2>1. Rank(s) \in Nat /\ Rank(r) \in Nat
    BY DEF Rank
  <2>2. Later(s) = Later(r) /\ CallLeft(s) = Later(s) + Ahead(s)
    BY <1>3, LaterSame DEF CallLeft, Returned
  <2>3. PICK base \in Int : Ahead(r) = base + Rank(r) /\ Ahead(s) = base + Rank(s)
    <3>1. /\ SearchCost - 1 + 2 * (Len(Pool) - r.at) \in Int
          /\ 3 * Len(Fallbacks) + 2 * (Len(Pool) - r.at) \in Int
          /\ 3 * (Len(Fallbacks) - r.at) \in Int
      <4>1. r.at \in Int /\ Len(Pool) \in Int /\ Len(Fallbacks) \in Int /\ SearchCost \in Int
        BY <1>0, <1>1, Lists
      <4>2. \A x, p, f, c \in Int : /\ c - 1 + 2 * (p - x) \in Int
                                   /\ 3 * f + 2 * (p - x) \in Int
                                   /\ 3 * (f - x) \in Int
        OBVIOUS
      <4> QED
        BY <4>1, <4>2, Zenon
    <3>2. CASE r.leg = "primary"
      <4>1. /\ Ahead(r) = SearchCost - 1 + 2 * (Len(Pool) - r.at) + Rank(r)
            /\ Ahead(s) = SearchCost - 1 + 2 * (Len(Pool) - r.at) + Rank(s)
        BY <1>3, <3>2 DEF Ahead
      <4> QED
        BY <3>1, <4>1, Zenon
    <3>3. CASE r.leg = "model"
      <4>1. /\ Ahead(r) = 3 * Len(Fallbacks) + 2 * (Len(Pool) - r.at) + Rank(r)
            /\ Ahead(s) = 3 * Len(Fallbacks) + 2 * (Len(Pool) - r.at) + Rank(s)
        BY <1>3, <3>3 DEF Ahead
      <4> QED
        BY <3>1, <4>1, Zenon
    <3>4. CASE r.leg = "clients"
      <4>1. /\ Ahead(r) = 3 * (Len(Fallbacks) - r.at) + Rank(r)
            /\ Ahead(s) = 3 * (Len(Fallbacks) - r.at) + Rank(s)
        BY <1>3, <3>4 DEF Ahead
      <4> QED
        BY <3>1, <4>1, Zenon
    <3> QED
      BY <1>0, <3>2, <3>3, <3>4
  <2> QED
    BY <1>1, <1>3, <2>1, <2>2, <2>3
<1>4. CASE r.pc = "ask" /\ s = [r EXCEPT !.pc = "asked", !.sent = r.sent + 1]
  <2>1. s.pc = "asked" /\ s.leg = r.leg /\ s.at = r.at /\ s.last = r.last /\ s.attempt = r.attempt
    BY <1>0, <1>4 DEF Run
  <2>2. Rank(s) < Rank(r)
    BY <1>4, <2>1 DEF Rank
  <2> QED
    BY <1>3, <1>4, <2>1, <2>2
<1>5. CASE r.pc = "asked" /\ s = [r EXCEPT !.pc = "stream"]
  <2>1. s.pc = "stream" /\ s.leg = r.leg /\ s.at = r.at /\ s.last = r.last /\ s.attempt = r.attempt
    BY <1>0, <1>5 DEF Run
  <2>2. Rank(s) < Rank(r)
    BY <1>5, <2>1 DEF Rank
  <2> QED
    BY <1>3, <1>5, <2>1, <2>2
<1>6. CASE r.pc = "probe" /\ s = [r EXCEPT !.pc = "ask"]
  <2>1. s.pc = "ask" /\ s.leg = r.leg /\ s.at = r.at /\ s.last = r.last /\ s.attempt = r.attempt
    BY <1>0, <1>6 DEF Run
  <2>2. Rank(s) < Rank(r)
    BY <1>6, <2>1 DEF Rank
  <2> QED
    BY <1>3, <1>6, <2>1, <2>2
<1>7. CASE r.pc \in {"ask", "asked", "probe"} /\ \E err \in Errors : s = Failed(r, err)
  BY <1>7, FailedLeft
<1>8. CASE r.pc = "stream" /\ r.leg = "primary" /\ \E err \in Errors : s = PrimaryFailed(r, err)
  <2>1. ~r.last
    BY <1>8 DEF CountOK, InLeg
  <2>2. CallLeft(s) \in Int /\ CallLeft(s) <= Later(r) + SearchCost - 1
    BY <1>0, <1>8, <2>1, PrimaryFailedLeft
  <2>3. Ahead(r) = SearchCost - 1 + 2 * (Len(Pool) - r.at) + 1
    BY <1>8 DEF Ahead, Rank
  <2>4. r.at <= Len(Pool)
    BY <1>0, <1>8 DEF Legs
  <2> QED
    BY <1>0, <1>1, <2>2, <2>3, <2>4, Lists
<1>9. CASE /\ r.pc = "backoff"
           /\ s = [r EXCEPT !.pc = "ask", !.leg = "primary", !.at = 1, !.attempt = r.attempt + 1]
  <2>1. /\ s.pc = "ask" /\ s.leg = "primary" /\ s.at = 1 /\ s.attempt = r.attempt + 1
        /\ s.last = r.last
    BY <1>0, <1>9 DEF Run
  <2> DEFINE w == SearchCost + 2 * Len(Pool)
             left == MaxAttempts - r.attempt
             e == IF r.last THEN 0 ELSE SearchCost
  <2>2. left \in Int /\ w \in Int /\ e \in Int
    <3>1. r.attempt \in 0 .. MaxAttempts
      BY <1>0 DEF Run
    <3> QED
      BY <1>1, <3>1, FallbackAssumption, Lists
  <2>3. MaxAttempts - s.attempt = left - 1
    <3>1. r.attempt \in 0 .. MaxAttempts
      BY <1>0 DEF Run
    <3> QED
      BY <2>1, <3>1, FallbackAssumption
  <2>4. Later(r) = left * w + e /\ Later(s) = (left - 1) * w + e
    BY <2>1, <2>3 DEF Later
  <2>5. Ahead(r) = 1 /\ Ahead(s) = w - 2 + 2
    <3>1. Ahead(s) = SearchCost - 1 + 2 * (Len(Pool) - 1) + 3
      BY <2>1 DEF Ahead, Rank
    <3> QED
      BY <1>1, <1>9, <3>1, Lists DEF Ahead
  <2>6. CallLeft(s) = Later(s) + Ahead(s)
    BY <2>1 DEF CallLeft, Returned
  <2> HIDE DEF w, left, e
  <2>7. (left - 1) * w = left * w - w /\ left * w \in Int
    BY <2>2
  <2> QED
    BY <1>1, <2>2, <2>4, <2>5, <2>6, <2>7
<1>10. CASE r.pc = "search" /\ s = [[r EXCEPT !.refused = {}] EXCEPT !.pc = "ask", !.leg = "model", !.at = 1]
  <2>1. s.pc = "ask" /\ s.leg = "model" /\ s.at = 1 /\ s.last = r.last /\ s.attempt = r.attempt
    BY <1>0, <1>10 DEF Run
  <2>2. Ahead(r) = SearchCost - 1 /\ Ahead(s) = 3 * Len(Fallbacks) + 2 * (Len(Pool) - 1) + 3
    BY <1>10, <2>1 DEF Ahead, Rank
  <2>3. Later(s) = Later(r) /\ CallLeft(s) = Later(s) + Ahead(s)
    BY <2>1, LaterSame DEF CallLeft, Returned
  <2> QED
    BY <1>1, <2>2, <2>3, Lists DEF SearchCost
<1>11. CASE r.pc = "search" /\ s = SearchClients([r EXCEPT !.refused = {}], 1)
  <2> DEFINE q == [r EXCEPT !.refused = {}]
  <2>1. q \in Run /\ q.last = r.last /\ q.attempt = r.attempt
    BY <1>0 DEF Run
  <2> HIDE DEF q
  <2>2. CallLeft(s) \in Int /\ CallLeft(s) <= Later(q) + 3 * (Len(Fallbacks) - 1) + 4
    BY <1>11, <2>1, SearchClientsLeft, Lists DEF q
  <2>3. Later(q) = Later(r) /\ Ahead(r) = SearchCost - 1
    BY <1>11, <2>1, LaterSame DEF Ahead
  <2> QED
    BY <1>1, <2>2, <2>3, Lists DEF SearchCost
<1> QED
  BY <1>2, <1>4, <1>5, <1>6, <1>7, <1>8, <1>9, <1>10, <1>11, Zenon DEF Becomes

CallsShrink ==
    \A a \in Agents :
        /\ Step(a) => CallLeft(run'[a]) < CallLeft(run[a])
        /\ run'[a] = run[a] \/ Begin(a) \/ Step(a)

CallsFinite == \A a \in Agents : CallLeft(run[a]) \in Nat

\* An agent's own steps bring its call of streamAndConsume closer to its end,
\* whatever the providers answer, and nobody else's steps touch it.
THEOREM CallShrinks == Spec => []CallsFinite /\ [][CallsShrink]_vars
<1>1. CountsInv => CallsFinite
  <2> SUFFICES ASSUME CountsInv, NEW a \in Agents PROVE CallLeft(run[a]) \in Nat
    BY DEF CallsFinite
  <2>1. RunOK(run[a]) /\ run[a] \in Run
    BY DEF CountsInv, RunsInv
  <2>2. CASE run[a].pc \in Returned
    BY <2>2, Zenon DEF CallLeft
  <2>3. CASE run[a].pc \notin Returned
    BY <2>1, <2>3, AheadOK, LaterOK
  <2> QED
    BY <2>2, <2>3
<1>2. CountsInv /\ [Next]_vars => [CallsShrink]_vars
  <2> SUFFICES ASSUME CountsInv, Next, NEW a \in Agents
               PROVE  /\ Step(a) => CallLeft(run'[a]) < CallLeft(run[a])
                      /\ run'[a] = run[a] \/ Begin(a) \/ Step(a)
    BY DEF CallsShrink
  <2>1. run \in [Agents -> Run] /\ RunOK(run[a]) /\ CountOK(run[a])
    BY DEF CountsInv, RunsInv
  <2>2. ASSUME Step(a) PROVE CallLeft(run'[a]) < CallLeft(run[a])
    <3>1. PICK s : Becomes(run[a], s) /\ run' = [run EXCEPT ![a] = s]
      BY <2>1, <2>2, AgentBecomes
    <3>2. run[a].pc \notin Returned
      BY <2>2 DEF Step, Ask, Answer, Consume, Retry, Search, Probe, Returned
    <3>3. run'[a] = s
      BY <2>1, <3>1
    <3> QED
      BY <2>1, <3>1, <3>2, <3>3, BecomesLeft
  <2>3. ASSUME NEW b \in Agents, b # a, Begin(b) \/ Step(b) PROVE run'[a] = run[a]
    <3>1. PICK s : run' = [run EXCEPT ![b] = s]
      BY <2>1, <2>3, AgentBecomes
    <3> QED
      BY <2>1, <2>3, <3>1
  <2>4. ASSUME NEW p \in Providers, Elapse(p) PROVE run'[a] = run[a]
    BY <2>4 DEF Elapse
  <2> QED
    BY <2>2, <2>3, <2>4 DEF Next
<1> QED
  BY <1>1, <1>2, InitCounts, NextCounts, PTL DEF Spec
=============================================================================
