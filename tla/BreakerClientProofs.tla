------------------------- MODULE BreakerClientProofs -------------------------
(***************************************************************************)
(* The invariants of BreakerClient for any number of callers and all       *)
(* breaker settings, and that a breaker that rejects waits for something.  *)
(***************************************************************************)
EXTENDS BreakerClient, FiniteSetTheorems, TLAPS

(* What the methods of the circuit breaker preserve, for all settings. *)

\* A new breaker is a well-formed breaker.
LEMMA NewBreakerOK == NewCircuitBreaker \in Breaker /\ WellFormed(NewCircuitBreaker)
BY SettingsAssumption DEF NewCircuitBreaker, Breaker, WellFormed

\* CanExecute keeps a breaker well formed.  It takes exactly one slot when it
\* admits in the half-open state, and it rejects without changing anything.
LEMMA CanExecuteOK ==
    ASSUME NEW b \in Breaker, WellFormed(b)
    PROVE  /\ CanExecute(b) \in Breaker
           /\ WellFormed(CanExecute(b))
           /\ ~Admits(b) => CanExecute(b) = b
           /\ Admits(b) => CanExecute(b).state # "open"
           /\ Admits(b) /\ CanExecute(b).state = "half-open" =>
                /\ CanExecute(b).reqs = b.reqs + 1
                /\ CanExecute(b).success = b.success
           /\ b.state = "half-open" => CanExecute(b).state = "half-open"
<1>1. CASE b.state = "closed"
  BY <1>1, SettingsAssumption DEF CanExecute, Recovered, Admits, WellFormed, Breaker
<1>2. CASE b.state = "open"
  <2>1. CASE b.elapsed
    <3> DEFINE r == [b EXCEPT !.state = "half-open", !.reqs = 0, !.success = 0]
    <3>1. Recovered(b) = r
      BY <1>2, <2>1 DEF Recovered
    <3>2. r \in Breaker /\ r.state = "half-open" /\ r.reqs = 0 /\ r.success = 0 /\ r.failures = FailureThreshold
      BY <1>2, SettingsAssumption DEF Breaker, WellFormed
    <3>3. b.reqs = 0 /\ b.success = 0
      BY <1>2 DEF WellFormed
    <3> HIDE DEF r
    <3>4. Admits(b) /\ CanExecute(b) = [r EXCEPT !.reqs = @ + 1]
      BY <3>1, <3>2, SettingsAssumption DEF Admits, CanExecute
    <3> QED
      BY <1>2, <3>2, <3>3, <3>4, SettingsAssumption DEF Breaker, WellFormed
  <2>2. CASE ~b.elapsed
    BY <1>2, <2>2 DEF CanExecute, Recovered, Admits, WellFormed, Breaker
  <2> QED
    BY <2>1, <2>2
<1>3. CASE b.state = "half-open"
  BY <1>3, SettingsAssumption DEF CanExecute, Recovered, Admits, WellFormed, Breaker
<1> QED
  BY <1>1, <1>2, <1>3 DEF Breaker

\* RecordSuccess keeps a breaker well formed; in the half-open state it either
\* closes the breaker or counts one more success.
LEMMA RecordSuccessOK ==
    ASSUME NEW b \in Breaker, WellFormed(b)
    PROVE  /\ RecordSuccess(b) \in Breaker
           /\ WellFormed(RecordSuccess(b))
           /\ RecordSuccess(b).state \in {b.state, "closed"}
           /\ b.state # "half-open" => RecordSuccess(b).state = b.state
           /\ RecordSuccess(b).state = "half-open" =>
                RecordSuccess(b).reqs = b.reqs /\ RecordSuccess(b).success = b.success + 1
<1>1. CASE b.state # "half-open"
  BY <1>1, SettingsAssumption DEF RecordSuccess, WellFormed, Breaker
<1>2. CASE b.state = "half-open"
  <2>1. b.success \in Nat
    BY SettingsAssumption DEF Breaker
  <2> QED
    BY <1>2, <2>1, SettingsAssumption DEF RecordSuccess, WellFormed, Breaker
<1> QED
  BY <1>1, <1>2

\* RecordFailure keeps a breaker well formed and always leaves a half-open
\* breaker open.
LEMMA RecordFailureOK ==
    ASSUME NEW b \in Breaker, WellFormed(b)
    PROVE  /\ RecordFailure(b) \in Breaker
           /\ WellFormed(RecordFailure(b))
           /\ RecordFailure(b).state # "half-open"
           /\ RecordFailure(b).reqs = 0
<1>1. CASE b.state = "closed"
  <2>1. b.failures \in Nat /\ b.failures + 1 <= FailureThreshold /\ b.reqs = 0 /\ b.success = 0
    BY <1>1, SettingsAssumption DEF WellFormed, Breaker
  <2> QED
    BY <1>1, <2>1, SettingsAssumption DEF RecordFailure, WellFormed, Breaker
<1>2. CASE b.state = "open"
  BY <1>2, SettingsAssumption DEF RecordFailure, WellFormed, Breaker
<1>3. CASE b.state = "half-open"
  BY <1>3, SettingsAssumption DEF RecordFailure, WellFormed, Breaker
<1> QED
  BY <1>1, <1>2, <1>3 DEF Breaker

\* The passing of time changes nothing but what the next CanExecute makes of it.
LEMMA TimeoutElapsesOK ==
    ASSUME NEW b \in Breaker, WellFormed(b)
    PROVE  /\ TimeoutElapses(b) \in Breaker
           /\ WellFormed(TimeoutElapses(b))
           /\ TimeoutElapses(b).state = b.state
           /\ TimeoutElapses(b).reqs = b.reqs
           /\ TimeoutElapses(b).success = b.success
BY SettingsAssumption DEF TimeoutElapses, WellFormed, Breaker

-----------------------------------------------------------------------------
(* The client. *)

\* TrialsHoldSlots is inductive only together with the types and the shape of
\* the breaker: the latter says that a half-open breaker is never entered with
\* a trial already counted.
IInv == TypeOK /\ BreakerShape /\ TrialsHoldSlots

LEMMA TrialsFinite == IsFiniteSet(Trials) /\ Cardinality(Trials) \in Nat
<1>1. IsFiniteSet(Trials)
  BY CallersAssumption, FS_Subset DEF Trials
<1> QED
  BY <1>1, FS_CardinalityType

LEMMA InitIInv == Init => IInv
<1> SUFFICES ASSUME Init PROVE IInv
  OBVIOUS
<1>1. Trials = {}
  BY DEF Init, Trials
<1>2. Cardinality(Trials) = 0
  BY <1>1, FS_EmptySet
<1> QED
  BY <1>1, <1>2, NewBreakerOK
  DEF Init, IInv, TypeOK, BreakerShape, TrialsHoldSlots, NewCircuitBreaker, Returned

\* What a call of CanExecute does to the callers that hold a trial slot.
LEMMA TryStreamTrials ==
    ASSUME IInv, NEW c \in Callers, TryStream(c)
    PROVE  /\ breaker' = CanExecute(breaker)
           /\ call' \in [Callers -> Waiting \cup Returned]
           /\ IF Admits(breaker) /\ breaker'.state = "half-open"
              THEN Trials' = Trials \cup {c} /\ Cardinality(Trials') = Cardinality(Trials) + 1
              ELSE Trials' = Trials
<1>1. call \in [Callers -> Waiting \cup Returned] /\ c \notin Trials
  BY DEF IInv, TypeOK, TryStream, Trials, Returned
<1>2. CASE Admits(breaker) /\ breaker'.state = "half-open"
  <2>1. call' = [call EXCEPT ![c] = "trial"]
    BY <1>2 DEF TryStream
  <2>2. Trials' = Trials \cup {c}
    BY <1>1, <2>1 DEF Trials
  <2> QED
    BY <1>1, <1>2, <2>1, <2>2, TrialsFinite, FS_AddElement DEF TryStream, Waiting
<1>3. CASE ~(Admits(breaker) /\ breaker'.state = "half-open")
  <2>1. PICK r \in {"rejected", "sent"} : call' = [call EXCEPT ![c] = r]
    BY <1>3 DEF TryStream
  <2> QED
    BY <1>1, <1>3, <2>1 DEF Trials, TryStream, Waiting, Returned
<1> QED
  BY <1>2, <1>3

\* What an answer does to them: nobody is added, and when the breaker leaves
\* the half-open state nobody is left.
LEMMA ReturnTrials ==
    ASSUME IInv, NEW c \in Callers, Return(c)
    PROVE  /\ call' \in [Callers -> Waiting \cup Returned]
           /\ Trials' \subseteq Trials
           /\ breaker.state = "half-open" /\ breaker'.state # "half-open" => Trials' = {}
           /\ breaker'.state = "half-open" => Trials' = Trials \ {c}
<1>1. PICK outcome \in Outcomes :
        LET ended == breaker.state = "half-open" /\ breaker'.state # "half-open"
        IN  call' = [d \in Callers |->
                    IF d = c THEN IF outcome = "ok" THEN "ok" ELSE "error"
                    ELSE IF ended /\ call[d] = "trial" THEN "stale"
                    ELSE call[d]]
  BY DEF Return
<1> QED
  BY <1>1 DEF IInv, TypeOK, Trials, Waiting, Returned

\* Whatever the provider answers, what is recorded keeps the breaker well formed.
LEMMA RecordOK ==
    ASSUME NEW b \in Breaker, WellFormed(b), NEW outcome \in Outcomes
    PROVE  /\ Record(b, outcome) \in Breaker
           /\ WellFormed(Record(b, outcome))
           /\ b.state # "half-open" => Record(b, outcome).state # "half-open"
           /\ Record(b, outcome).state = "half-open" =>
                Record(b, outcome).reqs = b.reqs
<1>1. CASE outcome = "ok"
  BY <1>1, RecordSuccessOK DEF Record
<1>2. CASE outcome = "trips"
  BY <1>2, RecordFailureOK DEF Record
<1>3. CASE outcome = "ignored"
  BY <1>3 DEF Record
<1> QED
  BY <1>1, <1>2, <1>3, OutcomesAssumption DEF AllOutcomes

LEMMA NextIInv == IInv /\ [Next]_vars => IInv'
<1> SUFFICES ASSUME IInv, [Next]_vars PROVE IInv'
  OBVIOUS
<1> USE DEF BreakerShape
<1>0. breaker \in Breaker /\ WellFormed(breaker)
  BY DEF IInv, TypeOK
<1>1. ASSUME NEW c \in Callers, TryStream(c) PROVE IInv'
  <2>1. breaker' \in Breaker /\ WellFormed(breaker)' /\ call' \in [Callers -> Waiting \cup Returned]
    BY <1>0, <1>1, CanExecuteOK, TryStreamTrials DEF WellFormed
  <2>2. TrialsHoldSlots'
    <3>1. CASE Admits(breaker) /\ breaker'.state = "half-open"
      <4>1. Cardinality(Trials') = Cardinality(Trials) + 1 /\ breaker'.reqs = breaker.reqs + 1
        BY <1>0, <1>1, <3>1, TryStreamTrials, CanExecuteOK
      <4>2. breaker.reqs \in Nat
        BY <1>0, SettingsAssumption DEF Breaker
      <4> QED
        BY <3>1, <4>1, <4>2, TrialsFinite DEF IInv, TrialsHoldSlots
    <3>2. CASE Admits(breaker) /\ breaker'.state # "half-open"
      <4>1. Trials' = Trials
        BY <1>1, <3>2, TryStreamTrials
      <4>2. breaker.state # "half-open"
        BY <1>0, <1>1, <3>2, CanExecuteOK, TryStreamTrials
      <4>3. Trials' = {} /\ Cardinality(Trials') = 0
        BY <4>1, <4>2, FS_EmptySet DEF IInv, TrialsHoldSlots
      <4>4. breaker'.reqs \in Nat
        BY <2>1, SettingsAssumption DEF Breaker
      <4> QED
        BY <4>3, <4>4 DEF TrialsHoldSlots
    <3>3. CASE ~Admits(breaker)
      BY <1>0, <1>1, <3>3, CanExecuteOK, TryStreamTrials DEF IInv, TrialsHoldSlots
    <3> QED
      BY <3>1, <3>2, <3>3
  <2> QED
    BY <2>1, <2>2 DEF IInv, TypeOK
<1>2. ASSUME NEW c \in Callers, Return(c) PROVE IInv'
  <2>1. PICK outcome \in Outcomes : breaker' = Record(breaker, outcome)
    BY <1>2 DEF Return
  <2>2. /\ breaker' \in Breaker
        /\ WellFormed(breaker)'
        /\ breaker.state # "half-open" => breaker'.state # "half-open"
        /\ breaker'.state = "half-open" => breaker'.reqs = breaker.reqs
    BY <1>0, <2>1, RecordOK DEF WellFormed
  <2>3. TrialsHoldSlots'
    <3>1. CASE breaker'.state = "half-open"
      <4>1. Trials' \in SUBSET Trials
        BY <1>2, ReturnTrials
      <4>2. Cardinality(Trials') <= Cardinality(Trials) /\ Cardinality(Trials') \in Nat
        BY <4>1, TrialsFinite, FS_Subset, FS_CardinalityType
      <4>3. breaker.reqs \in Nat /\ breaker'.reqs = breaker.reqs
        BY <1>0, <2>2, <3>1, SettingsAssumption DEF Breaker
      <4> QED
        BY <3>1, <4>2, <4>3, TrialsFinite DEF IInv, TrialsHoldSlots
    <3>2. CASE breaker'.state # "half-open"
      <4>1. Trials' = {}
        BY <1>2, <3>2, ReturnTrials DEF IInv, TrialsHoldSlots
      <4>2. Cardinality(Trials') = 0
        BY <4>1, FS_EmptySet
      <4>3. breaker'.reqs \in Nat
        BY <2>2, SettingsAssumption DEF Breaker
      <4> QED
        BY <4>1, <4>2, <4>3 DEF TrialsHoldSlots
    <3> QED
      BY <3>1, <3>2
  <2> QED
    BY <1>2, <2>2, <2>3, ReturnTrials DEF IInv, TypeOK
<1>3. CASE Elapse
  <2>1. breaker' = TimeoutElapses(breaker) /\ UNCHANGED call /\ Trials' = Trials
    BY <1>3 DEF Elapse, Trials
  <2> QED
    BY <1>0, <2>1, TimeoutElapsesOK DEF IInv, TypeOK, TrialsHoldSlots, WellFormed
<1>4. CASE UNCHANGED vars
  BY <1>4 DEF vars, IInv, TypeOK, TrialsHoldSlots, Trials
<1> QED
  BY <1>1, <1>2, <1>3, <1>4 DEF Next

\* Type correctness of the breaker and of its callers.
THEOREM TypeCorrect == Spec => []TypeOK
BY InitIInv, NextIInv, PTL DEF Spec, IInv

\* Late answers never leave the counters at odds with the state.
THEOREM ShapeCorrect == Spec => []BreakerShape
BY InitIInv, NextIInv, PTL DEF Spec, IInv

\* A half-open breaker never has more trial requests under way than the slots
\* it has granted, for any number of callers and any order of the answers.
THEOREM TrialsBounded == Spec => []TrialsHoldSlots
BY InitIInv, NextIInv, PTL DEF Spec, IInv

\* While the breaker is open no step of anybody reaches the provider.
THEOREM OpenMeansSilent == Spec => NothingSentWhileOpen
<1>1. ASSUME IInv, Next, breaker.state = "open", ~breaker.elapsed
      PROVE  \A c \in Callers : call[c] \in Returned => call'[c] \in Returned
  <2>1. ~Admits(breaker)
    BY <1>1 DEF Admits, Recovered
  <2>2. ASSUME NEW c \in Callers, TryStream(c)
        PROVE  \A d \in Callers : call[d] \in Returned => call'[d] \in Returned
    BY <1>1, <2>1, <2>2 DEF TryStream, Returned, IInv, TypeOK
  <2>3. ASSUME NEW c \in Callers, Return(c)
        PROVE  \A d \in Callers : call[d] \in Returned => call'[d] \in Returned
    BY <1>1, <2>3 DEF Return, Returned, IInv, TypeOK
  <2>4. CASE Elapse
    BY <2>4 DEF Elapse
  <2> QED
    BY <1>1, <2>2, <2>3, <2>4 DEF Next
<1>2. IInv /\ [Next]_vars =>
        [breaker.state = "open" /\ ~breaker.elapsed =>
            \A c \in Callers : call[c] \in Returned => call'[c] \in Returned]_vars
  BY <1>1
<1> QED
  BY <1>2, InitIInv, NextIInv, PTL DEF Spec, NothingSentWhileOpen

-----------------------------------------------------------------------------
\* The step of SlotsAccounted, for every step that tells the breaker something.
LEMMA NextSlots ==
    ASSUME IInv, SlotsAccounted, [Next]_vars, breaker' # breaker
    PROVE  SlotsAccounted'
<1>0. /\ breaker \in Breaker /\ WellFormed(breaker)
      /\ breaker.reqs \in Nat /\ breaker.success \in Nat
  BY SettingsAssumption DEF IInv, TypeOK, BreakerShape, Breaker
<1>1. ASSUME NEW c \in Callers, TryStream(c) PROVE SlotsAccounted'
  <2>1. CASE Admits(breaker) /\ breaker'.state = "half-open"
    <3>1. /\ Cardinality(Trials') = Cardinality(Trials) + 1
          /\ breaker'.reqs = breaker.reqs + 1
          /\ breaker'.success = breaker.success
      BY <1>0, <1>1, <2>1, TryStreamTrials, CanExecuteOK
    <3>2. breaker.state # "half-open" => breaker.reqs = 0
      BY <1>0 DEF WellFormed
    <3> QED
      BY <1>0, <3>1, <3>2, TrialsFinite DEF SlotsAccounted
  <2>2. CASE Admits(breaker) /\ breaker'.state # "half-open"
    BY <2>2 DEF SlotsAccounted
  <2>3. CASE ~Admits(breaker)
    BY <1>0, <1>1, <2>3, TryStreamTrials, CanExecuteOK DEF SlotsAccounted
  <2> QED
    BY <2>1, <2>2, <2>3
<1>2. ASSUME NEW c \in Callers, Return(c) PROVE SlotsAccounted'
  <2> SUFFICES ASSUME breaker'.state = "half-open"
               PROVE  breaker'.reqs <= Cardinality(Trials') + breaker'.success
    BY DEF SlotsAccounted
  <2>1. PICK outcome \in Outcomes : breaker' = Record(breaker, outcome)
    BY <1>2 DEF Return
  <2>2. outcome = "ok"
    <3>1. outcome # "trips"
      BY <1>0, <2>1, RecordFailureOK DEF Record
    <3>2. outcome # "ignored"
      BY <2>1 DEF Record
    <3> QED
      BY <3>1, <3>2, OutcomesAssumption DEF AllOutcomes
  <2>3. /\ breaker.state = "half-open"
        /\ breaker'.reqs = breaker.reqs
        /\ breaker'.success = breaker.success + 1
    BY <1>0, <2>1, <2>2, RecordSuccessOK DEF Record
  <2>4. Cardinality(Trials') >= Cardinality(Trials) - 1 /\ Cardinality(Trials') \in Nat
    <3> DEFINE rest == Trials \ {c}
    <3>1. Trials' = rest
      BY <1>2, ReturnTrials
    <3>2. /\ IsFiniteSet(rest)
          /\ Cardinality(rest) = IF c \in Trials THEN Cardinality(Trials) - 1 ELSE Cardinality(Trials)
      BY TrialsFinite, FS_RemoveElement
    <3>3. Cardinality(rest) \in Nat
      BY <3>2, FS_CardinalityType
    <3> HIDE DEF rest
    <3> QED
      BY <3>1, <3>2, <3>3, TrialsFinite
  <2> QED
    BY <1>0, <2>3, <2>4, TrialsFinite DEF SlotsAccounted
<1>3. CASE Elapse
  <2>1. breaker' = TimeoutElapses(breaker) /\ Trials' = Trials
    BY <1>3 DEF Elapse, Trials
  <2> QED
    BY <1>0, <2>1, TimeoutElapsesOK DEF SlotsAccounted
<1>4. CASE UNCHANGED vars
  BY <1>4 DEF vars, SlotsAccounted, Trials
<1> QED
  BY <1>1, <1>2, <1>3, <1>4 DEF Next

\* A trial slot is lost only when an answer is not reported to the breaker:
\* reporting every outcome is all that its recovery needs.
THEOREM NoSlotLost == Spec => SlotsLostSilently
<1>1. IInv /\ [Next]_vars =>
        [SlotsAccounted /\ ~SlotsAccounted' => breaker' = breaker]_vars
  BY NextSlots
<1> QED
  BY <1>1, InitIInv, NextIInv, PTL DEF Spec, SlotsLostSilently

-----------------------------------------------------------------------------
(* The recovery. *)

EnoughSlots == HalfOpenSuccessThreshold <= HalfOpenMaxRequests

\* A breaker that admits nobody waits for the clock, or for a trial.
RecoveryToCome ==
    ~Admits(breaker) /\ SlotsAccounted =>
        \/ breaker.state = "open" /\ ~breaker.elapsed
        \/ breaker.state = "half-open" /\ Trials # {}

\* While a half-open breaker admits nobody, no trial is added to those it
\* waits for.
TrialsDrain ==
    ~Admits(breaker) /\ breaker.state = "half-open" => Trials' \subseteq Trials

\* With settings by which the slots of an episode suffice to close the breaker,
\* it is never stuck: when it rejects, its timeout is still running or one of
\* finitely many trials is under way, unless a slot was lost.
THEOREM NeverStuck == EnoughSlots => (Spec => []RecoveryToCome /\ [][TrialsDrain]_vars)
<1> SUFFICES ASSUME EnoughSlots PROVE Spec => []RecoveryToCome /\ [][TrialsDrain]_vars
  OBVIOUS
<1>1. IInv => RecoveryToCome
  <2> SUFFICES ASSUME IInv, ~Admits(breaker), SlotsAccounted
               PROVE  \/ breaker.state = "open" /\ ~breaker.elapsed
                      \/ breaker.state = "half-open" /\ Trials # {}
    BY DEF RecoveryToCome
  <2>1. breaker \in Breaker /\ WellFormed(breaker)
    BY DEF IInv, TypeOK, BreakerShape
  <2>2. CASE breaker.state = "half-open"
    <3>1. breaker.reqs = HalfOpenMaxRequests /\ breaker.success < HalfOpenSuccessThreshold
      BY <2>1, <2>2, SettingsAssumption DEF Admits, Recovered, Breaker, WellFormed
    <3>2. breaker.reqs <= Cardinality(Trials) + breaker.success
      BY <2>2 DEF SlotsAccounted
    <3>3. breaker.success \in Nat
      BY <2>1, SettingsAssumption DEF Breaker
    <3>4. Cardinality(Trials) # 0
      BY <3>1, <3>2, <3>3, TrialsFinite, SettingsAssumption DEF EnoughSlots
    <3> QED
      BY <2>2, <3>4, FS_EmptySet
  <2>3. CASE breaker.state = "open"
    BY <2>1, <2>3, SettingsAssumption DEF Admits, Recovered, Breaker
  <2>4. CASE breaker.state = "closed"
    BY <2>4 DEF Admits, Recovered
  <2> QED
    BY <2>1, <2>2, <2>3, <2>4 DEF Breaker
<1>2. IInv /\ [Next]_vars => TrialsDrain
  <2> SUFFICES ASSUME IInv, [Next]_vars, ~Admits(breaker), breaker.state = "half-open"
               PROVE  Trials' \subseteq Trials
    BY DEF TrialsDrain
  <2>1. ASSUME NEW c \in Callers, TryStream(c) PROVE Trials' \subseteq Trials
    BY <2>1, TryStreamTrials
  <2>2. ASSUME NEW c \in Callers, Return(c) PROVE Trials' \subseteq Trials
    BY <2>2, ReturnTrials
  <2>3. CASE Elapse \/ UNCHANGED vars
    BY <2>3 DEF Elapse, vars, Trials
  <2> QED
    BY <2>1, <2>2, <2>3 DEF Next
<1> QED
  BY <1>1, <1>2, InitIInv, NextIInv, PTL DEF Spec
=============================================================================
