------------------------ MODULE CircuitBreakerProofs -------------------------
(***************************************************************************)
(* Proofs about the circuit breakers, for any set of keys, any threshold   *)
(* and any cool-down: their type invariant, the invariant that ties the    *)
(* three fields of a breaker together, and that the breakers implement     *)
(* BreakerPolicy.                                                          *)
(***************************************************************************)
EXTENDS CircuitBreaker, TLAPS

USE ThresholdAssumption, TimeoutAssumption

(* The counter's step stays within its bound, and reaches it only by counting. *)
LEMMA IncrementedBounds ==
    ASSUME NEW count \in 0..Threshold
    PROVE  Incremented(count) \in 1..Threshold
  BY DEF Incremented

(* Each method of a breaker, and the clock, keep the fields in their types. *)
LEMMA TypeStep ==
    ASSUME BreakerTypeOK, BreakerNext
    PROVE  BreakerTypeOK'
<1> USE DEF BreakerTypeOK, CircuitState
<1>1. ASSUME NEW k \in Keys, RecordSuccess(k)
      PROVE  BreakerTypeOK'
  BY <1>1 DEF RecordSuccess
<1>2. ASSUME NEW k \in Keys, RecordFailure(k)
      PROVE  BreakerTypeOK'
  <2>1. sinceFailure' \in [Keys -> 0..Timeout]
    BY <1>2 DEF RecordFailure
  <2>2. CASE ProbeFails(k)
    BY <2>1, <2>2 DEF ProbeFails
  <2>3. CASE FailureCounts(k)
    <3>1. Incremented(failureCount[k]) \in 0..Threshold
      BY IncrementedBounds
    <3>2. failureCount' \in [Keys -> 0..Threshold]
      BY <2>3, <3>1 DEF FailureCounts
    <3>3. state' \in [Keys -> CircuitState]
      BY <2>3 DEF FailureCounts
    <3> QED
      BY <2>1, <3>2, <3>3
  <2> QED
    BY <1>2, <2>2, <2>3 DEF RecordFailure
<1>3. ASSUME NEW k \in Keys, NEW answer \in BOOLEAN, IsOpen(k, answer)
      PROVE  BreakerTypeOK'
  BY <1>3 DEF IsOpen
<1>4. CASE Tick
  BY <1>4 DEF Tick
<1> QED
  BY <1>1, <1>2, <1>3, <1>4 DEF BreakerNext

(* The fields of every breaker keep their types, whatever calls are made. *)
THEOREM BreakerTypeInvariant == BreakerSpec => []BreakerTypeOK
<1>1. BreakerInit => BreakerTypeOK
  BY DEF BreakerInit, BreakerTypeOK, CircuitState
<1>2. BreakerTypeOK /\ UNCHANGED breakerVars => BreakerTypeOK'
  BY DEF BreakerTypeOK, breakerVars
<1>3. BreakerTypeOK /\ [BreakerNext]_breakerVars => BreakerTypeOK'
  BY <1>2, TypeStep
<1> QED
  BY <1>1, <1>3, PTL DEF BreakerSpec

-----------------------------------------------------------------------------

(* The invariant is inductive together with the types: a failed probe finds *)
(* the count at the threshold because the breaker was not closed.           *)
BreakerInv == BreakerTypeOK /\ StateMatchesCount

LEMMA StateMatchesCountStep ==
    ASSUME BreakerInv, BreakerNext
    PROVE  StateMatchesCount'
<1> USE DEF BreakerInv, BreakerTypeOK, StateMatchesCount, CircuitState
<1>1. ASSUME NEW k \in Keys, RecordSuccess(k)
      PROVE  StateMatchesCount'
  BY <1>1 DEF RecordSuccess
<1>2. ASSUME NEW k \in Keys, RecordFailure(k)
      PROVE  StateMatchesCount'
  <2>1. CASE ProbeFails(k)
    BY <1>2, <2>1 DEF ProbeFails, RecordFailure
  <2>2. CASE FailureCounts(k)
    <3>1. state'[k] = "closed" <=> failureCount'[k] < Threshold
      BY <2>2 DEF FailureCounts, Incremented
    <3>2. state'[k] # "half_open"
      BY <2>2 DEF FailureCounts
    <3>3. ASSUME NEW other \in Keys, other # k
          PROVE  /\ state'[other] = state[other]
                 /\ failureCount'[other] = failureCount[other]
                 /\ sinceFailure'[other] = sinceFailure[other]
      BY <1>2, <2>2, <3>3 DEF RecordFailure, FailureCounts
    <3> QED
      BY <3>1, <3>2, <3>3
  <2> QED
    BY <1>2, <2>1, <2>2 DEF RecordFailure
<1>3. ASSUME NEW k \in Keys, NEW answer \in BOOLEAN, IsOpen(k, answer)
      PROVE  StateMatchesCount'
  <2>1. CASE state[k] = "open" /\ ~answer
    <3>1. sinceFailure[k] = Timeout
      <4>1. ~(sinceFailure[k] < Timeout)
        BY <1>3, <2>1 DEF IsOpen, Cooling
      <4> QED
        BY <4>1
    <3>2. state' = [state EXCEPT ![k] = "half_open"]
      BY <1>3, <2>1 DEF IsOpen
    <3> QED
      BY <1>3, <2>1, <3>1, <3>2 DEF IsOpen
  <2>2. CASE ~(state[k] = "open" /\ ~answer)
    <3>1. UNCHANGED breakerVars
      BY <1>3, <2>2 DEF IsOpen, breakerVars
    <3> QED
      BY <3>1 DEF breakerVars
  <2> QED
    BY <2>1, <2>2
<1>4. CASE Tick
  BY <1>4 DEF Tick
<1> QED
  BY <1>1, <1>2, <1>3, <1>4 DEF BreakerNext

(* A breaker is closed exactly while it counts fewer failures than its       *)
(* threshold, and half open only after the whole cool-down.                  *)
THEOREM BreakerConsistent == BreakerSpec => []StateMatchesCount
<1>1. BreakerInit => BreakerInv
  BY DEF BreakerInit, BreakerInv, BreakerTypeOK, CircuitState, StateMatchesCount
<1>2. BreakerInv /\ UNCHANGED breakerVars => BreakerInv'
  BY DEF BreakerInv, BreakerTypeOK, StateMatchesCount, breakerVars
<1>3. BreakerInv /\ [BreakerNext]_breakerVars => BreakerInv'
  BY <1>2, TypeStep, StateMatchesCountStep DEF BreakerInv
<1>4. BreakerInv => StateMatchesCount
  BY DEF BreakerInv
<1> QED
  BY <1>1, <1>3, <1>4, PTL DEF BreakerSpec

-----------------------------------------------------------------------------

(* What IsOpen answers in a reachable state is what the policy refuses. *)
LEMMA CoolingIsRefused ==
    ASSUME BreakerInv
    PROVE  [k \in Keys |-> Cooling(k)] = Policy!Refusals(failureCount, sinceFailure)
<1> SUFFICES ASSUME NEW k \in Keys
             PROVE  Cooling(k) <=> (failureCount[k] >= Threshold /\ sinceFailure[k] < Timeout)
  BY Zenon DEF Policy!Refusals, Cooling
<1> QED
  BY DEF BreakerInv, BreakerTypeOK, StateMatchesCount, CircuitState, Cooling

(* A success and a failure are the policy's own actions: a failed probe adds  *)
(* nothing to the count, which has reached the threshold already.             *)
LEMMA SuccessRefines ==
    ASSUME NEW k \in Keys, RecordSuccess(k)
    PROVE  Policy!Succeed(k)
  BY DEF RecordSuccess, Policy!Succeed

LEMMA FailureRefines ==
    ASSUME BreakerInv, NEW k \in Keys, RecordFailure(k)
    PROVE  Policy!Fail(k)
<1>1. sinceFailure' = [sinceFailure EXCEPT ![k] = 0]
  BY DEF RecordFailure
<1>2. failureCount' = [failureCount EXCEPT ![k] = IF @ < Threshold THEN @ + 1 ELSE @]
  <2>1. CASE ProbeFails(k)
    <3>1. ~(failureCount[k] < Threshold)
      BY <2>1 DEF ProbeFails, BreakerInv, StateMatchesCount
    <3> QED
      BY <2>1, <3>1 DEF ProbeFails, BreakerInv, BreakerTypeOK
  <2>2. CASE FailureCounts(k)
    BY <2>2 DEF FailureCounts, Incremented
  <2> QED
    BY <2>1, <2>2 DEF RecordFailure
<1> QED
  BY <1>1, <1>2 DEF Policy!Fail

(* Every step of the breakers is a step of the policy or leaves it unchanged; *)
(* of IsOpen, which moves a breaker to half open, the policy sees nothing.    *)
LEMMA BreakerStepRefines ==
    ASSUME BreakerInv, BreakerInv', BreakerNext
    PROVE  [Policy!PolicyNext]_(Policy!policyVars)
<1> DEFINE refusedNow == [k \in Keys |-> Cooling(k)]
<1>1. refusedNow = Policy!Refusals(failureCount, sinceFailure)
  BY CoolingIsRefused
<1>2. refusedNow' = Policy!Refusals(failureCount', sinceFailure')
  <2>1. ASSUME NEW k \in Keys
        PROVE  Cooling(k)' <=> (failureCount'[k] >= Threshold /\ sinceFailure'[k] < Timeout)
    BY DEF BreakerInv, BreakerTypeOK, StateMatchesCount, CircuitState, Cooling
  <2> QED
    BY <2>1, Zenon DEF Policy!Refusals, Cooling
<1>3. ASSUME NEW k \in Keys, RecordSuccess(k)
      PROVE  Policy!PolicyNext
  BY <1>2, <1>3, SuccessRefines DEF Policy!PolicyNext
<1>4. ASSUME NEW k \in Keys, RecordFailure(k)
      PROVE  Policy!PolicyNext
  BY <1>2, <1>4, FailureRefines DEF Policy!PolicyNext
<1>5. ASSUME NEW k \in Keys, NEW answer \in BOOLEAN, IsOpen(k, answer)
      PROVE  UNCHANGED Policy!policyVars
  <2>1. UNCHANGED <<failureCount, sinceFailure>>
    BY <1>5 DEF IsOpen
  <2>2. refusedNow' = refusedNow
    BY <1>1, <1>2, <2>1
  <2> QED
    BY <2>1, <2>2 DEF Policy!policyVars
<1>6. CASE Tick
  <2>1. Policy!TimePasses
    BY <1>6 DEF Tick, Policy!TimePasses
  <2> QED
    BY <1>2, <2>1 DEF Policy!PolicyNext
<1> QED
  BY <1>3, <1>4, <1>5, <1>6 DEF BreakerNext

(* The three-state breakers implement the policy: a model is refused exactly *)
(* while Threshold calls in a row have failed and its cool-down runs.        *)
THEOREM BreakerImplementsPolicy == BreakerSpec => ImplementsPolicy
<1>1. BreakerInit => Policy!PolicyInit
  <2> SUFFICES ASSUME BreakerInit
               PROVE  Policy!PolicyInit
    OBVIOUS
  <2>1. BreakerInv
    BY DEF BreakerInit, BreakerInv, BreakerTypeOK, CircuitState, StateMatchesCount
  <2> QED
    BY <2>1, CoolingIsRefused DEF BreakerInit, Policy!PolicyInit
<1>2. BreakerInv /\ BreakerInv' /\ [BreakerNext]_breakerVars
        => [Policy!PolicyNext]_(Policy!policyVars)
  <2>1. UNCHANGED breakerVars => UNCHANGED Policy!policyVars
    BY DEF breakerVars, Policy!policyVars, Cooling
  <2> QED
    BY <2>1, BreakerStepRefines
<1>3. BreakerInv /\ [BreakerNext]_breakerVars
        => [CallsRegister]_breakerVars
  BY SuccessRefines, FailureRefines DEF CallsRegister
<1>4. BreakerSpec => []BreakerInv
  <2>1. BreakerTypeOK /\ StateMatchesCount => BreakerInv
    BY DEF BreakerInv
  <2> QED
    BY <2>1, BreakerTypeInvariant, BreakerConsistent, PTL
<1> QED
  BY <1>1, <1>2, <1>3, <1>4, PTL DEF BreakerSpec, ImplementsPolicy, Policy!PolicySpec
=============================================================================
