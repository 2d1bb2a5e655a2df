--------------------------- MODULE CircuitBreaker ----------------------------
(***************************************************************************)
(* The circuit breakers of internal/service/loadbalancer.go, one per       *)
(* backend model key "<tier>:<name>".  Every method takes the breaker's    *)
(* mutex, so each is one atomic action; which goroutine calls which method *)
(* when is left open here and fixed in Failover.                           *)
(*                                                                         *)
(* The load balancer creates a breaker the first time its key is asked for *)
(* (GetBreaker) and never drops it, so every key has its fresh breaker     *)
(* from the start.  Threshold and Timeout are the circuit_breaker settings *)
(* of config.yaml, which nothing changes while the process runs.           *)
(*                                                                         *)
(* Two abstractions of data: the wall clock is Tick, and lastFailure is    *)
(* kept as the time elapsed since it; both stop at the bounds beyond which *)
(* the code no longer tells them apart: failureCount, which the code goes  *)
(* on counting (loadbalancer.go:52), at Threshold, and that time at        *)
(* Timeout.                                                                *)
(***************************************************************************)
EXTENDS Naturals

CONSTANTS Keys,         \* breaker ids, one per backend model
          Threshold,    \* circuit_breaker.threshold
          Timeout       \* circuit_breaker.timeout_sec, in ticks

ASSUME ThresholdAssumption == Threshold \in Nat \ {0}
ASSUME TimeoutAssumption == Timeout \in Nat

VARIABLES state,        \* CircuitState of every breaker
          failureCount, \* failures counted, at most Threshold
          sinceFailure  \* time since lastFailure, at most Timeout

breakerVars == <<state, failureCount, sinceFailure>>

CircuitState == {"closed", "open", "half_open"}

(* NewCircuitBreaker: the zero lastFailure lies longer back than any cool-down. *)
BreakerInit == /\ state = [k \in Keys |-> "closed"]
               /\ failureCount = [k \in Keys |-> 0]
               /\ sinceFailure = [k \in Keys |-> Timeout]

ResetsStateOnly(k) == \* mutated RecordSuccess: the count survives the success
    /\ state' = [state EXCEPT ![k] = "closed"]
    /\ UNCHANGED <<failureCount, sinceFailure>>

DecaysPastZero(k) ==  \* mutated RecordSuccess: one failure less, never mind how many there were
    /\ failureCount' = [failureCount EXCEPT ![k] = @ - 1]
    /\ state' = [state EXCEPT ![k] = "closed"]
    /\ UNCHANGED sinceFailure

RecordSuccess(k) == /\ failureCount' = [failureCount EXCEPT ![k] = 0]
                    /\ state' = [state EXCEPT ![k] = "closed"]
                    /\ UNCHANGED sinceFailure

(* A failed probe reopens the breaker and leaves the count alone. *)
ProbeFails(k) == /\ state[k] = "half_open"
                 /\ state' = [state EXCEPT ![k] = "open"]
                 /\ UNCHANGED failureCount

(* failureCount++ only ever meets ">= Threshold": from there on the count stays. *)
Incremented(count) == IF count < Threshold THEN count + 1 ELSE count

(* Any other failure counts, also when the breaker is open already. *)
FailureCounts(k) ==
    /\ state[k] # "half_open"
    /\ failureCount' = [failureCount EXCEPT ![k] = Incremented(@)]
    /\ state' = [state EXCEPT ![k] = IF Incremented(failureCount[k]) >= Threshold
                                     THEN "open" ELSE @]

FailedProbeKeepsTime(k) == \* mutated RecordFailure: the early return skips lastFailure
    \/ ProbeFails(k) /\ UNCHANGED sinceFailure
    \/ FailureCounts(k) /\ sinceFailure' = [sinceFailure EXCEPT ![k] = 0]

RecordFailure(k) == /\ ProbeFails(k) \/ FailureCounts(k)
                    /\ sinceFailure' = [sinceFailure EXCEPT ![k] = 0]

Cooling(k) == state[k] = "open" /\ sinceFailure[k] < Timeout

StaysOpen(k, answer) ==     \* mutated IsOpen: the cool-down never ends
    /\ answer = (state[k] = "open")
    /\ UNCHANGED breakerVars

(* IsOpen answers and, once the cool-down is over, lets the next calls probe. *)
IsOpen(k, answer) ==
    /\ answer = Cooling(k)
    /\ state' = [state EXCEPT ![k] = IF @ = "open" /\ ~answer THEN "half_open" ELSE @]
    /\ UNCHANGED <<failureCount, sinceFailure>>

(* Past the bound, a tick of the clock changes nothing any more. *)
Tick == /\ \E k \in Keys : sinceFailure[k] < Timeout
        /\ sinceFailure' = [k \in Keys |->
              IF sinceFailure[k] < Timeout THEN sinceFailure[k] + 1 ELSE sinceFailure[k]]
        /\ UNCHANGED <<state, failureCount>>

BreakerNext == \/ \E k \in Keys : \/ RecordSuccess(k)
                                  \/ RecordFailure(k)
                                  \/ \E answer \in BOOLEAN : IsOpen(k, answer)
               \/ Tick

BreakerSpec == BreakerInit /\ [][BreakerNext]_breakerVars

-----------------------------------------------------------------------------

(* Every breaker's fields have their types, within their bounds. *)
BreakerTypeOK == /\ state \in [Keys -> CircuitState]
                 /\ failureCount \in [Keys -> 0..Threshold]
                 /\ sinceFailure \in [Keys -> 0..Timeout]

(* state, failureCount and lastFailure are written by three methods, two of *)
(* which leave one of them alone.  They never disagree: a breaker is closed *)
(* exactly while it counts fewer than Threshold failures, so that a failed  *)
(* probe needs no count of its own, and it is half open only after the full *)
(* cool-down since the last failure, whichever call reported that.          *)
StateMatchesCount ==
    \A k \in Keys : /\ state[k] = "closed" <=> failureCount[k] < Threshold
                    /\ state[k] = "half_open" => sinceFailure[k] = Timeout

Policy == INSTANCE BreakerPolicy
            WITH streak <- failureCount,
                 since <- sinceFailure,
                 refused <- [k \in Keys |-> Cooling(k)]

(* A reported call is a step of the policy. *)
CallsRegister == \A k \in Keys : /\ RecordSuccess(k) => Policy!Succeed(k)
                                 /\ RecordFailure(k) => Policy!Fail(k)

(* The three-state machine implements the policy: under any interleaving of   *)
(* successes, failures, checks and ticks, IsOpen refuses a model exactly      *)
(* while it has failed Threshold times in a row and its cool-down runs; and   *)
(* each reported call is a step of the policy, none is lost in a stutter: the *)
(* failure of a probe restarts the cool-down although the code returns early. *)
ImplementsPolicy == Policy!PolicySpec /\ [][CallsRegister]_breakerVars

=============================================================================
