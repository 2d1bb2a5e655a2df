---------------------------- MODULE BreakerPolicy ----------------------------
(***************************************************************************)
(* What the circuit breakers of VibeRouter promise, whatever bookkeeping   *)
(* implements it (README, "熔断与重试"): a backend model is refused exactly *)
(* while its last Threshold calls, at least, all failed and the cool-down  *)
(* that the last failure started has not run out.                          *)
(***************************************************************************)
EXTENDS Naturals

CONSTANTS Keys,         \* breaker ids, one per backend model
          Threshold,    \* consecutive failures that isolate a model
          Timeout       \* length of the cool-down, in ticks of the clock

VARIABLES streak,       \* consecutive failures since the last success (at most Threshold)
          since,        \* ticks since the last failure (at most Timeout)
          refused       \* the models no new request may be sent to

policyVars == <<streak, since, refused>>

PolicyType == /\ streak \in [Keys -> 0..Threshold]
              /\ since \in [Keys -> 0..Timeout]
              /\ refused \in [Keys -> BOOLEAN]

Refusals(s, t) == [k \in Keys |-> s[k] >= Threshold /\ t[k] < Timeout]

PolicyInit == /\ streak = [k \in Keys |-> 0]
              /\ since = [k \in Keys |-> Timeout]
              /\ refused = Refusals(streak, since)

Succeed(k) == /\ streak' = [streak EXCEPT ![k] = 0]
              /\ UNCHANGED since

Fail(k) == /\ streak' = [streak EXCEPT ![k] = IF @ < Threshold THEN @ + 1 ELSE @]
           /\ since' = [since EXCEPT ![k] = 0]

TimePasses == /\ since' = [k \in Keys |-> IF since[k] < Timeout THEN since[k] + 1 ELSE since[k]]
              /\ UNCHANGED streak

PolicyNext == /\ \/ \E k \in Keys : Succeed(k) \/ Fail(k)
                 \/ TimePasses
              /\ refused' = Refusals(streak', since')

PolicySpec == PolicyInit /\ [][PolicyNext]_policyVars
=============================================================================
