------------------------------ MODULE MCBreaker ------------------------------
(* A small instance of CircuitBreaker: two models, a breaker that opens at   *)
(* the third failure and cools down for three ticks.                         *)
EXTENDS CircuitBreaker

CONSTANTS opus, haiku
MCKeys == {opus, haiku}
=============================================================================
