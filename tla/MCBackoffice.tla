----------------------------- MODULE MCBackoffice -----------------------------
(***************************************************************************)
(* An instance of Backoffice: two admins, of whom one reads the log, log   *)
(* in and out, under two sessions.                                         *)
(***************************************************************************)
EXTENDS Backoffice

CONSTANTS reader, alice

MCAsks(a) == IF a = reader THEN {"logs"} ELSE {"logout"}

MCUsername == [key \in Keys |-> alice]
=============================================================================
