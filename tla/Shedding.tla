------------------------------ MODULE Shedding -------------------------------
(***************************************************************************)
(* Failover with a history variable: what an open breaker is for, as seen  *)
(* by one request from its arrival to its calls.                           *)
(***************************************************************************)
EXTENDS Failover

VARIABLE shut   \* per request: the models refused without a pause since it came in

HInit == Init /\ shut = [r \in Requests |-> {}]

HNext == /\ Next
         /\ shut' = [r \in Requests |->
                LET cooling == {k \in Keys : Cooling(k)'}
                IN  IF req'[r].phase \in {"idle", "done"} THEN {}
                    ELSE IF req[r].phase = "idle" THEN cooling
                    ELSE shut[r] \cap cooling]

HSpec == HInit /\ [][HNext]_<<vars, shut>>

(* An open breaker sheds load: a request that comes in while a model is        *)
(* refused does not call it, as long as the cool-down (prolonged by the calls  *)
(* still under way, or restarted) has not ended.                               *)
ShedsLoad ==
    \A r \in Requests : Stage(r, {"calling"}) => SelectedKey(r) \notin shut[r]
=============================================================================
