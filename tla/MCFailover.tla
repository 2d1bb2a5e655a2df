----------------------------- MODULE MCFailover ------------------------------
(***************************************************************************)
(* A small instance of Shedding: two siblings at the highest priority, one *)
(* of them by default, and a reserve behind them; after a save, one        *)
(* sibling is gone and the reserve's base URL is malformed.                *)
(***************************************************************************)
EXTENDS Shedding, TLC

Model(name, priority, urlOk) ==
    [name |-> name, technicalName |-> name, priority |-> priority, longContext |-> FALSE,
     maxContextTokens |-> 0, enabled |-> TRUE, urlOk |-> urlOk]

Config(models) ==
    [tiers |-> [basic |-> models], rules |-> {}, longContextThreshold |-> 2,
     modelAlias |-> <<>>, defaultTier |-> "basic", headerOverride |-> TRUE]

MCConfigs == << Config(<<Model("reserve", 2, TRUE), Model("opus", 0, TRUE), Model("sonnet", 1, TRUE)>>),
                Config(<<Model("sonnet", 1, TRUE), Model("reserve", 2, FALSE)>>) >>

MCKeys == {"basic"} \X {"opus", "sonnet", "reserve"}

Input(kind, name) == [kind |-> kind, model |-> name, tierHeader |-> "", turns |-> 1,
                      tokens |-> 1, tools |-> FALSE, code |-> FALSE]

MCInputs == {Input("chat", "auto"), Input("embed", "auto")}

-----------------------------------------------------------------------------

(* The time since the last failure of a closed breaker is never read again.   *)
View == <<state, failureCount, [k \in Keys |-> IF state[k] = "closed" THEN 0 ELSE sinceFailure[k]],
          lbCfg, rrCounters, req, shut>>

Symmetric == Permutations(Requests)
=============================================================================
