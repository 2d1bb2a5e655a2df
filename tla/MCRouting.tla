----------------------------- MODULE MCRouting -------------------------------
(***************************************************************************)
(* An instance of Failover for the routing funnel: one request at a time,  *)
(* every kind of client wish against two rich configurations that a save   *)
(* swaps at any moment, and upstreams that answer.  The second one is what *)
(* the admin pages let through: a default tier that does not exist, a      *)
(* display name used twice, an advanced tier without a long-context model. *)
(***************************************************************************)
EXTENDS Failover

Model(name, tech, priority, longContext, maxContextTokens, enabled) ==
    [name |-> name, technicalName |-> tech, priority |-> priority,
     longContext |-> longContext, maxContextTokens |-> maxContextTokens,
     enabled |-> enabled, urlOk |-> name # "nano"]

Rule(field, op, value) == [field |-> field, op |-> op, value |-> value]

Aliases == [n \in {"auto-advanced", "auto-basic", "auto-legacy"} |->
               CASE n = "auto-advanced" -> "advanced"
                 [] n = "auto-basic" -> "basic"
                 [] n = "auto-legacy" -> "gold"]

AsShipped ==
    [tiers |-> [advanced |-> << Model("opus", "claude-opus", 1, TRUE, 6, TRUE),
                                Model("gpt", "gpt-pro", 2, TRUE, 0, FALSE) >>,
                basic |-> << Model("haiku", "claude-haiku", 0, FALSE, 0, TRUE),
                             Model("mini", "gpt-mini", 1, TRUE, 4, TRUE),
                             Model("nano", "gpt-nano", 2, FALSE, 0, TRUE) >>],  \* bad URL
     rules |-> {Rule("message_turns", "gt", 2), Rule("has_code", "eq", 1),
                Rule("prompt_length", "gte", 3), Rule("language", "eq", 0)},
     longContextThreshold |-> 3, modelAlias |-> Aliases,
     defaultTier |-> "basic", headerOverride |-> TRUE]

AsEdited ==
    [tiers |-> [advanced |-> << Model("haiku", "claude-haiku", 1, FALSE, 0, TRUE),
                                Model("haiku", "gpt-mini", 1, FALSE, 0, TRUE) >>,
                basic |-> << Model("mini", "gpt-mini", 1, TRUE, 5, TRUE) >>],
     rules |-> {Rule("has_tools", "gte", 1)},
     longContextThreshold |-> 4, modelAlias |-> Aliases,
     defaultTier |-> "gold", headerOverride |-> FALSE]

MCConfigs == <<AsShipped, AsEdited>>

MCKeys == {"advanced", "basic"} \X {"opus", "gpt", "haiku", "mini", "nano"}

MCInputs ==
    [kind : {"stream"},
     model : {"", "auto", "auto-basic", "auto-advanced", "auto-legacy",
              "haiku", "gpt-mini", "gpt-pro", "unknown"},
     tierHeader : {"", "advanced", "basic", "gold"},
     turns : {1, 3}, tokens : {1, 3, 4, 5, 7}, tools : BOOLEAN, code : {FALSE}]
      \cup
    [kind : Kind, model : {"auto", "nano"}, tierHeader : {""},
     turns : {1}, tokens : {1}, tools : BOOLEAN, code : BOOLEAN]

(* Upstreams that answer: no breaker leaves its closed state.                *)
Healthy == \/ \E r \in Requests : \/ Receive(r) \/ CheckBreaker(r) \/ OrderGroup(r)
                                  \/ CallSucceeds(r) \/ StartStream(r) \/ EndStream(r)
                                  \/ BuildFails(r) \/ Embed(r) \/ Finish(r)
           \/ Reload

HealthySpec == Init /\ [][Healthy]_vars
=============================================================================
