------------------------------- MODULE Routing -------------------------------
(***************************************************************************)
(* The routing funnel of internal/service/loadbalancer.go as operators     *)
(* over a configuration and an inbound request: which models a request may *)
(* be sent to (Route, steps 1 to 4) and in which order the usable ones are *)
(* tried (orderByPriority).  The stateful parts of Route, the breakers and *)
(* the round-robin counters, are in Failover.                              *)
(*                                                                         *)
(* A model is named by its tier and its position in that tier's list, so a *)
(* pool is a set of positions and an order is a sequence of them.          *)
(***************************************************************************)
EXTENDS Integers, Sequences, FiniteSets

CONSTANT Strategy       \* load_balance.strategy

(* The tiers that model.Tier.Valid accepts.  config.yaml may hold others,   *)
(* and may name any other as its default.                                   *)
Tier == {"advanced", "basic"}

Models(cfg, tier) == IF tier \in DOMAIN cfg.tiers THEN cfg.tiers[tier] ELSE <<>>

Key(tier, model) == <<tier, model.name>>

(* flatten: a priority left out of config.yaml counts as the highest, 1. *)
NoneIsLast(model) ==    \* mutated Priority: a priority left out ranks behind the others
    IF model.priority = 0 THEN 100 ELSE model.priority

Priority(model) == IF model.priority = 0 THEN 1 ELSE model.priority

Enabled(cfg, tier) ==
    {p \in DOMAIN Models(cfg, tier) : Models(cfg, tier)[p].enabled}

-----------------------------------------------------------------------------
(* 1. Direct: the client names a configured model.                          *)

isAlias(cfg, name) == name \in DOMAIN cfg.modelAlias

TechnicalNameOnly(model, name) ==    \* mutated Named: the display name does not count
    model.technicalName = name

Named(model, name) == model.technicalName = name \/ model.name = name

Matches(cfg, tier, in) ==
    {p \in Enabled(cfg, tier) : Named(Models(cfg, tier)[p], in.model)}

(* The first enabled match wins.  Each tier keeps the order of its list, but *)
(* flatten ranges over a Go map: any tier with a match may come first.       *)
DirectRoutes(cfg, in) ==
    IF in.model \in {"", "auto"} \/ isAlias(cfg, in.model)
    THEN {}
    ELSE UNION {{[direct |-> TRUE, tier |-> tier, pool |-> {p}] :
                    p \in {m \in Matches(cfg, tier, in) :
                              \A n \in Matches(cfg, tier, in) : m <= n}} :
                tier \in DOMAIN cfg.tiers}

-----------------------------------------------------------------------------
(* 2. The tier: header, then alias, then complexity rules, then default.     *)

Signal(in, field) == CASE field = "message_turns" -> in.turns
                       [] field \in {"est_input_tokens", "prompt_length"} -> in.tokens
                       [] field = "has_tools" -> IF in.tools THEN 1 ELSE 0
                       [] field = "has_code" -> IF in.code THEN 1 ELSE 0

ruleMatches(rule, in) ==
    /\ rule.field \in {"message_turns", "est_input_tokens", "prompt_length",
                       "has_tools", "has_code"}
    /\ \/ rule.op = "gte" /\ Signal(in, rule.field) >= rule.value
       \/ rule.op = "gt"  /\ Signal(in, rule.field) > rule.value
       \/ rule.op = "eq"  /\ Signal(in, rule.field) = rule.value

matchesComplexity(cfg, in) == \E rule \in cfg.rules : ruleMatches(rule, in)

(* The tier a request asks for outright, or "" : its header, if the          *)
(* configuration names one and it holds a valid tier, else its alias.        *)
RequestedTier(cfg, in) ==
    IF cfg.headerOverride /\ in.tierHeader \in Tier THEN in.tierHeader
    ELSE IF isAlias(cfg, in.model) /\ cfg.modelAlias[in.model] \in Tier
         THEN cfg.modelAlias[in.model]
         ELSE ""

resolveTier(cfg, in) ==
    IF RequestedTier(cfg, in) # "" THEN RequestedTier(cfg, in)
    ELSE IF matchesComplexity(cfg, in) THEN "advanced" ELSE cfg.defaultTier

-----------------------------------------------------------------------------
(* 3. Long context: keep the models that can hold the input, or escalate.    *)

IsLongContext(cfg, in) == in.tokens > cfg.longContextThreshold

LongContextModel(model, tokens) == model.longContext  \* mutated Holds: capacity ignored

Holds(model, tokens) ==
    model.longContext /\ (model.maxContextTokens = 0 \/ model.maxContextTokens >= tokens)

filterLongContext(cfg, tier, in) ==
    {p \in Enabled(cfg, tier) : Holds(Models(cfg, tier)[p], in.tokens)}

TierRoute(cfg, in) ==
    LET tier == resolveTier(cfg, in)
        fits == filterLongContext(cfg, tier, in)
    IN  IF ~IsLongContext(cfg, in)
        THEN [direct |-> FALSE, tier |-> tier, pool |-> Enabled(cfg, tier)]
        ELSE IF fits # {}
        THEN [direct |-> FALSE, tier |-> tier, pool |-> fits]
        ELSE [direct |-> FALSE, tier |-> "advanced",
              pool |-> filterLongContext(cfg, "advanced", in)]

(* Every result that Route's pool selection may have; an empty pool is an    *)
(* error the client sees as 503.                                             *)
Routes(cfg, in) == IF DirectRoutes(cfg, in) # {} THEN DirectRoutes(cfg, in)
                                                 ELSE {TierRoute(cfg, in)}

-----------------------------------------------------------------------------
(* 4. The order: ascending priority, the strategy inside a priority group.    *)

Arrangements(group) ==
    {g \in [1..Cardinality(group) -> group] : \A p \in group : \E i \in DOMAIN g : g[i] = p}

(* The place of p in its group, from 0, the group listed as in config.yaml    *)
(* (SliceStable keeps that order).                                            *)
Rank(group, p) == Cardinality({q \in group : q < p})

(* The first group of what is left to order: the smallest priority number.    *)
FirstGroup(models, left) ==
    {p \in left : \A q \in left : Priority(models[p]) <= Priority(models[q])}

(* orderGroup: a shuffle, or else the group rotated to start at the counter.  *)
GroupOrders(group, start) ==
    {g \in Arrangements(group) :
        \/ Strategy = "random"
        \/ \A i \in DOMAIN g :
               Rank(group, g[i]) = (start + i - 1) % Cardinality(group)}
=============================================================================
