---------------------------- MODULE FailoverProofs -----------------------------
(***************************************************************************)
(* Proofs about the proxy path, for any set of requests and inputs, any    *)
(* configurations that satisfy ConfigsAssumption, and any strategy: the    *)
(* local state of every request is well formed, failover is strict, and no *)
(* model is tried twice or left out; an open breaker sheds load; and the   *)
(* breakers, used as the handlers use them, implement their policy.        *)
(***************************************************************************)
EXTENDS Shedding, CircuitBreakerProofs, FiniteSetTheorems, SequenceTheorems

-----------------------------------------------------------------------------
(* Configurations and routes. *)

(* The list of any tier of a configuration, configured or not, is a list of  *)
(* models with numeric priorities, each with a breaker.                      *)
LEMMA ModelsShape ==
    ASSUME NEW cfg \in ConfigSet, NEW tier
    PROVE  /\ DOMAIN Models(cfg, tier) \subseteq Nat
           /\ IsFiniteSet(DOMAIN Models(cfg, tier))
           /\ \A p \in DOMAIN Models(cfg, tier) :
                  /\ Models(cfg, tier)[p].priority \in Int
                  /\ Priority(Models(cfg, tier)[p]) \in Int
                  /\ Key(tier, Models(cfg, tier)[p]) \in Keys
<1>1. CASE tier \in DOMAIN cfg.tiers
  <2> DEFINE list == cfg.tiers[tier]
  <2>1. /\ list \in Seq(ModelType)
        /\ \A p \in DOMAIN list : Key(tier, list[p]) \in Keys
    BY <1>1, ConfigsAssumption
  <2>2. Models(cfg, tier) = list
    BY <1>1 DEF Models
  <2>3. DOMAIN list = 1..Len(list) /\ Len(list) \in Nat
    BY <2>1
  <2>4. IsFiniteSet(DOMAIN list)
    BY <2>3, FS_Interval
  <2>5. ASSUME NEW p \in DOMAIN list
        PROVE  list[p].priority \in Int /\ Priority(list[p]) \in Int
    <3>1. list[p] \in ModelType
      BY <2>1, <2>3
    <3>2. list[p].priority \in Int
      BY <3>1 DEF ModelType
    <3> QED
      BY <3>2 DEF Priority
  <2> QED
    BY <2>1, <2>2, <2>3, <2>4, <2>5
<1>2. CASE tier \notin DOMAIN cfg.tiers
  <2>1. DOMAIN Models(cfg, tier) = {}
    BY <1>2 DEF Models
  <2> QED
    BY <2>1, FS_EmptySet
<1> QED
  BY <1>1, <1>2

(* A direct route leads to one model, which matches. *)
LEMMA DirectRouteShape ==
    ASSUME NEW cfg, NEW in, NEW route \in DirectRoutes(cfg, in)
    PROVE  \E tier \in DOMAIN cfg.tiers : \E p \in Matches(cfg, tier, in) :
               route = [direct |-> TRUE, tier |-> tier, pool |-> {p}]
  BY DEF DirectRoutes

(* Whatever the funnel decides, its pool consists of models of its tier. *)
LEMMA RouteShape ==
    ASSUME NEW cfg \in ConfigSet, NEW in, NEW route \in Routes(cfg, in)
    PROVE  /\ route.direct \in BOOLEAN
           /\ route.tier \in TierNames(cfg)
           /\ route.pool \subseteq DOMAIN Models(cfg, route.tier)
<1>1. ASSUME NEW tier
      PROVE  /\ Enabled(cfg, tier) \subseteq DOMAIN Models(cfg, tier)
             /\ filterLongContext(cfg, tier, in) \subseteq DOMAIN Models(cfg, tier)
  BY DEF Enabled, filterLongContext
<1>2. CASE route \in DirectRoutes(cfg, in)
  <2>1. PICK tier \in DOMAIN cfg.tiers : \E p \in Matches(cfg, tier, in) :
            route = [direct |-> TRUE, tier |-> tier, pool |-> {p}]
    BY <1>2, DirectRouteShape
  <2>2. tier \in TierNames(cfg)
    BY DEF TierNames
  <2> QED
    BY <1>1, <2>1, <2>2 DEF Matches
<1>3. CASE route = TierRoute(cfg, in)
  <2>1. RequestedTier(cfg, in) \in Tier \cup {""}
    BY DEF RequestedTier
  <2>2. resolveTier(cfg, in) \in TierNames(cfg)
    BY <2>1 DEF resolveTier, Tier, TierNames
  <2>3. "advanced" \in TierNames(cfg)
    BY DEF Tier, TierNames
  <2> DEFINE tier == resolveTier(cfg, in)
  <2>5. CASE route.tier = tier
    BY <1>1, <1>3, <2>2, <2>5 DEF TierRoute
  <2>6. CASE route.tier = "advanced"
    BY <1>1, <1>3, <2>3, <2>6 DEF TierRoute
  <2> QED
    BY <1>3, <2>5, <2>6 DEF TierRoute
<1> QED
  BY <1>2, <1>3 DEF Routes

(* A group's order lists every member once. *)
LEMMA GroupOrderShape ==
    ASSUME NEW group, IsFiniteSet(group), NEW start, NEW g \in GroupOrders(group, start)
    PROVE  \E n \in Nat : /\ g \in [1..n -> group]
                          /\ \A p \in group : \E i \in 1..n : g[i] = p
                          /\ \A i, j \in 1..n : g[i] = g[j] => i = j
<1> DEFINE n == Cardinality(group)
<1>1. n \in Nat
  BY FS_CardinalityType
<1>2. /\ g \in [1..n -> group]
      /\ \A p \in group : \E i \in DOMAIN g : g[i] = p
  BY DEF GroupOrders, Arrangements
<1>3. IsFiniteSet(1..n) /\ Cardinality(1..n) = n
  BY <1>1, FS_Interval
<1>4. g \in Surjection(1..n, group)
  BY <1>2 DEF Surjection
<1>5. g \in Injection(1..n, group)
  BY <1>3, <1>4, FS_SurjSameCardinalityImpliesInj
<1> QED
  BY <1>1, <1>2, <1>5 DEF Injection, IsInjective

-----------------------------------------------------------------------------
(* The inductive invariant.                                                  *)

(* The order built so far ascends in priority, repeats no model, and nothing *)
(* still to be ordered belongs before any of it.                             *)
OrderShape(r) ==
    /\ \A i, j \in DOMAIN req[r].order : i < j =>
           /\ req[r].order[i] # req[r].order[j]
           /\ Priority(PoolModels(r)[req[r].order[i]])
                <= Priority(PoolModels(r)[req[r].order[j]])
    /\ \A p \in Ordered(r), q \in req[r].avail \ Ordered(r) :
           Priority(PoolModels(r)[p]) <= Priority(PoolModels(r)[q])

(* 503 is answered only when no model of the pool is left. *)
UnavailableShape(r) ==
    (Stage(r, {"done"}) /\ req[r].answer = "unavailable") =>
        /\ req[r].pool = Refused(r) \cup Ordered(r)
        /\ req[r].order # <<>> => req[r].at = Len(req[r].order)

RequestInv(r) ==
    req[r] # Idle => RequestShape(r) /\ OrderShape(r) /\ UnavailableShape(r)

FailoverInv == TypeOK /\ \A r \in Requests : RequestInv(r)

(* What every action of r does to req: it replaces the record of r. *)
OnlyOf(r, rec) == req' = [req EXCEPT ![r] = rec]

(* If an action of r replaces its record by one that is well formed, all    *)
(* requests stay well formed.                                               *)
LEMMA OthersKeep ==
    ASSUME FailoverInv, NEW r \in Requests, NEW rec \in {Idle} \cup RequestType,
           OnlyOf(r, rec), RequestInv(r)', BreakerTypeOK', lbCfg' \in ConfigSet,
           rrCounters' \in [DOMAIN rrCounters' -> Nat]
    PROVE  FailoverInv'
<1>1. req \in [Requests -> {Idle} \cup RequestType]
  BY DEF FailoverInv, TypeOK
<1>2. req' \in [Requests -> {Idle} \cup RequestType]
  BY <1>1 DEF OnlyOf
<1>3. ASSUME NEW q \in Requests
      PROVE  RequestInv(q)'
  <2>1. CASE q = r
    BY <2>1
  <2>2. CASE q # r
    <3>1. req'[q] = req[q]
      BY <1>1, <2>2 DEF OnlyOf
    <3>2. RequestInv(q)
      BY DEF FailoverInv
    <3> QED
      BY <3>1, <3>2 DEF RequestInv, RequestShape, OrderShape, UnavailableShape, PoolModels,
                        Stage, Ordered, Refused
  <2> QED
    BY <2>1, <2>2
<1> QED
  BY <1>2, <1>3 DEF FailoverInv, TypeOK, RequestInv

LEMMA RequestFacts ==
    ASSUME FailoverInv, NEW r \in Requests, req[r].phase # "idle"
    PROVE  /\ req[r] \in RequestType
           /\ req[r].cfg \in ConfigSet
           /\ RequestShape(r) /\ OrderShape(r)
<1>1. req[r] \in {Idle} \cup RequestType
  BY DEF FailoverInv, TypeOK
<1>2. req[r] # Idle
  BY DEF Idle
<1>3. req[r] \in RequestType
  BY <1>1, <1>2
<1> QED
  BY <1>2, <1>3 DEF FailoverInv, RequestInv, RequestType

(* Every call of a breaker is a step of the breakers. *)
LEMMA BreakerCalls ==
    ASSUME FailoverInv, NEW r \in Requests, req[r].phase # "idle",
           NEW p \in req[r].pool
    PROVE  /\ KeyAt(r, p) \in Keys
           /\ RecordSuccess(KeyAt(r, p)) => BreakerNext
           /\ RecordFailure(KeyAt(r, p)) => BreakerNext
           /\ \A answer \in BOOLEAN : IsOpen(KeyAt(r, p), answer) => BreakerNext
<1>1. KeyAt(r, p) \in Keys
  BY RequestFacts, ModelsShape DEF KeyAt, PoolModels, RequestShape
<1> QED
  BY <1>1 DEF BreakerNext

-----------------------------------------------------------------------------
(* The steps of a request. *)

LEMMA ReceiveStep ==
    ASSUME FailoverInv, NEW r \in Requests, Receive(r)
    PROVE  FailoverInv'
<1> DEFINE started(in, route) ==
           [phase |-> IF route.pool = {} THEN "done" ELSE "checking",
           in |-> in, cfg |-> lbCfg, direct |-> route.direct, tier |-> route.tier,
           pool |-> route.pool, unchecked |-> route.pool, avail |-> {},
           order |-> <<>>, at |-> 1,
           answer |-> IF route.pool = {} THEN "unavailable" ELSE "none"]
<1>0. PICK in \in Inputs : \E route \in Routes(lbCfg, in) : OnlyOf(r, started(in, route))
  BY DEF Receive, OnlyOf
<1>1. PICK route \in Routes(lbCfg, in) : OnlyOf(r, started(in, route))
  BY <1>0
<1> DEFINE rec == started(in, route)
<1>2. /\ lbCfg \in ConfigSet
      /\ req \in [Requests -> {Idle} \cup RequestType]
      /\ rrCounters \in [DOMAIN rrCounters -> Nat]
      /\ BreakerTypeOK
  BY DEF FailoverInv, TypeOK
<1>3. /\ route.direct \in BOOLEAN
      /\ route.tier \in TierNames(lbCfg)
      /\ route.pool \subseteq DOMAIN Models(lbCfg, route.tier)
      /\ route.pool \subseteq Nat
  BY <1>2, RouteShape, ModelsShape
<1>4. <<>> \in Seq(Nat)
  OBVIOUS
<1>5. rec \in RequestType
  BY <1>2, <1>3, <1>4 DEF RequestType, Phase, Answer
<1>6. req'[r] = rec
  BY <1>1, <1>2 DEF OnlyOf
<1>7. RequestInv(r)'
  BY <1>3, <1>6 DEF RequestInv, RequestShape, OrderShape, UnavailableShape, PoolModels,
                    Stage, Ordered, Refused
<1>8. UNCHANGED <<state, failureCount, sinceFailure, lbCfg, rrCounters>>
  BY DEF Receive, breakerVars
<1>9. BreakerTypeOK'
  BY <1>2, <1>8 DEF BreakerTypeOK
<1> QED
  BY <1>1, <1>2, <1>5, <1>7, <1>8, <1>9, OthersKeep

LEMMA CheckBreakerStep ==
    ASSUME FailoverInv, NEW r \in Requests, CheckBreaker(r)
    PROVE  /\ FailoverInv'
           /\ BreakerNext
<1>1. PICK p \in req[r].unchecked, answer \in BOOLEAN :
          /\ IsOpen(KeyAt(r, p), answer)
          /\ LET avail == IF answer THEN req[r].avail ELSE req[r].avail \cup {p}
                 last == req[r].unchecked = {p}
                 next == IF ~last THEN "checking" ELSE IF avail = {} THEN "done" ELSE "ordering"
             IN  req' = [req EXCEPT ![r].unchecked = @ \ {p}, ![r].avail = avail,
                             ![r].phase = next,
                             ![r].answer = IF next = "done" THEN "unavailable" ELSE @]
  BY DEF CheckBreaker
<1> DEFINE avail == IF answer THEN req[r].avail ELSE req[r].avail \cup {p}
           next == IF req[r].unchecked # {p} THEN "checking"
                   ELSE IF avail = {} THEN "done" ELSE "ordering"
           rec == [req[r] EXCEPT !.unchecked = @ \ {p}, !.avail = avail, !.phase = next,
                       !.answer = IF next = "done" THEN "unavailable" ELSE @]
<1>2. /\ req[r].phase = "checking"
      /\ req[r] \in RequestType
      /\ RequestShape(r)
      /\ p \in req[r].pool
  BY RequestFacts DEF CheckBreaker, RequestShape
<1>3. /\ lbCfg \in ConfigSet
      /\ req \in [Requests -> {Idle} \cup RequestType]
      /\ rrCounters \in [DOMAIN rrCounters -> Nat]
      /\ BreakerTypeOK
  BY DEF FailoverInv, TypeOK
<1>4. OnlyOf(r, rec)
  BY <1>1, <1>2, <1>3 DEF OnlyOf, RequestType
<1>5. BreakerNext
  BY <1>1, <1>2, BreakerCalls
<1>6. BreakerTypeOK'
  BY <1>3, <1>5, TypeStep
<1>7. req'[r] = rec
  BY <1>3, <1>4 DEF OnlyOf
<1>8. rec \in RequestType
  BY <1>2 DEF RequestType, Phase, Answer, RequestShape
<1>9. RequestInv(r)'
  BY <1>2, <1>7 DEF RequestType, RequestInv, RequestShape, OrderShape, UnavailableShape,
                    PoolModels, Stage, Ordered, Refused
<1>10. UNCHANGED <<lbCfg, rrCounters>>
  BY DEF CheckBreaker
<1> QED
  BY <1>3, <1>4, <1>5, <1>6, <1>8, <1>9, <1>10, OthersKeep

(* An answer ends the request; a 503 needs that no candidate follows. *)
LEMMA RespondStep ==
    ASSUME FailoverInv, NEW r \in Requests, Stage(r, {"calling", "streaming"}),
           NEW answer \in Answer, Respond(r, answer),
           answer = "unavailable" => req[r].at = Len(req[r].order),
           UNCHANGED <<lbCfg, rrCounters>>, BreakerTypeOK'
    PROVE  FailoverInv'
<1> DEFINE rec == [req[r] EXCEPT !.phase = "done", !.answer = answer]
<1>1. /\ req[r] \in RequestType
      /\ RequestShape(r) /\ OrderShape(r)
  BY RequestFacts DEF Stage
<1>2. /\ lbCfg \in ConfigSet
      /\ req \in [Requests -> {Idle} \cup RequestType]
      /\ rrCounters \in [DOMAIN rrCounters -> Nat]
  BY DEF FailoverInv, TypeOK
<1>3. OnlyOf(r, rec)
  BY <1>1, <1>2 DEF OnlyOf, Respond, RequestType
<1>4. req'[r] = rec
  BY <1>2, <1>3 DEF OnlyOf
<1>5. rec \in RequestType
  BY <1>1 DEF RequestType, Phase
<1>6. RequestInv(r)'
  BY <1>1, <1>4 DEF RequestType, RequestInv, RequestShape, OrderShape, UnavailableShape,
                    PoolModels, Stage, Ordered, Refused
<1> QED
  BY <1>2, <1>3, <1>5, <1>6, OthersKeep

LEMMA NextCandidateStep ==
    ASSUME FailoverInv, NEW r \in Requests, Loops(r), NextCandidate(r),
           UNCHANGED <<lbCfg, rrCounters>>, BreakerTypeOK'
    PROVE  FailoverInv'
<1> DEFINE rec == [req[r] EXCEPT !.at = @ + 1]
<1>1. /\ req[r] \in RequestType
      /\ RequestShape(r) /\ OrderShape(r)
      /\ Stage(r, {"calling"}) /\ Stage(r, {"calling", "streaming"})
  BY RequestFacts DEF Stage, Loops
<1>2. /\ lbCfg \in ConfigSet
      /\ req \in [Requests -> {Idle} \cup RequestType]
      /\ rrCounters \in [DOMAIN rrCounters -> Nat]
  BY DEF FailoverInv, TypeOK
<1>3. /\ req[r].order \in Seq(Nat)
      /\ req[r].at \in 1..Len(req[r].order)
  BY <1>1 DEF RequestType, RequestShape
<1>4. CASE req[r].at < Len(req[r].order)
  <2>1. OnlyOf(r, rec)
    BY <1>1, <1>2, <1>4 DEF OnlyOf, NextCandidate, RequestType
  <2>2. req'[r] = rec
    BY <1>2, <2>1 DEF OnlyOf
  <2>3. rec \in RequestType
    BY <1>1 DEF RequestType
  <2>4. rec.at \in DOMAIN rec.order
    BY <1>1, <1>3, <1>4 DEF RequestType
  <2>5. RequestInv(r)'
    BY <1>1, <2>2, <2>4 DEF RequestType, RequestInv, RequestShape, OrderShape,
                            UnavailableShape, PoolModels, Stage, Ordered, Refused
  <2> QED
    BY <1>2, <2>1, <2>3, <2>5, OthersKeep
<1>5. CASE ~(req[r].at < Len(req[r].order))
  <2>1. Respond(r, "unavailable")
    BY <1>5 DEF NextCandidate
  <2>2. req[r].at = Len(req[r].order)
    BY <1>3, <1>5
  <2> QED
    BY <1>1, <2>1, <2>2, RespondStep DEF Answer
<1> QED
  BY <1>4, <1>5

(* The model being called has a breaker. *)
LEMMA SelectedInPool ==
    ASSUME FailoverInv, NEW r \in Requests, Stage(r, {"calling", "streaming"})
    PROVE  /\ req[r].order[req[r].at] \in req[r].pool
           /\ SelectedKey(r) = KeyAt(r, req[r].order[req[r].at])
<1>1. RequestShape(r)
  BY RequestFacts DEF Stage
<1> QED
  BY <1>1 DEF RequestShape, Ordered, SelectedKey, Selected, KeyAt, Stage

(* The steps of the failover loop, and of Embeddings. *)
LEMMA LoopStep ==
    ASSUME FailoverInv, NEW r \in Requests,
           \/ BuildFails(r) \/ CallFails(r) \/ CallSucceeds(r)
           \/ StartStream(r) \/ EndStream(r) \/ Embed(r)
    PROVE  FailoverInv' /\ (BreakerNext \/ UNCHANGED breakerVars)
<1> USE DEF Stage, Loops
<1>1. UNCHANGED <<lbCfg, rrCounters>> /\ Stage(r, {"calling", "streaming"})
  BY DEF BuildFails, CallFails, CallSucceeds, StartStream, EndStream, Embed
<1>2. BreakerNext \/ UNCHANGED breakerVars
  <2>1. UNCHANGED breakerVars \/ RecordFailure(SelectedKey(r)) \/ RecordSuccess(SelectedKey(r))
    BY DEF BuildFails, CallFails, CallSucceeds, StartStream, EndStream, Embed
  <2>2. req[r].phase # "idle"
    BY <1>1
  <2> QED
    BY <1>1, <2>1, <2>2, SelectedInPool, BreakerCalls
<1>3. BreakerTypeOK'
  <2>1. BreakerTypeOK
    BY DEF FailoverInv, TypeOK
  <2> QED
    BY <1>2, <2>1, TypeStep DEF BreakerTypeOK, breakerVars
<1>4. CASE BuildFails(r) \/ CallFails(r)
  BY <1>1, <1>2, <1>3, <1>4, NextCandidateStep DEF BuildFails, CallFails
<1>5. CASE CallSucceeds(r) \/ EndStream(r) \/ Embed(r)
  <2>1. PICK answer \in Answer \ {"unavailable"} : Respond(r, answer)
    BY <1>5 DEF CallSucceeds, EndStream, Embed, Answer
  <2> QED
    BY <1>1, <1>2, <1>3, <2>1, RespondStep
<1>6. CASE StartStream(r)
  <2> DEFINE rec == [req[r] EXCEPT !.phase = "streaming"]
  <2>1. /\ req[r] \in RequestType
        /\ RequestShape(r) /\ OrderShape(r)
    BY <1>1, RequestFacts
  <2>2. /\ lbCfg \in ConfigSet
        /\ req \in [Requests -> {Idle} \cup RequestType]
        /\ rrCounters \in [DOMAIN rrCounters -> Nat]
    BY DEF FailoverInv, TypeOK
  <2>3. OnlyOf(r, rec)
    BY <1>6, <2>1, <2>2 DEF OnlyOf, StartStream, RequestType
  <2>4. req'[r] = rec
    BY <2>2, <2>3 DEF OnlyOf
  <2>5. rec \in RequestType
    BY <2>1 DEF RequestType, Phase
  <2>6. RequestInv(r)'
    BY <1>6, <2>1, <2>4 DEF StartStream, RequestType, RequestInv, RequestShape, OrderShape,
                            UnavailableShape, PoolModels, Ordered, Refused
  <2> QED
    BY <1>1, <1>2, <1>3, <2>2, <2>3, <2>5, <2>6, OthersKeep
<1> QED
  BY <1>2, <1>4, <1>5, <1>6

(* What concatenation appends, by position. *)
LEMMA AppendPositions ==
    ASSUME NEW old \in Seq(Nat), NEW n \in Nat, NEW g \in [1..n -> Nat],
           NEW h, h = old \o g
    PROVE  /\ h \in Seq(Nat)
           /\ \A i \in DOMAIN old : i \in DOMAIN h /\ h[i] = old[i]
           /\ \A i \in 1..n : Len(old) + i \in DOMAIN h /\ h[Len(old) + i] = g[i]
           /\ \A i \in DOMAIN h \ DOMAIN old : i > Len(old) /\ i - Len(old) \in 1..n
<1>1. g \in Seq(Nat) /\ Len(g) = n
  BY IsASeq
<1>2. /\ h \in Seq(Nat)
      /\ Len(h) = Len(old) + n
      /\ \A i \in 1..(Len(old) + n) : h[i] = IF i <= Len(old) THEN old[i] ELSE g[i - Len(old)]
  BY <1>1, ConcatProperties
<1>3. DOMAIN h = 1..(Len(old) + n) /\ DOMAIN old = 1..Len(old) /\ Len(old) \in Nat
  BY <1>2
<1>4. \A i \in 1..n : (Len(old) + i) - Len(old) = i /\ Len(old) + i \in 1..(Len(old) + n)
  BY <1>3
<1> QED
  BY <1>2, <1>3, <1>4

(* Appending the first group of what is left keeps the order ascending: its  *)
(* models have one priority, none of what was ordered before has a higher    *)
(* number, and none of what remains a lower one.                             *)
LEMMA AppendGroup ==
    ASSUME FailoverInv, NEW r \in Requests, req[r].phase = "ordering",
           NEW group, group = FirstGroup(PoolModels(r), req[r].avail \ Ordered(r)),
           NEW n \in Nat, NEW g \in [1..n -> group],
           \A p \in group : \E i \in 1..n : g[i] = p,
           \A i, j \in 1..n : g[i] = g[j] => i = j,
           NEW h, h = req[r].order \o g
    PROVE  /\ h \in Seq(Nat)
           /\ {h[i] : i \in DOMAIN h} = Ordered(r) \cup group
           /\ \A i, j \in DOMAIN h : i < j =>
                  /\ h[i] # h[j]
                  /\ Priority(PoolModels(r)[h[i]]) <= Priority(PoolModels(r)[h[j]])
           /\ \A i \in DOMAIN h, q \in req[r].avail \ (Ordered(r) \cup group) :
                  Priority(PoolModels(r)[h[i]]) <= Priority(PoolModels(r)[q])
<1> DEFINE Prio(p) == Priority(PoolModels(r)[p])
<1>1. /\ req[r] \in RequestType /\ req[r].cfg \in ConfigSet
      /\ RequestShape(r) /\ OrderShape(r)
  BY RequestFacts
<1>2. /\ DOMAIN PoolModels(r) \subseteq Nat
      /\ \A p \in DOMAIN PoolModels(r) : Prio(p) \in Int
  BY <1>1, ModelsShape DEF PoolModels
<1>3. /\ group \subseteq req[r].avail \ Ordered(r)
      /\ req[r].avail \subseteq DOMAIN PoolModels(r)
      /\ Ordered(r) \subseteq req[r].avail
      /\ \A p \in group, q \in req[r].avail \ Ordered(r) : Prio(p) <= Prio(q)
  BY <1>1 DEF FirstGroup, RequestShape
<1>4. PICK old \in Seq(Nat) : old = req[r].order
  BY <1>1 DEF RequestType
<1>5. g \in [1..n -> Nat]
  BY <1>2, <1>3
<1>6. /\ h \in Seq(Nat)
      /\ \A i \in DOMAIN old : i \in DOMAIN h /\ h[i] = old[i]
      /\ \A i \in 1..n : Len(old) + i \in DOMAIN h /\ h[Len(old) + i] = g[i]
      /\ \A i \in DOMAIN h \ DOMAIN old : i > Len(old) /\ i - Len(old) \in 1..n
  <2>1. h = old \o g
    BY <1>4
  <2> QED
    BY <1>5, <2>1, AppendPositions, Zenon
<1>7. DOMAIN old = 1..Len(old) /\ Len(old) \in Nat /\ DOMAIN h \subseteq Nat
  BY <1>6
<1>8. Ordered(r) = {old[i] : i \in DOMAIN old}
  BY <1>4 DEF Ordered
<1>9. \A i \in DOMAIN old : h[i] = old[i] /\ h[i] \in Ordered(r)
  BY <1>6, <1>8
<1>10. ASSUME NEW i \in DOMAIN h \ DOMAIN old
       PROVE  /\ i - Len(old) \in 1..n
              /\ h[i] = g[i - Len(old)]
              /\ h[i] \in group
  <2>1. PICK k \in 1..n : k = i - Len(old)
    BY <1>6
  <2>2. Len(old) + k = i
    BY <1>7, <2>1
  <2>3. h[i] = g[k]
    BY <1>6, <2>2
  <2> QED
    BY <2>1, <2>3
<1>11. {h[i] : i \in DOMAIN h} = Ordered(r) \cup group
  <2> DEFINE range == {h[i] : i \in DOMAIN h}
  <2>1. ASSUME NEW p \in Ordered(r)
        PROVE  p \in range
    <3>1. PICK i \in DOMAIN old : old[i] = p
      BY <1>8
    <3> QED
      BY <1>6, <3>1
  <2>2. ASSUME NEW p \in group
        PROVE  p \in range
    <3>1. PICK k \in 1..n : g[k] = p
      OBVIOUS
    <3>2. Len(old) + k \in DOMAIN h /\ h[Len(old) + k] = p
      BY <1>6, <3>1
    <3> QED
      BY <3>2
  <2>3. ASSUME NEW p \in range
        PROVE  p \in Ordered(r) \cup group
    <3>1. PICK i \in DOMAIN h : h[i] = p
      OBVIOUS
    <3> QED
      BY <1>9, <1>10, <3>1
  <2> HIDE DEF range
  <2>4. range = Ordered(r) \cup group
    BY <2>1, <2>2, <2>3
  <2> QED
    BY <2>4 DEF range
<1>12. ASSUME NEW i \in DOMAIN h, NEW j \in DOMAIN h, i < j
       PROVE  h[i] # h[j] /\ Prio(h[i]) <= Prio(h[j])
  <2>1. CASE j \in DOMAIN old
    <3>1. i \in DOMAIN old
      BY <1>6, <1>7, <1>12, <2>1
    <3>2. old[i] # old[j] /\ Prio(old[i]) <= Prio(old[j])
      BY <1>1, <1>4, <1>12, <2>1, <3>1 DEF OrderShape
    <3> QED
      BY <1>9, <2>1, <3>1, <3>2
  <2>2. CASE i \in DOMAIN old /\ j \notin DOMAIN old
    <3>1. h[i] \in Ordered(r) /\ h[j] \in group
      BY <1>9, <1>10, <2>2
    <3> QED
      BY <1>1, <1>3, <3>1 DEF OrderShape
  <2>3. CASE i \notin DOMAIN old /\ j \notin DOMAIN old
    <3>1. PICK k \in 1..n, l \in 1..n : k = i - Len(old) /\ l = j - Len(old)
      BY <1>10, <2>3
    <3>2. k # l /\ h[i] = g[k] /\ h[j] = g[l]
      BY <1>7, <1>10, <1>12, <2>3, <3>1
    <3>3. h[i] # h[j]
      BY <3>2
    <3>4. h[i] \in group /\ h[j] \in group
      BY <1>10, <2>3
    <3> QED
      BY <1>3, <3>3, <3>4
  <2> QED
    BY <2>1, <2>2, <2>3
<1>13. ASSUME NEW i \in DOMAIN h, NEW q \in req[r].avail \ (Ordered(r) \cup group)
       PROVE  Prio(h[i]) <= Prio(q)
  <2>1. CASE h[i] \in Ordered(r)
    BY <1>1, <2>1 DEF OrderShape
  <2>2. CASE h[i] \in group
    BY <1>3, <2>2
  <2> QED
    BY <1>11, <2>1, <2>2
<1> QED
  BY <1>6, <1>11, <1>12, <1>13

LEMMA OrderGroupStep ==
    ASSUME FailoverInv, NEW r \in Requests, OrderGroup(r)
    PROVE  FailoverInv'
<1> DEFINE group == FirstGroup(PoolModels(r), req[r].avail \ Ordered(r))
           size == Cardinality(group)
           counter == <<req[r].tier, Priority(PoolModels(r)[CHOOSE p \in group : TRUE]), size>>
           next == IF req[r].avail = Ordered(r) \cup group THEN "calling" ELSE "ordering"
<1>1. /\ req[r].phase = "ordering"
      /\ req[r] \in RequestType /\ req[r].cfg \in ConfigSet
      /\ RequestShape(r) /\ OrderShape(r)
  BY RequestFacts DEF OrderGroup
<1>2. /\ lbCfg \in ConfigSet
      /\ req \in [Requests -> {Idle} \cup RequestType]
      /\ rrCounters \in [DOMAIN rrCounters -> Nat]
      /\ BreakerTypeOK
  BY DEF FailoverInv, TypeOK
<1>3. /\ group \subseteq req[r].avail \ Ordered(r)
      /\ Ordered(r) \subseteq req[r].avail
      /\ req[r].avail \subseteq DOMAIN PoolModels(r)
  BY <1>1 DEF FirstGroup, RequestShape
<1>4. IsFiniteSet(group)
  <2>1. IsFiniteSet(DOMAIN PoolModels(r))
    BY <1>1, ModelsShape DEF PoolModels
  <2>2. group \subseteq DOMAIN PoolModels(r)
    BY <1>3
  <2> QED
    BY <2>1, <2>2, FS_Subset
<1>5. size \in Nat
  BY <1>4, FS_CardinalityType
<1>6. rrCounters' \in [DOMAIN rrCounters' -> Nat]
  <2>1. rrCounters' = rrCounters
        \/ /\ size > 1
           /\ rrCounters' = [c \in DOMAIN rrCounters \cup {counter} |->
                                IF c = counter THEN NextStart(c, size) ELSE rrCounters[c]]
    BY Zenon DEF OrderGroup
  <2>2. ASSUME NEW c
        PROVE  Start(c) \in Nat
    BY <1>2 DEF Start
  <2>3. ASSUME NEW c, size > 1
        PROVE  NextStart(c, size) \in Nat
    BY <1>5, <2>2, <2>3 DEF NextStart
  <2> HIDE DEF size, counter
  <2> QED
    BY <1>2, <2>1, <2>3
<1>7. PICK g \in GroupOrders(group, Start(counter)) :
          req' = [req EXCEPT ![r].order = @ \o g,
                      ![r].phase = IF req[r].avail = Ordered(r) \cup group
                                   THEN "calling" ELSE @]
  BY Zenon DEF OrderGroup
<1> HIDE DEF group
<1>8. PICK n \in Nat : /\ g \in [1..n -> group]
                       /\ \A p \in group : \E i \in 1..n : g[i] = p
                       /\ \A i, j \in 1..n : g[i] = g[j] => i = j
  BY <1>4, GroupOrderShape
<1> DEFINE h == req[r].order \o g
           rec == [req[r] EXCEPT !.order = h, !.phase = next]
<1>9. /\ h \in Seq(Nat)
      /\ {h[i] : i \in DOMAIN h} = Ordered(r) \cup group
      /\ \A i, j \in DOMAIN h : i < j =>
             /\ h[i] # h[j]
             /\ Priority(PoolModels(r)[h[i]]) <= Priority(PoolModels(r)[h[j]])
      /\ \A i \in DOMAIN h, q \in req[r].avail \ (Ordered(r) \cup group) :
             Priority(PoolModels(r)[h[i]]) <= Priority(PoolModels(r)[q])
  BY <1>1, <1>8, AppendGroup DEF group
<1> HIDE DEF h
<1>10. OnlyOf(r, rec)
  BY <1>1, <1>2, <1>7 DEF OnlyOf, RequestType, h
<1>11. req'[r] = rec
  BY <1>2, <1>10 DEF OnlyOf
<1>12. rec \in RequestType
  BY <1>1, <1>9 DEF RequestType, Phase
<1>13. Ordered(r)' = Ordered(r) \cup group
  <2>1. req'[r].order = h
    BY <1>1, <1>11 DEF RequestType
  <2>2. Ordered(r)' = {h[i] : i \in DOMAIN h}
    BY <2>1 DEF Ordered
  <2> QED
    BY <1>9, <2>2
<1>14. next = "calling" => 1 \in DOMAIN h
  <2>1. next = "calling" => group # {}
    BY <1>1 DEF RequestShape, Stage
  <2>2. group # {} => DOMAIN h # {}
    BY <1>9
  <2> QED
    BY <1>9, <2>1, <2>2
<1>15. RequestShape(r)'
  BY <1>1, <1>3, <1>11, <1>13, <1>14 DEF RequestType, RequestShape, PoolModels, Stage
<1>16. OrderShape(r)'
  <2>1. /\ req'[r].order = h
        /\ req'[r].avail = req[r].avail
        /\ PoolModels(r)' = PoolModels(r)
    BY <1>1, <1>11 DEF RequestType, PoolModels
  <2>2. \A p \in Ordered(r)' : \E i \in DOMAIN h : p = h[i]
    BY <1>9, <1>13
  <2> QED
    BY <1>9, <1>13, <2>1, <2>2 DEF OrderShape
<1>17. RequestInv(r)'
  BY <1>11, <1>15, <1>16 DEF RequestInv, UnavailableShape, Stage
<1>18. BreakerTypeOK' /\ lbCfg' \in ConfigSet
  BY <1>2 DEF OrderGroup, BreakerTypeOK, breakerVars
<1> QED
  BY <1>6, <1>10, <1>12, <1>17, <1>18, OthersKeep

(* When a request is over, its slot is idle again. *)
LEMMA FinishStep ==
    ASSUME FailoverInv, NEW r \in Requests, Finish(r)
    PROVE  FailoverInv'
<1>1. /\ lbCfg \in ConfigSet
      /\ req \in [Requests -> {Idle} \cup RequestType]
      /\ rrCounters \in [DOMAIN rrCounters -> Nat]
      /\ BreakerTypeOK
  BY DEF FailoverInv, TypeOK
<1>2. OnlyOf(r, Idle) /\ UNCHANGED <<breakerVars, lbCfg, rrCounters>>
  BY DEF Finish, OnlyOf
<1>3. req'[r] = Idle
  BY <1>1, <1>2 DEF OnlyOf
<1> QED
  BY <1>1, <1>2, <1>3, OthersKeep DEF RequestInv, BreakerTypeOK, breakerVars

-----------------------------------------------------------------------------
(* The theorems. *)

LEMMA RequestsKeep ==
    ASSUME FailoverInv, BreakerTypeOK', lbCfg' \in ConfigSet, UNCHANGED <<rrCounters, req>>
    PROVE  FailoverInv'
<1>1. ASSUME NEW q \in Requests
      PROVE  RequestInv(q)'
  <2>1. RequestInv(q) /\ req'[q] = req[q]
    BY DEF FailoverInv
  <2> QED
    BY <2>1 DEF RequestInv, RequestShape, OrderShape, UnavailableShape, PoolModels,
                Stage, Ordered, Refused
<1> QED
  BY <1>1 DEF FailoverInv, TypeOK, RequestInv

(* Whatever a step of the proxy path does, the invariant holds again, and    *)
(* the breakers made one of their own steps or none.                         *)
LEMMA FailoverStep ==
    ASSUME FailoverInv, [Next]_vars
    PROVE  FailoverInv' /\ [BreakerNext]_breakerVars
<1>1. BreakerTypeOK /\ lbCfg \in ConfigSet
  BY DEF FailoverInv, TypeOK
<1>2. UNCHANGED breakerVars => BreakerTypeOK'
  BY <1>1 DEF BreakerTypeOK, breakerVars
<1>3. ASSUME NEW r \in Requests, Receive(r) \/ OrderGroup(r) \/ Finish(r)
      PROVE  FailoverInv' /\ UNCHANGED breakerVars
  BY <1>3, ReceiveStep, OrderGroupStep, FinishStep DEF Receive, OrderGroup, Finish
<1>4. ASSUME NEW r \in Requests, CheckBreaker(r)
      PROVE  FailoverInv' /\ BreakerNext
  BY <1>4, CheckBreakerStep
<1>5. ASSUME NEW r \in Requests,
             \/ BuildFails(r) \/ CallFails(r) \/ CallSucceeds(r)
             \/ StartStream(r) \/ EndStream(r) \/ Embed(r)
      PROVE  FailoverInv' /\ (BreakerNext \/ UNCHANGED breakerVars)
  BY <1>5, LoopStep
<1>6. CASE Reload
  <2>1. UNCHANGED breakerVars /\ UNCHANGED <<rrCounters, req>> /\ lbCfg' \in ConfigSet
    BY <1>6 DEF Reload
  <2> QED
    BY <1>2, <2>1, RequestsKeep
<1>7. CASE Clock
  <2>1. BreakerNext /\ UNCHANGED <<lbCfg, rrCounters, req>>
    BY <1>7 DEF Clock, BreakerNext
  <2>2. BreakerTypeOK'
    BY <1>1, <2>1, TypeStep
  <2> QED
    BY <1>1, <2>1, <2>2, RequestsKeep
<1>8. CASE UNCHANGED vars
  <2>1. UNCHANGED breakerVars /\ UNCHANGED <<lbCfg, rrCounters, req>>
    BY <1>8 DEF vars, breakerVars
  <2> QED
    BY <1>1, <1>2, <2>1, RequestsKeep
<1> QED
  BY <1>3, <1>4, <1>5, <1>6, <1>7, <1>8 DEF Next, Handle

LEMMA FailoverInvariant == Spec => []FailoverInv
<1>1. Init => FailoverInv
  <2> SUFFICES ASSUME Init
               PROVE  FailoverInv
    OBVIOUS
  <2>1. BreakerTypeOK
    BY ThresholdAssumption, TimeoutAssumption DEF Init, BreakerInit, BreakerTypeOK, CircuitState
  <2>2. lbCfg \in ConfigSet
    BY ConfigsAssumption DEF Init, ConfigSet
  <2>3. rrCounters \in [DOMAIN rrCounters -> Nat]
    BY DEF Init
  <2>4. \A r \in Requests : req[r] = Idle
    BY DEF Init
  <2>5. req \in [Requests -> {Idle} \cup RequestType]
    BY DEF Init
  <2> QED
    BY <2>1, <2>2, <2>3, <2>4, <2>5 DEF FailoverInv, TypeOK, RequestInv
<1>2. FailoverInv /\ [Next]_vars => FailoverInv'
  BY FailoverStep
<1> QED
  BY <1>1, <1>2, PTL DEF Spec

(* Whatever requests, reloads and upstreams do, every goroutine's local      *)
(* state stays well formed and the shared state typed.                       *)
THEOREM FailoverTypeInvariant == Spec => []TypeOK
<1>1. FailoverInv => TypeOK
  BY DEF FailoverInv
<1> QED
  BY <1>1, FailoverInvariant, PTL

(* Failover is strict: a model is called only after every model of its pool  *)
(* with a higher priority was refused or has failed for this request.        *)
THEOREM FailoverIsStrict == Spec => []StrictFailover
<1>1. FailoverInv => StrictFailover
  <2> SUFFICES ASSUME FailoverInv, NEW r \in Requests, Stage(r, {"calling", "streaming"}),
                      NEW p \in req[r].pool,
                      Before(PoolModels(r)[p], Selected(r)),
                      p \notin Refused(r)
               PROVE  p \in Tried(r)
    BY DEF StrictFailover
  <2>1. /\ req[r] \in RequestType /\ req[r].cfg \in ConfigSet
        /\ RequestShape(r) /\ OrderShape(r)
    BY RequestFacts DEF Stage
  <2>2. p \in Ordered(r)
    BY <2>1 DEF RequestShape, Refused, Stage
  <2>3. PICK i \in DOMAIN req[r].order : req[r].order[i] = p
    BY <2>2 DEF Ordered
  <2>4. req[r].at \in DOMAIN req[r].order /\ DOMAIN req[r].order = 1..Len(req[r].order)
    BY <2>1 DEF RequestShape, RequestType, Stage
  <2>5. /\ ~(Priority(Selected(r)) <= Priority(PoolModels(r)[p]))
        /\ Priority(Selected(r)) # Priority(PoolModels(r)[p])
    <3>1. req[r].order[req[r].at] \in DOMAIN PoolModels(r) /\ p \in DOMAIN PoolModels(r)
      BY <2>1, <2>2, <2>4 DEF RequestShape, Ordered
    <3>2. Selected(r).priority \in Int /\ PoolModels(r)[p].priority \in Int
      BY <2>1, <3>1, ModelsShape DEF PoolModels, Selected
    <3> QED
      BY <3>2 DEF Before, Priority
  <2>6. ~(req[r].at < i) /\ req[r].at # i
    BY <2>1, <2>3, <2>4, <2>5 DEF OrderShape, Selected
  <2>7. i \in 1..(req[r].at - 1)
    BY <2>4, <2>6
  <2> QED
    BY <2>3, <2>7 DEF Tried
<1> QED
  BY <1>1, FailoverInvariant, PTL

(* No model is tried twice for a request, and 503 is answered only when each *)
(* model of the pool was refused or has been tried.                          *)
THEOREM FailoverIsExhaustive == Spec => []EachModelOnce
<1>1. FailoverInv => EachModelOnce
  <2> SUFFICES ASSUME FailoverInv, NEW r \in Requests, req[r].phase # "idle"
               PROVE  /\ Stage(r, {"calling", "streaming"}) =>
                             req[r].order[req[r].at] \notin Tried(r)
                      /\ (Stage(r, {"done"}) /\ req[r].answer = "unavailable") =>
                             /\ req[r].pool = Refused(r) \cup
                                              {req[r].order[i] : i \in 1..Len(req[r].order)}
                             /\ req[r].order # <<>> => req[r].at = Len(req[r].order)
    BY DEF EachModelOnce, Stage
  <2>1. /\ req[r] \in RequestType
        /\ RequestShape(r) /\ OrderShape(r)
    BY RequestFacts
  <2>2. DOMAIN req[r].order = 1..Len(req[r].order)
    BY <2>1 DEF RequestType
  <2>3. UnavailableShape(r)
    BY DEF FailoverInv, RequestInv, Idle
  <2>4. Stage(r, {"calling", "streaming"}) => req[r].order[req[r].at] \notin Tried(r)
    BY <2>1, <2>2 DEF RequestShape, OrderShape, Tried, Stage
  <2> QED
    BY <2>2, <2>3, <2>4 DEF UnavailableShape, Ordered
<1> QED
  BY <1>1, FailoverInvariant, PTL

(* The proxy path uses the breakers as their component allows: a model is    *)
(* refused exactly while its calls have failed Threshold times in a row and  *)
(* its cool-down runs, also when many requests and reloads interleave.       *)
THEOREM FailoverImplementsPolicy == Spec => ImplementsPolicy
<1>1. Init => BreakerInit
  BY DEF Init
<1>2. FailoverInv /\ [Next]_vars => [BreakerNext]_breakerVars
  BY FailoverStep
<1>3. Spec => BreakerSpec
  BY <1>1, <1>2, FailoverInvariant, PTL DEF Spec, BreakerSpec
<1> QED
  BY <1>3, BreakerImplementsPolicy, PTL

-----------------------------------------------------------------------------
(* Open breakers shed load: what a request may call was settled when the       *)
(* breakers were asked, one after the other; the invariant says that an        *)
(* admitted model was not refused then, and so is not one that has been        *)
(* refused ever since.                                                         *)

(* No model that a request may still call has been refused since it came in. *)
ShedInv ==
    \A r \in Requests : Active(r) => \A p \in req[r].avail : KeyAt(r, p) \notin shut[r]

(* Each step of the history is a step of the proxy path. *)
LEMMA HistoryRefines == HSpec => Spec
<1>1. HInit => Init
  BY DEF HInit
<1>2. [HNext]_<<vars, shut>> => [Next]_vars
  BY DEF HNext
<1> QED
  BY <1>1, <1>2, PTL DEF HSpec, Spec

(* A model that a breaker lets through is not cooling down. *)
LEMMA AdmittedIsNotCooling ==
    ASSUME BreakerTypeOK, NEW k \in Keys, IsOpen(k, FALSE)
    PROVE  ~Cooling(k)'
  BY DEF BreakerTypeOK, IsOpen, Cooling

(* What a request was shut off from only shrinks, to models that are cooling. *)
LEMMA ShutShrinks ==
    ASSUME HNext, NEW r \in Requests, req[r].phase # "idle"
    PROVE  /\ shut'[r] \subseteq shut[r]
           /\ \A k \in shut'[r] : Cooling(k)'
  BY DEF HNext

(* A step after which a request may call nothing new keeps the invariant for it. *)
LEMMA NothingAdmitted ==
    ASSUME ShedInv, HNext, NEW r \in Requests, Active(r),
           req'[r].avail = req[r].avail, req'[r].cfg = req[r].cfg, req'[r].tier = req[r].tier
    PROVE  \A p \in req'[r].avail : KeyAt(r, p)' \notin shut'[r]
<1>1. \A p : KeyAt(r, p)' = KeyAt(r, p)
  BY DEF KeyAt, PoolModels
<1> QED
  BY <1>1, ShutShrinks DEF ShedInv, Active

(* The breaker's answer decides what CheckBreaker admits. *)
LEMMA CheckedIsShed ==
    ASSUME FailoverInv, ShedInv, HNext, NEW r \in Requests, CheckBreaker(r)
    PROVE  \A p \in req'[r].avail : KeyAt(r, p)' \notin shut'[r]
<1>1. PICK p \in req[r].unchecked, answer \in BOOLEAN :
          /\ IsOpen(KeyAt(r, p), answer)
          /\ LET avail == IF answer THEN req[r].avail ELSE req[r].avail \cup {p}
                 last == req[r].unchecked = {p}
                 next == IF ~last THEN "checking" ELSE IF avail = {} THEN "done" ELSE "ordering"
             IN  req' = [req EXCEPT ![r].unchecked = @ \ {p}, ![r].avail = avail,
                             ![r].phase = next,
                             ![r].answer = IF next = "done" THEN "unavailable" ELSE @]
  BY DEF CheckBreaker
<1>2. /\ req'[r].avail = IF answer THEN req[r].avail ELSE req[r].avail \cup {p}
      /\ req'[r].cfg = req[r].cfg /\ req'[r].tier = req[r].tier
  <2>1. req[r].phase # "idle" /\ req \in [Requests -> {Idle} \cup RequestType]
    BY DEF CheckBreaker, FailoverInv, TypeOK
  <2>2. req[r] \in RequestType
    BY <2>1, RequestFacts
  <2> QED
    BY <1>1, <2>1, <2>2 DEF RequestType
<1>3. Active(r)
  BY DEF CheckBreaker, Active
<1>4. \A q : KeyAt(r, q)' = KeyAt(r, q)
  BY <1>2 DEF KeyAt, PoolModels
<1>5. \A q \in req[r].avail : KeyAt(r, q)' \notin shut'[r]
  BY <1>3, <1>4, ShutShrinks DEF ShedInv, Active
<1>6. ASSUME ~answer
      PROVE  KeyAt(r, p)' \notin shut'[r]
  <2>1. RequestShape(r)
    BY <1>3, RequestFacts DEF Active
  <2>2. PICK k \in Keys : k = KeyAt(r, p)
    BY <1>1, <1>3, <2>1, BreakerCalls DEF RequestShape, Active
  <2>3. BreakerTypeOK
    BY DEF FailoverInv, TypeOK
  <2>4. IsOpen(k, FALSE)
    BY <1>1, <1>6, <2>2
  <2>5. ~Cooling(k)'
    BY <2>3, <2>4, AdmittedIsNotCooling
  <2> QED
    BY <1>3, <1>4, <2>2, <2>5, ShutShrinks DEF Active
<1> QED
  BY <1>2, <1>5, <1>6

(* A step of another request, the clock or a reload leaves a request as it is; *)
(* its own steps, but for CheckBreaker, admit nothing.                         *)
LEMMA OnlyChecksAdmit ==
    ASSUME FailoverInv, Next, NEW r \in Requests, Active(r)', ~CheckBreaker(r)
    PROVE  \/ req'[r].avail = {}
           \/ /\ Active(r)
              /\ req'[r].avail = req[r].avail
              /\ req'[r].cfg = req[r].cfg /\ req'[r].tier = req[r].tier
<1>1. req \in [Requests -> {Idle} \cup RequestType]
  BY DEF FailoverInv, TypeOK
<1>2. CASE req'[r] = req[r]
  BY <1>2 DEF Active
<1>3. CASE Receive(r)
  BY <1>1, <1>3 DEF Receive
<1>4. CASE Finish(r)
  BY <1>1, <1>4 DEF Finish, Idle, Active
<1>5. ASSUME Handle(r)
      PROVE  /\ Active(r)
             /\ req'[r].avail = req[r].avail
             /\ req'[r].cfg = req[r].cfg /\ req'[r].tier = req[r].tier
  <2>1. Active(r)
    BY <1>5 DEF Handle, OrderGroup, BuildFails, CallFails, CallSucceeds, StartStream,
                EndStream, Embed, Loops, Active
  <2>2. req[r] \in RequestType
    BY <2>1, RequestFacts DEF Active
  <2>3. CASE OrderGroup(r)
    BY <1>1, <2>1, <2>2, <2>3 DEF OrderGroup, RequestType
  <2>4. ASSUME NEW answer, Respond(r, answer)
        PROVE  FALSE
    BY <1>1, <2>2, <2>4 DEF Respond, RequestType, Active
  <2>5. CASE BuildFails(r) \/ CallFails(r)
    <3>1. req' = [req EXCEPT ![r].at = @ + 1]
      BY <2>4, <2>5 DEF BuildFails, CallFails, NextCandidate
    <3> QED
      BY <1>1, <2>1, <2>2, <3>1 DEF RequestType
  <2>6. CASE StartStream(r)
    BY <1>1, <2>1, <2>2, <2>6 DEF StartStream, RequestType
  <2> QED
    BY <1>5, <2>3, <2>4, <2>5, <2>6 DEF Handle, CallSucceeds, EndStream, Embed
<1>6. ASSUME NEW q \in Requests, q # r, Receive(q) \/ Handle(q) \/ Finish(q)
      PROVE  req'[r] = req[r]
  BY <1>1, <1>6 DEF Receive, Handle, Finish, CheckBreaker, OrderGroup, BuildFails, CallFails,
                CallSucceeds, StartStream, EndStream, Embed, NextCandidate, Respond
<1>7. Reload \/ Clock => req'[r] = req[r]
  BY DEF Reload, Clock
<1> QED
  BY <1>2, <1>3, <1>4, <1>5, <1>6, <1>7 DEF Next

LEMMA ShedStep ==
    ASSUME FailoverInv, ShedInv, [HNext]_<<vars, shut>>
    PROVE  ShedInv'
<1>1. CASE UNCHANGED <<vars, shut>>
  BY <1>1 DEF ShedInv, vars, Active, KeyAt, PoolModels
<1>2. CASE HNext
  <2> SUFFICES ASSUME NEW r \in Requests, Active(r)'
               PROVE  \A p \in req'[r].avail : KeyAt(r, p)' \notin shut'[r]
    BY DEF ShedInv
  <2>1. CASE CheckBreaker(r)
    BY <1>2, <2>1, CheckedIsShed
  <2>2. CASE ~CheckBreaker(r)
    BY <1>2, <2>2, OnlyChecksAdmit, NothingAdmitted DEF HNext
  <2> QED
    BY <2>1, <2>2
<1> QED
  BY <1>1, <1>2

(* A request that came in while a model was refused does not call it before    *)
(* the breaker has let somebody through (IsOpen, asked once per candidate      *)
(* before the failover loop), whatever other requests reported meanwhile.      *)
THEOREM OpenBreakersShedLoad == HSpec => []ShedsLoad
<1>1. HInit => ShedInv
  BY DEF HInit, Init, ShedInv, Active, Idle
<1>2. FailoverInv /\ ShedInv => ShedsLoad
  <2> SUFFICES ASSUME FailoverInv, ShedInv, NEW r \in Requests, Stage(r, {"calling"})
               PROVE  SelectedKey(r) \notin shut[r]
    BY DEF ShedsLoad
  <2>1. /\ req[r] \in RequestType
        /\ RequestShape(r)
    BY RequestFacts DEF Stage
  <2>2. req[r].order[req[r].at] \in req[r].avail
    BY <2>1 DEF RequestShape, Ordered, Stage
  <2> QED
    BY <2>2, SelectedInPool DEF ShedInv, Active, Stage
<1>3. HSpec => []FailoverInv
  BY HistoryRefines, FailoverInvariant, PTL
<1>4. HSpec => []ShedInv
  BY <1>1, <1>3, ShedStep, PTL DEF HSpec
<1> QED
  BY <1>2, <1>3, <1>4, PTL
=============================================================================
