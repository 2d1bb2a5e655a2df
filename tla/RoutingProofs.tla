---------------------------- MODULE RoutingProofs ------------------------------
(***************************************************************************)
(* Proofs about the routing funnel, for every configuration and input: the *)
(* pool that a request carries through checks, failover and reloads is one *)
(* that the funnel as the README describes it gives.                       *)
(***************************************************************************)
EXTENDS FailoverProofs, SequenceLemmas

(* The pool of a request is still what Route made of its own configuration. *)
RoutedInv ==
    \A r \in Requests : req[r] # Idle =>
        [direct |-> req[r].direct, tier |-> req[r].tier, pool |-> req[r].pool]
            \in Routes(req[r].cfg, req[r].in)

Carried(x) == <<x.in, x.cfg, x.direct, x.tier, x.pool>>

(* Route's results are records of these three fields. *)
LEMMA RouteIsRecord ==
    ASSUME NEW cfg, NEW in, NEW route \in Routes(cfg, in)
    PROVE  route = [direct |-> route.direct, tier |-> route.tier, pool |-> route.pool]
<1>1. CASE route \in DirectRoutes(cfg, in)
  BY <1>1, DirectRouteShape
<1>2. CASE route = TierRoute(cfg, in)
  BY <1>2 DEF TierRoute
<1> QED
  BY <1>1, <1>2 DEF Routes

(* No step of a request after Route changes what it carries. *)
LEMMA HandleCarries ==
    ASSUME FailoverInv, NEW r \in Requests, Handle(r)
    PROVE  /\ req[r] # Idle
           /\ Carried(req'[r]) = Carried(req[r])
           /\ \A q \in Requests \ {r} : req'[q] = req[q]
<1>1. req \in [Requests -> {Idle} \cup RequestType]
  BY DEF FailoverInv, TypeOK
<1>2. req[r].phase \in {"checking", "ordering", "calling", "streaming"}
  BY DEF Handle, CheckBreaker, OrderGroup, BuildFails, CallFails, CallSucceeds, StartStream,
         EndStream, Embed, Loops
<1>3. req[r] \in RequestType /\ req[r] # Idle
  BY <1>1, <1>2 DEF Idle
<1> USE DEF RequestType, Carried
<1>4. CASE CheckBreaker(r)
  <2>1. PICK p \in req[r].unchecked, answer \in BOOLEAN :
            LET avail == IF answer THEN req[r].avail ELSE req[r].avail \cup {p}
                last == req[r].unchecked = {p}
                next == IF ~last THEN "checking" ELSE IF avail = {} THEN "done" ELSE "ordering"
            IN  req' = [req EXCEPT ![r].unchecked = @ \ {p}, ![r].avail = avail,
                            ![r].phase = next,
                            ![r].answer = IF next = "done" THEN "unavailable" ELSE @]
    BY <1>4 DEF CheckBreaker
  <2> QED
    BY <1>1, <1>3, <2>1
<1>5. CASE OrderGroup(r)
  BY <1>1, <1>3, <1>5 DEF OrderGroup
<1>6. CASE BuildFails(r) \/ CallFails(r)
  BY <1>1, <1>3, <1>6 DEF BuildFails, CallFails, NextCandidate, Respond
<1>7. CASE CallSucceeds(r) \/ StartStream(r) \/ EndStream(r) \/ Embed(r)
  BY <1>1, <1>3, <1>7 DEF CallSucceeds, StartStream, EndStream, Embed, Respond
<1> QED
  BY <1>4, <1>5, <1>6, <1>7 DEF Handle

LEMMA RoutedInvariant == Spec => []RoutedInv
<1>1. Init => RoutedInv
  BY DEF Init, RoutedInv
<1>2. ASSUME FailoverInv, RoutedInv, [Next]_vars
      PROVE  RoutedInv'
  <2> USE <1>2
  <2>1. req \in [Requests -> {Idle} \cup RequestType]
    BY DEF FailoverInv, TypeOK
  <2>2. ASSUME NEW r \in Requests, Receive(r)
        PROVE  RoutedInv'
    <3>1. PICK in \in Inputs : \E route \in Routes(lbCfg, in) :
              /\ req'[r].in = in /\ req'[r].cfg = lbCfg
              /\ [direct |-> req'[r].direct, tier |-> req'[r].tier, pool |-> req'[r].pool] = route
      BY <2>1, <2>2, RouteIsRecord DEF Receive
    <3>2. \A q \in Requests \ {r} : req'[q] = req[q]
      BY <2>1, <2>2 DEF Receive
    <3> QED
      BY <3>1, <3>2 DEF RoutedInv
  <2>3. ASSUME NEW r \in Requests, Handle(r)
        PROVE  RoutedInv'
    BY <2>3, HandleCarries DEF RoutedInv, Carried
  <2>4. ASSUME NEW r \in Requests, Finish(r)
        PROVE  RoutedInv'
    BY <2>1, <2>4 DEF Finish, RoutedInv
  <2>5. CASE UNCHANGED req
    BY <2>5 DEF RoutedInv
  <2> QED
    BY <2>2, <2>3, <2>4, <2>5 DEF Next, Reload, Clock, vars
<1> QED
  BY <1>1, <1>2, FailoverInvariant, PTL DEF Spec

-----------------------------------------------------------------------------

(* Direct routes exist exactly for a request that names an enabled model: of  *)
(* the matches in a tier's list there is a first one.                         *)
LEMMA DirectIfNamed ==
    ASSUME FailoverInv, NEW r \in Requests, req[r] # Idle
    PROVE  DirectRoutes(req[r].cfg, req[r].in) # {} <=> NamesOne(r)
<1> DEFINE cfg == req[r].cfg
           in == req[r].in
           Routed(tier) == Matches(cfg, tier, in)
<1>1. cfg \in ConfigSet
  BY DEF FailoverInv, TypeOK, RequestType
<1>2. ASSUME NEW tier \in DOMAIN cfg.tiers
      PROVE  /\ Models(cfg, tier) = cfg.tiers[tier]
             /\ Routed(tier) \subseteq Nat
  <2>1. DOMAIN Models(cfg, tier) \subseteq Nat
    BY <1>1, ModelsShape
  <2> QED
    BY <2>1 DEF Models, Matches, Enabled
<1>3. ASSUME NEW tier \in DOMAIN cfg.tiers, NEW p \in Routed(tier),
             in.model \notin {"", "auto"} \cup DOMAIN cfg.modelAlias
      PROVE  NamesOne(r)
  <2>1. p \in DOMAIN cfg.tiers[tier] /\ Names(r, cfg.tiers[tier][p])
    BY <1>2, <1>3 DEF Matches, Enabled, Named, Names
  <2> QED
    BY <2>1 DEF NamesOne
<1>4. ASSUME NEW tier \in DOMAIN cfg.tiers, NEW p \in DOMAIN cfg.tiers[tier],
             Names(r, cfg.tiers[tier][p])
      PROVE  DirectRoutes(cfg, in) # {}
  <2>1. p \in Routed(tier)
    BY <1>2, <1>4 DEF Matches, Enabled, Named, Names
  <2>2. PICK m \in Routed(tier) : \A n \in Routed(tier) : m <= n
    BY <1>2, <2>1, LeastElement
  <2>3. in.model \notin {"", "auto"} /\ ~isAlias(cfg, in.model)
    BY <1>4 DEF Names, isAlias
  <2> DEFINE firsts(t) == {f \in Routed(t) : \A n \in Routed(t) : f <= n}
             routes(t) == {[direct |-> TRUE, tier |-> t, pool |-> {f}] : f \in firsts(t)}
  <2>4. DirectRoutes(cfg, in) = UNION {routes(t) : t \in DOMAIN cfg.tiers}
    BY <2>3 DEF DirectRoutes
  <2>5. m \in firsts(tier)
    BY <2>2
  <2> HIDE DEF firsts
  <2>6. [direct |-> TRUE, tier |-> tier, pool |-> {m}] \in routes(tier)
    BY <2>5
  <2> HIDE DEF routes
  <2> QED
    BY <2>4, <2>6
<1>5. ASSUME NEW route \in DirectRoutes(cfg, in)
      PROVE  NamesOne(r)
  <2>1. PICK tier \in DOMAIN cfg.tiers : \E p \in Matches(cfg, tier, in) :
            route = [direct |-> TRUE, tier |-> tier, pool |-> {p}]
    BY DirectRouteShape
  <2>2. in.model \notin {"", "auto"} \cup DOMAIN cfg.modelAlias
    BY DEF DirectRoutes, isAlias
  <2> QED
    BY <1>3, <2>1, <2>2
<1> QED
  BY <1>4, <1>5 DEF NamesOne

(* A request that names an enabled model has a model of that name alone in   *)
(* its pool, whatever its other wishes are and whatever is saved while it is *)
(* on its way: Route looks for it before anything else.                      *)
THEOREM NamedModelIsKept == Spec => []NamedModelOnly
<1>1. FailoverInv /\ RoutedInv => NamedModelOnly
  <2> SUFFICES ASSUME FailoverInv, RoutedInv, NEW r \in Requests, req[r] # Idle, NamesOne(r)
               PROVE  \E p \in DOMAIN PoolModels(r) :
                          req[r].pool = {p} /\ Names(r, PoolModels(r)[p])
    BY DEF NamedModelOnly
  <2> DEFINE route == [direct |-> req[r].direct, tier |-> req[r].tier, pool |-> req[r].pool]
  <2>1. route \in Routes(req[r].cfg, req[r].in)
    BY DEF RoutedInv
  <2>2. route \in DirectRoutes(req[r].cfg, req[r].in)
    BY <2>1, DirectIfNamed DEF Routes
  <2>3. PICK tier \in DOMAIN req[r].cfg.tiers : \E p \in Matches(req[r].cfg, tier, req[r].in) :
            route = [direct |-> TRUE, tier |-> tier, pool |-> {p}]
    <3> HIDE DEF route
    <3> QED
      BY <2>2, DirectRouteShape
  <2>4. PICK p \in Matches(req[r].cfg, req[r].tier, req[r].in) : req[r].pool = {p}
    BY <2>3
  <2>5. req[r].in.model \notin {"", "auto"} \cup DOMAIN req[r].cfg.modelAlias
    BY DEF NamesOne, Names
  <2> QED
    BY <2>4, <2>5 DEF Matches, Enabled, Named, Names, PoolModels
<1> QED
  BY <1>1, RoutedInvariant, FailoverInvariant, PTL

(* Any other request has in its pool exactly the models that the funnel      *)
(* leaves: of the tier its header, alias or complexity asks for, or of the   *)
(* advanced tier if nothing there can hold its input.                        *)
THEOREM FunnelIsRespected == Spec => []FunnelRespected
<1>1. FailoverInv /\ RoutedInv => FunnelRespected
  <2> SUFFICES ASSUME FailoverInv, RoutedInv, NEW r \in Requests, req[r] # Idle, ~NamesOne(r)
               PROVE  /\ req[r].pool = Qualifying(r, req[r].tier)
                      /\ ServedFrom(r, IF Header(r) \in Tier THEN Header(r)
                                       ELSE IF Alias(r) \in Tier THEN Alias(r)
                                       ELSE IF \E rule \in req[r].cfg.rules :
                                                  ruleMatches(rule, req[r].in)
                                       THEN "advanced"
                                       ELSE req[r].cfg.defaultTier)
    BY DEF FunnelRespected
  <2> DEFINE cfg == req[r].cfg
             in == req[r].in
             route == [direct |-> req[r].direct, tier |-> req[r].tier, pool |-> req[r].pool]
             asked == resolveTier(cfg, in)
  <2>1. route = TierRoute(cfg, in)
    <3>1. route \in Routes(cfg, in)
      BY DEF RoutedInv
    <3>2. DirectRoutes(cfg, in) = {}
      BY DirectIfNamed
    <3> QED
      BY <3>1, <3>2 DEF Routes
  <2>2. asked = IF Header(r) \in Tier THEN Header(r)
                ELSE IF Alias(r) \in Tier THEN Alias(r)
                ELSE IF \E rule \in cfg.rules : ruleMatches(rule, in)
                THEN "advanced" ELSE cfg.defaultTier
    BY DEF resolveTier, RequestedTier, matchesComplexity, isAlias, Header, Alias, Tier
  <2>3. \A tier : IsLongContext(cfg, in) =>
            filterLongContext(cfg, tier, in) = Qualifying(r, tier)
    BY DEF Qualifying, filterLongContext, Enabled, Holds, IsLongContext
  <2>4. \A tier : ~IsLongContext(cfg, in) => Enabled(cfg, tier) = Qualifying(r, tier)
    BY DEF Qualifying, Enabled, IsLongContext
  <2>5. req[r].pool = Qualifying(r, req[r].tier)
    BY <2>1, <2>3, <2>4 DEF TierRoute
  <2>6. ServedFrom(r, asked)
    BY <2>1, <2>3 DEF TierRoute, ServedFrom, IsLongContext
  <2> QED
    BY <2>2, <2>5, <2>6
<1> QED
  BY <1>1, RoutedInvariant, FailoverInvariant, PTL
=============================================================================
