------------------------------ MODULE Failover -------------------------------
(***************************************************************************)
(* The proxy path of VibeRouter: the handlers ChatCompletions (and         *)
(* Completions), Messages and Embeddings, each run by a goroutine of its   *)
(* own, over the load balancer they share: its breakers, its round-robin   *)
(* counters and the configuration that an admin's save replaces under it.  *)
(*                                                                         *)
(* A request is modelled from the call of Route on: authentication and     *)
(* parsing come before and touch nothing shared.  Between any two steps    *)
(* of a request the others, the clock and a Reload may run.                *)
(***************************************************************************)
EXTENDS CircuitBreaker, Routing

CONSTANTS Requests,     \* slots for requests in flight
          Inputs,       \* what a client may ask
          Configs       \* configurations, the first loaded at start, the others saved later

Kind == {"chat", "stream", "embed"}

(* A model of a tier's list; urlOk says whether its base URL parses. *)
ModelType == [name : STRING, technicalName : STRING, priority : Int, longContext : BOOLEAN,
              maxContextTokens : Int, enabled : BOOLEAN, urlOk : BOOLEAN]

(* The configurations a running load balancer may hold, and the breakers they need. *)
ConfigSet == {Configs[c] : c \in DOMAIN Configs}

ASSUME ConfigsAssumption ==
    /\ 1 \in DOMAIN Configs
    /\ \A cfg \in ConfigSet : \A tier \in DOMAIN cfg.tiers :
           /\ cfg.tiers[tier] \in Seq(ModelType)
           /\ \A p \in DOMAIN cfg.tiers[tier] : Key(tier, cfg.tiers[tier][p]) \in Keys

(* What routeInput extracts from a request, and the endpoint it came in at. *)
InputType == [kind : Kind, model : STRING, tierHeader : STRING,
              turns : Nat, tokens : Nat, tools : BOOLEAN, code : BOOLEAN]

ASSUME InputsAssumption == Inputs \subseteq InputType

VARIABLES lbCfg,        \* LoadBalancer.cfg
          rrCounters,   \* LoadBalancer.rrCounters: group key -> next start in the group
          req           \* the goroutine of each slot

vars == <<state, failureCount, sinceFailure, lbCfg, rrCounters, req>>

Phase == {"idle", "checking", "ordering", "calling", "streaming", "done"}

(* What the client gets: nothing yet, a model's whole or cut answer, 503, 500. *)
Answer == {"none", "delivered", "truncated", "unavailable", "error"}

Idle == [phase |-> "idle"]

Active(r) == req[r].phase \notin {"idle", "done"}

(* The model list of the request's tier, in the configuration it started with. *)
PoolModels(r) == Models(req[r].cfg, req[r].tier)
KeyAt(r, p) == Key(req[r].tier, PoolModels(r)[p])

(* The candidate of the failover loop's current iteration. *)
Selected(r) == PoolModels(r)[req[r].order[req[r].at]]
SelectedKey(r) == Key(req[r].tier, Selected(r))

Ordered(r) == {req[r].order[i] : i \in DOMAIN req[r].order}
Tried(r) == {req[r].order[i] : i \in 1..(req[r].at - 1)}

Respond(r, answer) == req' = [req EXCEPT ![r].phase = "done", ![r].answer = answer]

-----------------------------------------------------------------------------
(* Route. *)

(* Route takes the configuration once, picks the pool, and fails at once if  *)
(* nothing qualifies.                                                        *)
Receive(r) ==
    /\ req[r].phase = "idle"
    /\ \E in \in Inputs : \E route \in Routes(lbCfg, in) :
           req' = [req EXCEPT ![r] =
               [phase |-> IF route.pool = {} THEN "done" ELSE "checking",
                in |-> in, cfg |-> lbCfg, direct |-> route.direct, tier |-> route.tier,
                pool |-> route.pool, unchecked |-> route.pool, avail |-> {},
                order |-> <<>>, at |-> 1,
                answer |-> IF route.pool = {} THEN "unavailable" ELSE "none"]]
    /\ UNCHANGED <<breakerVars, lbCfg, rrCounters>>

AdmitsAll(r) ==   \* mutated CheckBreaker: the breaker's answer is ignored
    /\ req[r].phase = "checking"
    /\ \E p \in req[r].unchecked, answer \in BOOLEAN :
           /\ IsOpen(KeyAt(r, p), answer)
           /\ req' = [req EXCEPT ![r].unchecked = @ \ {p}, ![r].avail = @ \cup {p},
                          ![r].phase = IF req[r].unchecked = {p} THEN "ordering" ELSE @]
    /\ UNCHANGED <<lbCfg, rrCounters>>

NoneLeftHangs(r) ==     \* mutated CheckBreaker: nothing ends a request refused everywhere
    /\ req[r].phase = "checking"
    /\ \E p \in req[r].unchecked, answer \in BOOLEAN :
           /\ IsOpen(KeyAt(r, p), answer)
           /\ LET avail == IF answer THEN req[r].avail ELSE req[r].avail \cup {p}
              IN  req' = [req EXCEPT ![r].unchecked = @ \ {p}, ![r].avail = avail,
                              ![r].phase = IF req[r].unchecked = {p} /\ avail # {}
                                           THEN "ordering" ELSE @]
    /\ UNCHANGED <<lbCfg, rrCounters>>

(* The loop that drops open models asks one breaker at a time, each under its *)
(* own lock; the last answer decides whether any model is left.               *)
CheckBreaker(r) ==
    /\ req[r].phase = "checking"
    /\ \E p \in req[r].unchecked, answer \in BOOLEAN :
           /\ \A q \in req[r].unchecked : p <= q
           /\ IsOpen(KeyAt(r, p), answer)
           /\ LET avail == IF answer THEN req[r].avail ELSE req[r].avail \cup {p}
                  last == req[r].unchecked = {p}
                  next == IF ~last THEN "checking" ELSE IF avail = {} THEN "done" ELSE "ordering"
              IN  req' = [req EXCEPT ![r].unchecked = @ \ {p}, ![r].avail = avail,
                              ![r].phase = next,
                              ![r].answer = IF next = "done" THEN "unavailable" ELSE @]
    /\ UNCHANGED <<lbCfg, rrCounters>>

(* orderByPriority handles one priority group at a time; a group of one needs *)
(* no strategy, and only a rotation moves the group's counter.  The counter   *)
(* is kept modulo the length of its group, which its key includes.            *)
Start(counter) == IF counter \in DOMAIN rrCounters THEN rrCounters[counter] ELSE 0

SameStart(counter, n) == Start(counter)     \* mutated NextStart: the counter stands still

NextStart(counter, n) == (Start(counter) + 1) % n

OrderGroup(r) ==
    /\ req[r].phase = "ordering"
    /\ LET group == FirstGroup(PoolModels(r), req[r].avail \ Ordered(r))
           n == Cardinality(group)
           prio == Priority(PoolModels(r)[CHOOSE p \in group : TRUE])
           counter == <<req[r].tier, prio, n>>
           rotates == n > 1 /\ Strategy # "random"
       IN  /\ \E g \in GroupOrders(group, Start(counter)) :
                  req' = [req EXCEPT ![r].order = @ \o g,
                              ![r].phase = IF req[r].avail = Ordered(r) \cup group
                                           THEN "calling" ELSE @]
           /\ rrCounters' = IF rotates
                            THEN [c \in DOMAIN rrCounters \cup {counter} |->
                                     IF c = counter THEN NextStart(c, n) ELSE rrCounters[c]]
                            ELSE rrCounters
    /\ UNCHANGED <<breakerVars, lbCfg>>

-----------------------------------------------------------------------------
(* The failover loop. *)

(* The chat handlers call one candidate after the other. *)
Loops(r) == req[r].phase = "calling" /\ req[r].in.kind # "embed"

RunsPastTheEnd(r) ==    \* mutated NextCandidate: off by one
    IF req[r].at <= Len(req[r].order)
    THEN req' = [req EXCEPT ![r].at = @ + 1]
    ELSE Respond(r, "unavailable")

(* The next candidate, or 503 when there is none.                             *)
NextCandidate(r) ==
    IF req[r].at < Len(req[r].order)
    THEN req' = [req EXCEPT ![r].at = @ + 1]
    ELSE Respond(r, "unavailable")

(* No upstream request can be built from the model's base URL: the loop moves *)
(* on and its breaker learns nothing.                                         *)
BuildFails(r) ==
    /\ Loops(r)
    /\ ~Selected(r).urlOk
    /\ NextCandidate(r)
    /\ UNCHANGED <<breakerVars, lbCfg, rrCounters>>

GivesUp(r) ==     \* mutated CallFails: the first failure ends the request
    /\ Loops(r)
    /\ Selected(r).urlOk
    /\ RecordFailure(SelectedKey(r))
    /\ Respond(r, "unavailable")
    /\ UNCHANGED <<lbCfg, rrCounters>>

(* The call ends with a network error or the client's 120 s timeout, or with  *)
(* status 5xx, 401 or 404.                                                    *)
CallFails(r) ==
    /\ Loops(r)
    /\ Selected(r).urlOk
    /\ RecordFailure(SelectedKey(r))
    /\ NextCandidate(r)
    /\ UNCHANGED <<lbCfg, rrCounters>>

(* Any other status, a refusal such as 400 or 429 included, is a success.     *)
(* The body has been read; an error that cut it short has been ignored.       *)
CallSucceeds(r) ==
    /\ Loops(r)
    /\ req[r].in.kind = "chat"
    /\ Selected(r).urlOk
    /\ RecordSuccess(SelectedKey(r))
    /\ \E body \in {"delivered", "truncated"} : Respond(r, body)
    /\ UNCHANGED <<lbCfg, rrCounters>>

(* For a stream the status alone is a success, which locks it to the model.   *)
StartStream(r) ==
    /\ Loops(r)
    /\ req[r].in.kind = "stream"
    /\ Selected(r).urlOk
    /\ RecordSuccess(SelectedKey(r))
    /\ req' = [req EXCEPT ![r].phase = "streaming"]
    /\ UNCHANGED <<lbCfg, rrCounters>>

(* The stream ends, or breaks off: the loop stops at any read error, closes   *)
(* the body and logs the call, with status 200, either way.                   *)
EndStream(r) ==
    /\ req[r].phase = "streaming"
    /\ \E body \in {"delivered", "truncated"} : Respond(r, body)
    /\ UNCHANGED <<breakerVars, lbCfg, rrCounters>>

(* Embeddings makes one call, to the first candidate, and passes on what comes *)
(* back, an error status included.  It tells neither the breaker nor the log.  *)
(* A bad base URL makes it panic on the nil request, which the recovery        *)
(* middleware turns into a 500.                                                *)
Embed(r) ==
    /\ req[r].phase = "calling"
    /\ req[r].in.kind = "embed"
    /\ \E answer \in {"delivered", "truncated", "error"} :
           /\ ~Selected(r).urlOk => answer = "error"
           /\ Respond(r, answer)
    /\ UNCHANGED <<breakerVars, lbCfg, rrCounters>>

(* The goroutine returns; its slot is free for another request. *)
Finish(r) ==
    /\ req[r].phase = "done"
    /\ req' = [req EXCEPT ![r] = Idle]
    /\ UNCHANGED <<breakerVars, lbCfg, rrCounters>>

-----------------------------------------------------------------------------

(* An admin's save hands the load balancer a new configuration.  Breakers and *)
(* counters stay, also those of models that are gone.                         *)
Reload == /\ \E cfg \in ConfigSet \ {lbCfg} : lbCfg' = cfg
          /\ UNCHANGED <<breakerVars, rrCounters, req>>

Clock == Tick /\ UNCHANGED <<lbCfg, rrCounters, req>>

Init == /\ BreakerInit
        /\ lbCfg = Configs[1]
        /\ rrCounters = <<>>
        /\ req = [r \in Requests |-> Idle]

(* What a goroutine does on its own once its request is in. *)
Handle(r) == \/ CheckBreaker(r) \/ OrderGroup(r)
             \/ BuildFails(r) \/ CallFails(r) \/ CallSucceeds(r)
             \/ StartStream(r) \/ EndStream(r) \/ Embed(r)

Next == \/ \E r \in Requests : Receive(r) \/ Handle(r) \/ Finish(r)
        \/ Reload
        \/ Clock

Spec == Init /\ [][Next]_vars

(* Goroutines are scheduled and every upstream call ends, by the client's     *)
(* timeout if nothing else; time passes.  Nothing obliges a client to ask or  *)
(* an admin to save.                                                          *)
Fairness == /\ \A r \in Requests : WF_vars(Handle(r))
            /\ WF_vars(Clock)

FairSpec == Spec /\ Fairness

-----------------------------------------------------------------------------

Stage(r, phases) == req[r].phase \in phases

(* The positions of the pool whose breaker turned the request away. *)
Refused(r) == req[r].pool \ (req[r].avail \cup req[r].unchecked)

(* The tiers a configuration can send a request to. *)
TierNames(cfg) == Tier \cup DOMAIN cfg.tiers \cup {cfg.defaultTier}

RequestType == [phase : Phase \ {"idle"}, in : Inputs, cfg : ConfigSet,
                direct : BOOLEAN, tier : UNION {TierNames(cfg) : cfg \in ConfigSet},
                pool : SUBSET Nat, unchecked : SUBSET Nat, avail : SUBSET Nat,
                order : Seq(Nat), at : Nat \ {0}, answer : Answer]

(* The local state of the goroutine of r: its sets are parts of its pool, a    *)
(* position is unchecked, admitted or refused, the order holds admitted        *)
(* positions only, and the loop's index points into it.                        *)
RequestShape(r) ==
    /\ req[r].pool \subseteq DOMAIN PoolModels(r)
    /\ req[r].unchecked \subseteq req[r].pool
    /\ req[r].avail \subseteq req[r].pool \ req[r].unchecked
    /\ Ordered(r) \subseteq req[r].avail
    /\ Stage(r, {"checking", "ordering"}) => req[r].at = 1
    /\ Stage(r, {"checking"}) => req[r].unchecked # {} /\ req[r].order = <<>>
    /\ Stage(r, {"ordering"}) => req[r].unchecked = {} /\ Ordered(r) # req[r].avail
    /\ Stage(r, {"calling", "streaming"}) => /\ req[r].unchecked = {}
                                            /\ Ordered(r) = req[r].avail
                                            /\ req[r].at \in DOMAIN req[r].order

(* Every goroutine's local state is well formed and the shared state typed. *)
TypeOK == /\ BreakerTypeOK
          /\ lbCfg \in ConfigSet
          /\ rrCounters \in [DOMAIN rrCounters -> Nat]
          /\ req \in [Requests -> {Idle} \cup RequestType]
          /\ \A r \in Requests : req[r] # Idle => RequestShape(r)

(* An admin's reading of two models' priorities: the lower number comes first, *)
(* and a model that was given none (or 0) counts as a 1.                       *)
Before(m, n) ==
    \/ 0 \notin {m.priority, n.priority} /\ m.priority < n.priority
    \/ m.priority = 0 /\ n.priority > 1
    \/ n.priority = 0 /\ m.priority < 0

(* README: strict failover by priority.  When a model is called, every model  *)
(* of the pool with a higher priority has been refused by its breaker when    *)
(* this request came in, or has been tried by this request and has failed,    *)
(* whatever other requests did to breakers and counters meanwhile, and        *)
(* whatever configuration was loaded since.                                   *)
StrictFailover ==
    \A r \in Requests : Stage(r, {"calling", "streaming"}) =>
        \A p \in req[r].pool :
            Before(PoolModels(r)[p], Selected(r)) => p \in Refused(r) \cup Tried(r)

(* No model is tried twice for one request, and 503 means that none is left:  *)
(* each model the request qualified for was refused or has been tried.        *)
EachModelOnce ==
    \A r \in Requests :
        /\ Stage(r, {"calling", "streaming"}) =>
               req[r].order[req[r].at] \notin Tried(r)
        /\ (Stage(r, {"done"}) /\ req[r].answer = "unavailable") =>
               req[r].pool = Refused(r) \cup {req[r].order[i] : i \in 1..Len(req[r].order)}
                          /\ (req[r].order # <<>> => req[r].at = Len(req[r].order))

(* What the README's funnel lets through in a tier, for the request of r.      *)
Qualifying(r, tier) ==
    {p \in DOMAIN Models(req[r].cfg, tier) :
        LET m == Models(req[r].cfg, tier)[p]
        IN  /\ m.enabled
            /\ req[r].in.tokens > req[r].cfg.longContextThreshold =>
                   m.longContext /\ (m.maxContextTokens # 0 => req[r].in.tokens <= m.maxContextTokens)}

(* The request of r is served from the tier, or had to leave it because its   *)
(* input is long and no model there can hold it.                              *)
ServedFrom(r, tier) ==
    \/ req[r].tier = tier
    \/ /\ req[r].tier = "advanced"
       /\ req[r].in.tokens > req[r].cfg.longContextThreshold
       /\ Qualifying(r, tier) = {}

Header(r) == IF req[r].cfg.headerOverride THEN req[r].in.tierHeader ELSE ""
Alias(r) == IF req[r].in.model \in DOMAIN req[r].cfg.modelAlias
            THEN req[r].cfg.modelAlias[req[r].in.model] ELSE ""

(* The request of r names a model that is configured and enabled. *)
Names(r, model) ==
    /\ model.enabled
    /\ req[r].in.model \in {model.technicalName, model.name}
    /\ req[r].in.model \notin {"", "auto"} \cup DOMAIN req[r].cfg.modelAlias

NamesOne(r) == \E tier \in DOMAIN req[r].cfg.tiers : \E p \in DOMAIN req[r].cfg.tiers[tier] :
                   Names(r, req[r].cfg.tiers[tier][p])

(* README, the funnel: a request that names no enabled model may be sent      *)
(* to exactly the models that are enabled, and long enough for a long input,  *)
(* in the tier of its header, else of its alias, else the advanced tier if a  *)
(* complexity rule matches, else the default tier; it leaves that tier only   *)
(* for the advanced tier, and only when nothing there can hold it.            *)
FunnelRespected ==
    \A r \in Requests : (req[r] # Idle /\ ~NamesOne(r)) =>
        /\ req[r].pool = Qualifying(r, req[r].tier)
        /\ ServedFrom(r, IF Header(r) \in Tier THEN Header(r)
                         ELSE IF Alias(r) \in Tier THEN Alias(r)
                         ELSE IF \E rule \in req[r].cfg.rules : ruleMatches(rule, req[r].in)
                         THEN "advanced"
                         ELSE req[r].cfg.defaultTier)

(* A request that names an enabled model, by either of its names, is sent to   *)
(* that model (one of them, if several have the name) or not at all: it does   *)
(* not fall over to another one, whatever its header, its length and the rules *)
(* say, also when an admin renames or disables the model while the request is  *)
(* on its way.  A name whose models are all disabled is an unknown name: the   *)
(* funnel decides (loadbalancer.go:219), where README:242 promises that model. *)
NamedModelOnly ==
    \A r \in Requests : (req[r] # Idle /\ NamesOne(r)) =>
        \E p \in DOMAIN PoolModels(r) : req[r].pool = {p} /\ Names(r, PoolModels(r)[p])

-----------------------------------------------------------------------------

(* Every request that comes in is answered, whatever its upstreams do and      *)
(* whatever URLs its candidates have: no goroutine runs its loops for ever.    *)
Answered == \A r \in Requests : []<>~Active(r)

(* A request comes in for which k is among the models of highest priority, its *)
(* base URL being one that can be called.                                      *)
Prefers(r, k) ==
    /\ Stage(r, {"checking"})
    /\ \E p \in req[r].pool :
           /\ KeyAt(r, p) = k /\ PoolModels(r)[p].urlOk
           /\ \A q \in req[r].pool : ~Before(PoolModels(r)[q], PoolModels(r)[p])

CallFailsOn(k) ==
    \E r \in Requests : Stage(r, {"calling"}) /\ SelectedKey(r) = k /\ CallFails(r)

(* README, strict failover: when a failed model is healthy again, traffic     *)
(* goes back to it.  If from some time on no call to it fails, and requests   *)
(* that prefer it keep coming, its breaker ends up closed and stays so: it is *)
(* not left open or half open while its siblings or its reserve serve.        *)
(* Embeddings must have stopped: they take turns with the siblings, probe a   *)
(* half open model and report nothing, so that they can take every turn that  *)
(* would close its breaker.  (A reserve may stay half open for good: nobody   *)
(* probes it while the models before it serve.)                               *)
FailsBack ==
    \A k \in Keys :
        /\ <>[][~CallFailsOn(k)]_vars
        /\ <>[](\A r \in Requests : Active(r) => req[r].in.kind # "embed")
        /\ []<>(\E r \in Requests : Prefers(r, k))
        => <>[](state[k] = "closed")

(* README, load balancing: models of equal priority take turns.  A model whose *)
(* breaker stays closed and that requests keep preferring is called again and  *)
(* again, although its siblings are healthy too, breakers open and close around *)
(* it, and requests of both slots draw from the same counter.                 *)
TakesTurns ==
    \A k \in Keys :
        /\ <>[](state[k] = "closed")
        /\ []<>(\E r \in Requests : Prefers(r, k))
        => []<>(\E r \in Requests : Stage(r, {"calling"}) /\ SelectedKey(r) = k)

-----------------------------------------------------------------------------
(* What the documents say and the code does not do. *)

(* README, a network error makes a non-streaming request fail over: an answer *)
(* that the network cut short is not what the client gets.                    *)
CutAnswersFailOver ==
    \A r \in Requests :
        (Stage(r, {"done"}) /\ req[r].in.kind = "chat") => req[r].answer # "truncated"
=============================================================================
