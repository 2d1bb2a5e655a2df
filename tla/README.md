# VibeRouter in TLA+

VibeRouter is an API gateway in Go: clients send OpenAI- or Anthropic-style
requests to it, it picks a backend model by complexity, context length and
priority, fails over between models behind circuit breakers, converts between
the two API styles, logs each call, and is administered through a web page that
rewrites `config.yaml`. This directory holds TLA+ models of it, the
configurations that check them with TLC, and proofs for TLAPS.

## Inventory

| Part | State | Operations | Interacts with |
|---|---|---|---|
| Circuit breakers (`service/loadbalancer.go`) | per model key: state, failure count, time of last failure | `RecordSuccess`, `RecordFailure`, `IsOpen` | called by every request's goroutine; shared under a mutex each |
| Routing funnel (`loadbalancer.go`) | round-robin counters | `Route`, `orderByPriority` | reads the load balancer's configuration once, asks the breakers |
| Proxy handlers (`handler/openai_handler.go`, `anthropic_handler.go`) | per request: candidates, loop index, response | `ChatCompletions`, `Completions`, `Messages`, `Embeddings` | breakers, upstream HTTP, call log |
| Configuration store (`config/config.go`) | global snapshot, `config.yaml`, its `.tmp` | `Load`, `applyDefaults`, `migrateLegacy`, `SaveConfig`, `EnsureDefaultAdmin` | every reader holds a snapshot pointer |
| Admin API (`handler/admin.go`) | none of its own | create, update, delete of models and keys, routing rules, `saveAndReload` | clones the snapshot, saves it, reloads the load balancer |
| Call log (`service/filelogger.go`) | bounded queue of 1000 rows, the JSON Lines file | `Log`, `writeLoop`, `Query`, `Close` | handlers enqueue, one goroutine writes, the admin page reads |
| Authentication (`middleware/auth.go`) | session tokens with expiry | `ValidateAPIKey`, `GenerateToken`, `validateToken`, `RevokeToken` | reads the global snapshot, stands before every call and every admin request |
| Conversion (`service/transformer.go`, `apistyle.go`) | none of its own; per request the body, the answer, the stream being read | request, answer, error and stream event conversion, `DetectAPIStyle` | called by the handlers, once per candidate and once per answer or stream line |
| Router, process, model listing, web page | none that the rest depends on | route table, recovery middleware, start and stop | |

What is hard here: every request is a goroutine of its own over shared breakers
and counters; a request uses a candidate list that other requests, the clock and
an admin's save make stale; calls end late, in any order, or not at all; saves
run concurrently without a common lock and in several steps that a crash can
separate; the log drops rows under load. PROJECT.json lists these hazards at
their lines, with the properties that watch them.

What makes each part correct:

* breakers: a model is refused exactly while enough calls in a row have failed
  and the cool-down runs; a recovered model is not shut out for ever;
* routing: exactly the models that the documented funnel leaves, in strict order
  of priority, taking turns among equals;
* failover: no usable candidate is left out or tried twice; every request is
  answered; a refused model gets no new calls;
* configuration: an acknowledged change is in force and on disk, survives a
  restart, and no reader sees half a change;
* call log: a row is dropped at the full queue or reaches the file; a broken
  write costs its own row and at most the next one; what could be read once stays
  readable, and queries show the newest rows first;
* authentication: a revoked or expired session is not accepted again, a live one
  is not refused, and a removed key admits no further call;
* conversion: every candidate is told the client's own conversation with its
  settings, and the client is answered in the form of its endpoint, in order and
  without a false end.

## Modules

* `BreakerPolicy`: what the breakers promise, without their three states.
* `CircuitBreaker`: the breakers as coded, one action per method and one for the
  clock. `Policy` instantiates `BreakerPolicy`; `ImplementsPolicy` is the
  refinement: the consecutive failures are `failureCount`, a model is refused
  when its breaker is open and still cooling. `MCBreaker` is its small instance.
* `Routing`: the pure part of `Route` as operators over a configuration and a
  request. A pool is a set of positions in a tier's list. `Routes` is the set of
  possible selections (Go's map order can decide a direct match), `GroupOrders`
  the set of orders that rotation or shuffle may give to a priority group.
* `Failover`: extends both. One record per request slot is a handler's
  goroutine; `Receive` is `Route` up to the chosen pool, `CheckBreaker` one turn
  of the loop that drops open models, `OrderGroup` one priority group of
  `orderByPriority`; `BuildFails`, `CallFails`, `CallSucceeds` and `StartStream`
  are the outcomes of one turn of the failover loop (the same loop in
  `ChatCompletions` and `Messages`), `EndStream` the end of a stream, `Embed`
  the handler without a loop; `Finish` frees the slot. `Reload` is an admin's
  save reaching the load balancer, `Clock` the passing of time.
  `MCFailback` and `MCRouting` are its instances.
* `Shedding`: `Failover` with a history variable, `shut`: the models that have been
  refused without a pause since a request came in. `MCFailover` is its instance.
* `AtomicConfig`: what the store of the configuration should promise: whole
  configurations, one edit after the other, unharmed by crashes.
* `ConfigEdits`: a configuration and what the admin handlers, the defaults and
  the migration make of it, as operators.
* `ConfigStore`: extends `ConfigEdits`. State: `config.yaml` and its `.tmp`, the
  snapshot of the config package (`global`), that of the load balancer (`lbCfg`),
  and one record per saver, an admin's request or the start of the process
  (`Boot`). `CreateModel` to `DeleteKey` are the handlers up to their save;
  `Open`, `Write`, `Rename` and `Swap` are `SaveConfig`, with `WriteFails` and
  `RenameFails`; `Reload` is the second half of `saveAndReload`, which the key
  handlers skip, `Answer` the response. `Start`, which may fail to read the file,
  and `Serve` are `main`; `Crash` is the end of the process at any point.
  `Atomic` instantiates `AtomicConfig` over what the file holds and what the
  process knows of it (`Known`: nothing, after a start that could not read it).
  `MCConfig` gives the instances.
* `RowLog`: what the call log promises its readers: rows that only grow by newer
  ones, except that the newest may be lost while it lacks its newline.
* `FileLogger`: the queue (`logChan`), the row in the hands of `writeLoop`
  (`writing`), the file as lines and whether the last one has its newline. `Log`
  is the handlers' side, `TakeEntry`, `WriteWhole`, `WriteCut` and `WriteFails`
  the writer's, `Query` with `rowMatches` the reader's. `Readable` instantiates
  `RowLog` over the lines that parse.
* `Authentication`: the tokens of `tokenStore`, and one record per admin's request
  and client's call. `LoadToken` and `CheckExpiry` are the two looks of
  `validateToken`, between which anything may happen; `Login` and `Logout` are the
  handlers; `AdmitCall` is `AuthMiddleware`, which may admit any key here: which
  keys it admits is decided by `ValidateAPIKey` over the snapshot of `ConfigStore`,
  where the key handlers are modelled with every step of their saves.
* `Backoffice`: extends the two, in one process: an admitted call ends with a row
  (`EndCall`), an admin with a session reads the log (`Logs`), one `Restart`
  takes the queue, the sessions and the requests in hand. `MCBackoffice` is its
  instance.
* `Conversion`: `transformer.go`, `apistyle.go` and the conversion of stream
  events as operators over bodies, under the names of the functions.
* `Exchange`: extends it: one request on its way through the loop of
  `ChatCompletions` or `Messages`. `Convert` is one turn up to the call,
  `Recovered` a conversion that panics, `Fails` a candidate that is given up,
  `Answered` a whole answer, `StartStream`, `RelayLine` and `EndStream` a stream,
  `StreamRefused` a refusal that is relayed as one, `Unavailable` the end of the
  candidates. `MCExchange` gives the requests, answers and streams.

* `CircuitBreakerProofs`, `FailoverProofs`, `RoutingProofs`, `ConfigStoreProofs`,
  `BackofficeProofs`, `LogProofs` and `ExchangeProofs`: the proofs, each about the
  module it is named for (`FailoverProofs` also about `Shedding`, `LogProofs` about
  the log within `Backoffice`); `SequenceLemmas`: what they need to know of the
  community modules' operators, flattening among them.

Operators marked "mutated" in a comment are wrong variants of the definition
that follows them, kept to show that each property can fail.

### Abstractions

* A breaker's times are a number of ticks since the last failure, at most
  `Timeout`; its count stops at `Threshold`, where the code counts on. Beyond these
  bounds the code only compares with `>=`, and a success resets both.
* `GetBreaker` creates breakers lazily with the configured threshold and
  cool-down. No handler changes those settings, so every key has a fresh breaker
  from the start and both are constants.
* Upstreams are nondeterministic: a call fails (network error, timeout, 5xx, 401,
  404), or counts as a success with its whole or a cut body. Statuses such as
  400 or 429 are successes to the code, and to the model.
* Whether a base URL yields a request is an attribute of the model (`urlOk`).
* A round-robin counter is kept modulo its group's length, which its key holds;
  the wrap-around of the 64-bit counter is left out.
* Requests start at `Route`. Reading, parsing and authenticating touch nothing
  that is shared with the parts modelled here.
* Success is recorded, logged and answered in one step: nothing reads between
  them what the others write.
* Of a backend model `ConfigStore` keeps the name, of an API key whether it is
  active, of the routing section one value. `Unset` stands for zero values, which
  `applyDefaults` replaces on load but an admin may save; the other defaults
  (address, log, retry, session age) behave alike and no handler sets them.
* A line of the log is its row or torn. A write leaves nothing, a piece, the row
  without its newline, or the row with it; what follows an unfinished line becomes
  part of it, and such a line does not parse. Two writes are never under way
  together, since one goroutine makes them. Rows carry the number of their call,
  the user and the status; the other fields that a filter reads behave alike.
* Start reads `config.yaml` in one step: what it holds, or nothing when the read
  fails or the text does not parse. Keys are kept as a list with repetitions, of
  which `UpsertKey`, `DeleteKey` and `ValidateAPIKey` see the first entry.
* `Query` reads the file up to some line: all of it, or less when a read fails, or
  nothing when the file does not open; the page is not told.
* Tokens are never drawn twice, and are numbered by their logins. Time is a number of ticks per token, which stands
  still once the token has expired.
* Bodies say what their JSON says, for the fields that one of the styles renames,
  moves or drops. Parameters that both name alike, and the model's name, which
  the handlers overwrite, are left out. Texts, schemas and identifiers are
  symbols, but the empty text is told apart wherever a conversion does so (beside
  tool calls, as a system prompt, as a stop sequence); a text in an answer is a sequence of words, a text block of a stream
  one word.
* A compressed or cut answer is `Bytes`: it does not parse and is passed on as it
  is. Whether the upstream declared a length is a choice of the upstream; whether
  a converted body has just that length is one of chance.
* `Exchange` knows of no breakers: a candidate that would not be called is one of
  a shorter list. `Failover` in turn leaves out the conversion that panics.
* A file that does not parse loads as if nothing had been decoded from it.
* Descriptors follow the file through renames, so a late write of one saver can
  reach what another has renamed to `config.yaml`; overwriting a longer text
  leaves a mixture (`Garbled`). Crashes are of the process: what was written
  before a power failure without `fsync` is not modelled.

## Runs

| Run | Instance | Shows |
|---|---|---|
| `breaker` | 2 keys, threshold 3, cool-down 3 | `BreakerTypeOK`, `StateMatchesCount`, `ImplementsPolicy` |
| `failover` | 2 requests, 3 models (two siblings and a reserve), threshold 1, cool-down 1, two configurations | `TypeOK`, `StrictFailover`, `EachModelOnce`, `ShedsLoad` |
| `failback` | 2 requests of every kind (chats and streams that are routed, embeddings that name a model), 2 models, siblings in one configuration, a leader and a reserve with a malformed URL in the other, fairness | `Answered`, `FailsBack`, `TakesTurns` |
| `routing` | 1 request, 3 + 2 models and 2 + 1 models in two configurations, 742 kinds of request, random strategy, upstreams that answer | `FunnelRespected`, `NamedModelOnly` |
| `config` | 1 admin, 2 names, 2 keys, 2 routing values and the defaults, at most 2 models, four kinds of first `config.yaml` | `TypeOK`, `MemoryAgrees`, `AckedIsStored`, `RevokedKeyRefused`, `ImplementsAtomic` |
| `backoffice` | 2 sessions, an admin who reads the log and one who logs out, 1 client, 1 key, queue of 1, answers of at most 2 rows, 3 calls, 2 broken writes, statuses 200 and 429, any number of restarts | `TypeOK`, `DeadTokenRefused`, `LiveTokenServed`, `NewestFirst`, `DamageBounded`, `ShownRowsStay`, `ImplementsRowLog`, `RowsSettle` |
| `exchange` | 62,208 pairs of a request and a list of candidates: 9 OpenAI and 4 Anthropic conversations with every combination of the settings, up to 2 candidates, 7 and 4 kinds of answer, streams of up to 14 lines | `TypeOK`, `ConversationKept`, `SettingsKept`, `AnsweredInOwnForm`, `StreamKept` |
| `lost_update` | 2 admins, no first file | the divergence below |
| `reseeded` | 1 admin, the first files of `config` | the divergence below |
| `truncated` | as `failover` | the divergence below |
| `framing`, `stream_text` | as `exchange` | the divergences below |

Why the bounds are enough: two requests are what it takes for a result to arrive
late, for a breaker to open between another request's check and call, and for a
counter to be drawn from concurrently; a third would repeat one of the two roles.
Two siblings and a reserve make a group that rotates, a group of one, and a step
down in priority. The second configuration removes a sibling and breaks the
reserve's URL, so requests of either configuration run beside a `Reload`. With a
threshold of 1 a breaker opens and reopens often; counting up to a threshold is
the business of `breaker`, where it is 3. In `failover` the view forgets the time
since the last failure of a closed breaker, which nothing reads, and the
request slots are symmetric. `StrictFailover` reads priorities on its own
(`Before`: a priority left out counts as 1), not through the `Priority` that the
model of the code sorts by. In `failback` a model without a priority is the
sibling of one with priority 1, and the reserve's URL is malformed: its requests
skip it and no call to it is ever recorded.

In `config` two names and two keys are enough to rename, move and duplicate; the
`.tmp` is left out of the view while nobody is about to rename it (the next save
truncates it), and names and keys are symmetric. Everything that relies on the
order of steps (memory and disk agree, an acknowledged change is stored, the file
changes by one edit) is claimed for one admin, with failures and crashes at every
step. It does not hold for two: the handlers take no lock over clone, edit and
save, `lost_update` is the plainest consequence. In the same instance one saver's
`Open` can empty the `.tmp` that another is about to rename, and two saves can
leave the two snapshots different; no document promises otherwise.

In `backoffice` a queue of one is full as soon as the writer is behind by one;
three calls are what it takes for a row to be dropped while another is queued and
a third is written, for a cut row, the row it swallows and one after it, and for
an answer that the limit shortens. Two broken writes make every pair of a failed
and a cut one. A session that expires after one tick can be live, expired, revoked
or of an earlier process at each look; of two, one can end by logout, expiry or
clean-up while the other, younger one is in use, in either admin's hands. Keys do
not matter here: what edits of them do to the calls is `RevokedKeyRefused` of
`config`, where keys are renamed, deactivated, deleted and added again.
`ShownRowsStay` excepts the newest row shown, which may lack its newline.

In `exchange` the conversations have each feature that a conversion treats in a
way of its own: system prompts first, later and twice, calls with and without a
text beside them and with results of both forms, images beside text, empty
texts, calls without a function, roles that only one style has, contents of both forms. Two candidates
are what it takes for a body to be converted twice. `ConversationKept` and
`SettingsKept` say what is kept of every conversation (nothing is added or moved)
and what is kept of plain ones (nothing is lost), and only where the guess of
`DetectAPIStyle` was right; `AnsweredInOwnForm` also where it was wrong.
`StreamKept` is about the words of every stream to a client of OpenAI's or the
upstream's style; the fourth pairing is the divergence `stream_text`.

### Fairness

`FairSpec` assumes weak fairness of each goroutine's own steps (`Handle`) and of
the clock. Goroutines are scheduled by Go's runtime and no step waits for
another request; every upstream call and every stream ends at the latest by the
120 s timeout of the shared client. Clients and admins are under no obligation:
`Receive`, `Finish` and `Reload` have no fairness, and the liveness properties
that need requests assume that they keep coming.

`Backoffice` assumes weak fairness of the log's writer alone: its goroutine is
scheduled and a write of the file system returns, with or without an error.
`RowsSettle` needs nothing more; a restart counts as the end of what was queued.

`Answered` is claimed of every kind of request and of models that cannot be
called. `FailsBack` and `TakesTurns` are about the models that a request prefers,
those of the highest priority in its pool whose URL can be called. A reserve may
stay half open as long as the models before it serve. `FailsBack` assumes that
embeddings stop at some time: they probe a breaker, turning it half open, and
record nothing, so that with embeddings alone no breaker would ever recover, and
beside others they can take each turn that would close it. With three or more
siblings whose breakers keep opening in turn, the counters of different group
lengths could favour one sibling; the claim is checked for two.

## Where documents and code differ

* `reseeded`: the comment at `config.go` line 280, a default admin is seeded when
  none is configured. `Load` goes on with defaults after any error of
  `os.ReadFile`, so that a start which cannot read a whole `config.yaml` seeds
  `admin`/`admin` and its save replaces the file, its admin included.
* `truncated`: README line 350, a network error triggers failover. An error while
  the body is read is discarded, the cut answer delivered and counted as success.
* `lost_update`: README line 325, every change is written back to `config.yaml`.
  One admin's new model has reached the file when the save of another, whose
  handler cloned the snapshot before, takes it out again; both are answered 200.
* `framing`: README line 331, answers of the other style are converted for the
  client. The handlers copy the upstream's headers onto the converted body, its
  `Content-Length` too: a longer body is refused by `net/http`, a shorter one
  leaves the client waiting for the rest.
* `stream_text`: README line 343, streams are converted event by event.
  `convertOpenAIStream` writes `"text":%s` with a text whose quotes
  `escapeJSONString` has stripped, so that no event with words is JSON (the
  delta's type, `text` for `text_delta`, would be the next obstacle).

Without a run, because the model states what the code does and no property of its
own is worth it:

* one JSON row per call (README line 37): a request whose candidates all fail
  leaves no row (`openai_handler.go` line 171), nor do embeddings;
* a client that names a model gets that model (README lines 227 and 242), and one
  that does not exist is the funnel's business: a model that is configured but
  disabled counts as one that does not exist (`loadbalancer.go` line 219), so the
  funnel chooses another. `NamedModelOnly` is about enabled models;
* the breaker's diagram (README line 349) lets an open breaker close only through
  `half_open`; `RecordSuccess` closes it from any state, so that a slow call sent
  before it opened closes it in the middle of its cool-down;
* the tier header (README line 244) forces the tier on any request; it is not read
  when the request names a configured model;
* a model's name is unique in its tier (README line 163), but `UpdateModel`
  renames without looking; `retry.max_attempts` (line 139) is never read, and
  `log.retention_days` (line 358) never applied;
* OpenAI's tools lose their name and schema on the way to Anthropic, because both
  are looked for beside `function` and not in it; the name of a `tool_choice` is
  written, and looked for, under `index`;
* tool calls in answers are dropped in both directions, a system prompt in blocks
  on the way to OpenAI, text beside an image and tool results in blocks on the way
  to Anthropic;
* to an OpenAI client the stop reason and the usage of a whole answer keep
  Anthropic's names, and a stream always ends in `stop` (README line 340);
* an OpenAI client of an Anthropic stream also gets the events that are not
  converted, in Anthropic's form, and no `[DONE]` at the end;
* a streaming request that the upstream refuses is answered 200 with an empty
  stream (line 341);
* a tool call without a function makes the conversion panic: 500, without a try of
  the candidates behind;
* at `/v1/messages` a key that begins with `sk-` in a Bearer header makes an
  Anthropic request for `auto` count as OpenAI (line 38);
* the client's path is appended to the base URL whatever the candidate's style, and
  the OpenAI handler sends no `anthropic-version`; a client's `Accept-Encoding` is
  passed on, and a compressed answer comes back unconverted.

## Proofs

`CircuitBreakerProofs` proves, for any set of keys, any threshold of at least 1
and any cool-down (`ThresholdAssumption`, `TimeoutAssumption`):

* `BreakerTypeInvariant`: the type invariant, one lemma step per method;
* `BreakerConsistent`: `StateMatchesCount`, which is inductive together with the
  types. It is what makes the early return of `RecordFailure` right: a failed
  probe adds nothing to the count because a breaker that is not closed has
  reached its threshold already;
* `BreakerImplementsPolicy`: the refinement. In a reachable state the refused
  models are the ones the policy refuses (`CoolingIsRefused`, from the
  invariant); then successes, failures and ticks are the policy's own steps, and
  `IsOpen` is a stutter: half open is invisible to the policy. Each reported
  call is a policy step of its kind (`CallsRegister`), so that no failure is lost
  as a stutter.

`FailoverProofs` proves about the proxy path, for any set of requests and inputs,
any configurations whose models have breakers (`ConfigsAssumption`), and any
strategy:

* `FailoverTypeInvariant`: `TypeOK`, which says how the parts of a goroutine's
  local state fit together;
* `FailoverIsStrict` and `FailoverIsExhaustive`: `StrictFailover` and
  `EachModelOnce`. Neither is inductive: what they say of a candidate depends on
  how the order was built groups ago, from breakers that have changed since. The
  invariant `FailoverInv` adds that the order ascends in priority, repeats no
  model, and that nothing still to be ordered belongs before it (`OrderShape`),
  and what holds when 503 has been answered (`UnavailableShape`). The step that
  matters is `AppendGroup`: the first group of what is left keeps the order
  ascending, whichever rotation or shuffle the strategy picks. That a rotation
  repeats nothing is the counting lemma `GroupOrderShape`;
* `FailoverImplementsPolicy`: every step of the proxy path is a step of the
  breakers or leaves them alone, so their refinement carries over to any number
  of concurrent requests;
* `OpenBreakersShedLoad`: `ShedsLoad`, over the steps of `Shedding`. The invariant
  `ShedInv` says that nothing a request may still call has been refused ever since
  it came in; only `CheckBreaker` admits a model, and what a breaker lets through
  is not cooling down at that moment (`CheckedIsShed`).

`RoutingProofs` proves `NamedModelIsKept` (`NamedModelOnly`) and
`FunnelIsRespected` (`FunnelRespected`) for every configuration, rule set and
input. The first is
about the names in the configuration, not about the path that the code took: a
request that names an enabled model by either name (`NamesOne`) has one model of
that name as its pool. Its invariant `RoutedInv` says that what a request carries is a result of
`Routes` for the configuration it started with: no later step and no reload
touches it; the rest is the comparison of `Routes` with the documented funnel.

`BackofficeProofs` proves about the process around the proxy path, for any
sessions, admins, clients, keys, users, queue and bounds:

* `DeadTokensAreRefused` and `LiveTokensAreServed` (`DeadTokenRefused`,
  `LiveTokenServed`). What each look of `validateToken` finds says nothing of the
  other, so the invariant `SessionsInv` ties store and history together: what the
  store lacks is revoked or expired, what it has was never revoked, and a token
  that was dead at a first look that found it has expired, which no later step
  undoes;
* `BackofficeTypeInvariant` (`TypeOK`), from `LogShape`: the calls settled, in the
  writer's hands and queued are no more than were logged, and only a file with a
  line can lack its last newline.

`ConfigStoreProofs` proves about the store of the configuration:

* `StoreTypeInvariant` (`TypeOK`), for any number of admins;
* for one admin (`OneAdmin`, an assumption of the theorems): `ChangesAreStored`
  (`AckedIsStored`), `MemoryFollowsFile` (`MemoryAgrees`) and `StoreIsAtomic`, the
  refinement of `AtomicConfig`. The invariant `StoreInv` says that saves do not
  overlap (the seeding save of a start ends before requests are let in), and then
  phase by phase what the save under way has done: who holds the descriptor and
  what is behind it, from the rename on that the file is the new configuration
  (`SaveShape`), by which edit it came from the snapshot (`ChangeShape`), and what
  memory holds before the swap and after (`MemoryShape`). Each step of a save is
  then a stutter of `AtomicConfig`, except the rename, which is its edit, and a start that cannot
  read the file, after which `AtomicConfig` knows nothing of it until the next save. With two
  admins the invariant fails at its first conjunct, and `lost_update` shows what
  follows from that;
* `RevokedKeysStayOut` (`RevokedKeyRefused`), for one admin and a first file that
  lists no key twice. `DeleteKey` removes the first entry only, so that this is
  needed: of a key listed twice by hand, one entry would stay. `KeysInv` adds that
  no sequence of requests makes one of the two entries.

`LogProofs` proves about the call log inside `Backoffice`, for any bounds:

* `LogIsRowLog`, the refinement of `RowLog`; `DamageIsBounded` (`DamageBounded`);
  `QueriesShowTheNewest` (`NewestFirst`); `ShownRowsAreKept` (`ShownRowsStay`);
* they rest on `LogOrder`: what is in the file is older than the row being written,
  and that is older than the queue, which is in order. `DamageInv` is the bound
  with the debt of a line that lacks its newline added, since that line's row still
  counts but will be lost with the next write. `ShownInv` says that a row shown
  below the newest is in a line that no write touches any more.

`ExchangeProofs` proves about one request on its way, for any requests, lists of
candidates, answers and streams of any length that the two APIs allow:

* `ConversationSurvives` (`ConversationKept`) and `SettingsSurvive` (`SettingsKept`)
  rest on `RequestInv`: the body in the hands of the candidate in turn is the
  conversion of the client's own, and of nothing that was made for another. What
  remains is about one conversion. `MessageKept` goes through the roles and
  contents of one OpenAI message and compares the turns of what it becomes with its
  own, `MessageToOpenAIKept` does so for the way back; `WithinPieces` carries this
  from each message to the whole conversation, and `FlattenFirst` accounts for the
  system prompt, which changes its place;
* `AnswersFit` (`AnsweredInOwnForm`) adds `AnswerInv`: an answer is the gateway's
  own error or the conversion of one answer of the last candidate;
* `StreamsArrive` (`StreamKept`) and `ExchangeTypes` (`TypeOK`) add `RelayInv`: an
  OpenAI client, or one of the upstream's style, has been told the words of the
  lines that were read, and an ending only after one of them ended the answer.

Their assumptions say what an upstream and a client may send, and TLC evaluates
them on the run's instance. `InputsAssumption`: a body has the fields and block
types of its own style, tool calls are an assistant's, an Anthropic request has its
`max_tokens`. `AnswersAssumption`: an answer is in the provider's style, with a stop
reason of that API. `StreamsAssumption`: data lines are JSON, and no words come
after the line that ends the answer; without the latter a cut after that line would
hide words. Bodies that break them are passed on as they are or lose what is out of
place, and nothing is claimed of them. `AbsentApart`, a hypothesis of all but
`ConversationSurvives`, says that the value for a missing field is none of those
that a field can have.

The rows that `Query` selects are written as a recursive function, `Only`, where
`SelectSeq` would do for TLC: the prover takes the latter for an unknown operator.
The library's induction theorems take an operator as a parameter and cannot be
used. What the proofs need of recursive functions (`Only`, `Found`, the function in
`FlattenSeq`) is proved by the least place that violates it (`LeastElement`), or by
induction with a set in the place of the predicate (`InductionUpTo`), once the
function is shown to exist (`RecursionExists`), all in `SequenceLemmas`.

`FailoverInv`, `StoreInv`, `KeysInv`, `SessionsInv`, `LogInv`, `DamageInv`,
`ShownInv`, `RequestInv`, `AnswerInv` and `RelayInv` were checked with TLC on the instances of their runs,
with no violation. Every invariant of the passing runs is proved, and every
refinement. Only model-checked: all liveness (`Answered`, `FailsBack`,
`TakesTurns`, `RowsSettle`), which is out of the prover's reach, and the fairness
it rests on.

## Plan

1. The hazards without a property: an embedding's probe that records nothing, the
   breaker a deleted and recreated model inherits.
2. Proofs of what still holds when several admins save at once, where the theorems
   on `ConfigStore` other than its types assume one.
3. `StreamKept` for an Anthropic client of an OpenAI upstream, should the code come
   to quote the texts of a stream.

## Not modelled

The web page and the model listings change nothing. The console output, error
texts, request identifiers, the CORS headers, the model's name in bodies and the
upstream's URL are left out, as are `Me` and `GetConfig`, which only read, and the
server's own start and static files. The shuffled order and the round-robin
counters of `Failover` are not repeated in `Exchange`, which takes its list of
candidates as given.
