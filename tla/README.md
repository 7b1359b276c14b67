# TLA+ models of the unirate gateway

unirate is a rate-limiting reverse proxy for LLM upstreams. Gateway instances
share their limits through Redis scripts, keep a circuit breaker and local
quotas for the time when Redis is away, meter the tokens of streaming responses,
and take their configuration from a SQLite database through a Redis snapshot.
The modules here model those four mechanisms, the way of a request through the
proxy, the instruments it is counted by and the life of the process, TLC checks
them on small instances, and TLAPS proves their safety properties for all
instances.

All paths are relative to the repository root, where `src/` is the code.

## 1. Inventory

| component | code | state | operations |
|---|---|---|---|
| rules and keys | `internal/limiter/rule.go`, `key.go` | none | window boundary, key of a rule |
| Redis scripts | `internal/limiter/scripts/*.lua` | counters, sorted sets, buckets, ledgers, all with expiry | batch check, release, reserve, settle |
| limiter | `internal/limiter/limiter.go`, `ledger.go` | (in Redis) | Check, degrade, Release, TokenReserve, TokenSettle |
| local fallback | `internal/limiter/local.go` | negative cache, local quotas | blocked, block, allowQuota |
| circuit breaker | `internal/limiter/breaker.go` | state, window statistics, cooldown | onSuccess, onFailure, degraded |
| token metering | `internal/meter/token.go`, `internal/proxy/stream.go`, `handler.go` | a Counter per response | OnData, OnFlushTick, OnEnd, JSON metering |
| request handler | `internal/proxy/handler.go` | options, in-flight request | ServeHTTP, forward, forwardJSONWithMetering, reject |
| metadata, upstream | `internal/meta/extract.go`, `internal/upstream/resolver.go` | cache of environment variables | ExtractBiz, ExtractIP, Resolve, Validate |
| policy | `internal/config/policy.go`, `policy_spec.go`, `policy_store.go`, `env.go` | base, overrides, policy in force, listeners | PolicyFromEnv, ResolvePolicy, refreshPolicy, OnPolicyChange, ApplyPolicy |
| observability | `internal/obs/metrics.go`, `window.go`, `health.go` | cells of counters, gauges, histograms, ring windows; readiness | Inc, Add, Observe, write; MarkReady, MarkShutdown, /ready |
| process | `cmd/gateway/main.go`, `internal/admin/server.go` | servers, readiness, signal | startup, state loop, graceful shutdown |
| config store | `internal/config/store.go` | snapshot and policy in force; version and snapshot in Redis | LoadFromDB, publish, apply, subscribe, poll, Bootstrap |
| admin writes | `internal/admin/biz.go`, `policy.go`, `server.go` | SQLite | upsert, delete, policy update, reload |
| not modelled | `internal/adminui`, views of `internal/admin`, `internal/obs/logfire.go`, `store/schema.go`, `seed.go`, `cmd/mockupstream`, `test/perf` | | see section 8 |

How they interact. `ServeHTTP` calls `Limiter.Check`, which builds one key per
rule from its own clock, asks the negative cache, and runs `batch_check.lua`
once for all rules. The outcome goes to the breaker; on an error the breaker
decides between failing closed and `degrade`, which uses local quotas. An
admitted request holds its concurrency slot until the deferred `Release`.
While a response streams, `sseSink` charges the token ledger through
`TokenReserve`, and `TokenSettle` corrects the estimate at the end. Rules and
policy come from `config.Store`: admin handlers commit to SQLite and call
`LoadFromDB`, which publishes to Redis; other instances follow by Pub/Sub and
polling. A snapshot that is applied refreshes the policy, whose listener replaces
the options of the handler, the number of instances the limiter divides by, and the
log level. `observe` and the error exits of the handler count each request.
`main` starts all of it in order, marks the process ready and, after a signal,
shuts the servers down before it closes the Redis client.

What is hard here:

- requests of many instances interleave between the reading of a clock, the
  execution of a script and the reading of its reply; clocks differ;
- the Redis client resends a script after a broken connection, so it can be
  executed twice, or after the gateway has given up;
- instances crash between taking and releasing a slot;
- the breaker and the config store read shared fields outside their locks, or
  have no lock;
- responses outlive windows, slot timeouts and configurations, and so does the check
  that admits them: its keys are built before its script runs;
- steps of a configuration load fail one by one, notifications get lost;
- cells of metrics are created and reset without a lock around use and creation;
- a request has a dozen ways out, each of which counts it and gives back its slot;
- readiness is set by two goroutines, while a signal may come at any step.

`PROJECT.json` lists these hazards at their lines, with the properties that
watch them.

## 2. Modules

| module | models | composed of |
|---|---|---|
| `RateRules` | rules, window boundaries, keys | |
| `BatchCheck` | the Redis keyspace and its scripts | extends `RateRules` |
| `Limiter` | Check, Release, degradation, reserve of several instances | extends `BatchCheck` |
| `Sums` | lemmas on sums over finite sets, for the proofs | |
| `LimiterProofs` | theorems on `Limiter`, for every kind of rule | extends `Sums` |
| `Breaker` | the breaker of one instance under its goroutines | |
| `BreakerProofs` | theorems on `Breaker` | |
| `TokenLedger` | metering of responses and the ledger of one token rule | |
| `LedgerProofs` | theorems on `TokenLedger` | extends `Sums` |
| `ConfigStore` | the way of a configuration from SQLite to every instance | |
| `ConfigProofs` | theorems on `ConfigStore` | |
| `Tally` | abstract: what a counter promises to whoever scrapes it | |
| `Metrics` | counters, gauges, histograms and ring windows under goroutines | implements `Tally` |
| `MetricsProofs` | theorems on `Metrics` | extends `Sums` |
| `Policy` | resolution of the runtime policy and its way to its consumers | |
| `Probe` | abstract: what an orchestrator may rely on when it polls /ready | |
| `Process` | the life of a process | extends `Policy`, implements `Probe` |
| `ProcessProofs` | theorems on `Process` and `Policy` | extends `Sums` |
| `Resolver` | business, client IP, upstream of a request | |
| `Gateway` | requests on their way through the proxy | extends `Resolver` |
| `GatewayProofs` | theorems on `Gateway` | |
| `MC*` | constants for TLC | |

A definition named Mutant in its comment is not part of the model: it is a
changed form of the definition that follows it, kept to show that the property
it belongs to can fail.

**RateRules, BatchCheck.** Time is a number of ticks. A key is a record of the
kind, the values of the rule's dimensions, the window length and its start; as
in the code, no part of it names the rule. Escaping and hashing of values are
abstracted to distinct values. A script is one atomic step on `counters`
(fixed windows and ledgers), `slides`, `buckets` and `conc`. `BatchPass` is a run
of `batch_check.lua` in which all rules pass, `BatchReject` one in which a
rule is the first to reject; the latter still sweeps sorted sets.
Token buckets count in fractions `1/Unit`, chosen so that the refill of a tick
is whole.

**Limiter.** A request is `new`, then `wait`s for its script, and is then
`serve`d, or `degraded`, or `over`; after `serve` comes `release`. `Check`
reads the clock and sends; `ExecPass`/`ExecReject` is the execution in Redis, at
most `MaxDelay` later; `Decide` reads the reply; `Resend` is the Redis
client's retry (`MaxRetries: 2` in `newRedis`), which leaves the earlier attempt
on its way; `FailClose`, `DegradeAllow`, `DegradeReject` follow an error;
`Crash` loses all local state of an instance. Which of them the breaker
chooses is the constant `BreakerVerdicts` here; the breaker itself is a module of
its own. `passes` and `passAt` are history variables.

**Breaker.** A critical section is a step; the reads of the atomic `state`
outside the mutex (`OnSuccessLoad`, `DegradedLoad`) are steps of their own. Times
are kept as distances to the present, so time is unbounded and the state space
finite.

**TokenLedger.** One token rule, one ledger per window. A response is admitted in two
steps, as every call to Redis is made: `Check` fixes the window of the key, `ExecAdmit`
is the batch, later, perhaps in the next window. `how` says in what way it was
admitted: `checked`; `stale`, by the ledger of a window that was over when the batch
was executed; or `degraded`, when the call failed and no ledger was looked at
(`CheckFails`). Then it goes through `open`, with calls to Redis in `flush`, `tail` and
`settle`, each of which takes its own window; Redis executes it later, it fails
(`CallFails`), or it is executed and sent again (`Replied`). Content is reduced to a
number of tokens. A charge that the gateway gives up may still be executed
(`ExecLate`), up to `MaxLate` of them, also after the settlement of its response.
Clocks agree; skew makes more admissions `stale`.

**ConfigStore.** The admin handlers of the one writing instance, and the
startup, subscriber and poller of every instance, are threads; each access to
SQLite, Redis or an atomic pointer is a step. A configuration is two numbers,
how many rule writes and policy writes it reflects. A failed read of Redis by
the subscriber has the effect of a lost message, and one by the poller that of a
poll that comes later. Two failures of `INCR` in one second would yield the same
version twice; `versions` allows one. The history variable `overlap` records that two
goroutines of an instance were between the two stores of `apply` at once.

**Metrics.** Two goroutines serve requests, one renders `/metrics`. Each atomic
operation is a step, a critical section of a vec's mutex is one, except for the read
lock that `write` holds over the cells. A cell is named after the goroutine that
creates it, so that a second creation is a different cell. The ring window keeps its
epochs, its compare-and-swap and its reset apart, and so does its sum.
The clock moves freely, but no goroutine is held up for a whole turn of the ring (60 s)
between its reading of the clock and its addition.

**Policy, Process.** Values of the policy are numbers; `Parsable` and `Accepted` are
the sets of values that parse and that are within bounds, key by key, so that the
differences between the parsers of the environment and of the page (the former look
at no bounds) remain. Every load and store of an atomic pointer in
`refreshPolicy` and in the listener is a step. `main` is one thread, from the opening
of the store to `exited`; the subscriber or poller, the state loop, the servers, the
timer of the grace period and the signal run beside it. Every timeout may pass from
the moment its timer runs. `published` says whether the published snapshot has
businesses: `ChangeBizs` brings the first or removes the last at any time, and
`Receive` brings whatever is published, an empty snapshot and an old policy included.
The one assumption on real time is in `Slept`: within the
two seconds after a signal a server goroutine gets to `ListenAndServe`.

**Resolver, Gateway.** A request is a record with its local variables and what it
leaves behind. `Resolve`, `Lookup`, `CheckPasses`/`DegradedPass`/`Reject`, `Forward`,
`Redirect`, `DoAnswers`/`DoFails`, `Charge`, `ResponseEnds`, `Release` follow the
handler; `TimerFires`, `ClientLeaves`, `ClientStalls`, `SweepElsewhere` and `Publish`
are what happens to it. The limiter is reduced to what `Check` can answer and to the
set of identifiers that hold a slot. A script (`RunScript`) sweeps any of them, since
slot timeouts are not timed here; `swept` records the sweeps of slots in use. A script
whose reply is lost leaves a slot behind, whether the request is then rejected or
passes degraded. `client.Do` follows redirects, up to `MaxRedirects`, to the URLs in
`Locations`; it fails with a deadline of its own (dial, response headers) as well as
with that of `forward`. Hosts are sequences of labels in lower case; the answer of a
name lookup is a set of possible outcomes. `Shapes` are the requests that clients send.
X-Forwarded-For is what the client sent as its first line and as further lines; each
proxy adds its peer to one joined line or, where `ProxiesJoin` is false, as a line of
its own, and `HeaderGet` is the first line of the result. The text of URLs is not
modelled: a URL that `NewRequestWithContext` refuses is a flag of the shape.

## 3. Runs

| run | module | checks | distinct states |
|---|---|---|---|
| `quota` | MCLimiter | `QuotaBound`, `CounterExact`, `ConcBound`, `OwnSlot` | 137,273 |
| `degrade` | MCLimiter | `TypeOK`, `DegradedBound` | 129,175 |
| `rates` | MCLimiter | `SlidingKeyBound`, `BucketBound`, `NegCacheSound` | 63,533 |
| `breaker` | MCBreaker | `TypeOK`, `NoMissedTrip`, `Recovers` | 44,238 |
| `ledger` | MCTokenLedger | `TypeOK`, `LedgerBalanced`, `OvershootBound` | 2,103,211 |
| `versions` | MCConfigStore | `TypeOK`, `VersionUnique`, `TornOnlyByOverlap` | 1,991,396 |
| `converge` | MCConfigStore | `WritesArrive` | 377,070 |
| `metrics` | MCMetrics | `TypeOK`, `HistogramExact`, `SlotExact`, `RateWithinWindow`, `CounterRefined` | 2,056,149 |
| `process` | MCProcess | `TypeOK`, `ListenersFollow`, `NoLostRelease`, `ProbeRefined`, `StopsOnSignal`, `BecomesReady`, `PolicyArrives` | 285,016 |
| `gateway` | MCGateway | `TypeOK`, `CountedOnce`, `GaugesExact`, `SlotOfItsOwn`, `ChargedAsAdmitted`, `ResolvedAccepted`, `TrueIP`, `EndsInTime` | 433,027 |

What they show:

- **A fixed window never oversells** (`QuotaBound`), for the cluster, with clock
  skew, resends, crashes and late executions. It needs the 60 s of grace on
  the expiry: without it a late command finds its counter gone.
- **Only passes are charged** (`CounterExact`): rejected batches leave no trace on
  counters.
- **Concurrency** (`ConcBound`, `OwnSlot`): at most `max_concurrent` requests that
  are within their timeout hold a slot, and a slot is not taken from its holder,
  provided request ids differ.
- **Sliding windows and buckets** hold their bounds under one key, and the
  **negative cache** rejects only what Redis would reject (for rate rules).
- **Local quotas** that degraded instances remember to have given out add up to at
  most the limit, when the limit is not below the number of instances.
- **The breaker** misses no trip and recovers.
- **The ledger** of a window is exact while calls succeed (`LedgerBalanced`), and
  exceeds its budget by at most (responses open at once + responses admitted blindly)
  x (largest charge) x (sendings of a call), and one charge more for each call that is
  executed after it was given up (`OvershootBound`). Blind are the degraded admissions
  and the stale ones. It bounds the ledger, not what was consumed: with failed calls a
  settlement can refund what was never charged.
- **Versions** identify a configuration, polling makes up for all lost
  notifications, and the rules and the policy of an instance are of one snapshot
  unless two of its goroutines have applied snapshots at once (`TornOnlyByOverlap`).
- **Metrics**: `requests_total` implements `Tally` (`CounterRefined`): every addition
  is shown, whoever creates the cell, and scrapes never go down. A histogram is
  exact whenever no `Observe` is under way. A slot of the ring window is reset once for
  each of its seconds and keeps all that is added after the reset (`SlotExact`).
- **Process**: `/ready` implements `Probe` (`ProbeRefined`): its answers go forward
  only. A signal ends the process, a configuration with businesses that stays published
  makes it ready, and a request loses its release to a closed Redis client only past the
  grace period or in the early ends of `run`. The policy on the page comes into force
  unless refreshes overlap.
- **Gateway**: whatever way a request ends, it is counted once in `requests_total` (but
  for an unbuildable URL) and with the status it was answered, and both gauges come back
  to zero; `Resolve` hands on only a URL that was accepted; the request is charged to
  the rules that admitted it, loses its slot only by its release or after its timeout,
  and ends in time unless it streams or its client stops reading.

Deadlock checking is off where bounds on time, requests or admin operations make
the model stop; the breaker has no such end and is checked for deadlock.

### Disagreements with the documents

Two runs end in a counterexample to a statement of a document or a comment, which
`PROJECT.json` quotes:

| run | property | what happens |
|---|---|---|
| `boundary_burst` | `NoBoundaryBurst` | a sliding window has the aligned window start in its key: twice the limit around a boundary |
| `load_fails` | `WritesArrive` | a load that fails after the commit does not raise the version, so no poll brings the write |

Seven more statements are properties of the modules too, and the models refute them.
They are in no run: each is found by TLC within seconds when it is put in the place of
the properties of the configuration named (without its SYMMETRY; for
`OvershootAsDocumented` with `Lossy = FALSE` and neither resends nor late executions).

| property | configuration | the statement | what happens |
|---|---|---|---|
| `OvershootAsDocumented` | `ledger` | `README.md:153`, `ledger.go:15`: 单窗口最多超支「并发数 × 单请求消耗」, a window is overspent by at most the responses at once times what one consumes | a batch executed in the next window has looked at the budget of the last (`limiter.go:285`), so a response is admitted to a window whose budget is used up; a degraded admission looks at no budget |
| `ScrapeConsistent` | `metrics` | `registry.go:131`: 唯一的弱一致性是跨 vec, the only weak consistency of `Render` is across vecs | `Observe` adds to bucket and total in two steps while `write` reads them one by one (`metrics.go:166-204`): +Inf and `_count` of one histogram differ in one scrape |
| `NoLostCounts` | `metrics` | `window_test.go:29`: 并发写入不得丢计数, concurrent writes must not lose counts; `window.go:41-45` argues the same | an addition between the swap of an epoch and the `Store(0)` after it is erased (`window.go:46-51`) |
| `ReadyOnceLoaded` | `process` | `main.go:140`: "staying not-ready until config arrives" | after a failed bootstrap a configuration without businesses arrives, and `main.go:327` waits for businesses, though the same configuration at startup makes the process ready at once |
| `ListenersSerial` | `process` | `policy_store.go:22`: 在 Store 内部串行调用, listeners are called serially inside the store | the mutex is released before the calls (`policy_store.go:110-116`): two goroutines are in the listener at once, and the older policy can be applied last |
| `RpmCountsAll` | `gateway` | `handler.go:553-554`: 这里是所有请求路径的统一收口, `observe` is where all paths of a request end | requests answered 400, 403, 499, 502 or 504 do not come to it, so `requests_per_minute` leaves them out |
| `SentWhereAccepted` | `gateway` | `handler.go:259-265, 291`: the target was decided and checked by `Resolve`, nothing after it can change it | neither `http.Client` has a `CheckRedirect` (`handler.go:132-133`): `client.Do` follows a redirect to a URL that `Validate` has not seen |

The models have further behaviours worth a look; the first group is reached by the
models, and `PROJECT.json` describes it under its hazards:

- a rejection by a concurrency rule stays in the negative cache after the slot was
  released (`limiter.go:322`, against `limiter_test.go:198`);
- `degraded()` acts on a `state` it read before another goroutine closed the breaker,
  and makes it half-open again (`breaker.go:63`); `Recovers` shows that this ends;
- two applies that overlap leave the rules of one snapshot with the policy of the
  other (`store.go:283`), and listeners called in the opposite order of the stores
  (`policy_store.go:115`);
- `WritesArrive` fails as well with `Failing = {"set"}` (the version is raised, the
  snapshot not written) and `{"incr"}` (a version taken from the clock makes instances
  deaf to later ones); two concurrent loads can leave the older content in Redis; a
  restarting reader publishes its own database;
- requests that carry one X-Request-Id share a slot: the first to end gives it back
  for all (`handler.go:150`);
- a settlement across a window boundary can be cut off at zero;
- a proxy that adds a second line of X-Forwarded-For instead of extending the first is
  not seen by `Header.Get` (`extract.go:131`): `TrueIP` is stated for proxies that
  hand on one line;
- a URL that cannot be built is answered with 502 and is not in `requests_total`
  (`handler.go:266`).

Found while reading, and outside the models:

- `SSEIdleTimeout` is read from the policy and used nowhere, though
  `policy_spec.go:95` and `handler.go:133` speak of an idle control; a stream whose
  upstream goes silent does not end, nor does one whose client stops reading, for the
  proxy's server has no WriteTimeout;
- a stream that was not asked for with an Accept header gets the timeout of an
  ordinary request;
- a body over the limit is answered with 502, where `policy_spec.go:109` says 413.

## 4. Bounds

- Limiter: two or three requests, so that limit + 1 of them meet; one or two
  instances; in `quota` one tick of skew and of delay and one resend;
  windows of 2 and 3 ticks and a horizon (`MaxTime`) that crosses a
  window boundary in every run, and in `quota` and `degrade` a slot timeout.
  `Grace` is the least value the assumption `GraceCovers` allows, or
  one more. The limits of `rates` are chosen so that the sliding window binds
  within one key and the bucket across its boundary. `Requests` are
  interchangeable (symmetry), and so are instances whose clocks agree.
- Breaker: two goroutines, threshold 2, ratio 1/2, a window of 2 ticks, and
  `MaxCalls` (4) calls per window, enough for a trip and for successes that
  prevent it. `NoMissedTrip` is proved for any number of goroutines.
- TokenLedger: two responses, of which the concurrency rule lets one be open at once; a
  degraded admission, which takes no slot, opens the other beside it. Four windows with
  ledgers that expire, usages up to 2, one resend and one late execution; the budget is 2
  and the buffer 1.5. The bound is tight enough: an admission that lets one token too
  many pass breaks it. Both properties are proved for any number of responses.
- ConfigStore: the writer and one reader, or the writer alone where two
  admin requests run at once; two admin requests, one failure, one restart.
- Metrics: two goroutines, two requests, one scrape, a ring of two slots over
  three seconds, so that a slot is used again while a goroutine and the scrape are at
  it. All of its properties are proved for any number of goroutines, requests and scrapes.
- Process: `main` and one goroutine that applies snapshots (the listener that `main`
  calls at its registration overlaps with it), three keys of the policy, two pages,
  one change of the page, any number of changes of the businesses, one request under
  way. With a second refresher only more overlaps are reached, which the properties
  exclude.
- Gateway: two requests of four shapes: with and without a header for the upstream, an
  identifier, a forged X-Forwarded-For in one line or two, asking for a stream or not, a
  URL that cannot be built, a path without a business; two businesses, two
  configurations, two sets of options, one change between them, one redirect (the client
  allows ten). Local variables of a request are forgotten when the handler no longer uses
  them, which keeps the states few. `AllowPrivate` is true, as `main` leaves it, so that
  only URLs from headers are looked up. `Allowlist` is empty in this instance, so
  `MatchAllowlist` is not reached.

## 5. Fairness

- `Breaker!FairSpec`: goroutines that are inside `onSuccess` or `degraded` go on
  (the Go scheduler is fair and the critical sections do not block), requests
  keep coming, and time passes. `Recovers` is about a Redis that stays healthy;
  nothing is assumed about when that begins. Without requests an open breaker
  stays open: it has no timer of its own.
- `ConfigStore!FairSpec`: threads go on, the subscriber reads its channel, and the
  poll timer keeps firing (it is reset in every round). Admin requests,
  failures and restarts need not happen. Delivery of notifications is not
  assumed: `converge` may lose all of them.
- `Process!FairSpec`: `main`, the server goroutines, the poller, the state loop and the
  timer of the grace period go on. Requests need not end, so `StopsOnSignal` rests on
  the grace period alone; the state loop is not relied on after a signal, since its
  select may choose the end of the context. Signals and changes need not come.
- `Gateway!FairSpec`: the goroutine of a request goes on by itself up to a wait for
  the upstream, the timer of a deadline fires, and a wait whose deadline is over or
  whose client has gone returns. Upstreams need not answer and clients need not read.

## 6. Proofs

Every safety property that a passing run checks is also a theorem, for all values of
the constants. Hardly any of them is inductive as it stands; what follows names, for
each module, the invariant that is, and the assumptions.

### The limiter (`LimiterProofs`)

For all rules, finite sets of requests and instances, skews, delays and resends. The
constants are assumed to be what `Rule.Validate` leaves of them, with `GraceCovers`:
skew plus delay is no more than the grace (60 s against 200 ms for a call and clocks
kept by NTP).

| theorem | states | under |
|---|---|---|
| `TypeCorrect` | `TypeOK` | |
| `QuotaHolds` | `QuotaBound` | |
| `ChargedExactly` | `CounterExact` | |
| `SlotsStay`, `ConcurrencyHolds` | `OwnSlot`, `ConcBound` | `DistinctIds`, `OneTimeout` |
| `DegradedWithinLimit` | `DegradedBound` | `AllKnown`, `OneLimit` |
| `SlidingHolds` | `SlidingKeyBound` | `DistinctIds` |
| `BucketHolds` | `BucketBound` | `OneBucket` |
| `NegCacheHolds` | `NegCacheSound` | `OneRate`, `OneBucket` |

The hypotheses say where the code gives no guarantee. `DistinctIds`: a request id that
a client sends twice shares one entry of a sorted set. `OneTimeout`, `OneLimit`,
`OneBucket` and `OneRate`: two rules with the same dimensions (and window) have the
same key, so what the one writes binds the other; the theorems are for rules that
agree on what they share. `AllKnown`: the configured number of instances is not below
the real one.

- *Quota.* `QuotaBound` counts requests while the script looks at a counter.
  `QuotaInv` connects them: a command on its way was sent at most `MaxDelay` ago
  (`CallTimes`); what the gateway takes for a pass is one (`PassKnown`); a counter that
  is not zero expires no earlier than the last moment at which a command can name its
  key (`CounterLives`); and until that moment its value is at least the number of
  requests admitted under its key (`Counted`). A pass then finds fewer than `limit` of
  them; a counter expires only when its key is dead, and from then on nobody is added.
- *Exactness.* `ExactInv` makes the count an equation: a counter is the number of its
  charges, one for each execution that passed and each rule of that key, or it has
  expired with its window (`Exact`); a call is executed at most once for each attempt
  of the Redis client (`Attempts`).
- *Slots.* `SlotInv`: a request within its timeout still has the deadline that its
  admission wrote (`SlotTimes`), and no sorted set has more live members than a rule
  on it allows (`SlotsCounted`). Requests that hold a slot map one to one into live
  members, since their ids differ.
- *Local quotas.* No instance gives out more of a key than its share
  (`SharesKept`), and the shares of `InstCount` instances add up to at most the limit.
- *Sliding windows.* For the length of the window the sorted set has the time of
  every admission (`SlideRecords`), so that the script counts at least those.
- *Buckets.* `Flow` is the balance of a bucket: the requests admitted since any
  moment s and the tokens that are left are no more than a full bucket and what
  flowed in since s; a bucket that has expired has had the time to fill up.
- *Negative cache.* A rejection bars its key until a moment of Redis's time:
  whatever is executed until then, the counter stays at its limit (`FixedBar`), the
  entries stay in the window (`SlideBar`) or the bucket stays short of a token
  (`BucketBar`). `NegInv` says so of every rejection on its way and every entry of
  the cache.

### The breaker (`BreakerProofs`)

`TypeCorrect` and `TripsInTime` (`NoMissedTrip`), for any number of goroutines,
threshold, ratio, window and cooldown. The invariant is `TypeOK /\ NoMissedTrip`:
successes only lower the share of failures, a rolled window and a trip reset the
counts to zero, which is no outage since the threshold is positive, and a failure
that completes an outage trips.

### The token ledger (`LedgerProofs`)

`TypeCorrect`, `LedgerBalances` (`LedgerBalanced`) and `OvershootHolds`
(`OvershootBound`), for any number of responses, any budget, buffer, window, number of
resends and late executions. `TypeInv` says which call a response can have on its way,
and that what it reserves is part of what it counts as flushed. `OvershootInv` bounds
the ledger of a window by the budget and what is still due on it: the executions left
of calls on their way and of calls given up (`Due`), and what open responses can still
reserve (`Future`). An admission in time moves a response from nothing to its largest
charge only while the ledger is below the budget and a slot is free; a blind one raises
the bound by what it adds; every other step pays out of what was due. The sums over
responses are those of `Sums`.

### The config store (`ConfigProofs`)

`TypeCorrect`, `NotTornAlone` (`TornOnlyByOverlap`) and, under `OneClockVersion`,
`VersionsIdentify` (`VersionUnique`), for any number of instances, handlers, failures
and restarts. `TornInv`: as long as applies do not overlap, at most one goroutine of an
instance is between its two stores, it brings the policy of the snapshot it has stored
(`OneApplies`), and if there is none the two agree (`Agree`). `VersionInv`: a version
comes from the counter or, once INCR has failed, from the clock (`VersionsKnown`); the
counter stays below the clock since each load takes one (`VersionsCounted`); so no two
snapshots share one (`Distinct`). `OneClockVersion` allows one version from the clock:
two in one second are equal in the code as well.

### The instruments (`MetricsProofs`)

`TypeCorrect`, `CounterImplemented` (`CounterRefined`), `SlotsExact` (`SlotExact`),
`RateHolds` (`RateWithinWindow`) and `HistogramHolds` (`HistogramExact`), for any
number of goroutines, requests, scrapes, any histogram and any ring.

- *Counter.* The abstract value is the cell in the map. Who is about to add has that
  cell (`OwnCell`), since `Create` puts one there only if there is none; a cell outside
  the map has not been added to (`FreshCells`), so that the value does not jump when it
  gets there.
- *Ring.* `RingInv`: an epoch is a second of its slot that has come (`EpochsRight`);
  who is past the compare-and-swap still finds its own epoch (`Holders`), which is where
  the bound in `Tick` is needed, that nobody is held up for a whole turn of the ring;
  and one goroutine resets a slot (`OneResetter`). `RateInv` bounds what the renderer
  has read of the slots so far by what was recorded for seconds of the window.
- *Histogram.* `PartsInv`: buckets, total and sum differ by the goroutines between
  the additions, one term for each.

### The process and its policy (`ProcessProofs`)

`TypeCorrect`, `PolicyFollowed` (`ListenersFollow`), `ReleasesReachRedis`
(`NoLostRelease`) and `ProbeImplemented` (`ProbeRefined`), for any keys, bounds, pages,
goroutines and number of requests.

- `ResolveComputes`: the fold of `ResolvePolicy` over the keys takes each key for
  itself, whatever their order. `Overlay` solves the equation of the fold, and two
  solutions agree, from the smallest set of keys on which they would not.
- `PolicyInv`: nobody refreshes before the base is injected (`Order`); as long as
  no two refreshes overlap there is at most one (`Alone`), the policy it brings is that
  of the overrides, it is in force but for the steps between the comparison and the
  store, and each consumer has it once its own step is done (`Progress`).
- `LifeInv` ties the position of `main` to the states of the servers (`Starting`), says
  that past the wait for the proxy either no request is left or one of the causes has
  come about (`Ending`), and that the ready flag comes with a loaded configuration
  (`Configured`); each step of the process is then a step of `Probe` or leaves its two
  variables alone.

### Requests (`GatewayProofs`)

`TypeCorrect`, `EndsCounted` (`CountedOnce`), `GaugesRight` (`GaugesExact`),
`SlotsOwned` (`SlotOfItsOwn`), `ChargesStay` (`ChargedAsAdmitted`), `TargetsVetted`
(`ResolvedAccepted`) and `IPNotForged` (`TrueIP`), for any number of requests, shapes,
configurations, options and redirects. `GatewayInv` says how the variables of a request
go together at each of its steps (`Sound`): nothing is counted before its answer, and
everything once it only has its slot to give back (`CountedRight`); what the cache holds
was accepted once (`CacheAccepted`). A sweep or a release takes the slot of a request
without an identifier only if it is recorded as swept or is that request's own
(`SlotsKept`). Assumed are `FreshIds`, that ids the gateway makes up are no client's,
and `RealIPFromProxy`, that X-Real-IP, where the gateway is told to trust it, was set by
the proxy.

### Only model-checked

Liveness (`Recovers`, `WritesArrive`, `StopsOnSignal`, `BecomesReady`,
`PolicyArrives`, `EndsInTime`): fairness and ENABLED are outside the prover's reach.
Sums and folds are recursive functions over sets of any size, for which the prover has
no induction; where the proofs need them (`Sums`, `ResolveComputes`) they argue from a
smallest counterexample.

## 7. Plan

1. Done: the limiter with its scripts, the breaker, the token ledger with late
   executions, the config store; the policy and its listeners, the instruments, the
   life of the process, the way of a request; a theorem for every safety property of
   the runs; the refinements of `Tally` and `Probe`.
2. Next in the model: the breaker composed with the limiter, so that
   `BreakerVerdicts` becomes a state; script errors of two rules that share a key
   of two Redis types (excluded by `NoTypeClash` so far); a bound for local quotas over
   restarts; an allowlist in the instance of `Gateway`.
3. Abstract specifications: a quota as a set of admitted requests per window,
   which `Limiter` implements; an atomic configuration register, which
   `ConfigStore` implements where it converges; a ledger that charges each
   response once, which `TokenLedger` implements without failures.
4. Further theorems: the refinements of item 3; action properties of the limiter
   (a counter never goes down but by its expiry) and of the config store (the version
   in force on an instance goes back only with a restart), once runs check them.

## 8. Not modelled

The checks of `Rule.Validate` and the bounds in `policySpecs` are assumptions on
constants: the models start from rules and sets of values that passed them. The views
of the admin API (business list, policy page, health JSON), its authorisation and token
generation, the checks of a business's payload and the audit row (written in the
transaction of its change) share no state with the protocols
above; the browser UI is static. The export of logs to Logfire is I/O without a way
back. Migration and seeding run before anything else does. The garbage collection of
the local maps removes only entries without effect. The estimation of tokens from text
and the parsing of SSE frames are reduced to a number of tokens. The mock upstream and
the load generator are test tools.
