# A TLA+ model of the LLM gateway

The gateway is a Go HTTP server that stands between clients and the providers of
large language models. A chat request is authenticated, rate limited, looked up
in two caches, routed to a provider with fallbacks and circuit breakers, written
back to the caches, and recorded in four places. This directory models the parts
of it that keep state or run concurrently, checks them with TLC on small
instances, and proves with TLAPS, for every value of their constants, every safety property
that these runs find to hold.

Paths such as `registry.go` are those of the repository's Go files
(`internal/service/provider/registry.go`); `PROJECT.json` maps every definition
to its lines.

## Inventory

| Component | State | Operations | Hard behaviour | What makes it correct |
|---|---|---|---|---|
| circuit breaker (`circuitbreaker.go`) | `consecutiveFailures`, `openedAt`, one mutex | `Allow`, `RecordSuccess`, `RecordFailure`, `IsOpen` | the caller passes the time, and the time it passes was read before the mutex, or before a whole call; late reports | the two fields agree; an open breaker blocks, for about the open timeout, then recovers |
| provider registry (`registry.go`) | `circuits` map (written without a lock), configured routes and fallbacks | `NewRegistry`, `ChatCompletion`, `buildRouteQueue` | requests race on every breaker; fallback cycles; several kinds of failure on one walk; cancelled clients | the queue is complete and ends; a healthy route serves; the error is the right one; one breaker per configured route |
| provider clients (`http_provider.go`) | none | `ChatCompletion` | timeouts, cancellation, odd statuses | the outcome is classified |
| rate limiting (`ratelimit.go`) | a token bucket for all, one per limited model | `Allow`, the middleware | two buckets in a row, neither undone; fractions of tokens | no window gets more than rate and burst; no caller is refused for nothing |
| L1 cache (`cache/l1.go`) | one Redis hash with one expiry | `Get`, `Set`, `evictIfNeeded` | several Redis commands per `Set`, lost commands and lost replies | bounded size; entries live their TTL; an idle cache empties |
| L2 cache (`cache/l2.go`) | one Redis key per entry | `Search`, `Store`, `evictIfNeeded` | `KEYS` and then `GET`s, with everything in between; Stores that choose the same victim; an index out of range | a hit matches; no better entry is missed; bounded size |
| embedding worker client (`client.go`) | the cached health answer | `Healthy`, `Generate` | probes without a lock, retries, cancellation | the answer follows the worker; a call ends, neither early nor late |
| chat handler (`chat.go`) | locals of each request, captured by a deferred recorder | one request | concurrent lookups and stores, partial failures after the answer, panics | the answer is the one asked for; it is recorded as sent; its tokens are counted once for each time it is given |
| embedding handler (`embedding.go`) | locals of each request | one request | every way `Generate` can fail | recorded as sent, with the documented status |
| usage statistics (`stats.go`) | counters and a map under a mutex | `Record`, `Snapshot` | read while recorders are between the sinks | agrees with the request log |
| request log (`postgres.go`, `request_log.go`) | table `request_logs` | insert, two aggregate queries | failed inserts; rows between the queries | totals and models bracket each other |
| workflow tracer (`workflow.go`) | replay file, session summaries, two mutexes | `Record`, `GetSummary`, `ListSummaries` | file and summary are separate; copies; restarts | summary and file agree; a copy adds up |
| API key authentication (`auth.go`) | Redis hashes, which nothing in the gateway writes | look up | keys come and go, and lookups fail, while requests pass | who is served had a key; who is refused cost nothing |
| API key administration (`admin.go`) | a Postgres table, which nothing but the list reads | create, list, delete | none: one statement each | |
| server (`cmd/server/main.go`) | none | routes, start, graceful shutdown | a limit of 5 s for calls of 30 s | what was accepted is recorded |

Configuration, error codes, logging, tracing, the Redis wrapper, the load test
and the deployment files have no state of their own. The error codes
(`pkg/errors`) decide which status a failure is answered with.

**How they interact.** `APIKeyAuth` and then the rate limits pass a request to the
chat handler; embedding requests pass `APIKeyAuth` only. The chat handler calls L1, then `Healthy`, `Generate` and L2, then the registry, which
calls the provider clients through the breakers; it writes back to L1 and L2.
Its deferred function writes to the statistics, the request log and the tracer,
in that order, also when the handler panics. The embedding handler calls
`Generate` once and ends with the same recorder. The admin handlers read the same
three. Everything in memory is shared by all goroutines; Redis and Postgres are
shared with other gateways as well.

## Modules

| Module | Models | Kind |
|---|---|---|
| `Breaker` | the struct and its four methods, as functions of a record and a time | operators |
| `CircuitBreaker` | one breaker with concurrent callers | specification |
| `HalfOpenTrial` | the same, watching the trial call after the open timeout | history on `CircuitBreaker` |
| `Routing` | from the configured models to the queues of routes | operators |
| `WeightedRouting` | the draws of one request, over every small configuration | specification |
| `ProviderRegistry` | concurrent requests walking their queues; composes `Routing` and `Breaker`, and is shown to implement `CircuitBreaker` on each configured route | composition |
| `Bucket` | the token bucket, as functions of a record and a time | operators |
| `TokenBucket` | one bucket and what it handed out in any window | abstract specification |
| `RateLimit` | the middleware with all its buckets; extends `TokenBucket` by the models' buckets, each of which is shown to implement `TokenBucket` | composition |
| `Errors` | the errors in use, their codes and statuses | operators |
| `Admission` | `APIKeyAuth` and `RateLimit` as the routes put them together; extends `RateLimit` | composition |
| `L1Cache`, `L2Cache` | the caches, Redis command by command | specifications |
| `WorkerHealth` | `Healthy` and its shared answer | specification |
| `EmbeddingWorker` | the whole client: `Healthy` and `Generate` | composition |
| `EmbeddingHandler` | the embedding handler around the whole client, which it is shown to use as specified | composition |
| `ChatCompletion` | the chat handler, with its parts answering or failing at any call | composition |
| `Recording` | the four sinks, their recorders, the admin reads, shutdown, crash and restart | specification |
| `MC...` | the instances for TLC | |
| `...Proofs` | `CircuitBreakerProofs`, `RoutingProofs` (`Routing`, `WeightedRouting`, `ProviderRegistry`), `AdmissionProofs` (`TokenBucket`, `RateLimit`, `Admission`), `L1CacheProofs`, `L2CacheProofs`, `EmbeddingProofs` (`WorkerHealth`, `EmbeddingWorker`, `EmbeddingHandler`), `ChatCompletionProofs`, `RecordingProofs` | proofs |

Actions are the steps between which other goroutines, other gateways or time can
get in. A method under a mutex is one action (`Count` is `UsageStats.Record`,
`Use` is `RateLimiter.Allow`), and so is a Redis command or a query. Local
variables that survive such a step are variables of the model with the name they
have in Go. Definitions called *faulty variant* are what a plausible bug would
turn the next definition into; no specification uses them, and each property is
known to fail under the one that `PROJECT.json` pairs with it.

**Time** is a counter. In `CircuitBreaker`, `ProviderRegistry` and `WorkerHealth`
the clock waits for requests that are `MaxLatency` old: that is the time-out of the
Go HTTP client, which ends every call. The time a goroutine waits for a mutex or
for a processor is taken to be part of that latency.

**Breaker.** `ZeroTime` is Go's zero `time.Time`; real readings are at least 0.
The half-open reset is in `AfterAllow`, as it is in `Allow`.

**Registry.** A breaker is named by its route and by the goroutine that created
it, so that two goroutines that both miss in `ensureCircuit` do get two breakers
(`Lookup`, `Create`). Reading and writing a Go map at the same time may also stop
the process: `MapFault`, which leaves the requests under way where they are, without
an answer. A fallback without an entry of its own is a route that `NewRegistry` has
made no breaker for, and nothing in the configuration is checked against it.
Disconnected clients have every further call fail with a wrapped error, which the
breaker counts; `abandoned` counts these failures on routes that work, up to the
threshold. The registry's queues are the sets `RouteQueues` of
`Routing`, where a loop over a list is a recursive function of an index; `WeightedOrders` says that draws without replacement
can produce every order, because `NewRegistry` makes every weight positive.

**Rate limits** count in parts of a token, `Cost` parts to a token, the clock ticks
`Cost` times a second, and a bucket earns its rate in parts per tick: the
fractions of the Go `float64` without its rounding. The window of
`NeverTooMany` and `NeverTooFew` starts at any time chosen at the beginning.

**Admission.** A key is its hash, and `Provide` is whoever writes the hashes
`api_key:...` into Redis: the gateway does not. `checkAPIKey` returns no error, so a
failing `HGETALL` is answered like an unknown key (`LookUpFails`), and the branch
that would answer 500 (`auth.go:42-46`) is not in the model. `seen` remembers
whether the key was in Redis while the request was in `APIKeyAuth`, and `spent` counts
the tokens it was given.

**L1** keeps of an entry only when it was set. A failing command may have been carried
out with its reply lost: an HSET that is reported as failed ends the `Set` before its
EXPIRE (`l1.go:93-94`), with the entry stored or not. `lost` says that a `Set` failed
with its entry stored and that no EXPIRE has come since. `HKEYS` returns fields in an order
that Redis does not promise, so any of them may be evicted. **L2** knows vectors
by their similarity; a key determines its model, because the model is part of
what `GenerateCacheKey` hashes, but not its vector, which the worker computes
anew. Two Stores may run at a time; `raced` counts those that began while another
one was under way. `EvictShare` is the 10 of `len / 10`. Both caches may hold entries at the
start: Redis outlives the gateway.

**Worker.** `worker` says whether the embedding worker answers properly now. An
attempt that fails retryably needs it to be down, one that is served or rejected
needs it to be up, and a cancelled one needs neither.

**Embedding handler.** A slot of `Calls` is one request with its call of `Generate`.
The worker's answers are told apart by their status alone; `Retryable` decides which
of them end a call at once and which are left when the attempts run out. The
handler's own steps take no time (`HandlerTick`). The tokens of an answer may be 0: the
client accepts an answer without usage. The branch for a nil client is
included, though `main` never passes one.

**Chat handler.** A prompt stands for messages together with sampling parameters,
as in the cache key; `Meaning` is what L2 sees of it. Caches forget only by
missing: `L1Miss` and `L2Miss` are always possible, which covers expiry,
eviction, a failing Redis and an entry that cannot be decoded. The model that a
provider says answered is taken to be the one that was called. Streaming and JSON
replies leave the same state. The usage of an answer is one number, its total tokens; it
is stored with the answer and recorded again for each cache hit. `given` adds up the
tokens of the answers that requests got, `counted` those that were recorded, each for
answers of providers and for answers of the caches.

**Recording.** A metric is what one request records. A request is *accepted*, is
served, and is then in its recorder. `Shutdown` closes the listener; `Exit` is its
return when all handlers have returned; `CutOff` is the end of its five seconds, or a
crash, at any moment: the model does not need to know how long five seconds are,
since a provider call may take longer. `lost` counts the requests that got no row.
Latencies, costs, times and the last status are left out; so is `ListSummaries`.

## What is checked

| Run | Instance | Shows |
|---|---|---|
| `breaker` | 3 callers, threshold 2, timeout 3, latency 2 | all of `CircuitBreaker` while calls are shorter than the open timeout; liveness |
| `breaker_slow_calls` | 2 callers, threshold 3, timeout = latency = 3 ticks of 10 s | `TripBlocks` fails: see *Divergences* |
| `half_open_trial` | 2 callers, threshold 1 | `HalfOpenSingleTrial` fails: see *Divergences* |
| `registry` | 2 requests, model A with a provider that has a client and one that has none, a healthy fallback B without an entry of its own, threshold 1, hang-ups | a configured route keeps its breaker; the healthy route serves; errors explain themselves; refinement of `CircuitBreaker` |
| `registry_two_breakers` | the same, two requests on B | `OneBreakerPerRoute` fails: see *Divergences* |
| `weighted_routing` | every configuration of up to 2 entries over 3 models and 2 providers | draws proportional to weight; queues complete, finite, without repetition |
| `admission` | 2 requests, 1 key, a model with limit 1 and one without, global rate 1 and burst 4, with and without Redis | bounds over every window; refinement of `TokenBucket`; what a request spent follows from its answer; who is served had a key |
| `l1_cache` | 2 writers, 6 keys, limit 4, one command that fails or loses its reply | size, expiry of an idle hash, entries live their TTL |
| `l2_cache` | 2 writers, 1 reader, 3 keys, 3 vectors, limit 1, one failing command | a hit matches and is the best of those that stayed; the size is exceeded only by Stores that raced |
| `embedding_handler` | 2 health checks, 2 embedding requests in turn with 3 attempts each, statuses 404, 503, 504, answers with and without usage | lag of the cached answer; a call gives up neither early nor late; records match what was sent |
| `chat` | 2 requests at a time, 3 in all; 2 models, 2 prompts of one meaning, 1 policy, answers of 0 and 3 tokens | answers match; records match; tokens counted once for each answer given |
| `recording` | 2 recorders, 3 requests, 1 shutdown or crash, 1 admin request | the sinks agree; reads are bracketed; summaries add up; every accepted request has a row or was lost to a failure |

**Why these bounds are enough.** Two actors give every race of the kinds listed
under hazards; the breaker has three, so that two late reports can meet one new
call. Clocks run past the longest timeout once, so that trip, wait and recovery
happen in one behaviour. The threshold of 2 in `breaker` is the smallest at which the count is
a count; `registry` has 1, so that one failure, or one hang-up, opens a route, and the
other request meets it open. The second wait of `Generate`, before its third
attempt, is the first that would exceed the cap. An L1 of four with two victims is the smallest where two Sets evict
disjoint, overlapping and equal victims; in an L2 of one entry both Stores must
choose the same victim, which is the case that makes it grow. Three recordings give a summary updated
while another one is being read, on both sides of the restart. `MaxClock`,
`LastStart`, `MaxSets`, `MaxStores`, `MaxFaults`, `MaxRequests`, `MaxRecords` and
`MaxRestarts` are the bounds of the model; all others are parameters of the code.
Where such a bound stops the system, `CHECK_DEADLOCK FALSE` says so.

**Symmetry** is used only in runs without liveness properties.

**Fairness.** `breaker` assumes weak fairness of the clock and of every step a caller
takes by itself: the Go scheduler runs what can run, and a call returns or times out.
Arriving requests are not fair: nobody has to send. No other run needs fairness. In the
registry every request ends because its queue is finite and without repetition
(`QueueComplete`) and every call times out; unless the runtime stops the process, which
leaves its requests without an answer.

**Some properties have conditions.**

* `TripBlocks` needs calls shorter than the open timeout (see below).
* `HealthyRouteServes` excepts a 400 of an earlier candidate, which fails fast by
  intent, a request that has hung up itself, and a route on which as many calls were
  abandoned as trip a breaker: a hang-up counts as a failure of a route that is well
  (`registry.go:145`).
* `SizeBounded` of L1 allows one entry for each other writer and each failed
  command, and holds where one share of a full cache is at least as many as the
  writers. With the configured 100 000 entries a share is 10 000.
* `SizeBounded` of L2 allows one entry for each Store that began while another one
  ran. These add up: the next Stores evict one entry each and set one, so a cache
  that has grown does not shrink by eviction before its entries expire.
* `AnswersFollowWorker` counts from the last probe that was abandoned because its
  client hung up: that request's `false` is stored for all.
* `RecordsMatch` excepts the panic in L2's eviction: the recorder has 200 by then,
  and the client gets 500.
* `EmbeddingRecorded` compares statuses with `docs/SPEC.md:361-374` for the codes that
  table lists.
* `DurableAccount` holds with every way to lose a row counted in `lost`, so that what
  it says is that nothing else loses one, an orderly exit in particular.
* `OneBreakerPerKnownRoute` is about the routes that `NewRegistry` has made a breaker for.
  For the others it fails (see below); `ConfiguredNeverCreates` says that a queue of
  configured models has none of them.
* `IdleCacheExpires` and `LivesItsTTL` except the time from a `Set` that failed with its
  entry stored (an EXPIRE that failed, or an HSET whose reply was lost) to the next EXPIRE.
  Until then a new hash has no expiry, and an old one has that of its earlier entries.
* `TokensCounted` does not say that cached answers are free: the code counts their tokens
  again. It says that `cacheHit` tells them apart.

## What is proved

`tlapm` proves the following for any number of callers, requests, models and
keys, and any timeouts, rates and sizes allowed by the `ASSUME`s.

**`CircuitBreakerProofs`** (`LatencyAssumption`, `BreakerAssumption`). The
invariant has, besides types and `OpenIffTripped`: a caller's reading is not in
the future and not older than `MaxLatency`; `openedAt` and `trippedAt` are set
together; `openedAt <= trippedAt <= clock`; and a caller that is in a call while
the breaker is open read the clock no later than `trippedAt`. The last part is
what makes `OpenWindowBounds` inductive: without it a late report could move
`openedAt` past the trip. `NoAdmissionWhileOpen`, `NoEarlyLapse` and `TripBlocks`
follow step by step. `TripTakesEffect` is for every latency: the breaker trips only by a
failure report, and the trip blocks exactly when the call that is reported took less than
the open timeout. `TripBlocks`, which leaves that condition out, is what
`breaker_slow_calls` refutes.

**`RoutingProofs`, the queues** (`ModelsAssumption`, `WeightsAssumption`). `PicksAreProportional`: the
candidate that `weightedPickIndex` selects is the one whose interval of running sums
holds the number drawn, the intervals tile the total, and each is as long as its
weight. `QueuesAreComplete`: the state of the walk over the fallbacks is described by
the models it has passed, so that a step appends the routes of one model that are not
yet there, in one of their orders, and changes nothing when the model was seen.
`ConfiguredRoutesKnown`: every route that a walk over configured models collects is one
that `NewRegistry` has made a breaker for.

**`RoutingProofs`, the registry** (`RegistryAssumption`, `NoErrorAssumption`). The invariant `Walking` says
for each request what its position tells of its walk: all candidates before it were
skipped, and have a client, or there is a last error. That is what `RepliesAreExplained`
needs, whatever the breakers do meanwhile.
`OneKnownBreaker`: the breaker of a configured route is the one made at the start, and
the one that everyone on that route uses, whatever is created for other routes meanwhile.
`KnownRouteImplementsBreaker` is the refinement for any configured route; a fault of the map (`MapFault`) is a stutter of it, since
it ends every call without a report. Its invariant adds that a closed breaker has no trip.
Through the refinement `OpenRoutesBounded`
says of a route what `CircuitBreakerProofs` says of a breaker; `OpenRoutesBlock` needs no
more than that readings are of the past, and holds of every breaker.
`HealthyRoutesServe` assumes that healthy routes have clients. Its invariant says that no
breaker of a healthy route has counted more failures than calls on it were abandoned, so
that it is closed while these are fewer than the threshold, and that a request which has
not hung up has passed a healthy candidate only if as many were abandoned there as trip a
breaker.

**`AdmissionProofs`, the bucket** (`BucketAssumption`, `CostAssumption`). Two invariants
about the window. From above: what was taken and what is in the bucket are together at
most the capacity and the earnings from the start of the window to `lastRefill`.
From below: what was taken and what the bucket would hold if it were refilled now
without a cap are together at least the earnings up to now, or at least the
capacity. They count to different times because `lastRefill` lags behind the
clock: what was earned since then is not yet in the bucket.

**`AdmissionProofs`, the route** (`LimitsAssumption`, `RequestsAssumption`). Two
refinements carry the bounds to the route: `LimitsAsAlone`, since authentication and
the handlers leave the limiters alone, and within `RateLimit` the global limiter is
`TokenBucket` (`GlobalRateBounded`, `GlobalRateGranted`) and so is that of any limited
model (`ModelLimiterIsBucket`). `ModelRatesBounded` is about all models at once and about
requests served, not tokens: its invariant adds to the upper bound of each bucket that
those served for a model and those between the limiters are together at most its tokens
taken and all requests, which needs the counting of a finite set as requests come and go.
`SpendingFollows` and `AuthFollows` rest on one invariant, `Told`, which ties together for
each request its stage, what it has spent, the model it is between the limiters for and
whether its key was seen; `Provide` disturbs it only for requests before `APIKeyAuth`.

**`EmbeddingProofs`, the client** (`HealthAssumption`, `RetryAssumption`). `GenerateLeavesHealth`
shows that the whole client implements `WorkerHealth`, so that what is proved about the cached answer holds in
the client. The invariant dates everything by the history `since`: a cached or
just probed answer that is not the worker's state is dated no later than the
worker's last change, and every reading is at most `MaxLatency` old.
`CacheNotPostdated` is the part of it about the cache, which is why slow probes
that overwrite later ones do no harm: they are stored under their old reading.
`GenerateGivesUpLate` and `GenerateBounded` date every attempt of a call from its
beginning: it began no earlier than after all the back-offs before it, and no later than
these and a timeout each. That the back-offs add up (`Waits`) is a lemma about the
recursive function.

**`EmbeddingProofs`, the handler** (`HandlerAssumption`). `HandlerUsesGenerate` is a refinement:
hidden behind the handler's own steps, the client behaves as `EmbeddingSpec`. So the
bounds on the cached answer and on a call's time carry over (`HealthLagBoundedHere`,
`GenerateTimedHere`).
`EmbeddingsRecorded` needs an invariant that ties the handler's locals together from
the moment they are set: a status of 200 goes with no error code, any other status is
that of its code, and tokens go with a 200 only. That
every mapped error has a code of `ErrorCodes` and its documented status is a lemma of
its own, which splits on the statuses that `mapEmbeddingWorkerError` tells apart.

**`L1CacheProofs`** (`L1Assumption`, `WritersAssumption`, `KeysAssumption`). `EntriesLive` and `IdleCacheEmpties` rest on one
invariant about the expiry of the hash: unless some Set is between its HSET and its EXPIRE
or failed with its entry stored, there is one and it is no earlier than the TTL after any entry was set. What
shrinks the hash keeps this, and each EXPIRE restores it. `IdleCacheEmpties` assumes
`TTL > 0`, without which `Set` sends no EXPIRE. `SizeIsBounded` assumes `EvictsEnough`: one share of a full cache
is at least as many entries as there are writers (with the configured 100 000 entries,
10 000). Two evictions may choose the same victims, so the invariant (`Roomy`) is about
every set of writers that are deleting: the entries, those about to be added and the
number of these writers are together at most the bound and the entries that this set
still stands to delete. For one writer that is just its share of the victims; for
several it says that what one deletes is not counted for another.

**`L2CacheProofs`** (`L2Assumption`). `HitsMatch` and `HitsAreBest`. The invariant says of
a search under way that its best entry so far matches its query, and that every
entry of `kept` either is still to be read and is in Redis as it was listed, or is not more
similar than the best so far. The first half is what a Store, an eviction or an
expiry preserves by dropping the entries it changes from `kept`.

`SizeIsBounded` is for any number of writers. When a Store has checked the size,
the others that are under way may still add an entry each. The invariant therefore
counts the Stores under way as entries to come: together with the entries they are
at most the size, the Stores that raced and the commands that failed, or one more
while a Store *owes* a deletion, which is to say that it has not looked at the size yet
or that all it may choose as a victim is still there. All Stores under way but one were
counted as raced; that one is the one more.

**`ChatCompletionProofs`** (`ChatAssumption`, `NoneAssumption`, `RequestsAssumption`). For `AnswersMatch` the invariant says of the
caches that an entry's key is the key its reply was asked for and that the reply
is by a model of that model's chain, of a request that its vector is the meaning of
its prompt, and of a request between its provider's answer and its stores that
what it will store is for its own key. Other requests only replace an entry by
one of which the same is true. `RecordsAgree` adds what the handler's locals, the
record and what was sent say of each other at each stage, with the panic after the
answer as the only disagreement. `TokensAreCounted` balances, for answers of
providers and of the caches apart, the tokens given against those recorded and those that
requests still hold. The latter are a sum over requests; it is the size of a set that has a
pair for each request and each of its tokens, so that lemmas about finite sets carry one
request's step.

**`RecordingProofs`** (`RecordingAssumption`: finitely many recorders and kinds of
metric). Sums over the kinds of metric are folds over a finite set; a first part shows
that they do not depend on the order and change by one term when one is counted.
`RowsAccounted` and `StatisticsAgree` follow what is recorded through the sinks: the ledger
of rows and failed inserts since the restart and the counters in memory differ by what
the recorders between the two hold. `StatisticsBracketed` keeps, with a reader's
partial result, what there was when it began. `SummariesAddUp` says of all summaries at
all times, and of the copy in a reader's hands, that the phases add up to the requests and
that there are no more tool calls or cache hits than requests. `ReplayMatches` balances for each session the lines of the file and those that
failed against the summary and the recorders that have yet to update it; its
count is of indices, so that appending a line changes it by one element.

**Induction over data** is done by hand where a proof needs it, since the library's
induction theorems take an operator, which the installed backends cannot instantiate:
the least natural number, or a smallest subset of a finite set, for which a statement
fails is chosen, and shown not to exist.

**Model-checked only.** Liveness (`Recovers`) and anything with `ENABLED` are
beyond TLAPS here, and the three runs that show a violation have nothing to prove.

## Divergences

Three places where the code does other than a comment, a test or the specification
document says, each with a run that shows it:

* **A breaker that trips on timeouts does not open** (`breaker_slow_calls`).
  `RecordFailure` gets the reading from before the call (`registry.go:126`, `145`),
  the call may take the 30 s of the HTTP client (`registry.go:48`), and 30 s is the
  open timeout (`registry.go:16`). `circuitbreaker_test.go:25` and `docs/SPEC.md:128`
  expect an open breaker.
* **The half-open state lets everyone through** (`half_open_trial`).
  `circuitbreaker.go:43` says "allow one trial"; the reset closes the breaker.
* **A route may have two breakers** (`registry_two_breakers`). `ensureCircuit` looks a
  route up and stores a new breaker without a lock (`registry.go:277-285`), for a fallback
  that is not configured: two requests that both miss use one each, and neither sees the
  failures the other counts. `README.md:44` has a circuit breaker per provider/model route.

Noted without a run:

* `ensureCircuit` writes a map without a lock (`registry.go:277-285`), which may also stop
  the process; `registry` includes it as `MapFault`.
* The tokens of a cached answer are recorded again for every hit, in all the sinks
  (`chat.go:148-150`, `182-184`), and priced again by the tracer (`workflow.go:320-322`);
  only `cacheHit` tells them from tokens that a provider spent.
* An HSET that is carried out but reported as failed leaves its entry without an EXPIRE
  (`l1.go:93-94`); `l1_cache` includes it.
* L1 evicts in `HKEYS` order what its comment calls the oldest (`l1.go:131-137`).
* `CreateAPIKey` and `DeleteAPIKey` write Postgres, `APIKeyAuth` reads Redis
  (`auth.go:75`), and the two hash a key differently (`strings.ToLower` in
  `admin.go`, SHA-256 in `auth.go:63`). `docs/SPEC.md:425` has a new key written to both.
* The index out of range in L2's eviction (`l2.go:216`), which `chat` and `l2_cache`
  include.
* `max_cache_size` is not a limit for concurrent Stores (`l2.go:179`); `SizeBounded`
  says by how much it is exceeded.
* The rate limit of a model is that of the model the client names, not of the one
  that is called after the policy (`chat.go:134`) or a fallback.
* A retried embedding may be computed twice by the worker and is recorded once
  (`client.go:168-195`).
* Streaming cuts the content every 20 bytes (`chat.go:502-507`), also inside a
  character.

## Not modelled

* The administration of API keys: its table is read only by its own list, so no
  property relates it to the rest. `GetAPIKeyByHash` has no caller, and
  `AdminAuth` is not mounted.
* `RedisRateLimiter`, which nothing constructs, and `Delete`, `Clear` and `Stats` of
  the caches, which nothing calls.
* Timestamps, latencies and costs of the records, and the order of `ListSummaries`,
  which follows from timestamps of one second's resolution.
* The HTTP exchange with providers beyond its outcome, and everything that only
  formats, logs, traces, reads configuration or connects.

## Plan

Done: all modules, and a theorem for every invariant, action property and refinement
that a run checks; liveness is left to TLC.

Next, to prove:

1. That every request that is answered by the chat handler leaves the metric that
   `Recording` takes as given: the interface between the two modules.

To model, if the code comes to use them: `RedisRateLimiter`, `ListSummaries` with
timestamps, the life of an API key once its two stores meet.

## Running

    tlc -config CircuitBreaker.cfg CircuitBreaker
    tlc -config Registry.cfg MCProviderRegistry
    tlapm CircuitBreakerProofs.tla
