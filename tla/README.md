# A TLA+ model of the inference gateway

Paths below are relative to the repository; modules are in this directory.

The gateway (`src/`, Rust, tokio) takes inference requests over HTTP and gRPC, puts
them into one bounded queue and lets an adaptive pool of worker tasks forward them to
an inference core (`cpp_inference/`, or a llama.cpp server). What is hard about it is
concurrency: handlers, the dispatcher and the workers are tasks on several threads that
share a queue, a semaphore, an atomic pool size, one-shot channels and counters, while
clients disconnect, deadlines pass and the core fails or stays silent.

## 1. Inventory

| Component | State | Operations | Talks to |
|---|---|---|---|
| Adaptive worker pool, `src/worker_pool.rs` | semaphore permits, `current`, owned permits | `new`, `acquire`, drop of a permit, `reconfigure`, `plan` | called by the dispatcher; permits are dropped by workers |
| Queue and dispatcher, `src/main.rs` 274-304, 404-440 | the mpsc queue, the job in hand | receive, resize, publish the gauge, acquire, spawn | pool, metrics, workers |
| Inference handlers, `src/main.rs` 501-607, `src/grpc.rs` 89-160 | one task per request, its one-shot channel | validate, enqueue or refuse, count, wait, answer or time out; dropped when the client goes | registry, queue, metrics |
| Worker tasks and core client, `src/main.rs` 427-438, 618-751 | call in progress, owned permit | call the core by one of two protocols, send the result, drop the permit | core, channel, pool |
| Metrics, `src/metrics.rs` | atomics and a histogram under a mutex | `begin_request`, `finish_request`, `note_*`, `set_pool_workers`, `render` | everybody |
| Model registry and sync, `src/models.rs`, `src/main.rs` 808-903 | snapshot under an `RwLock` | `contains`, `list`, `replace_all`, the sync loop | handlers, core |
| C++ core, `cpp_inference/inference_core.cpp` | the process; a detached thread and a buffer per connection | accept, read, parse, default, answer; ends on an uncaught exception | called by workers |
| Configuration, `src/main.rs` 117-241 | read once | parse the environment | everybody |
| Telemetry, `src/telemetry.rs` | exporters | set up, propagate trace headers | — |
| Mock core, Python tools, deployment, build | — | — | — |

What makes each correct:

* **Pool.** The size stays within its clamped bounds. Shrinking never leaves fewer
  permits than the size claims, so nobody waits for a permit that does not exist.
  The permits in circulation match the size; they do not (findings 1 and 3).
* **Queue and dispatcher.** A job is dispatched once, in order of acceptance. The
  queue refuses only when full. The dispatcher does not get stuck, and the pool
  collapses with the backlog.
* **Handlers.** One answer per accepted request, its own result or a timeout, even if
  the core never answers. A late result goes nowhere.
* **Workers.** Whatever happens to the client, the call or the task, the permit comes
  back once.
* **Metrics.** Every accepted request is in flight or counted under one outcome, and the
  gauge falls back to zero (finding 2); the buckets of a scrape are cumulative and its
  totals are off by no more than the requests counted meanwhile.
* **Registry.** A failed sync keeps the snapshot; readers never see half a snapshot; it
  catches up with a core that stays up.
* **Front ends.** Whatever the outcome, an answer carries the id of its own request
  (not on gRPC, finding 4).
* **Core.** Every call returns; an answer is about the request that was sent (it need not
  be, finding 5); a call fails only for a reason of its own (unless another one ends the
  process).

## 2. Modules

| Module | What it is |
|---|---|
| `AdaptiveWorkerPool` | the pool, one step per atomic operation of `reconfigure()`, any number of callers |
| `AdaptiveWorkerPoolProofs` | theorems about it |
| `InferService` | abstract: what a client is promised |
| `InferServiceProofs` | that its steps amount to the promises in its header |
| `Gateway` | handlers, queue, dispatcher, workers, counters, composed with the pool |
| `GatewayProofs` | theorems about its types, counters and pool |
| `GatewayServiceProofs` | where every job is, and that `Gateway` implements `InferService` |
| `ModelRegistry` | the registry snapshot, its sync task, the core's model list, validating and listing handlers |
| `ModelRegistryProofs` | theorems about it |
| `RequestCounters` | abstract: counting a request, or its outcome, is one step |
| `Metrics` | `begin_request`, `finish_request` and `render` as single atomic operations |
| `MetricsProofs` | theorems about its types and the histogram |
| `MetricsCountingProofs` | what each counter counts: the refinement, and the error of a scrape |
| `InferenceCore` | the C++ core's process, connections and parsing |
| `FrontEnds` | HTTP and gRPC, the two wire protocols, request ids; composed with `InferenceCore` |
| `FrontEndsProofs` | theorems about it |
| `MCPool`, `MCGateway`, `MCRegistry`, `MCMetrics`, `MCFrontEnds` | instances, symmetry and bounds for TLC; `MCPool_*.cfg` and so on are the runs |

```
InferService   RequestCounters                 (abstract)
      ^          ^         ^                   implemented by
      Gateway ---+         +--- Metrics
         | INSTANCE
  AdaptiveWorkerPool      FrontEnds --INSTANCE--> InferenceCore      ModelRegistry
```

`Gateway` and `FrontEnds` are two views of the same handlers and workers. The first has
the queue, the pool, the channel and the counters, and knows of a core call only that it
returns ok or an error, or not at all. The second has ids, bodies and the core, and lets a
handler be refused or time out, and a job start, at any moment; every order of these that
`Gateway` allows is allowed there.

Definitions whose comment begins with "Mutant of" are not part of the specifications.
Each is a wrong version of the definition after it, used to show that the properties
notice the mistake.

### AdaptiveWorkerPool

`permits` is the number of permits available in the semaphore, `held` the workers that
own one, `current` the atomic size, and `resize[c]` the program counter and local
variables (`desired`, and `seen` for the local `current`) of a call of `reconfigure()`.
`ReadCurrent` is lines 54-61, `AddPermits` and `ForgetPermits` line 65 and line 67,
`SwapCurrent` and `RetryCurrent` the two outcomes of the compare-exchange. Because other
threads run between these, they are separate actions. `Forget` is tokio's
`forget_permits`: it removes at most the permits that are available. Memory order is
sequential: all atomics of the pool are single words, and each permit change
goes through the semaphore's lock.

### Gateway

`handler[r]`, `worker[r]`, `dispatcher` say where each task stands; `channel[r]` is the
one-shot channel, `queue` the mpsc channel, `hand` the job that `dispatcher_loop` has
received and not spawned, `metrics` the counters the path updates. The pool is
`INSTANCE AdaptiveWorkerPool` with the dispatcher as its only caller and the requests as
permit owners. HTTP and gRPC handlers do the same to all of this state, so one set of
actions stands for both.

| Code | Action |
|---|---|
| unknown model, queue full | `RejectUnknownModel`, `RejectQueueFull` |
| `try_send` succeeds; `begin_request()` | `Enqueue`; `BeginRequest` (another thread may run the job in between) |
| the four outcomes of `timeout(...).await` | `RespondOk`, `RespondError`, `TimeOut` |
| the server drops the handler's future | `ClientDisconnect` |
| `recv`, `reconfigure`, `set_pool_workers`, `acquire` and `spawn` | `Recv`, `BeginReconfigure` and `Resize`, `PublishPoolSize`, `SpawnWorker` |
| the core call returns and `send()` | `CoreAnswers`; `WorkerCancelled` if the task unwinds |
| `drop(permit)` | `ReleasePermit` |

`TimeOut` needs an empty channel because tokio's `timeout` polls the future before the
timer. `send()` to a dropped receiver loses the value. A request body is only its
identity, a result only "ok" or "error", and a model only known or unknown. Each call that
counts is one step here; `ImplementsCounters` says that what it amounts to is
`RequestCounters`, and the same is shown of `Metrics`, where a call is many steps.

### InferService

`answer`, `backlog` and `work` per request, with no mechanism. `Gateway` maps its state
with `answerBar`, `backlogBar` (the job in hand comes before those in the queue) and
`workBar`, and states `ImplementsService`. Among what this says: a request that has timed
out can no longer be answered with its result; work starts in the order of acceptance
and once; 503 is given only with at least QUEUE_CAPACITY jobs waiting; at most one more
job than the capacity waits; an answer "ok" comes from the request's own successful
execution.

### ModelRegistry

`models` and `known_names` are the two fields behind the `RwLock`, `writing` says that the
lock is held for writing, `sync` where `registry_sync_loop` stands, `fetched` the list it
received last, and `verdict[n]` the last answer of `contains(n)`. `core` is what the
inference core would answer now: it is up and serves one of `Catalogs`, down, or hung,
and `CoreChanges` moves it anywhere, at any moment, at most `MAX_CHANGES` times.

| Code | Action |
|---|---|
| `fetch_core_models` returns a list, an error, nothing | `CoreAnswersList`, `FetchFails`, `CoreHangs` |
| the cap of 10 seconds | `FetchTimesOut` |
| `replace_all`, its two assignments | `ReplaceModels` (takes the lock), `ReplaceNames` (drops it) |
| the sleep between rounds | `WakeUp` |
| `contains` and `list` under the read lock | `Contains`, `List` |

A fetch that succeeds with an empty list does empty the registry: the empty list may be a
member of `Catalogs`, which the theorems cover and the run, in need of a model that every
list has, leaves out. `Names` have spellings: the core and clients write them in small and
capital letters as they like, and `Lower` is `to_ascii_lowercase`, of which the module
assumes that lowering twice is lowering once. `known_names` holds the lower-case forms of
the models and of the aliases, `Contains` lowers what the client wrote, and `List` gives the
models in the core's own spelling. `TypeOK` says that nothing else gets into `known_names`: an alias that kept a capital
letter could be matched by no request. Of an entry only its name is modelled. The module
is about llama-chat mode: in infer mode no task runs and the snapshot is constant.

The registry starts as `ModelRegistry::default()` in llama-chat mode too, so until a fetch
has succeeded handlers validate against the static list, although `docs/run.md` 83 says
the gateway does not trust it in this mode. `StaticNamesGoForGood` says what does hold:
once a list of the core is installed no later failure brings those names back.

### Metrics and RequestCounters

`counters` are the atomics, `histogram` and `owner` the buckets and the mutex around them,
`call[r]` where the handler of `r` stands in `begin_request` or `finish_request`, with the
operations it has yet to do (`todo`, and `left` for the buckets), `scrape` the same of
`render` with what it has loaded. `overlap` collects the requests that were being counted
during the scrape; nothing but the properties reads it.

| Code | Action |
|---|---|
| `begin_request`, its two additions | `BeginRequest`, `AddBegin` |
| the handler's future is dropped | `Abandon` |
| `finish_request`, its additions | `FinishRequest`, `AddFinish` |
| its loop over the buckets under the mutex | `LockHistogram`, `CountBucket`, `UnlockHistogram` |
| `render`: the load of `latency_count`, the lock, the loads, the end | `StartRender`, `LoadCounter`, `LockRender`, `LoadBucket`, `UnlockRender` |

All atomics are `Ordering::Relaxed`. Additions of one call to different counters may take
effect in any order, so `AddBegin` and `AddFinish` take any element of `todo`, and so does
`LoadCounter`. What orders them is the mutex: additions before it stay before its release,
and a load that follows the acquire is not moved above it; only the load of
`latency_count` precedes it, and that may be delayed. That a later call of the same handler
comes after the earlier one is coherence (for the gauge, which both change) and the
hand-over of the request between threads.

`ScrapeOffByOverlap` is what a reader of `/metrics` can rely on. It says among others that
the `+Inf` bucket may be below another bucket, by at most the requests counted meanwhile:
Prometheus expects it never to be.

### InferenceCore and FrontEnds

`protocol` is CORE_PROTOCOL; `request[r]` the front end, the id and the options a client
has sent; `handler[r]`, `job_id[r]`, `reply[r]` what its handler has made of it. Of the core
there are its `process`, a `clock` for the ids it makes, and for each call its connection
(`conn`), the body `sent`, the part of it `received`, and the `response`. A text is who wrote
it: the model and the input of a body are the request itself.

| Code | Action |
|---|---|
| the model check, the id, `try_send` | `RejectUnknownModel`, `RejectQueueFull`, `Enqueue` |
| the outcomes of `timeout(...).await` | `RespondOk`, `RespondError`, `TimeOut` |
| `call_infer_protocol`, `call_llama_chat_protocol` | `CallInferProtocol` (connects), `CallLlamaChatProtocol` (the external server answers or fails) |
| `accept` and the detached thread | `Core!Connect` |
| `read_http_request`; parse, answer and close | `Core!Read`, `Core!Answer` |
| `std::stoi` or `std::stof` throws and nothing catches; whoever runs the core | `Core!Terminate`, `Core!Restart` |

A UUID has several spellings: HTTP takes the header `x-request-id` if it parses, and gives it
back in canonical form (`Canonical`), gRPC takes any text that is not empty. Integers keep
their limit: `INT_MAX` is that of a C++ `int`, what the gateway accepts (u32) goes beyond.
A float is only told apart by what `std::stof` makes of its text: it takes one in the normal
range (`"fine"`, or `"negative"` with a minus), and throws for one below it (`"tiny"`, which an
`f32` of the gateway can hold and serde writes out) and for a lone minus. One above the range or
not finite cannot reach the core, serde writes it as null.

`Prefixes` are the bodies a thread may end up with: it reads until it has the headers
and, because it misses `content-length` in lower case, takes what came with them. The
gateway writes the fields in the order model, input, options, `request_id`. The core does not
look at the `request_id`, but its bytes are always there (`rest`, with the closing brackets): a
thread that has all fields it needs may still leave bytes unread, and closing a socket with
unread bytes resets the connection, so that the client may lose an answer that was sent. This is why `Answer`
may fail whenever `received` is not `sent`. A number may be cut off inside: a budget loses digits,
a negative float may lose all but its minus, and a tiny one that loses a digit of its exponent
is in range again (`CutShort`).

`FailuresExplained` names all that makes a call to this core fail: bytes of its own body left
unread, or, for all calls at once, some call with a number that makes the parser throw
(`Endangers`). A request whose client disconnects is one whose handler takes no further step.

## 3. Runs

| Run | Instance | Shows |
|---|---|---|
| `pool_single` | sizes 1..4, 5 workers, 1 caller | `PermitFloor`, `SurplusOnlyUnderLoad` |
| `pool_race` | sizes 1..3, 2 workers, 2 callers | the bounds survive failing compare-exchanges |
| `gateway_safety` | 4 requests, capacity 2, sizes 1..2 | safety, `ImplementsService`, `ImplementsCounters` |
| `gateway_live` | 3 requests, `FairSpec` | every accepted request is answered, whatever the core does; if calls return, every job is dispatched and the pool settles at its minimum |
| `registry_sync` | 6 names, 2 lists, 3 changes, `FairSpec` | names compared in lower case, whole snapshots, steady models stay accepted, static names do not come back, the registry catches up with the core |
| `metrics_scrape` | 2 requests, 2 outcomes, 2 buckets, any number of scrapes | no counter wraps, cumulative buckets, the error of a scrape, `ImplementsCounters` |
| `replies` | 2 requests, 6 submissions, both protocols, `FairSpec` | ids on answers, what makes a call fail, that calls return |
| `pool_mismatch`, `gateway_cap`, `gateway_in_flight`, `grpc_ids`, `truncated_body` | | violations, see below |

**Bounds.** The plan adds one worker per two queued jobs, so three jobs are the fewest
that grow the pool (one in hand, two behind it) and capacity 2 is the smallest queue that
allows it. Four requests let the pool grow and shrink again under running workers, fill
the queue and refuse one. In `pool_single` more workers than the maximum size are there so
that surplus permits can be used, and queue lengths go to the point where the plan is
capped. `MAX_PERMITS` is tokio's limit, beyond which `add_permits` panics; 20 is never
reached. `PermitBound` cuts the race, in which permits can grow without limit.
`NothingLost` restricts `gateway_cap` to behaviours without refusals, timeouts,
disconnects and errors, which makes the counterexample quick to find; a behaviour under
the restriction is a behaviour of the program. Requests are interchangeable, so the
safety runs use symmetry; the liveness runs do not.
The registry's two lists differ in a model and in an
alias with a capital letter, share one model (the steady one, which they spell differently),
and lack one name of the static list; three
changes let a list be overtaken while it is in flight, by a failure and by a recovery.
In `metrics_scrape` two requests are the fewest that interleave in the mutex and in a
scrape, one can be abandoned while the other is counted; two buckets with a latency in
each are enough to tell their order, and the outcomes differ only in their counter. In
`replies` two requests are enough for one call to end the process under the other, or to
share a millisecond. The submissions have each front end with no id and with a UUID in
capital letters, a text that is no UUID over HTTP, the budgets 0, 64 and 100 with `INT_MAX` at 64,
so that the limit, the value beyond it and a value whose leading digits are in range again
all occur, and floats of every kind; what a client does with its id and with its options
is independent in the code, so not every pair is submitted.
`MAX_CLOCK` 1 gives the core two ids.

**Fairness.** tokio runs every task that is ready, so the dispatcher, the handlers with
their timers, and the drop of a permit after `send` are weakly fair. `FairSpec` assumes
nothing of clients and nothing of the core: the HTTP client is built without a timeout
(`src/main.rs` 281), so a call may never return. `EveryJobDispatched` and `PoolSettles` assume in their own text
that every call returns in the end (`CoreReturns`): without it the first is false, because
hung calls keep their permits. Only handlers and dispatcher steps that stay enabled need weak
fairness; no step needs strong fairness, since the dispatcher is the only one to take
permits. In `ModelRegistry` the sync task and its timers are weakly fair, and a core that
is up answers within 10 seconds (one that takes longer is hung). `EventuallyMirrors` assumes in
its own text that the core stays up from some point on. In `FrontEnds` the threads of the
C++ core run; nothing is assumed of anybody else, whoever restarts it included.
`EveryCallReturns` is thus what `CoreReturns` asks of a core, for this one.

## 4. Findings

1. **The cap on concurrency does not hold** (`gateway_cap`, `ConcurrencyWithinMax`).
   `src/main.rs` 397 says the pool "caps the number of concurrently-running worker tasks".
   When the pool shrinks while workers own all permits, `forget_permits` finds nothing to
   forget but `current` is lowered; when the backlog grows again new permits are added
   on top. The run shows three calls at once with `MAX_CONCURRENCY = 2`, and each further
   fall and rise under load adds more. `SurplusOnlyUnderLoad` says that this is the only
   way surplus appears with one caller.
2. **`in_flight` leaks on disconnect** (`gateway_in_flight`, `InFlightReturnsToZero`). The
   future of a handler is dropped at its await when the client goes away, and nothing
   after it runs: the gauge stays up and the request has no outcome.
3. **The compare-exchange does not prevent double changes** (`pool_mismatch`,
   `PermitsMatchPoolSize`). The comment at `src/worker_pool.rs` 69 claims it does, but the
   permits were changed before the exchange and are not put back. Latent: the gateway
   has one caller.
4. **gRPC answers carry an id the gateway did not assign** (`grpc_ids`,
   `GrpcRepliesCorrelated`). `docs/api.md` 45 says the final response always carries the
   gateway-assigned id, `proto/inference.proto` 12 that Infer mirrors POST /infer. The HTTP
   handler puts its id into the answer of the core; the gRPC handler does not, and the C++
   core makes up `cpp-<milliseconds>`. `RepliesCorrelated` says where the ids are right:
   over HTTP always, over gRPC when the gateway itself builds the answer (llama-chat).
5. **A body that comes after its headers is not read** (`truncated_body`, `OkIsOwnWork`). The
   comment at `cpp_inference/inference_core.cpp` 366 says it is; the header name is
   compared with case, and the gateway's client writes it in lower case. Missing fields get
   defaults, so the client gets a 200 for a model and an input it did not send.

Smaller differences between documents and code, which no run is about: a 400 for an
unknown model has no `x-request-id`, which `README.md` 12 puts on every response; the
`request_id` of an HTTP body is always overwritten, `docs/api.md` 45 says only when it is
absent; an empty input becomes "hello world" in the core; `docs/run.md` 328 makes `core_call`
a child span of `infer_request`, but the worker is spawned with no link to it.

## 5. Proofs

Checked by TLAPS for all values of the constants that satisfy the assumptions of the
modules: natural-number bounds, a queue capacity of at least one, a sentinel `NoJob` that
is no request, an `INT_MAX` of at least 32 (the core's default for `max_tokens` is an int
itself), outcomes among the three fields of the metrics, lowering a name twice the same as once. The set of requests may be
infinite. TLC checked the larger invariants on the runs' instances before they were proved.

* `PoolTypeCorrect`: any number of callers. Inductive as it stands, with the lemma that
  `plan` stays between the clamped bounds.
* `PoolPermitFloor`, `PoolSurplusOnlyUnderLoad`: one caller. `PermitFloor` is not inductive
  alone: it needs `LoadIsCurrent`, that a call in progress still has the right value of
  the counter (exactly what racing callers destroy), and that `held` is finite. The case
  that matters is `ForgetPermits`: if fewer permits are available than should go, those
  in workers' hands alone already exceed the planned size.
* `GatewayTypeCorrect`: that `in_flight` is a natural number needs
  `InFlightCoversWaiting`, that every handler still to decrement it is counted in it.
* `PoolFollowsTheBacklog`, `IdleCollapse`: by `ResizeInStep`. While a resize is in
  progress only the dispatcher can shorten the queue, so the planned size stays below the
  plan for the queue as it is; a compare-exchange or the loop's early return then makes it
  the size. `IdleCollapse` is the case of the empty queue.
* `DispatcherNeverStarves`: the pool's invariant, carried over by `PoolStep` (every step of
  the gateway is a step of the pool or leaves it alone), and `ResizeInStep`.
* `NoJobLostOrDoubled`: by `JobInvariant`. `EveryJobInOnePlace` counts places; that is not
  inductive, so `JobPlaces` says where a job is: the queue has no duplicates, what is
  queued or in hand has no worker, and whatever is accepted is in one of the three. With
  `PermitsOwned` a worker that starts owns no permit yet, so none is taken twice.
* `ServiceImplemented`: by the same invariant with `ChannelsInStep`, that a channel is empty
  until the job's worker has put something in and not after, as long as the handler may
  look. This makes a timeout of the code, which finds the channel empty, one of
  `InferService`, which may only happen before the work has ended. The visible steps have a
  lemma each (`EnqueueAccepts`, `SpawnStarts`, `DeliverFinishes`, `AnswerGiven`); for all
  others `Hidden` shows that they change nothing a client could see.
* `PromisesHold`, `OneAnswerEach` (of `InferService`): `AnswersFit` needs `BacklogIsQueued`, because
  a request that waited twice would start again and lose its result.
  `ClientsGetTheirOwnResults` and `ClientsGetOneAnswer` say the same of `Gateway`, through the
  refinement: no step of the gateway is looked at again.
* `SnapshotsAreWhole`, `SteadyModelsAreKept`: by `RegistryInvariant`, for any names in any spelling.
  `ReplaceInStep` says
  that the lock is held exactly between the two assignments and that the first has been
  made from the list of the second; `AcceptedSteadyIsKnown`, that a name in every list is in
  the set once it has been accepted, survives a replacement because the new list has it.

* `RegistryTypeCorrect`, `StaticNamesAreGone`: by the same invariant. The first says that whatever
  the core writes requests are compared with lower-case names only (`LoweredNames`); the second
  needs that what was fetched is a list of the core, which is in the type invariant.
* `CountersImplemented`, `CountersBalance`: every step of `Gateway` either begins a request,
  finishes one with an outcome, or leaves the totals alone (`CounterStep`). A finish maps to
  `RequestCounters`' `Finish` because the gauge covers the waiting handlers
  (`InFlightCoversWaiting`), and the balance is inductive over these.
* `BucketsAreCumulative`: by `HistogramInvariant`. While a thread is between two buckets the
  histogram is not cumulative; it is once the buckets this thread has still to visit
  are taken as visited (`Settled`), and nobody else is inside because of `MutexHeld`. A
  scrape holds the mutex, so no thread is between buckets when it reads.
* `MetricsTypeCorrect`: by `GaugeInvariant`. That the gauge is at least the number of requests
  whose increment has taken effect and whose decrement has not is what keeps a decrement
  from wrapping, in whatever order the additions of a call take effect.
* `MetricsImplementCounters`: by `CallInvariant`. The totals are sums over the calls in
  progress, so `Started`, the requests that have come at all, must be finite; `TodoOfPhase`
  says which additions a call may have left. A step of a handler changes each cardinality by
  what its own call contributed before and after (`LeftChanges`); an addition moves as much
  into a counter as out of what is left, and only the start of a call moves a total.
* `ScrapeErrorBounded`: by `ScrapeInvariant`. First, `CountersMean`: each counter is the number of
  requests whose addition it has seen (the outcomes taken together; a bucket is no more
  than those past it). Second, while `render()` runs every call in progress is in `overlap`, so
  the count of the requests outside `overlap` can only shrink by one joining it. A value
  loaded at any moment of the scrape therefore stays between that count and the count plus
  the size of `overlap` (`LoadsBounded`). Of the outcomes only the sum is meant, and they
  are loaded one by one: the bound is on `IfLoadedNow`, what the sum would be if the rest were
  loaded at once, which only grows. At the end the requests outside balance exactly
  (`OutsideBalances`), and the error is what the intervals leave open.
* `AnswersCarryTheirId`: by `Correlated`. A job keeps the id of its request
  (`JobsKeepTheirId`), and in llama-chat mode no thread of the C++ core exists, so every
  answer was built by a worker from its job (`BuiltByWorkers`).
* `FrontEndsTypeCorrect`, `CoreFailuresExplained`: by `CallInvariant`. That what the core
  works with is an int needs `DigitsBounded`, that a body cut off inside a number holds
  no larger one, and that an open connection belongs to a request that has arrived
  (`CallsAreOfJobs`). `FailuresExplained` is not inductive, since a call may endanger the others
  and then be read to its end after all. `EndedByThrow` is: the process ends, and a call that
  was read whole fails, only after some thread has read a number that makes the parser throw,
  and what that thread has read stays. `ThrownEndangers` leads from what was read back to what
  was sent, by `PrefixesAreCut` and `CutFloats`.

With this every safety property, action property and refinement that a passing run checks
is a theorem. Only model-checked, since liveness under fairness is out of the prover's
reach: `EveryRequestAnswered`, `EveryJobDispatched`, `PoolSettles`, `EventuallyMirrors` and
`EveryCallReturns`.

## 6. Not modelled

The wording of answers and the status codes that stand for an outcome; texts that contain
quotes (the core cuts a value at the first one, escaped or not); where `temperature` and `top_p`
show in the wording of the output (whether they can be parsed is modelled); the status and device
of a model, and a registry composed with the request path (`Gateway` leaves the verdict
open); `latency_ms_sum`; the C++ core's other routes and start-up, its CUDA path; a
network that loses an answer on its way (for a handler the same as a core that fails);
shutdown (when a server stops the process exits and all tasks end with it); parsing of the
environment; telemetry, scripts and deployment, which keep no state the request path
reads.

## 7. Plan

All components with behaviour of their own are modelled, and every safety property of the
passing runs is proved. What could be added:

1. Of the C++ core, that one oversized body ends exactly the calls that are open at that
   moment, as an action property.
2. Of the registry, that a list once installed is replaced only by a later one.
3. A bound on the surplus permits by the number of times the pool has shrunk under load,
   which would say how far finding 1 can go.
