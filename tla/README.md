# ModelMux in TLA+

ModelMux is a gateway in front of language-model providers. Requests are
answered directly (`/v1/chat`, `/v1/chat/stream`) or accepted as jobs
(`/v1/jobs`) that worker processes execute. This directory holds TLA+ modules
that model the parts of it that run concurrently or survive failures, the TLC
configurations that check them, and TLAPS proofs. Source paths below are
relative to the repository's `src/` directory.

## The system and its parts

| Part | State | Operations | What makes it hard |
|---|---|---|---|
| Job table, `queue/postgres-job-store.ts` | rows: status, attempts, outbox flag, three timestamps, response | enqueue, dispatchOne, claim, complete, fail, maintain | statements of several processes interleave; a transaction spans a network call |
| Broker adapter, `queue/rabbitmq-broker.ts` | connection, channels, running deliveries, `failure`, `draining` | connect, publish, consume, ack/reject, stopConsuming, close | confirms, returns and timeouts; redelivery; single active consumer |
| Worker, `queue/rabbitmq.ts`, `worker.ts` | loop, stop signal, deliveries | run, execute, drain | crashes and lost connections between any two steps; graceful handover |
| Circuit breaker, `providers/circuit-breaker.ts` | state, failures, openedAt, generation | execute, snapshot | slow calls that end after the circuit has moved on |
| Provider router, `providers/router.ts` | per request: target, emitted | route, call, stream | cancellation against errors; fallback against output |
| Concurrency limiter, `concurrency/in-memory-concurrency-limiter.ts` | active, queue, counters | acquire, release | hand-over, abort and timeout race for a waiter |
| Chat route, `routes/chat.ts`, `routes/request-cancellation.ts` | per request: permit, phase, cache use | the two handlers | cancellation at every await; permits must come back |
| SSE writer, `routes/sse.ts` | a pending write and its timer | writeSse | clients that stop reading |
| Chat cache, `cache/` | Redis entries | get, put | a command that timed out may still be applied |
| Rate limiter, `rate-limit/redis-token-bucket.ts` | tokens, updated_at, time to live | consume | rounding, expiry, a clock that steps back |
| Provider deadline, `providers/http-request.ts`, `cancellation.ts` | a signal, a timer | withProviderDeadline, abortable | a call returns while its operation goes on |
| Provider adapters, `providers/openai.ts`, `ollama.ts` | a response being read | chat, stream | truncated and malformed answers |
| Stream parser, `providers/stream-parser.ts` | an unfinished line and event | readLines, readSseData | chunks end anywhere |
| Gateway process, `server.ts`, `app.ts`, `auth/` | clients, listeners, requests under way | start, shutdown, the hooks of a request | order of shutdown; failures of start beside a signal |
| Observability, `observability/` | counters, gauges, a shared scrape | scrape, queue depth, http_active | late answers, shared results |
| Configuration, scripts, schemas | none | one-shot | sizes of leases |

A job is written to the table by a gateway together with a pending-publication
flag (an outbox). The dispatcher loop of a worker publishes it to RabbitMQ and
clears the flag in the transaction that locked the row. A delivery carries the
job id and an attempt number; the worker claims exactly that attempt, calls the
provider, stores the outcome, and only then acknowledges. Leases bring back the
jobs of dead workers. A direct request passes the rate limiter, optionally the
cache, then the concurrency limiter, and is routed to the primary provider or
the fallback, each behind its circuit breaker.

## Modules

| Module | Models |
|---|---|
| `JobEnvelope` | the message (job id, attempt) and the attempt budget |
| `PostgresJobStore` | the job table; one operator per SQL statement |
| `RabbitMqBroker` | queue, consumers, dead letters, as the adapter declares and uses them |
| `JobSystem` | gateways, worker processes, table and broker put together; properties and the inductive invariant |
| `JobContract` | abstract specification: what the job interfaces promise about a job |
| `JobSystemProofs` | proofs about `JobSystem` |
| `CircuitBreaker` | the breaker's fields, admission, recording of outcomes |
| `ProviderRouter` | requests over two circuits; properties and the inductive invariant |
| `ProviderRouterProofs` | proofs about `ProviderRouter`, and about `JobRetry`, which extends it |
| `ConcurrencyLimiter` | the semaphore with its bounded queue |
| `ChatRoute` | `/v1/chat`, composed with `ConcurrencyLimiter` and the cache |
| `StreamRoute` | `/v1/chat/stream` and `writeSse` |
| `TokenBucket` | the token bucket script |
| `StreamParser` | bytes in chunks to lines and events, with the unchunked reference |
| `Positions` | parts of a sequence by their positions, in which that reference is written |
| `ProviderCall` | the deadline around an operation of either adapter |
| `StreamExchange` | `StreamRoute` composed with the router's stream and two `ProviderCall`s; implements `StreamRoute` |
| `Metrics` | scrapes that share a collection, the queue depth with its timer |
| `Gateway` | start, shutdown and requests of the gateway, with `Metrics` |
| `JobRetry` | attempts of jobs over `ProviderRouter`, with deadlines, leases and backoff on a clock |
| `ConcurrencyLimiterProofs`, `ChatRouteProofs`, `ProviderCallProofs`, `StreamExchangeProofs`, `StreamParserProofs` | proofs about the module they are named after |
| `GatewayProofs` | proofs about `Gateway` with `Metrics`, and about `TokenBucket` |
| `MC...` | instances for TLC: symmetry sets and constant functions |

Operators marked `\* mutant` are plausible wrong versions of the operator that
follows them. No specification uses them. Putting one in the place of the
original must make TLC report the property it belongs to; this shows that the
property depends on that piece of the code. PROJECT.json pairs them, and maps
every definition to the source lines it stands for.

### Granularity

JavaScript runs a callback to its end, so a step is what runs between two
awaits; a statement Postgres executes, and a script Redis executes, is one step.
Time is not counted where only an order matters: `available_at` is due or later,
a lease is held or expired, a finished row is recent or older than 24 hours.
Timers may fire whenever they are set. Only the circuit breaker, `JobRetry` and
the token bucket have a clock, because their properties are about durations.

### The job system

* A row is a column-wise set of functions on job ids. An id is never drawn
  twice. A purged row keeps its attempts and submission as history, so that dead
  letters and receipts can be compared with it.
* `EnqueueInsert` and `EnqueueSelect` are the two statements of `enqueue`, with
  other steps in between.
* `DispatchSelect`, `DispatchSend`, `PublicationStored`/`Refused`,
  `DispatchCommit`/`Abort` are the transaction of `dispatchOne`. A publication
  that is in transit when its dispatcher gives up may still be stored.
* `Deliver`, `ExecuteClaim`, `ExecuteProcess`, `ExecuteComplete`/`Fail`,
  `Acknowledge` are one delivery; `ExecuteError` is a statement that throws, with
  or without having been applied.
* `Signal`, `StopConsuming`, `Close` are the graceful drain; `Crash` and
  `LoseConnection` may strike between any two steps. Calls that run on a lost
  connection go on and fail to acknowledge.
* A claim on a row that a dispatcher has locked waits, as the UPDATE does.
* `MaxFaults` bounds crashes, lost connections, refused publications, failed
  statements and signals together.
* External: RabbitMQ (quorum queue, single active consumer, requeue on
  disconnect) and time. The order of the queue is left open, which is more than
  RabbitMQ does. Message bodies that are not envelopes are left out: nothing in
  the repository publishes one. So is the null message by which RabbitMQ cancels a
  consumer, as when its queue is deleted: nothing in the repository deletes one.

### Router and circuits

A provider call ends in any of the outcomes the code distinguishes. `Returns` is
the operation inside `execute`, which looks at the signal once it has its result
(`throwIfCancelled`); the outcome reaches the circuit in a later step, `Settle`. A
cancellation may come before the one and after the other. Between them only promise
jobs run, of this request and of others, and no event. A stream's `Emit` is the write attempt of
`consume`. `admitted` is the local constant `generation` of `execute`. A behaviour
may start in the middle of the life of a circuit: `PastFailures` is the number of
failures in a row that it has behind it, below the threshold. `Abortable` is a
bound: the requests whose signal may be aborted. Both leave a small instance room
for the late calls the properties are about; the proofs hold for any of them.

### The gateway's requests

`ChatRoute` instantiates `ConcurrencyLimiter` with the requests as callers and
their cancellation signals as the limiter's signals; its handlers call `acquire`
and `release`, and `Cancel` is the abort event that reaches the limiter's
listener first. A permit that is handed over and a cancellation that comes
before the handler resumes are separate steps. Every `throwIfCancelled` of the
handler is a look at the signal of its own, so that leaving one out shows:
`Resolved`, `Rejected`, `Answered` and `Conclude` are the code after an await, and
`Return` and `Throw` the ways out. The answer of Redis to a lookup (`Get`, kept in
`found`) and the handler that resumes with it (`LookupEnds`) are separate steps,
between which the request may be cancelled or the entry expire.

A permit of the limiter may be released twice, as the closure that `admit` returns
allows; the second `release` changes nothing. `StreamRoute` keeps the permit as
a flag and models the socket: `full` is `writableNeedDrain`, `gone` a socket
that is closed whether the handler knows it or not. Its provider ends or fails at
will; `StreamExchange` puts the real one in its place.

The bucket of `TokenBucket` counts in integer units (`Unit` of them per token,
`PerTick` per millisecond), where the script uses floating point: a sum or a
quotient may come out up to `Rounding` units beside its value (`Rounded`), the level
a request finds (`Levels`), the time to live (`Ttls`) and Retry-After
(`RetryAfters`) alike. A sum is never below the level it is added to, and exact when
nothing is added. HSET keeps every digit, so the errors of one request are there
for the next; `errors` counts them. `Tick` and `StepBack` are the clock of Redis.

### Provider calls and streams

`ProviderCall` keeps the caller's promise (`result`) and the operation (`op`)
apart: `Interrupt` is the abort of the call's signal, at which `abortable`
rejects at once while the operation is still inside `fetch`, a read or `onDelta`.
`Read` brings a chunk of one or two events, which `Offer`, `Handle` and
`Consumed` take one by one. An event is one of the kinds the adapters tell apart;
`bad` stands for everything that their field checks, `JSON.parse` or the parser
refuse. A chunk that is not valid UTF-8 is refused whole, so what stands in it
before the invalid byte is never an event: it is an end of the body with an error
(`ReadEnds`), and adds nothing to `wire`. `wire` and `given` are histories: what was received, and which of its
texts went to `onDelta`.

`StreamParser` reads a body over an alphabet of seven bytes: the field name, a
space, an ordinary character, CR, LF and the two halves of one multi-byte
character. `Read` decodes a chunk, `Line` and `Rest` are the scan. `Meaning`
defines the same result from the whole body at once: lines are the pieces of the
text between its newlines, blocks the pieces of the lines between blank ones, and
an event the values of a block (`Pieces` and `Select` of `Positions`). It has no
loop and no state, so it shares nothing with the scan it is compared with. Field
names other than `data` and comments are lines that begin with something else.

`StreamExchange` extends `StreamRoute`. The handler's signal is the parent of the
calls to both targets; `Consume` is the adapter's `onDelta`, the router's
`consume` and the handler's `writeSse` in one step, as no await lies between
them; `OnDeltaSettles` is the write that has drained or was given up. A circuit
that rejects a call is a call that ends at once; the circuits themselves are in
`ProviderRouter`.

### The gateway process

A request passes `Arrive` (metrics hook, bearer token), `Authenticated` (the key
query), `Limited` (the bucket script), `Received` (the body, of a POST) and a
handler, which for a job has one query or, for a submission that is already known,
two (`Queried`, `Selected`); a query or command that
starts on a closed client answers `closed`. `Signal`, `CloseEnds`,
`MetricsClosed` and `PoolEnded` are the shutdown; `Booted`, `Listen` and
`ListenMetrics` the start, whose `catch` tears down by the same two last steps
and may run beside a shutdown. External: Fastify, pg and ioredis, as the head of
the module says. A signal during start is modelled with an app that, once closed,
admits no request, whether or not `listen` still opens its port. In `Metrics`
a value of the depth gauge is the number of the collection that read it, which
tells fresh from stale.

### Retries and leases

`JobRetry` makes the current attempt of a job a request of `ProviderRouter`, which
it extends. Every wait of an attempt has a bound, `due`, and the clock does not
pass it: `Delay` for a round trip to Postgres, the timeout of the target for a
provider call. `leaseMs` is the sum in `config.ts`, `RetryDelay` the expression in
`fail`. One clock stands for that of Postgres and that of the worker; the
difference of two real ones is part of what `Margin` has to absorb.

## Runs

All runs pass. "Faults" is `MaxFaults`.

| Run | Instance | Checks |
|---|---|---|
| `job_delivery` | 2 workers, 1 job, 2 attempts, 2 copies, 2 faults | `NoLostJob`, `AttemptExecutedOnce`, `ResultOfLastAttempt`, `HandoverRunsOneConsumer`, `DeadLettersFailed`, `ImplementsContract` (refinement) |
| `job_submission` | 2 ids, 1 key, 2 payloads, 2 gateways, 1 worker, no faults | `ReceiptsFaithful` |
| `job_liveness` | 1 worker, 2 attempts, 3 copies, 1 fault | `JobsEnd`, `DrainEnds` |
| `job_retry` | 2 jobs, one with a fallback, 2 attempts, timeouts 2 and 1, cooldown 3, backoff capped at 1, margin 2, round trip 1, 1 crash, clock to 8 | `LeaseOutlastsAttempt`, `RetryOutlastsCooldown` |
| `provider_router` | 3 requests, one of them streamed and with a fallback, two that may be cancelled, threshold 2 with one failure past, cooldown 1, clock to 1 | `SingleProbe`, `OneModelPerAnswer`, `OpenUntilCooldown`, `AbandonedCallsDoNotCount`, `ProbeEnds` |
| `provider_call` | 1 call of either adapter and mode, all kinds of events, up to 4 of them | `AnswersComplete`, `SilentAfterReturn`, `CallsEnd` |
| `stream_parser` | bodies of up to 6 bytes, chunks of up to 3, frames of up to 2 | `ChunkingInvisible` |
| `stream_exchange` | primary Ollama, fallback OpenAI, 5 kinds of events, 3 per body, 3 deltas | `StreamWellFormed`, `OutcomeTruthful`, `DoneMeansWholeAnswer`, `NothingBehindBlockedWrite`, `ImplementsRoute` (refinement), `NothingLeftBehind` |
| `chat_route` | 3 requests of 2 owners, two or all of them caching, 1 slot, queue of 1 | `PermitsCoverCalls`, `AnswersInScope`, `CancelledComesToNothing`, `UsesLimiter` (refinement), `RequestsEnd` |
| `limiter` | 5 callers, 2 slots, queue of 2 | `LimiterSound`, `FirstComeFirstServed`, `WaitersServed` |
| `token_bucket` | capacity 2, tokens of 8 units, 3 units per tick, 2 ticks per second, rounding by 1 unit in up to 2 levels, clock to 13, 2 faults | `RateBounded`, `RetryAfterSound`, `ExpiryUnnoticed` |
| `gateway` | 2 requests, 2 scrapers, one start, one signal | `ShutdownSparesClients`, `MetricsTruthful`, `ShutdownEnds` |

Why the bounds are enough to be interesting: with two copies a message and its
repetition exist at once; with two faults a worker can lose its connection and
the repetition can be dropped or the other worker crash; with two attempts there
is an older and a newer attempt, and an exhausted budget. Two ids for one key
let a purged job be replaced. With one failure behind it, a circuit of threshold
two is opened by one request, while a second is a slow call from before the
opening and a third the probe or a rejected call; a success first, and it takes
two failures again. The cooldown is one unit; `CooldownHolds` is proved for any,
and `job_retry` runs the circuits with three. Two of the three
requests may be cancelled, in any order against the outcomes of all.
Five callers fill two slots and the queue of two, and the fifth finds it full.
The three requests of `chat_route` ask the same, for two owners: the cache tells
the owners apart, and a late SET meets the entry of another request; that it tells
requests apart as well is covered by the proof, which holds for any of them. One
token takes 2 2/3 ticks and 1 1/3 seconds, so every rounding in the script matters,
and an unused bucket expires within the clock. A tick brings in three units, and
with one inexact level since the hint the rounding adds up to just that (`Tight`);
with two it exceeds it, and Retry-After is not claimed to hold.
The liveness run of the job system has a copy for every publication it can make
(attempts plus faults), so that the pool of copies never blocks a dispatcher. In
`job_retry` the cooldown exceeds the cap on the backoff, and the margin is
exactly two round trips, so that a lease or a delay that is shorter by one unit
is too short. Four events hold a complete OpenAI answer (text, finish, usage,
`[DONE]`) and everything that may be wrong with one; three in `stream_exchange`
hold a complete answer of either adapter, and an error after its first text. Six
bytes hold two events of a data line each, or a line with a multi-byte character
whose halves lie in different chunks, and frames above the limit. Two scrapers
can share a collection, or the second can come while the read of the first has
timed out and is unanswered.

`CHECK_DEADLOCK` is off where a finite set of requests, callers or a bounded
clock ends; the job system never stops, and there it is on.

### Fairness

* Job system: the loop, the deliveries and the drain of a live process go on
  (the event loop runs what is ready, statements and calls end by their
  timeouts); the broker stores what was sent, delivers and activates a consumer;
  backoffs and leases run out; a process that is down is started again.
  docker-compose restarts a worker that failed (`restart: on-failure`); after a
  graceful exit the restart is the operator's, and is an assumption. Neither
  submissions nor faults are forced, and rows need not grow old.
* Router, chat: promises settle, as provider calls and cache commands have
  timeouts. The limiter's wait timer is not assumed to fire.
* Limiter alone: permits are released. `UsesLimiter` shows that `/v1/chat`
  keeps this promise.
* Provider call: the deadline fires, and what the process can do by itself is
  done. Neither the provider nor the consumer of the text is forced.
* Stream: the limiter decides, the timers of writes and calls fire, settled
  promises resume, an abort is noticed. Nothing is asked of client or provider.
  `StreamRoute` alone assumes that the provider ends; `ImplementsRoute` discharges
  that from the deadlines.
* Gateway: the steps of the shutdown, the timer of a scrape and the encoding of its
  answer, handlers that do not query (`ChatRoute`, `StreamExchange`: they end), and
  the closing of connections whose response is sent. Nothing is assumed of
  Postgres, Redis or clients. `ShutdownEnds` instead has a premise: no request waits
  for ever for a command, a statement, its body or the delivery of its response,
  nor the start for the first query of the pool, nor a scrape for its own. The
  process sets no time limit to these; `statement_timeout` is enforced by Postgres,
  which has to answer.

### What the results say

* `HandoverRunsOneConsumer` is limited to calls on a live connection. A call
  whose connection was lost goes on while its delivery runs elsewhere;
  HANDOFF.md says the same of the concurrency bound.
* A job that fails because its last lease ran out has no dead letter.
  `DeadLettersFailed` is therefore an implication in one direction, as HANDOFF.md
  documents.
* `RateBounded` counts a token as spent when the script ran, whether or not the
  reply arrived: a lost reply costs the client a token and is never free. Lost
  Redis data grants one fresh bucket per loss.
* A cached answer may be written by a request that was cancelled meanwhile (the
  README of the repository says that a write already sent cannot be retracted);
  `AnswersInScope` shows it is still an answer to the same request of the same
  owner.
* `ShutdownSparesClients` is about clients that are still connected, and excepts
  an `app.close()` that rejected: the code logs that and goes on closing Redis
  and the pool, so what is still running may find them closed.
* `LeaseOutlastsAttempt` rests on `2 * Delay <= Margin`: with the margin of 30
  seconds, the answer to the claim and the final statement may take 15 seconds
  each. A worker that stalls for longer loses its lease, and `JobSystem`, where
  leases expire at any time, shows that this costs an attempt and no consistency.
* `SilentAfterReturn` discharges what the router model assumes: a call that has
  ended emits nothing more.
* `NothingLeftBehind`: an operation that waits for a write to a client which reads
  no more outlives its call. It ends with the write: by the abort of the signal, at
  the latest in the handler's `finally`, by the timer of `writeSse`, or when the
  response closes.
* `RetryAfterSound` is about the moment after the hinted one, and not that moment
  itself: the script computes in doubles, and a level that is due to be one token
  may come out a little below. It also needs the rounding that rejected requests
  have stored since the hint to stay below a tick's inflow (`Tight`).
* `ShutdownEnds` is as strong as the clients of the process allow: a Redis command
  or a Postgres statement that is never answered, or a client that never sends the
  rest of its body, keeps `app.close()` waiting.
* `CancelledComesToNothing` is about what happens after the abort. A lookup or a call
  that was under way runs on until its own await ends, and a SET that has been sent
  may still be applied.

No disagreement between the code and its documentation was found.

## Proofs

The modules `...Proofs` are checked by TLAPS for every value of the constants,
under the named assumptions of the modules: budgets, thresholds, cooldowns,
capacities and limits are positive naturals, bounds are naturals of any size;
`None` and `NaN` are not values of the sets they are added to, and the words of
`ChatRoute` for a reply that is no answer are not requests; the two targets are
different; a circuit starts below its threshold (`PastAssumption`); requests and callers are finite sets (`RequestsAssumption`,
`CallersAssumption`), as their number is counted; two round trips fit into the
margin of a lease (`TimesAssumption`); and powers of two are naturals
(`PowersAssumption`), which the prover does not know.

Every safety property that a run checks is proved. Each inductive invariant was itself checked by TLC on the instance of its run
before it was proved.

### Job system

`IInv` strengthens the properties with what each participant knows:

* `RowsOK`: an id that is not in use has no attempts, a job that waits has budget
  left; only terminal rows grow old.
* `MessagesOK`: a message anywhere is `Justified`: its attempt was started, or it
  is the next attempt of a job that waits and is due. So a claim that turns a
  message away turns away an attempt that has already been started, which is why
  acknowledging it loses nothing.
* `TxOK`, `LocksExclusive`: a row in a dispatcher's transaction stays
  dispatchable, and of the same attempt, until the commit; no two dispatchers
  hold one row.
* `TaskOK`, `CopiesExclusive`: a delivery on a live connection is held by its
  worker; after the claim its attempt has been started; a delivery that is to be
  rejected belongs to a job that failed with that attempt.

A step is first classified by what it does to the table (`StatementOfStep`), to
the broker's copies (`TrafficOfStep`), to a dispatcher (`DispatcherStep`) and to
a delivery (`DeliveryStep`). Each conjunct is then proved from the classification
it depends on rather than from all thirty actions. Attempts never decrease
(`RowProgress`), from which a justified message stays justified. `Inductive`
combines them; `TypeCorrect`, `NoJobLost`, `OneOwner`, `LastResult`,
`OneConsumer` and `DeadLetters` follow.

`ReceiptInv` adds to `ReceiptsFaithful` that a receipt is of a row that was
inserted, whose id is never drawn again, so that its submission stays.
`FaithfulReceipts` then needs only the statements: the INSERT finds no retained
row with its key, or the SELECT finds the one it returns (`NewReceipts`,
`UniqueKeysStep`).

`ContractImplemented` is the refinement of `JobContract` by the whole system. By
the same classification a step changes at most the rows that one statement
touches (`RowMovesStep`), and each of those moves by an edge the contract allows,
or only in columns that `getJob` does not show (`ContractMove`).

### Router

`RouterInv` adds to `SingleProbe` and `CircuitSound` that no call belongs to a
future generation, no circuit was opened in the future, everything a request
passed on came from its current target, and a call that returned to a cancelled
request is settled as aborted. The central case is a circuit that
opens: its generation grows, so no call in flight counts any more.
`CooldownHolds` and `AbandonedIgnored` are action properties, proved from the same
invariant.

### Retries and leases

`LeaseInv`: what an attempt may still need after its current wait (`Remaining`)
fits into its lease. It is needed because the property says nothing about the
time that is left: each step moves a part of the sum from `Remaining` to `due`.
`CooldownInv` follows an opening (circuit and generation) through an attempt: it
is over at the time the rejection promised, hence when the job is available
again, hence when its next attempt runs (`Over`), and a generation that has
passed never comes back (`Past`). It rests on the router's invariants.

### Limiter

`LimiterInv` adds to `LimiterSound` that nobody is twice in the queue. Steps
are classified by the one caller they move (`Changes`), which gives the counts,
and by what they do to the queue: append, take the head, or remove a position
(`LosesOne`), which gives the order.

### Chat route

`HandlersUseLimiter` shows that what the handlers do to the limiter's variables
is a step of `ConcurrencyLimiter` or a stutter. The theorems of `ConcurrencyLimiterProofs` then hold of
the limiter in their hands (`LimiterStaysSound`), for any number of requests.
`ChatInv` relates the two sides: whoever waits in the limiter has a handler that
is queued and is not cancelled, what a lookup found is an answer of its scope, and a
request that uses the cache, or has a SET under way, has opted in. It needs the
soundness of the limiter, since a release hands the permit to another request, which
must be one that waits. Its conjuncts are grouped by what they are about (`Typed`,
`PermitInv`, `ReplyInv`, `CacheInv`), and each step is shown to keep them for the
request that takes it and, by what it leaves alone, for the others (`AtStep`,
`Others`). `NoAnswerAfterCancel` is the action property `CancelledComesToNothing`,
proved along the same cases: a step of a cancelled request ends it by `Throw`, and
a step of another can hand it no permit, because a cancelled request does not wait.

### Token bucket

`BucketInv`: a bucket expires a time to live of `Ttls` after its last write, and the
bound holds for what is there; since even the shortest time to live, rounded down,
refills a bucket (`TtlFills`), an expired bucket was full. Rounding is any number of
units up to a whole token. `HintInv`: since the hint the stored bucket changed only
by rejected requests, which conserve the moment at which it holds a token but for
the rounding of each (`DueAt`, `Slack`); as long as that is `Tight` the moment lies
less than a tick behind the hint.

### Stream parser

`ChunksAreInvisible` holds for every limit of a frame and for bodies and chunks of
any length. `ParserInv` says that the text decoded so far is a part that was
scanned and the rest of the current chunk, and that the scanned part alone
determines everything else: `pending` is its last piece, `data` and `size` are
the values of its unfinished block, `out` is what it means, and it fits
(`Parsed`). The property does not mention `pending`, `data` or `size`, on which
the next line depends; this is why it is not inductive.

What remains is to say how the reference changes when the text grows at its end,
as no step of the parser does anything else to it. A piece without a newline
extends the last line (`LinesPlain`), a newline finishes it (`LinesCut`), a blank
line finishes a block (`EventsBlank`), and what is too long stays so whatever
follows (`FitsIs`, `BlocksGrow`). These facts come down to positions: the first k
positions of a set are the same in a longer sequence (`NthBelow`), and those
behind them are shifted (`NthAbove`). A prover without induction over sequences
gets there from one principle, that a set of naturals which is not empty has a
least element (`LeastElement`), itself a consequence of the library's theorem that
`<` is well-founded. The module takes by far the longest to prove, about 25 minutes.

### Calls, streams and gateway

`SilenceInv`: who has returned has aborted its signal, so `throwIfAborted` stops
the operation before its next text.

`AnswerInv` is about an operation in the middle of a body. Of the events received
it has handled the first n, and the rest are the lines still to handle; the first
n are an answer under way (`Unfinished` or `Finished` for OpenAI, by the flag the
adapter keeps; `Unended` for Ollama), and the places passed to `onDelta` are those
of the texts among them (`Known`). The lemmas about the reference come first and
do not mention the system: what one more event does to an answer under way
(`ProgressNext`, `PlacesNext`), that it does not depend on what follows
(`SamePrefix`), that no part of it is a complete answer (`NoneYet`), and that none
ever will be after an event the adapters refuse (`NeverLegal`). `AnswersAreComplete`
is thus proved for bodies of any length without induction over them: the body
grows by steps of the system.

`ExchangeImplementsRoute` shows that every step of the composition is a step of
`StreamRoute` or a stutter; with `RouteInv`, what has been written at each stage,
the safety properties of the route then hold for the composition.
`DoneIsWholeAnswer` needs both sides. The calls keep `AnswerInv` and `SilenceInv`
by the lemmas of `ProviderCallProofs`, also where the composition does two things
in one step (a text is offered, and the write that finds the socket closed aborts
the request). `ExchangeInv` adds that only the current target has passed on text,
that the other one has not started or has returned, and that as long as nothing is
cancelled there are as many deltas as texts passed on.

`ShutdownInv`: clients are closed only by a start that failed, when no request was
admitted, or behind `app.close()`, when none is connected. `CountInv` and
`ScrapeInv` do the same for the gauges.

### Only model-checked

Liveness under fairness, which is out of the prover's reach: `JobsEnd`,
`DrainEnds`, `ProbeEnds`, `RequestsEnd`, `WaitersServed`, `CallsEnd`,
`ShutdownEnds`, `NothingLeftBehind`, and the fairness in `UsesLimiter` and
`ImplementsRoute`, whose safety is proved.

## Not modelled

* Data without control: which API key matches a hash, the HTTP schemas, the
  wording of errors, the fields of provider requests and answers, model names.
  The field checks of the adapters are one kind of event, `bad`.
* The visibility of a job to its owner, which is one condition of a query.
* Counters and histograms that only grow; the gauges of provider calls and job
  attempts, which are set and reset around code that is modelled. The status
  route, which only reads.
* Parsing of the environment, the migration runner and the script that creates
  API keys: they run once, alone, and keep no state. Of the configuration, the
  size of a lease is in `JobRetry`.
* The fields of Postgres timestamps below the unit of the clock.
* More than one gateway process, except for submissions: they share only
  Postgres, Redis and the bucket, whose statements and script are atomic.
