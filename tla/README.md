# TLA+ verification of the Datadog Lambda Extension (bottlecap)

The extension is a second process in the sandbox of an AWS Lambda function. It
receives telemetry from the platform, the tracers and the function, turns it
into logs, traces, metrics and stats, and ships these to Datadog between, during
or after the function's invocations. It has to do so although Lambda freezes the
sandbox whenever the extension asks for the next event, may end it with a short
shutdown phase, delivers its records late and in batches, and although the
intake may be slow or down.

This directory models `bottlecap/src`: *when* data is flushed and *what happens
to every payload* on the way; *how the telemetry pipeline, the invocation
processor, the trace intake and the runtime proxy* behave under reordering, full
buffers, faults and shutdown; and *what the algorithms that work on one payload
compute*. TLC checks small instances; TLAPS proves, for all values of their
constants, safety of the flush decision, the flushing service, both main loops,
the telemetry pipeline, the ingest barrier, the runtime proxy and the invocation
processor. All paths below are relative to `bottlecap/src` unless they start with
`src/`.

## 1. Inventory

| Part | State it keeps | Operations | Interacts with |
|---|---|---|---|
| flush control (`lifecycle/flush_control.rs`, `invocation_times.rs`) | strategy, `last_flush`, ring of 20 invocation times | `evaluate_flush_decision` once per invocation | asked by the on-demand loop; reads the wall clock |
| flushing service (`flushing/`) | vectors of `JoinHandle`s per flusher | `spawn_non_blocking`, `await_handles`, `flush_blocking`, `flush_blocking_final` | owned by one task; calls the five flushers concurrently |
| flushers (`logs/flusher.rs`, `traces/{trace,stats,proxy}_flusher.rs`, dogstatsd) | none between calls | `flush(retry)`: resolve key, retry, fetch, send, hand back failures | aggregators, intake over HTTP, `ApiKeyFactory` |
| aggregators (`logs/aggregator*.rs`, `traces/*_aggregator*.rs`) | queues | insert, get batches, clear, shutdown | commands over channels; shared by concurrent flush calls |
| on-demand main loop (`bin/bottlecap/main.rs`) | where it is in its `select!`s, the current decision | next event, event bus, flush tick, shutdown sequence | owns flush control and the flushing service |
| Managed Instance loop (same file) | three tasks and their cancellation tokens | flusher task, shutdown task, event loop | share the flushing service through the flusher task |
| telemetry pipeline (`extension/telemetry/listener.rs`, `logs/agent.rs`, `event_bus/`) | the bounded channels between listener, agent, main loop and invocation processor, agent phase | POST handler, agent `spin`, drain, Tombstone | platform → listener → agent → event bus → main loop |
| lambda logs processor (`logs/lambda/processor.rs`) | current request id, orphans, held lines, map of durable contexts | one per telemetry event, context update, drain | fed by the agent and by the invocation processor |
| split-payload stitching (`extension/telemetry/stitch.rs`) | the piece held of a cut body, with a deadline | join, hold, discard | the POST handlers of the listener |
| invocation processor (`lifecycle/invocation/`) | bounded context buffer, FIFO pairing queues, by-id maps, metric state | invoke, universal-instrumentation start/end, platform init/start/done/report, OOM, shutdown | main loop, lifecycle listener, trace agent, runtime proxy; durable contexts go to the logs agent |
| lifecycle listener (`lifecycle/listener.rs`) | none | start-invocation, end-invocation | tracers → invocation processor |
| span inferrer and triggers (`span_inferrer.rs`, `triggers/`) | inferred and wrapped span of the current context | recognise, infer, extract the trace context, complete | invocation processor, AppSec, Data Streams |
| trace agent, trace and stats processor, OTLP agent (`traces/`, `otlp/`) | channels of 10 payloads, dedup set of 100 keys | HTTP and gRPC intake, chunk processing, forwarders, ingest barrier | tracers → aggregators, stats concentrator, invocation processor |
| stats concentrator (`traces/stats_concentrator_service.rs`) | buckets, tracer metadata, warnings given | add, flush, forced flush | trace processor; asked by the stats aggregator |
| data streams (`traces/data_streams/`) | buckets of checkpoints with sketches | record, drain | invocation processor → proxy aggregator |
| runtime API proxy, LWA (`proxy/`, `lwa/`) | the set of body tasks, behind a lock | next, response, error, pass-through, shutdown | function runtime ↔ Runtime API; invocation processor, AppSec |
| AppSec (`appsec/`) | 5 request contexts with held traces, sampler | analyse request and response, hold and release a trace | behind one mutex, from proxy tasks and trace processing |
| enhanced metrics (`metrics/enhanced/`, `proc/`) | usage peaks, readings at the start of an invocation | sample, restart, pause, report | a task of its own, switched by the invocation processor |
| secrets (`secrets/`) | the API key, once resolved | resolve the key and additional endpoints | AWS, Datadog; asked by the flushers |
| configuration, tags, logger, startup | constant after start-up | – | everything |

What is hard here:

* **Concurrency on shared queues.** A spawned round, the redrives of
  `await_handles` and a blocking flush can all run `flush()` of the same flusher.
* **Failure.** Requests fail after all attempts, time out although they
  arrived, or find no API key; payloads are then handed back, redriven, or dropped.
* **Order of arrival.** `platform.runtimeDone` can arrive after the next INVOKE;
  durable contexts race with the lines that need them; `platform.initStart` may
  repeat.
* **Bounds.** Channels of 100 and 1000 entries in a row, bounded maps with
  eviction, batches with byte limits.
* **Shutdown.** Drains, deadlines, a Tombstone and a final flush, while other
  tasks are still producing.
* **Wall-clock arithmetic.** Unsigned differences of a clock that may go back
  (the release profile has no overflow checks, so they wrap).

`PROJECT.json` lists these as hazards, each at its line, with the properties
that would catch it.

What makes each part correct:

* *flush control*: the ring is the history; Default adapts to it; skipping a
  flush is safe for every clock.
* *flushing service and flushers*: each shipment is in one place at a time, is
  never lost except on an explicit drop path, and is never sent twice unless an
  answer was lost or it is a trace; rounds do not pile up.
* *loops*: the final flush is alone and leaves nothing behind; an End flush comes
  after its invocation; the loop always gets back to `next_event`, or to exit.
* *telemetry pipeline*: nothing dropped at full channels, Tombstone last, no
  deadlock between the tasks and their channels.
* *logs processor*: each line once, under its id, in order, decorated if it can be.
* *aggregators*: batches partition the queue in order and respect the limits.
* *invocation processor*: events are paired with their own request, and each
  complete invocation has its span sent, once, whatever the order of its events;
  usage figures belong to the period they are reported for.
* *trace intake*: a span goes out once although tracers send again; exactly one
  party computes its stats; a flush that waited for the barrier finds everything
  that was accepted before; every call is answered.
* *runtime proxy and AppSec*: a held trace is never lost or sent bare; locks,
  mutex and channel never block one another for good.
* *payload algorithms*: what the reader of their result relies on (a whole
  record, a continued trace, exact counts, a valid signature), see `Payloads`.

## 2. Modules

```
FlushControl ── FlushControlProofs
Flushing ─┬─ MCFlushing
          ├─ OnDemandLoop ── MCOnDemandLoop
          ├─ ManagedLoop ─── MCManagedLoop
          └─ FlushingProofs (of these three)
TelemetryPipeline ── TelemetryPipelineProofs, MCTelemetryPipeline
LambdaLogs ── LambdaLogsProofs, MCLambdaLogs
Batching ── BatchingProofs
ContextBuffer ── InvocationProcessor ── Invocation ── InvocationProofs, MCInvocation
                                        InvocationLedger ┘ (implemented)
TraceProcessor ── TraceIntake ── TraceIntakeProofs, MCTraceIntake
AppSec ── RuntimeProxy ── RuntimeProxyProofs, MCRuntimeProxy
Stitch, Triggers ── SpanInferrer, DataStreams, Otlp, StatsConcentrator,
Secrets, AppSecPayload, EnhancedMetrics ── MCPayloads
```

Definitions whose name starts with `Mut` are wrong versions of the definition
that follows them (a dropped guard, a missing reset, a swapped order). They are
in no next-state relation; each is used to show that one property would notice it.

**FlushControl.** State: the configured strategy, `last_flush`, the ring
(`times`, `head`), the last decision, and a history of clock readings that only
properties read. One action, `evaluate_flush_decision(now)`, with any `now`:
nothing in the code makes `SystemTime` monotone. Differences are taken modulo
`U64`. The division by `LOOKBACK_COUNT - 1` is written as a multiplication.

**Flushing.** A *shipment* is a payload for one endpoint. `agg` and `dsm` are
the aggregators, `task` the state of every flush call (its caller, flusher and
round), `handles` the `JoinHandle`s, `op` the service call the owner awaits.
`delivered` and `lost` record the outcome of each shipment; every explicit drop
path of the code has its own reason in `lost`. One flush call goes through
`retry` (what it was given), `more`/`fetch` (the aggregator), `send`, `done`;
`Deliver`, `Reject`, `Exhaust` are the three outcomes of a request after its
internal attempts. The differences between flushers are in the code's own
places: when the key is resolved (`BeginWithoutKey`, `Fetch`), what one request
carries (`Requests`), what is handed back (`HandedBack`), and whether a retry is
followed by a fetch (`AfterRetry`). `StartCalls` is the part the service does
itself: it takes the metrics and drains Data Streams stats into the proxy
aggregator. It is one step although the code awaits twice in it: what other
tasks do in between commutes with the rest. Left out is a metrics aggregator whose
task is gone (`flush_blocking_inner` then reports the metrics as undelivered; the
release profile aborts on a panic, so the process is gone with it).

**OnDemandLoop** extends Flushing with the loop of `extension_loop_active`:
`loop` is the program point, `bus` the runtimeDone records on their way,
`invoked`/`over`/`emitted` count invocations started, finished, and reported.
Its calls are Flushing's service actions. A decision is any that the strategy
can produce (`DecisionsUnder`): the loop is checked for every outcome of module
FlushControl, not for one clock. A runtimeDone record may come without metrics
(`bare`), and `handle_event_bus_event` then does not return it.

**ManagedLoop** extends Flushing with the three tasks of Managed Instance mode.
The tick and the cancellation compete in an unbiased `select!`.

**TelemetryPipeline.** POST handlers, the logs channel, the agent (`spin`,
`drain`, `rest`, `tombstone`, `gone`), the event bus, the main loop, which is
receiving, busy, or handling an event, and the invocation processor behind its
command channel. Events are a POST and a position; those in `Forwarded` are
platform events the logs processor passes on to the bus, those in `Answered`
(runtimeDone, report) keep the main loop waiting for the processor. The trace
agent may send durable contexts, which the processor forwards to the agent: the
four tasks and their channels form a ring, which `RingCloses` describes.

**LambdaLogs.** The processor behind the agent: `request_id`, `orphan_logs`,
`held_logs` with its eviction order, the context map with its own. Each
telemetry event is one action that includes everything `process` does with it:
message, id, orphan adoption, rules, hold or ship, and hand-over to the
aggregator. The platform's side (which records can come when) is the guard of
the actions. A line carries its number, its id and how it was decorated.
The flag `spinning` records that the eviction loop of `hold_log` has no exit.

**Batching.** The three `get_batch` functions over sequences of sizes, as
recursive functions, with the commands of the services around them.

**ContextBuffer, InvocationProcessor, Invocation.** The buffer and the processor
are records, each handler of the code a function on them, with everything it
calls applied in the code's order (one task runs the handlers, so each is
atomic). Invocation adds the senders: the platform, the main loop, a tracer of
one of four kinds (none, without request ids, with them, Lambda Web Adapter) and
the usage task; an action is the arrival of one command. The listener spawns a
task for each start and end of a tracer, and these run in any order (`tasks`; `env`
records which were overtaken). The usage task ticks, reads `/proc` and sends its
sample in three steps (`sampler`), between which anything may happen. `env` is what
really happened and is read by properties only. An event that carries no request id is
represented by the request it belongs to, which the code never looks at.

**InvocationLedger** is the abstract specification: an account per request that
is opened once, closed once, and whose span falls due at most once, while it is
open, and is paid at most once. `Invocation!KeepsLedger` is its specification
under a refinement mapping that reads phase and span from `env` and the processor.

**TraceProcessor, TraceIntake.** The first has what happens to the chunks of a
request as operators (tag filters, the extension's own spans, decision maker,
sampling with the error sampler, stamping). The second has the calls step by
step: read, deduplicate span by span through the service, whose answer may get
lost and for which there may be a time-out (the default is none), process,
generate stats, send on a bounded channel, answer; a client may go away at each
wait. Metadata of an OTLP export over gRPC is ignored, as in the code
(`MetadataIgnored`). Forwarders, the ingest barrier and an aggregator that stops are
actions of their own.

**AppSec, RuntimeProxy.** The proxy's handlers, the tasks they leave behind, the
lock on the task set and the AppSec mutex as queues in order of arrival, and the
traces that are held until the response of their request was analysed. A caller
may close its connection, and its handler is then dropped where it waits: for the
lock, for the mutex, or for room on the trace channel with the trace already taken
from its context. A send that fails because the aggregator is gone is in
TraceIntake.

**Stitch, Triggers, SpanInferrer, DataStreams, Otlp, StatsConcentrator, Secrets,
AppSecPayload, EnhancedMetrics** are algorithms on one payload (or a short
sequence of them), written as operators with the names of the code's functions.
**MCPayloads** enumerates their inputs: a first step picks one input, a second
has the code handle it (`output` is what comes out), and the invariants compare
it with a definition of what is expected that is written independently of the
algorithm. The stats concentrator keeps its 10 s buckets apart, some of which a
flush keeps back. Left out of Otlp: a trace id of fewer than 16 bytes, on which the
conversion panics.

## 3. Runs

| Run | Instance | Shows | States |
|---|---|---|---|
| `FlushControl` | ring of 3, clock 1..6, 4 evaluations, all strategies | adaptation, freshness | 26,739 |
| `Flushing` | one log to two endpoints, Data Streams stats for the proxy, 2 rounds, missing keys | the payload properties of section 1, including retries surviving a blocking flush | 316,574 |
| `OnDemand` | all 5 strategies, 3 invocations, records with and without metrics, 2 rounds, one stats payload | exit settled, End after its invocation; shutdown and End terminate | 173,992 |
| `Managed` | a trace and Data Streams stats, 2 rounds, missing keys, one transient error | exit settled, process terminates | 98,356 |
| `Logs` | 2 requests, on demand and managed, 5 events, 2 runtime starts, 2 context updates, buffers of 1 | lines once and in order | 4.52 M |
| `Pipeline` | two POSTs of 4 and 1 events, two durable contexts, four channels of 1 | nothing dropped, Tombstone last, no wait cycle but the ring, shutdown completes unless it closes | 0.45 M |
| `Batching` | 4 payloads of sizes 0..5, limit 4, all three kinds | batches and queue partition the payloads in order | 64,570 |
| `Invocation` | 2 requests, buffer of 2, 2 extra events, 11 set-ups of mode, tracer and faults | own pairing, complete invocations sent, usage periods, InvocationLedger implemented | 3.18 M |
| `TraceIntake` | up to 3 of 8 calls at once, 5 configurations, dedup set of 3, channels of 1, 2 faults | sent at most once, and sent unless excused, stats once, barrier, every call answered | 0.25 M |
| `RuntimeProxy` | 2 requests, 3 traces (two of them of one request in one set-up), one context, channel of 1, 1 fault, 4 set-ups | no trace vanishes or leaves bare, everything settles | 1.24 M |
| `Payloads` | the inputs of nine algorithms at their limits | see below | 151,409 |

What the invariants of `Payloads` say, one per algorithm:

| Invariant | Against which reference |
|---|---|
| `SplitRecordsRecovered` | the records as they were before the platform cut them; POSTs late, lost or out of order |
| `TraceContextContinues` | the context of the hop nearest to the function |
| `InferredSpansChain` | one chain of parents in one trace, with its times and services |
| `MessagesCountedOnce` | the messages of a recognised batch, each under its own pathway, seen by one or two hooks |
| `SketchCounts` | the multiset of keys, read back from the encoded form |
| `OtlpSpansKept` | the spans of the request, their times within an i64, and the fields in which the datadog namespace wins |
| `CollapseReported` | the spans of each bucket and the number of distinct values per field in it |
| `SecretsResolved` | the first source that is set; AWS's check of a signature |
| `RequestsAnalysed` | the results of both phases of the rule engine in order |
| `UsageReported` | monotone counters: bounds, sums and what depends on what |

One run shows a disagreement between the code and what it says of itself, with
an entry under `findings`: `LogsEvictionSpins`. `platform.initStart` clears the
eviction order but keeps some lines held; at capacity the eviction loop pops
from an empty order for ever. Further disagreements are in section 5.

### Bounds, and why they are enough

* *Ring of 3, 4 evaluations, clock 1..6*: the ring wraps, every pattern of
  forward and backward steps over a window occurs; the proof covers the rest.
* *Two rounds*: one round whose handles are unjoined while the next is spawned is
  the most the guard on pending handles allows; a third adds no new overlap.
  Redrives and a blocking flush run next to both.
* *Two endpoints only for logs*, the one flusher that resolves a key per
  endpoint after fetching; *one payload per kind*: flush calls interact only
  through shared payloads. Traces and stats calls appear in the loop
  runs; metrics, and all kinds together, in the proofs.
* *Three invocations*: current, previous with a late record, and one more.
* *Channels of one entry*: all combinations of full and empty are reached with
  five events.
* *Buffers of one key with two requests*: eviction, refusal and re-insertion all
  happen; five events suffice for an orphan, two held lines, an eviction and a
  repeated `initStart`.
* *Sizes 0..limit+1*: below, at and above the limit with and without separators.
* *Durable contexts in `Pipeline`*: two, on a channel of one, so that the ring can
  close and does (section 5); the liveness properties except the behaviours in
  which it stays closed (`RingCloses`) and nothing else. In the code 500 contexts
  have to arrive while the agent is held up.
* *Two requests* (`Invocation`, `RuntimeProxy`): pairing errors need two; on
  demand one follows the other, on a Managed Instance they overlap. The bound on
  extra events covers each of: a second init record, an out-of-memory log, a late
  report, a usage sample.
* *Dedup set of 3, channels of 1, 2 faults* (`TraceIntake`): two calls share a
  span, a third fills set and channel; a fault is a lost connection, a deduper
  that times out or loses an answer, or a stopped aggregator, and two of them
  combine any pair. Some configurations have the time-out, some have none.
* *Limits of the algorithms* (`Payloads`) are scaled down to 2..6 (bins of a
  sketch, fragments, cardinalities, sampler slots, a varint base of 4) so that
  inputs below, at and above them are enumerated.

`SYMMETRY` is used only in `Logs` (interchangeable request ids) and with safety
properties. `CHECK_DEADLOCK FALSE` marks the models that end (exit, shutdown) or
whose bounds stop them; `Flushing` has no such end and is checked for deadlock.

### Fairness

Liveness is checked in `OnDemand`, `Managed`, `Pipeline`, `TraceIntake` and
`RuntimeProxy`.

* Weak fairness of the loops' and flushers' own steps: tokio runs every ready
  task and each HTTP attempt has a timeout, so a request reaches one of its
  outcomes. No fairness is put on a request *succeeding*.
* Weak fairness of an invocation's end and of its runtimeDone record: Lambda
  ends an invocation by its timeout and reports it. This is an assumption about
  the platform.
* No fairness of new invocations, of a shutdown, of the tick or of the idle
  timeout of the Tombstone wait: none of them may be needed for progress.
* `Pipeline` has strong fairness of receiving bus events: the loop's `select!`s
  are biased towards the bus and it passes through one in each invocation. Weak
  fairness of the invocation processor: a task that is never starved.
* `TraceIntake` and `RuntimeProxy` put weak fairness on `Work`, the disjunction
  of everything the extension's own tasks can do, and on nothing a client, the
  function or a fault does: some ready task always runs. The function may run
  for ever, a client may never call. `Work` has the deduper serve its queue, but an
  answer may get lost; what then goes on is the time-out, if one is configured.

## 4. Proofs

`FlushControlProofs` (for every ring size > 1, clock, intervals, and a `U64`
with room for them) proves type correctness, `RingHoldsLastInvocations`,
`DefaultAdaptsToHistory` and `SkippedOnlyWhileFresh`. The ring invariant is
inductive with the type invariant: an evaluation writes slot `head`, moves
`head` on, and so shifts every "written *k* evaluations ago" by one. The other
two need it plus the fact that they speak of the last evaluation only: an
arithmetic lemma shows that a wrapped difference exceeds every interval and the
threshold, so a clock set back leads to a flush, never to silence.

`FlushingProofs` (for any payloads, kinds, non-empty endpoint sets, number of
rounds, and both switches) proves `TypeOK`, `DisjointHands`, `NothingVanishes`,
`LostForGood`, `NoDuplicates`, `OneRoundAtATime` and the action property
`RetriesSurviveBlockingFlush`. None of them is inductive alone. The inductive
invariant adds

* `StageShape`: which parts of a task are empty in which stage (an idle or
  fetching task holds nothing, a finished one only failures);
* `FieldsDisjoint`: to-do, sent and failed of one task do not overlap;
* `KindsMatch`: a flusher holds and its aggregator keeps only its own kind;
* `IdleCalls`: spawned calls without a handle, redrives whose handle is not
  joined, and blocking calls outside a blocking flush are idle, so starting a
  call never overwrites one;
* `FreshUnknown`: a payload not yet accepted is nowhere and has no outcome;
* `SentDelivered`: what a task counts as sent has been delivered;
* `DsmApart`: Data Streams payloads waiting for their drain are not yet in the
  proxy aggregator.

The proof has one lemma per action. Those that move shipments inside one task
share a lemma about a single task changing its fields, the ones that start calls
share one about `StartCalls`.

`OneRoundAtATime` and `DisjointHands` are proved and not checked by a run as well.

The second half of `FlushingProofs` is about the two loops (for any payloads,
strategies, rounds and invocations). First, every step of a loop is a step of
`Flushing` or leaves its variables alone (`OnDemandUsesService`,
`ManagedUsesService`), so that all theorems on `Flushing` hold of the loops. On
top of that invariant, `CallsInPlace` (`FlusherCallsInPlace` for Managed
Instances) says at which program point which calls may be active, and the
shutdown part says what the final flush may still find: no spawned call runs
next to it (`HandlesSettled`), and what was accepted before leaves the
aggregators with it and is settled when it returns (`Emptied`). `ExitSettled`
and `ManagedExitSettled` follow. The Managed Instance needs one thing more: the
services are cancelled before the flusher leaves its `select!`
(`CancelledFirst`). `EndFlushAfterInvocation` needs no fact about the service:
it counts invocations against runtimeDone records on the bus (`Counted`,
`EndReceives`).

`TelemetryPipelineProofs` (for any POSTs and channel capacities) proves
`NoEventDropped` and `TombstoneComesLast`. The order of the shutdown is the heart
of it: a listener that is gone has no handler that still sends, the last part of
the drain runs behind a closed receiver, once the agent is past its drain the
logs channel is empty and nobody can send on it any more (`DrainedForGood`), and
the Tombstone is on the bus behind everything else, when its sender is gone.

`LambdaLogsProofs` (for any requests, modes, buffer sizes, processing rules and
number of events, updates and initialisations) proves `EveryLineOnce` and
`OrderWithinRequest`. The inductive invariant `LogInv` looks at shipped and held
lines together: per request what was shipped, followed by what is held, has no
line twice and is in order (`Tidy`), different requests share no line, and the
numbers of all these lines are exactly the kept ones. `HeldForReason` is what makes
a line that is shipped directly safe: nothing is held for its request then, because
lines are held only while the function may be durable and the context is unknown.
Evicting, decorating, resolving and draining are all *moves* (`Moved`): each request
keeps its lines, and no line becomes held. The loops over the lines of an event and
over pending context updates are inductions by the least counterexample. The
order in which keys are evicted plays no part. TLC checked the same invariant on
the instance of the run.

`BatchingProofs` (for any limits, sizes and number of payloads) proves
`EachPayloadOnceInOrder`. Flattening distributes over concatenation
(`FlattenCat`), a batch ends within the queue (`BatchLenFact`), and so the batches
of `get_batches`, flattened, are the front of the queue (`BatchesCut`, an induction
from the back of the queue) and the rest stays. What a payload weighs plays no
part: limits decide where batches end, not what is in them.

`TraceIntakeProofs` (for any calls, bodies, configurations, capacities and
faults) proves `BarrierCoversAccepted`: what was accepted before the flush asked
for the barrier is stored when the barrier is passed. The invariant says that the
payload of an accepted call is on its channel or stored unless the forwarder
ended (`AcceptedNotLost`), that a forwarder that acknowledged has stored what the
barrier covers of its kind (`AckedIsStored`), and in which order a call is
answered (`CallInOrder`). What `process_traces` computes is opaque to it.

The second half proves `SentAtMostOnce` and `StatsComputedOnce` and must look
inside. Spans of a body are numbered; `retain` and `SpansOf` keep a selection of
them, none twice (`RetainFact`, `SpansOfFact`: inductions over the vector), so
`process_traces` counts every span it left exactly once, and what it stamps is
all of that (`ProcessTracesFact`). `PayloadInv`, on top of the first
invariant, says that a call has one payload at most, on the channel or stored, and
it is the result of its spans (`OnePayload`, `ResultsInOrder`: the trace handler
counts before it sends, the OTLP handler after), and that the deduper is asked
about spans in their order (`AskedInOrder`). Its heart is `KeptOnce`: while the keys
fit into the deduper and it answers in time, it knows the key of every span kept
by any call, cut or answered, and no two calls kept the same key. The step that
could break it is `Serve`: a span is kept only if its key is unknown, and
`check_and_add` never evicts then, by the pigeonhole principle; a lost answer keeps
nothing. A time-out keeps a
span blindly and voids the condition. `SentAtMostOnce` follows, since two payloads
with a key are of two calls that kept it. For `StatsComputedOnce` the three
parties are cases: stats by the backend need the stamped payload to be there,
which `AcceptedNotLost` gives as long as the aggregator runs. A gRPC export whose
metadata claims the stats is counted twice, and the theorem says so. `SentAtMostOnce` asks
for finitely many keys, without which their number means nothing.

`RuntimeProxyProofs` (for any requests, traces and capacities) proves
`NoTraceVanishes` and `SentFullyTagged`. The first is an account of places: until
it is accepted a trace is with the call that posted it; then it is held by the
context of its own request, on the channel, or stored, never in two of these, and
in none only if a trace of the same request took its place (`PlaceInv`). A dropped
call takes its trace with it, and a dropped error call the one it was sending:
these are then in no place. The
second adds what a context has learned by when: request and response are analysed
once each, and a context whose response was seen has learned all there is to
learn (`TagInv`).

`InvocationProofs` (for any requests, buffer capacity, tracers and number of
optional events) proves that the processor implements `InvocationLedger`
(`LedgerKept`, a refinement) and that `UsageCoversItsPeriod`,
`PairedWithOwnRequest` and `CompleteInvocationIsSent` hold. Each handler first
gets a lemma on what it does to the buffer and to the ledger: most only fill in
contexts (`Keeps`), others open one (`Opened`), end one (`Ended`, `Pays`),
release one (`Closed`) or make some due (`MakesDue`). `update_reparenting` walks
a list of any length; its lemma is an induction by the least counterexample
(`LeastNumber`, from the well-foundedness of the numbers). The invariant is then
about contexts and spans: one context per request, of an invocation that is
open; a span that is or was due is of an invocation whose runtime is done, and
its context, if it is still there, has both ids. That last part is what keeps a
span from falling due again: `update_reparenting` returns only contexts that
lacked an id. For the usage metrics: on demand every sample kept is of the last
invocation unless a sample was under way when the peaks were reset for it, and
all samples sent since are kept; a Managed Instance reads its peaks only when it is
stopped, and its counter is the number of open invocations. The proof
showed that the last conjunct of `UsageCoversItsPeriod` needs the metrics to be
switched on (`lambda_proc_enhanced_metrics`); the run has them on and could not
tell.

Pairing (`PairedWithOwn`) has an invariant of its own, `PairInv`, on top of that
one. With ids nothing waits in the two queues of the tracer, and what waits in the
maps waits under its own id. Without ids, on demand and as long as no event was
lost or overtaken (`Ordered`), the requests seen of each kind of event (invoked, started, begun,
done, ended, finished) form an initial segment of the invocations, and each queue
holds the difference of two of these segments in ascending order. So at most one
queue of a pair is non-empty, and its head is the least request of which the
partner has not been seen: the very request whose event arrives. The tasks of the
listener are two more such sequences between the tracer and the processor, of
which then only the head is taken. That the
initial segments stay such is what the order of the platform's events gives:
a start comes after the ends of the invocations before it. A Managed Instance
never pairs in order, and a lost or overtaken event voids `Ordered` for good. `Matches` is the
frame: every other handler leaves the queues alone.

`CompleteIsSent` adds the converse: what must arrive does arrive. `SendInv`, on top
of the two invariants, says where the context of an open invocation is (`Placed`:
in the buffer, if the requests fit in it; contexts of distinct requests other than
the one invoked leave a free slot, by the pigeonhole principle, so nothing is
evicted), what the processor has heard (`Heard`: a start event that arrived has the
tracer detected, an end event with an id is kept until its runtime is done) and
that complete invocations are paid for (`Delivered`). An invocation becomes
complete at its runtimeDone, or at its report on a Managed Instance; there
`PairInv` gives that the context holds its own start and end, and the handler then
finds it sendable. The proof needs `Requests` finite for their number to mean
anything; the property now says so.

Assumptions: capacities are positive, bodies are sequences of chunks whose spans
are numbered apart, request ids are positive numbers in the
order of their invocations (0 stands for the empty id), set-ups are of the form
the model describes. Every run evaluates them.

Only model-checked:

* all liveness (`ShutdownTerminates`, `EndGetsBackToNext`, `ManagedTerminates`,
  `EveryPostAnswered`, `ShutdownCompletes`, `EveryCallAnswered`, `ProxySettles`)
  and with it the absence of wait cycles: fairness and ENABLED are outside the
  prover's reach;
* `SentOrExcused`: whether a span survives depends on the chunk it is resent in
  (its priority, its root), so this is about the bodies of the run and does not
  hold of every set of bodies;
* the invariants of `Payloads`: what recursive operators and folds compute.

## 5. Smaller disagreements met while modelling

The models follow the code in each of these; they have no run of their own.

* `traces/trace_flusher.rs:210` hands back the whole coalesced batch after a
  failure half-way, requests already accepted included; line 86 says "Returns
  any traces that failed to send and should be retried." This is why
  `NoDuplicates` excepts traces.
* `traces/trace_flusher.rs:117`: after a successful retry the call fetches new
  traces; line 85 says "instead of fetching new traces".
* `flushing/service.rs:286`: `await_handles` returns true only for a JoinError;
  a redrive that gave payloads up is not reported, line 158 says "Returns `true`
  if any flush operation encountered an error."
* `bin/bottlecap/main.rs:577`: in Managed Instance mode the logs agent and the
  aggregators still run during the final flush; lines taken in by then stay
  behind. `src/bottlecap/README.md:27` says "Final flush ensures all remaining
  data is sent before the execution environment terminates". Hence
  `ManagedExitSettled` speaks of payloads accepted before the cancellation.
* `lifecycle/invocation_times.rs:69`: Default may adapt to a *blocking* periodic
  flush; `src/bottlecap/README.md:48` says "Switches to non-blocking continuous
  flushes".
* `logs/lambda/processor.rs:868`: orphans adopt the current request id even when
  it is the empty string; line 864 says "since we have a `request_id` now".
* `logs/lambda/processor.rs:641`: `drain_held_logs` does not ship orphans;
  `logs/processor.rs:94` says "Called at shutdown to ensure no logs are lost."
* `logs/aggregator.rs:60`: a logs batch may exceed the limit by one byte; line 52
  says "subject to the max content size". A log larger than a batch is put back
  for ever and blocks everything behind it (lines 62, 68).
* `traces/stats_aggregator.rs:72`: `size_of_val` ignores heap data, so the limit
  bounds the number of payloads only.

Main loop and pipeline:

* `bin/bottlecap/main.rs:752`: with `end,<ms>`, the runtimeDone of an invocation
  that was not flushed ends the wait of the next one, so the flush runs while the
  function does; `src/bottlecap/README.md:130` says it waits for the end.
* Line 1013: `handle_event_bus_event` returns a runtimeDone record only if it has
  metrics, which are optional in its type (the tests at
  `logs/lambda/processor.rs:1079` and 2843 build one without). Such a record does
  not end `'flush_end`: the loop neither flushes nor calls `next_event` for that
  invocation, though `src/bottlecap/README.md:130` says "Waits for
  `platform.runtimeDone`, then performs blocking flush". `EndGetsBackToNext` excepts
  exactly these invocations (`bare`); without the exception TLC finds the loop
  waiting for good after one invocation.
* Lines 737 and 1117: a Shutdown or an error in answer to the first `next_event`
  is not acted on. When `extension_loop_active` returns an error,
  `extension_loop_idle` ignores Shutdown and services stay unflushed.
* `lifecycle/invocation/processor.rs:1682`: with more durable contexts under way
  than their channel holds, agent, main loop and processor can wait for one
  another for good, also in the shutdown (the cancelled agent no longer receives
  contexts). The run has `MaxUpdates = DurableCap + 1` and reaches it; its liveness
  properties say that it is the only such cycle.

Invocation processor:

* `lifecycle/listener.rs:143` and 167: each start and end is handled in a task of
  its own, so two of a tracer that sends no request ids can reach the processor
  in the wrong order and be paired with each other's request.
* `metrics/enhanced/lambda.rs:611`: a sample taken before the next invocation may
  be added to its peaks.
* An out-of-memory log line that comes after the report is counted again; an
  error metric can be counted twice. The FIFO queues and by-id maps are not
  pruned; an end that comes after the report of a Managed Instance is not sent;
  an end that overtakes the first start leaves `tracer_detected` false.
* On demand, a runtimeDone that comes after the next invoke pauses the usage
  sampling of the invocation that is running.
* `set_init_tags`: after a release the buffer is empty again, so a later
  invocation is tagged as a cold or proactive start.
* `handle_reparenting` (`traces/trace_agent.rs:936`): two concurrent requests
  read and write back the same list; one update is lost.
* `span_inferrer.rs:178`: the duration of a wrapped span is computed before the
  inferred span has its start, and is negative; it stays so for asynchronous
  triggers. `InferredSpansChain` leaves this duration out.
* SNS: an attribute `_datadog` that cannot be read hides the EventBridge carrier
  of the message, where SQS falls through to its body. MSK takes the first record
  that names a trace context, even if its value cannot be decoded.

Trace intake, stats, Data Streams, OTLP:

* A span is entered in the deduper before its payload is accepted: what a tracer
  sends again after a disconnect or a 500 is dropped. `SentOrExcused` excepts
  it. `check_and_add` documents a time-out of 5 seconds; the default is none, and
  the call whose answer gets lost (`span_dedup_service.rs:52`) waits for ever.
* `otlp/agent.rs:120`: over gRPC the metadata that says the tracer computed the
  stats is ignored, and they are computed twice, as the comment there warns.
* `triggers/mod.rs:188` says of batches "so no message is dropped"; but a batch
  whose first record (for Kafka the one chosen for its trace context) does not
  deserialise is not recognised, and none of its messages is counted.
* `set_tracer_metadata` sets its flag before the command is sent: an `Add` of
  another thread may overtake it. With stats computed by the backend, a payload
  whose spans were all filtered is still sent. Span pointers are attached at an
  index taken before `retain` moved the spans (`traces/trace_processor.rs:338`).
* A field that collapsed inside the overflow entry of the whole-key limit is not
  reported.
* `sketch.rs:162`: a collapse adds the bins up to and including the new lowest
  one to that one without clearing it, so its own count is taken twice (keys -9,
  -2, 0, 1 with 4 bins show it). `SketchCounts` states "at least" for that bin.
* OTLP: `datadog.name` is overwritten unless `ignore_missing_datadog_fields`;
  `datadog.resource` is read from the resource only; `datadog.error` never takes
  effect; `set_measured` of true removes the mark; `service.version` replaces a
  version only if there is one; scope attributes override datadog tags; trace ids
  that differ in the high half only become one trace; an end before the start
  gives a negative duration, a start of 2^63 and above is negative; a negative `low` of a `{low, high}` time refuses the
  whole request.
* Stitching: pieces of records of two types in one POST discard the whole POST;
  across POSTs an event of another type ahead of the continuation loses the held
  piece and its whole POST; lost or reordered POSTs can join pieces of two records,
  since `resumed_bytes` compares neither type nor time.

Proxy, AppSec, metrics, secrets:

* `proxy/interceptor.rs:323`: the response handler holds the lock on the tasks
  while the Runtime API answers. A task that is spawned after the join is never
  joined.
* A context that is created after its result holds a trace until eviction, or to
  the end; `hold_trace` overwrites silently; a held trace is lost at shutdown, and
  when the error call that is sending it loses its connection.
* Multi-value response headers keep `set-cookie`, single-value ones drop it;
  request cookies are grouped only when adjacent; schemas are extracted without
  budget and for triggers that are not HTTP.
* Without a core that is in both readings, the least used one is reported with
  100 % and the most used one with 0 %.
* `resolve_secrets` has no time-out, additional endpoints have one; a parameter
  without a value ends the process; the domain of a secret's host follows the
  function's region, not the secret's; an empty `dd_api_key` in a secret is taken
  and hides an `apiKey`.

## 6. Not modelled, and the plan

Not modelled: the reading of the environment and of files into a configuration,
tags, deserialisation of telemetry records (serde derives), propagation styles
(the library's), HTTP client construction, FIPS selection, the logger, the rules
file of AppSec, and the test-mode binary. They are I/O, formatting, or start-up
code without concurrency. WAF, libdatadog's concentrator, AWS and the Runtime API
are external and appear as what the code relies on.

Next, in this order:

1. Proofs: `SentOrExcused`, once it is known under which conditions a tracer puts
   a span into the same chunk again.
2. Models: the merge of configuration sources; a refinement of Flushing's missing
   keys by the caching of `ApiKeyFactory`.

Runs are kept to one per module and question; runs that only show a disagreement
gave way to models of further components, and their results are in section 5.
