----------------------------- MODULE TraceIntake -----------------------------
(***************************************************************************)
(* traces/trace_agent.rs and otlp/agent.rs: concurrent calls of the HTTP   *)
(* and gRPC endpoints, the span deduplication service they share, the      *)
(* bounded channels to the aggregators with their forwarder tasks and the  *)
(* ingest barrier, and the stats concentrator.                             *)
(*                                                                         *)
(* A call is a request with a fixed body; several calls may carry the same *)
(* spans (a tracer that sends again).  App & API Protection is absent here *)
(* (see RuntimeProxy).                                                     *)
(*                                                                         *)
(* Definitions whose name starts with Mut are plausible wrong versions of  *)
(* the definition that follows them; the runs' properties are shown to     *)
(* reject them.                                                            *)
(***************************************************************************)
EXTENDS TraceProcessor

CONSTANTS
  Configs,          \* configurations to explore, each with the requests (calls) that come
  Calls,            \* the requests
  Body,             \* [Calls -> [kind, client_stats, chunks]], kinds "v04", "v05",
                    \* "otlp", "otlp_grpc", "stats", "proxy"
  DedupCapacity,    \* Deduper capacity (100)
  ChannelSize,      \* TRACER_ and STATS_PAYLOAD_CHANNEL_BUFFER_SIZE (10)
  MaxFaults         \* bound on refused bodies, early time-outs, lost answers, lost
                    \* connections and the end of the aggregator

VARIABLES
  config,      \* one of Configs
  call,        \* per call: [pc, at, kept, blind, out, status]: where it is, the span it
               \* asks the deduper about, the spans kept, was one kept without an answer
  dedup,       \* [order, queue]: keys seen, oldest first, and commands waiting
  channel,     \* payloads on their way, for "trace" and for "stats"
  store,       \* payloads in the aggregators
  forwarding,  \* the kinds whose forwarder runs
  aggregator,  \* is the trace aggregator task there?
  barrier,     \* [pc, waits, covers]: one use of the ingest barrier
  concentrator,\* per call: the spans of it that were added to the stats concentrator
  faults

vars == <<config, call, dedup, channel, store, forwarding, aggregator, barrier, concentrator, faults>>

Kind(c) == Body[c].kind
TraceCalls == {c \in Calls : Kind(c) \in {"v04", "v05"}}
OtlpCalls == {c \in Calls : Kind(c) \in {"otlp", "otlp_grpc"}}
SpansIn == [c \in Calls |-> SpansOf(Body[c].chunks, DOMAIN Body[c].chunks)]

\* Bodies are sequences of chunks of numbered spans; the deduper holds something.
ASSUME BodyAssumption ==
  \A c \in Calls : LET chunks == Body[c].chunks IN
    /\ chunks \in Seq(Range(chunks))
    /\ \A i \in DOMAIN chunks :
         /\ DOMAIN chunks[i] = {"spans", "priority", "dm"}
         /\ chunks[i].spans \in Seq(Range(chunks[i].spans))
         /\ \A j \in DOMAIN chunks : \A k \in DOMAIN chunks[i].spans, l \in DOMAIN chunks[j].spans :
              chunks[i].spans[k].n = chunks[j].spans[l].n => i = j /\ k = l
ASSUME CapacityAssumption == DedupCapacity \in Nat \ {0}

\* client_computed_stats of the header tags.  Over gRPC they are the default ones:
\* metadata in which the tracer says that it computed the stats is ignored.
MetadataIgnored(c) == Kind(c) = "otlp_grpc" /\ Body[c].client_stats
ClientStats(c) == Body[c].client_stats /\ ~MetadataIgnored(c)
ComputedBy(c) == resolve(config.compute_stats, ClientStats(c))

Init ==
  /\ config \in Configs
  /\ call = [c \in Calls |-> [pc |-> "new", at |-> 1, kept |-> {}, blind |-> FALSE,
                              out |-> [spans |-> <<>>, stamped |-> FALSE], status |-> 0]]
  /\ dedup = [order |-> <<>>, queue |-> <<>>]
  /\ channel = [trace |-> <<>>, stats |-> <<>>]
  /\ store = [trace |-> <<>>, stats |-> <<>>]
  /\ forwarding = {"trace", "stats"}
  /\ aggregator = TRUE
  /\ barrier = [pc |-> "idle", waits |-> {}, covers |-> {}]
  /\ concentrator = [c \in Calls |-> <<>>]
  /\ faults = 0

Fault == faults < MaxFaults /\ faults' = faults + 1
Move(c, pc) == call' = [call EXCEPT ![c].pc = pc]
Answer(c, status) == call' = [call EXCEPT ![c].pc = "answered", ![c].status = status]

-----------------------------------------------------------------------------
\* handle_traces: body and deserialisation, then the copy of the reparenting
\* info (module Invocation).  An unreadable body is 500 (400 for stats and
\* OTLP), one too large 413, one that cannot be decoded 500.
Question(c, i) == [call |-> c, at |-> i, key |-> SpansIn[c][i].key]
Ask(queue, c, i) == IF i <= Len(SpansIn[c]) THEN Append(queue, Question(c, i)) ELSE queue

Receive(c) ==
  /\ c \in config.calls /\ call[c].pc = "new" /\ Kind(c) # "proxy"
  /\ Move(c, CASE c \in TraceCalls -> IF SpansIn[c] = <<>> THEN "spans_done" ELSE "asked"
               [] c \in OtlpCalls -> "process"
               [] OTHER -> "send")
  /\ dedup' = IF c \in TraceCalls THEN [dedup EXCEPT !.queue = Ask(@, c, 1)] ELSE dedup
  /\ UNCHANGED <<config, channel, store, forwarding, aggregator, barrier, concentrator, faults>>

Refuse(c) ==
  /\ c \in config.calls /\ call[c].pc = "new" /\ Fault
  /\ \E status \in (IF Kind(c) \in {"v04", "v05", "proxy"} THEN {500} ELSE {400, 500})
                   \cup (IF Kind(c) \in {"v04", "v05", "stats"} THEN {413} ELSE {}) : Answer(c, status)
  /\ UNCHANGED <<config, dedup, channel, store, forwarding, aggregator, barrier, concentrator>>

\* The client is gone and the handler is dropped where it waits.
Disconnect(c) ==
  /\ call[c].pc \notin {"new", "answered", "cut"} /\ Fault
  /\ Move(c, "cut")
  /\ UNCHANGED <<config, dedup, channel, store, forwarding, aggregator, barrier, concentrator>>

-----------------------------------------------------------------------------
\* Deduper::check_and_add.
MutDedupForgets(order, key) == <<key>>
check_and_add(order, key) ==
  IF Contains(order, key)
    THEN order
    ELSE Append(IF Len(order) >= DedupCapacity THEN Tail(order) ELSE order, key)

\* The rest of the loop for one span, up to the question about the next.  What
\* it tells the invocation processor (load span, placeholder, durable context)
\* is in module Invocation.
NextSpan(c, keep, blind) ==
  call' = [call EXCEPT ![c].at = @ + 1,
                       ![c].kept = IF keep THEN @ \cup {SpansIn[c][call[c].at].n} ELSE @,
                       ![c].blind = @ \/ blind,
                       ![c].pc = IF call[c].at = Len(SpansIn[c]) THEN "spans_done" ELSE @]

\* DedupService::run for one command.  The answer to a call that waits no longer
\* is dropped, and the code's own comment has it that an answer sometimes fails
\* to arrive (lost); the key is recorded either way.
Serve(lost) ==
  /\ dedup.queue # <<>>
  /\ LET q == Head(dedup.queue)
         rest == Tail(dedup.queue)
         waits == ~lost /\ call[q.call].pc = "asked" /\ call[q.call].at = q.at
     IN /\ dedup' = [order |-> check_and_add(dedup.order, q.key),
                     queue |-> IF waits THEN Ask(rest, q.call, q.at + 1) ELSE rest]
        /\ IF waits THEN NextSpan(q.call, ~Contains(dedup.order, q.key), FALSE) ELSE UNCHANGED call
  /\ UNCHANGED <<config, channel, store, forwarding, aggregator, barrier, concentrator>>
DedupServe == Serve(FALSE) /\ UNCHANGED faults
DedupLosesAnswer == Serve(TRUE) /\ Fault

\* The call waits for an answer that will not come.
Unanswered(c) ==
  /\ call[c].pc = "asked"
  /\ \A i \in DOMAIN dedup.queue : dedup.queue[i] # Question(c, call[c].at)

\* DedupHandle::check_and_add: after config.ext.span_dedup_timeout, if there is
\* one (the default is none), the span is kept; the question stays in the queue.
\* A time-out before an answer that is still to come is a fault.
MutTimeoutDrops(c) ==
  /\ config.dedup_timeout /\ call[c].pc = "asked"
  /\ IF Unanswered(c) THEN UNCHANGED faults ELSE Fault
  /\ NextSpan(c, FALSE, TRUE)
  /\ dedup' = [dedup EXCEPT !.queue = Ask(@, c, call[c].at + 1)]
  /\ UNCHANGED <<config, channel, store, forwarding, aggregator, barrier, concentrator>>
DedupTimeout(c) ==
  /\ config.dedup_timeout /\ call[c].pc = "asked"
  /\ IF Unanswered(c) THEN UNCHANGED faults ELSE Fault
  /\ NextSpan(c, TRUE, TRUE)
  /\ dedup' = [dedup EXCEPT !.queue = Ask(@, c, call[c].at + 1)]
  /\ UNCHANGED <<config, channel, store, forwarding, aggregator, barrier, concentrator>>

\* The chunks with the spans that were kept; those without any are removed (here:
\* are without a root, and count for nothing); then update_reparenting.
KeptChunks(c) ==
  [i \in DOMAIN Body[c].chunks |->
     [Body[c].chunks[i] EXCEPT !.spans = retain(@, {s \in Range(@) : s.n \in call[c].kept})]]

-----------------------------------------------------------------------------
\* StatsGenerator::send: one Add command per span that was not filtered out.
Count(c, spans) ==
  IF ComputedBy(c) = "Extension"
    THEN [concentrator EXCEPT ![c] = @ \o [i \in DOMAIN spans |-> spans[i].n]]
    ELSE concentrator

\* send_processed_traces up to the send: process, generate stats.
MutStatsOfSentOnly(c) ==
  /\ call[c].pc = "spans_done"
  /\ LET r == process_traces(config, KeptChunks(c), ClientStats(c))
     IN /\ concentrator' = Count(c, r.payload.spans)
        /\ call' = [call EXCEPT ![c].pc = IF r.send THEN "send" ELSE "answered",
                                ![c].status = IF r.send THEN @ ELSE 200, ![c].out = r.payload]
  /\ UNCHANGED <<config, dedup, channel, store, forwarding, aggregator, barrier, faults>>
send_processed_traces(c) ==
  /\ call[c].pc = "spans_done"
  /\ LET chunks == KeptChunks(c)
         is_empty == \A i \in DOMAIN chunks : chunks[i].spans = <<>>
         r == process_traces(config, chunks, ClientStats(c))
         send == ~is_empty /\ r.send
     IN /\ concentrator' = IF is_empty THEN concentrator ELSE Count(c, r.for_stats)
        /\ IF send THEN call' = [call EXCEPT ![c].pc = "send", ![c].out = r.payload] ELSE Answer(c, 200)
  /\ UNCHANGED <<config, dedup, channel, store, forwarding, aggregator, barrier, faults>>

\* OTLP: process_and_send_traces, which does not deduplicate, sends before it
\* counts and refuses a request without spans.
process_and_send_traces(c) ==
  /\ call[c].pc = "process"
  /\ LET r == process_traces(config, Body[c].chunks, ClientStats(c))
     IN CASE SpansIn[c] = <<>> -> Answer(c, 500)
          [] SpansIn[c] # <<>> /\ r.send -> call' = [call EXCEPT ![c].pc = "send", ![c].out = r.payload]
          [] OTHER -> Move(c, "count")
  /\ UNCHANGED <<config, dedup, channel, store, forwarding, aggregator, barrier, concentrator, faults>>

CountOtlp(c) ==
  /\ call[c].pc = "count"
  /\ concentrator' = Count(c, process_traces(config, Body[c].chunks, ClientStats(c)).for_stats)
  /\ Answer(c, 200)
  /\ UNCHANGED <<config, dedup, channel, store, forwarding, aggregator, barrier, faults>>

-----------------------------------------------------------------------------
\* The bounded channels.  A send waits for room and fails once the forwarder
\* is gone; process_stats answers an empty payload without sending it.
Way(c) == IF Kind(c) = "stats" THEN "stats" ELSE "trace"

Send(c) ==
  /\ call[c].pc = "send" /\ Way(c) \in forwarding /\ Len(channel[Way(c)]) < ChannelSize
  /\ IF Kind(c) = "stats" /\ Body[c].chunks = <<>>
       THEN UNCHANGED channel
       ELSE channel' = [channel EXCEPT ![Way(c)] = Append(@, [call |-> c, out |-> call[c].out])]
  /\ CASE Kind(c) = "stats" -> Answer(c, 202)
       [] c \in OtlpCalls -> Move(c, "count")
       [] OTHER -> Answer(c, 200)
  /\ UNCHANGED <<config, dedup, store, forwarding, aggregator, barrier, concentrator, faults>>

SendFails(c) ==
  /\ call[c].pc = "send" /\ Way(c) \notin forwarding
  /\ Answer(c, 500)
  /\ UNCHANGED <<config, dedup, channel, store, forwarding, aggregator, barrier, concentrator, faults>>

\* handle_proxy: straight into the proxy aggregator (module Batching).
HandleProxy(c) ==
  /\ c \in config.calls /\ call[c].pc = "new" /\ Kind(c) = "proxy"
  /\ Answer(c, 200)
  /\ UNCHANGED <<config, dedup, channel, store, forwarding, aggregator, barrier, concentrator, faults>>

-----------------------------------------------------------------------------
\* run_forwarder.  The trace forwarder ends, with what its channel still holds,
\* when the aggregator is gone.
MutForwardRetries(kind) ==
  /\ kind \in forwarding /\ channel[kind] # <<>>
  /\ kind = "stats" \/ aggregator
  /\ store' = [store EXCEPT ![kind] = Append(@, Head(channel[kind]))]
  /\ channel' = [channel EXCEPT ![kind] = Tail(@)]
  /\ UNCHANGED <<config, call, dedup, forwarding, aggregator, barrier, concentrator, faults>>
Forward(kind) ==
  /\ kind \in forwarding /\ channel[kind] # <<>>
  /\ IF kind = "stats" \/ aggregator
       THEN /\ store' = [store EXCEPT ![kind] = Append(@, Head(channel[kind]))]
            /\ channel' = [channel EXCEPT ![kind] = Tail(@)]
            /\ UNCHANGED forwarding
       ELSE /\ forwarding' = forwarding \ {kind}
            /\ channel' = [channel EXCEPT ![kind] = <<>>]
            /\ UNCHANGED store
  /\ UNCHANGED <<config, call, dedup, aggregator, barrier, concentrator, faults>>

AggregatorStops ==
  /\ aggregator /\ Fault
  /\ aggregator' = FALSE
  /\ UNCHANGED <<config, call, dedup, channel, store, forwarding, barrier, concentrator>>

\* IngestBarrier::wait.  covers: what was accepted when it was called.
BarrierWait ==
  /\ barrier.pc = "idle"
  /\ barrier' = [pc |-> "waiting", waits |-> {"trace", "stats"},
                 covers |-> {c \in Calls : call[c].status \in {200, 202}}]
  /\ UNCHANGED <<config, call, dedup, channel, store, forwarding, aggregator, concentrator, faults>>

\* A forwarder prefers its payloads (biased) and acknowledges without any.
MutAckAnyTime(kind) ==
  /\ barrier.pc = "waiting" /\ kind \in barrier.waits \cap forwarding
  /\ barrier' = [barrier EXCEPT !.waits = @ \ {kind}, !.pc = IF barrier.waits = {kind} THEN "ok" ELSE @]
  /\ UNCHANGED <<config, call, dedup, channel, store, forwarding, aggregator, concentrator, faults>>
Acknowledge(kind) ==
  /\ barrier.pc = "waiting" /\ kind \in barrier.waits \cap forwarding
  /\ channel[kind] = <<>>
  /\ barrier' = [barrier EXCEPT !.waits = @ \ {kind}, !.pc = IF barrier.waits = {kind} THEN "ok" ELSE @]
  /\ UNCHANGED <<config, call, dedup, channel, store, forwarding, aggregator, concentrator, faults>>

BarrierFails ==
  /\ barrier.pc = "waiting" /\ barrier.waits \ forwarding # {}
  /\ barrier' = [barrier EXCEPT !.pc = "failed"]
  /\ UNCHANGED <<config, call, dedup, channel, store, forwarding, aggregator, concentrator, faults>>

-----------------------------------------------------------------------------
\* A call that has arrived goes on, if need be when its time-out is over, and the
\* tasks behind the channels serve.
Step(c) ==
  \/ Send(c) \/ SendFails(c)
  \/ send_processed_traces(c) \/ process_and_send_traces(c) \/ CountOtlp(c)
  \/ Unanswered(c) /\ DedupTimeout(c)

Work ==
  \/ \E kind \in {"trace", "stats"} : Forward(kind) \/ Acknowledge(kind)
  \/ BarrierFails
  \/ DedupServe
  \/ \E c \in Calls : Step(c)

Next ==
  \/ \E c \in Calls : Receive(c) \/ HandleProxy(c) \/ Refuse(c) \/ Disconnect(c) \/ DedupTimeout(c)
  \/ DedupLosesAnswer \/ AggregatorStops \/ BarrierWait
  \/ Work

\* The runtime never idles while one of its tasks can run.
Spec == Init /\ [][Next]_vars /\ WF_vars(Work)

-----------------------------------------------------------------------------
Payloads == channel.trace \o store.trace
Has(spans, key) == \E i \in DOMAIN spans : spans[i].key = key
Carries(c, key) == Has(SpansIn[c], key)
Times(key) ==    \* payloads of trace calls with this span
  Cardinality({i \in DOMAIN Payloads : Payloads[i].call \in TraceCalls /\ Has(Payloads[i].out.spans, key)})
AllKeys == UNION {{SpansIn[c][i].key : i \in DOMAIN SpansIn[c]} : c \in TraceCalls \cap config.calls}
FewKeys == IsFiniteSet(AllKeys) /\ Cardinality(AllKeys) <= DedupCapacity
NoneBlind == \A c \in Calls : ~call[c].blind

\* Spans of a body that survive filtering and sampling by themselves.
Survivors == [f \in Configs |-> [c \in TraceCalls |->
  LET r == process_traces(f, Body[c].chunks, Body[c].client_stats)
  IN IF r.send THEN {r.payload.spans[i].key : i \in DOMAIN r.payload.spans} ELSE {}]]

\* A span that several calls carry (a tracer that sends again) is sent at most
\* once, as long as the deduper can remember every span and answers in time.
SentAtMostOnce == (FewKeys /\ NoneBlind) => \A key \in AllKeys : Times(key) <= 1

\* Once some call was answered 200, a span of it that is neither filtered nor
\* sampled out is sent, unless a call that carried it lost its connection or its
\* channel first: the deduper has seen the span then, and the resent one is
\* dropped.
SentOrExcused ==
  \A c \in TraceCalls \cap config.calls : \A key \in Survivors[config][c] :
    (FewKeys /\ aggregator /\ \A d \in TraceCalls \cap config.calls : Carries(d, key) => call[d].status = 200)
      => Times(key) >= 1

\* Exactly one party computes the stats of a span: the tracer, the extension
\* (sampled out or not), or the backend from a span that is marked and sent.  The
\* exception is a gRPC export whose metadata says that the tracer computed them:
\* it is ignored, and the stats are computed a second time.
Counted(c, n) == Cardinality({i \in DOMAIN concentrator[c] : concentrator[c][i] = n})
Marked(c, n) ==
  Cardinality({i \in DOMAIN Payloads :
    /\ Payloads[i].call = c /\ Payloads[i].out.stamped
    /\ \E j \in DOMAIN Payloads[i].out.spans : Payloads[i].out.spans[j].n = n})
StatsComputedOnce ==
  \A c \in TraceCalls \cup OtlpCalls :
    LET taken == IF c \in OtlpCalls THEN Body[c].chunks ELSE KeptChunks(c)
        left == SpansOf([i \in DOMAIN taken |-> process(taken[i], config)], DOMAIN taken)
        tracer == IF Body[c].client_stats THEN 1 ELSE 0
    IN (call[c].status = 200 /\ aggregator) =>
         \A i \in DOMAIN left :
           Counted(c, left[i].n) + Marked(c, left[i].n) + tracer = IF MetadataIgnored(c) THEN 2 ELSE 1

\* What IngestBarrier promises to a flush: once wait() returned Ok, every payload
\* of a call answered before wait() is in its aggregator.
BarrierCoversAccepted ==
  barrier.pc = "ok" =>
    \A c \in barrier.covers :
      /\ Kind(c) = "stats" /\ Body[c].chunks # <<>> =>
           \E i \in DOMAIN store.stats : store.stats[i].call = c
      /\ (c \in TraceCalls \cup OtlpCalls /\ call[c].out.spans # <<>>) =>
           \E i \in DOMAIN store.trace : store.trace[i].call = c

\* Every call that arrived is answered or its client is gone, and a barrier that
\* is waited for ends, whatever the aggregator, full channels and time-outs do on
\* the way.  Only a call whose answer the deduper lost waits for ever, and only
\* when no span_dedup_timeout is set: nothing else waits with it.
Settled ==
  /\ \A c \in Calls :
       \/ call[c].pc \in {"new", "answered", "cut"}
       \/ Unanswered(c) /\ ~config.dedup_timeout
  /\ barrier.pc # "waiting"
EveryCallAnswered == []<>Settled
=============================================================================
