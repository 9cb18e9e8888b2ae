----------------------------- MODULE LambdaLogs -----------------------------
(***************************************************************************)
(* LambdaProcessor (logs/lambda/processor.rs), driven by LogsAgent::spin:  *)
(* which request a log line belongs to, which lines wait for a request id  *)
(* (orphan_logs) or for a durable execution context (held_logs), and in    *)
(* which shape and order they reach the aggregator.                        *)
(*                                                                         *)
(* A line is its number, its kind and its request id; texts, tags and      *)
(* statuses are left out.  ready_logs is empty between two calls of the    *)
(* processor (every entry point hands it to the aggregator), so lines move *)
(* straight to shipped, which keeps one sequence per request id: the       *)
(* iteration order of a HashMap only shows between different requests.     *)
(***************************************************************************)
EXTENDS Integers, Sequences, FiniteSets, SequencesExt

CONSTANTS
  RequestIds,     \* the invocations' request ids
  ManagedModes,   \* the values of is_managed_instance_mode to consider
  BufferSize,     \* lambda_durable_function_log_buffer_size
  DURABLE_CONTEXT_MAP_CAPACITY,
  ExcludedKinds,  \* kinds of lines the processing rules exclude
  MaxEvents,      \* bound on telemetry events
  MaxInits,       \* bound on platform.initStart records (one per runtime init)
  MaxUpdates      \* bound on durable context updates

NoId == "None"    \* Option::None as a request id
Empty == ""       \* the empty string, invocation_context.request_id at rest

Kinds == {"text", "json", "sdk", "INIT", "START", "END", "REPORT"}
Ids == RequestIds \cup {NoId, Empty}

ASSUME IdAssumption == NoId \notin RequestIds /\ Empty \notin RequestIds /\ IsFiniteSet(RequestIds)
ASSUME SizeAssumption == BufferSize \in Nat /\ DURABLE_CONTEXT_MAP_CAPACITY \in Nat \ {0}
ASSUME ModeAssumption == ManagedModes \subseteq BOOLEAN /\ ExcludedKinds \subseteq Kinds
ASSUME BoundAssumption == MaxEvents \in Nat /\ MaxInits \in Nat /\ MaxUpdates \in Nat

VARIABLES
  managed,                \* is_managed_instance_mode
  request_id,             \* invocation_context.request_id
  orphan_logs,
  held_logs,              \* [Ids -> sequence of lines]; <<>> is an absent key
  held_logs_order,
  is_durable_function,    \* "None", "true" or "false"
  durable_context_map,    \* the request ids with a known context
  durable_context_order,
  shipped,                \* [Ids -> sequence of lines given to the aggregator]
  spinning,               \* hold_log's eviction loop can no longer end
  updates,                \* durable_context_rx: context updates not yet received
  agent,                  \* LogsAgent: "spin" -> "down"
  events,                 \* telemetry events processed
  kept,                   \* history: lines that passed the processing rules
  contexts,               \* history: request ids a context update was sent for
  platform                \* what the platform reported so far

processor == <<request_id, orphan_logs, held_logs, held_logs_order, is_durable_function,
               durable_context_map, durable_context_order, shipped, spinning>>
vars == <<managed, processor, updates, agent, events, kept, contexts, platform>>

\* A line; "context" is what decorates it: nothing, the durable context of its
\* request, or the context the durable SDK wrote into it.
Line(n, kind, id) == [n |-> n, kind |-> kind, id |-> id, orphan |-> FALSE, context |-> "none"]
Lines == [n : 1 .. MaxEvents, kind : Kinds, id : Ids, orphan : BOOLEAN,
          context : {"none", "request", "sdk"}]

\* The part of the processor a line moves through.
Buffers == [held |-> held_logs, order |-> held_logs_order, durable |-> is_durable_function,
            shipped |-> shipped, spinning |-> spinning]
SetBuffers(b) ==
  /\ held_logs' = b.held /\ held_logs_order' = b.order
  /\ is_durable_function' = b.durable
  /\ shipped' = b.shipped /\ spinning' = b.spinning

HeldKeys(held) == {i \in Ids : held[i] # <<>>}

Init ==
  /\ managed \in ManagedModes
  /\ request_id = Empty
  /\ orphan_logs = <<>>
  /\ held_logs = [i \in Ids |-> <<>>] /\ held_logs_order = <<>>
  /\ is_durable_function = "None"
  /\ durable_context_map = {} /\ durable_context_order = <<>>
  /\ shipped = [i \in Ids |-> <<>>]
  /\ spinning = FALSE
  /\ updates = <<>>
  /\ agent = "spin"
  /\ events = 0
  /\ kept = {}
  /\ contexts = <<>>
  /\ platform = [inits |-> 0, started |-> {}, done |-> {}, reported |-> {}]

\* Definitions whose name starts with Mut are plausible wrong versions of the
\* definition that follows them; the runs' properties are shown to reject them.

-----------------------------------------------------------------------------
(* Moving lines *)

Ship(b, line) == [b EXCEPT !.shipped[line.id] = Append(@, line)]

\* set_durable_context_and_mark_ready
WithContext(line) == [line EXCEPT !.context = "request"]

MutShipHeldNewestFirst(b, K) ==
  [b EXCEPT !.shipped = [i \in Ids |-> IF i \in K THEN @[i] \o Reverse(b.held[i]) ELSE @[i]],
            !.held = [i \in Ids |-> IF i \in K THEN <<>> ELSE @[i]]]

\* Everything held for the keys K goes out as it is.
ShipHeld(b, K) ==
  [b EXCEPT !.shipped = [i \in Ids |-> IF i \in K THEN @[i] \o b.held[i] ELSE @[i]],
            !.held = [i \in Ids |-> IF i \in K THEN <<>> ELSE @[i]]]

\* Everything held for the keys K goes out with the context of its request.
Decorate(b, K) ==
  [b EXCEPT !.held = [i \in Ids |->
     IF i \in K THEN [j \in DOMAIN @[i] |-> WithContext(@[i][j])] ELSE @[i]]]
ShipHeldDecorated(b, K) == ShipHeld(Decorate(b, K), K)

\* The eviction loop of hold_log pops keys from the front of the order until
\* there is room; once the order is empty it pops nothing, and goes on for ever.
RoomAfter(b, k) ==
  Cardinality(HeldKeys(b.held) \ ToSet(SubSeq(b.order, 1, k))) < BufferSize
MakeRoom(b) ==
  IF \E k \in 0 .. Len(b.order) : RoomAfter(b, k)
    THEN LET k == CHOOSE k \in 0 .. Len(b.order) :
                    RoomAfter(b, k) /\ \A j \in 0 .. k - 1 : ~RoomAfter(b, j)
         IN  [ShipHeld(b, ToSet(SubSeq(b.order, 1, k))) EXCEPT
                !.order = SubSeq(@, k + 1, Len(@))]
    ELSE [b EXCEPT !.spinning = TRUE]

\* hold_log, which is only called with a positive buffer size.
hold_log(b, line) ==
  IF b.held[line.id] # <<>> THEN [b EXCEPT !.held[line.id] = Append(@, line)]
  ELSE LET room == MakeRoom(b)
       IN  IF room.spinning THEN room
           ELSE [room EXCEPT !.order = Append(@, line.id), !.held[line.id] = <<line>>]

queue_log_after_rules(b, line) ==
  IF line.context = "sdk" \/ BufferSize = 0 \/ b.durable = "false" \/ line.id = NoId
    THEN Ship(b, line)
  ELSE IF b.durable = "true" /\ line.id \in durable_context_map
    THEN Ship(b, WithContext(line))
    ELSE hold_log(b, line)

Excluded(line) == line.kind \in ExcludedKinds

\* process_and_queue_log; a processor that spins gets to no further line.
process_and_queue_log(b, line) ==
  IF b.spinning \/ Excluded(line) THEN b ELSE queue_log_after_rules(b, line)

\* The lines of one event, in order.
QueueAll(b, batch) ==
  LET loop[n \in 0 .. Len(batch)] ==
        IF n = 0 THEN b ELSE process_and_queue_log(loop[n - 1], batch[n])
  IN  loop[Len(batch)]

-----------------------------------------------------------------------------
(* LambdaProcessor::process *)

\* get_intake_log: a line without an id takes the current one, except in
\* Managed Instance mode, where requests run concurrently.
IdOf(own, current) ==
  IF own # NoId THEN own
  ELSE IF current = Empty \/ managed THEN NoId
  ELSE current

Adopted(line, current) == [line EXCEPT !.id = current, !.orphan = TRUE]

\* The line of an event whose handler left the buffers at b and request_id at
\* current.  Without an id it is an orphan; with one it is queued, and then all
\* orphans are, with whatever the current request id is.
Process(b, line, current) ==
  LET batch == <<line>> \o [j \in DOMAIN orphan_logs |-> Adopted(orphan_logs[j], current)]
      orphan == line.id = NoId /\ ~managed
  IN  /\ orphan_logs' = IF orphan THEN Append(orphan_logs, line) ELSE <<>>
      /\ SetBuffers(IF orphan THEN b ELSE QueueAll(b, batch))
      /\ kept' = IF orphan THEN kept ELSE kept \cup {l.n : l \in {m \in ToSet(batch) : ~Excluded(m)}}

\* The agent takes the next event from its channel.
NextEvent ==
  /\ agent = "spin" /\ ~spinning
  /\ events < MaxEvents
  /\ events' = events + 1
  /\ UNCHANGED <<managed, durable_context_map, durable_context_order, updates, agent, contexts>>

\* TelemetryRecord::Function and ::Extension.  A line of the durable SDK has an
\* executionArn, and need not have a requestId.
FunctionLog ==
  /\ NextEvent
  /\ \E own \in RequestIds \cup {NoId}, sdk \in BOOLEAN :
       /\ LET kind == IF sdk THEN "sdk" ELSE IF own = NoId THEN "text" ELSE "json"
              line == [Line(events + 1, kind, IdOf(own, request_id)) EXCEPT
                         !.context = IF sdk THEN "sdk" ELSE "none"]
          IN  Process(Buffers, line, request_id)
  /\ UNCHANGED <<request_id, platform>>

MutResolveDropsUnknown(b, durable) ==
  LET known == HeldKeys(b.held) \cap durable_context_map
      shippable == IF durable THEN ShipHeldDecorated(b, known) ELSE ShipHeld(b, Ids)
  IN  [shippable EXCEPT !.order = <<>>, !.held = [i \in Ids |-> <<>>]]

\* resolve_held_logs_on_durable_function_set.  The order is cleared, and keys
\* that stay held are not put back into it.
Resolve(b, durable) ==
  LET known == HeldKeys(b.held) \cap durable_context_map
  IN  [(IF durable THEN ShipHeldDecorated(b, known) ELSE ShipHeld(b, Ids)) EXCEPT !.order = <<>>]

\* The INIT_START line has no id of its own; what was held is resolved first.
PlatformInitStart(durable) ==
  /\ NextEvent
  /\ platform.inits < MaxInits
  /\ platform' = [platform EXCEPT !.inits = @ + 1]
  /\ LET b == [Resolve(Buffers, durable) EXCEPT !.durable = IF durable THEN "true" ELSE "false"]
     IN  Process(b, Line(events + 1, "INIT", IdOf(NoId, request_id)), request_id)
  /\ UNCHANGED request_id

\* The platform starts an invocation when the previous one is done; Managed
\* Instances run them concurrently.
PlatformStart(r) ==
  /\ NextEvent
  /\ r \notin platform.started
  /\ managed \/ platform.started = platform.done
  /\ platform' = [platform EXCEPT !.started = @ \cup {r}]
  /\ request_id' = r
  /\ Process(Buffers, Line(events + 1, "START", r), r)

\* Not emitted on Managed Instances.
PlatformRuntimeDone(r) ==
  /\ NextEvent
  /\ ~managed
  /\ r \in platform.started \ platform.done
  /\ platform' = [platform EXCEPT !.done = @ \cup {r}]
  /\ request_id' = Empty
  /\ Process(Buffers, Line(events + 1, "END", r), Empty)

\* The report may come after the next invocation has begun.  It only clears the
\* current id when it carries Managed Instance metrics.
PlatformReport(r) ==
  /\ NextEvent
  /\ r \in (IF managed THEN platform.started ELSE platform.done) \ platform.reported
  /\ platform' = [platform EXCEPT !.reported = @ \cup {r}]
  /\ request_id' = IF managed THEN Empty ELSE request_id
  /\ Process(Buffers, Line(events + 1, "REPORT", r), request_id')

-----------------------------------------------------------------------------
(* Durable execution contexts *)

\* forward_durable_context, called when the aws.lambda span of r arrives.
ForwardDurableContext(r) ==
  /\ Len(contexts) < MaxUpdates
  /\ contexts' = Append(contexts, r)
  /\ updates' = Append(updates, r)
  /\ UNCHANGED <<managed, processor, agent, events, kept, platform>>

\* insert_to_durable_context_map on a state c of contexts and buffers
insert_to_durable_context_map(c, r) ==
  IF r \in c.map THEN c
  ELSE LET full == Len(c.order) >= DURABLE_CONTEXT_MAP_CAPACITY
           drained == ShipHeldDecorated(c.buffers, {r})
       IN  [c EXCEPT !.map = (IF full THEN @ \ {Head(c.order)} ELSE @) \cup {r},
                     !.order = Append(IF full THEN Tail(@) ELSE @, r),
                     !.buffers = [drained EXCEPT !.order = SelectSeq(@, LAMBDA x : x # r)]]

\* drain: every update that is still in the channel, in order
InsertAll(c, rs) ==
  LET loop[n \in 0 .. Len(rs)] ==
        IF n = 0 THEN c ELSE insert_to_durable_context_map(loop[n - 1], rs[n])
  IN  loop[Len(rs)]

Contexts == [map |-> durable_context_map, order |-> durable_context_order, buffers |-> Buffers]

\* process_durable_context_update from the agent's select!.
ProcessDurableContextUpdate ==
  /\ agent = "spin" /\ ~spinning
  /\ updates # <<>>
  /\ updates' = Tail(updates)
  /\ LET c == insert_to_durable_context_map(Contexts, Head(updates))
     IN  /\ durable_context_map' = c.map /\ durable_context_order' = c.order
         /\ SetBuffers(c.buffers)
  /\ UNCHANGED <<managed, request_id, orphan_logs, agent, events, kept, contexts, platform>>

-----------------------------------------------------------------------------
(* Shutdown *)

\* The agent was cancelled and has processed every telemetry event: pending
\* context updates first, then drain_held_logs.  Orphans stay behind.
Drain ==
  /\ agent = "spin" /\ ~spinning
  /\ agent' = "down"
  /\ LET c == InsertAll(Contexts, updates)
     IN  /\ durable_context_map' = c.map /\ durable_context_order' = c.order
         /\ SetBuffers([ShipHeld(c.buffers, Ids) EXCEPT !.order = <<>>])
  /\ updates' = <<>>
  /\ UNCHANGED <<managed, request_id, orphan_logs, events, kept, contexts, platform>>

Next ==
  \/ FunctionLog
  \/ \E durable \in BOOLEAN : PlatformInitStart(durable)
  \/ \E r \in RequestIds :
       PlatformStart(r) \/ PlatformRuntimeDone(r) \/ PlatformReport(r) \/ ForwardDurableContext(r)
  \/ ProcessDurableContextUpdate
  \/ Drain

Spec == Init /\ [][Next]_vars

-----------------------------------------------------------------------------
(* Properties *)

\* Type correctness of the processor's buffers.
TypeOK ==
  /\ request_id \in RequestIds \cup {Empty}
  /\ orphan_logs \in Seq(Lines)
  /\ held_logs \in [Ids -> Seq(Lines)] /\ held_logs[NoId] = <<>>
  /\ held_logs_order \in Seq(Ids)
  /\ is_durable_function \in {"None", "true", "false"}
  /\ durable_context_map \subseteq RequestIds
  /\ durable_context_order \in Seq(RequestIds)
  /\ shipped \in [Ids -> Seq(Lines)]
  /\ spinning \in BOOLEAN
  /\ updates \in Seq(RequestIds)
  /\ agent \in {"spin", "down"}
  /\ kept \subseteq 1 .. events

Times(s, n) == Cardinality({j \in DOMAIN s : s[j].n = n})

\* Every line that passed the processing rules is held or with the aggregator,
\* exactly once and under its own request id: no path between the orphans, the
\* held lines and the aggregator (eviction, late contexts, a repeated
\* platform.initStart, the shutdown) loses or duplicates one.
EveryLineOnce ==
  ~spinning =>
    /\ \A n \in kept :
         \E i \in Ids : /\ Times(held_logs[i], n) + Times(shipped[i], n) = 1
                        /\ \A j \in Ids \ {i} : Times(held_logs[j], n) + Times(shipped[j], n) = 0
    /\ \A i \in Ids : \A s \in {held_logs[i], shipped[i]} :
         \A j \in DOMAIN s : s[j].id = i /\ s[j].n \in kept

\* The lines of one request reach the aggregator in the order they were
\* logged, whatever was held, evicted or decorated in between (lines of the
\* durable SDK are never held and may overtake; orphans follow the line that
\* gave them their id).
OrderWithinRequest ==
  \A i \in Ids : \A j, k \in DOMAIN shipped[i] :
    LET a == shipped[i][j]
        b == shipped[i][k]
    IN  (j < k /\ a.context # "sdk" /\ b.context # "sdk" /\ ~a.orphan /\ ~b.orphan) => a.n < b.n

-----------------------------------------------------------------------------
(* What documentation says and the code does not do *)

\* processor.rs on held_logs: "When held_logs reaches capacity, the oldest key
\* is evicted to ready_logs [...] to ensure logs are always sent even if the
\* tracer is not installed."
EvictionMakesRoom == ~spinning
=============================================================================
