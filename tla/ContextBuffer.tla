---------------------------- MODULE ContextBuffer ----------------------------
(***************************************************************************)
(* lifecycle/invocation/context.rs: the bounded buffer of invocation       *)
(* contexts and the queues that pair the events of one invocation.         *)
(*                                                                         *)
(* A buffer is a record; every operation maps a buffer to a buffer.  A     *)
(* start or end event of universal instrumentation is represented by the   *)
(* request it really belongs to, which the code cannot see when the tracer *)
(* sends no request id.                                                    *)
(*                                                                         *)
(* Definitions whose name starts with Mut are plausible wrong versions of  *)
(* the definition that follows them; the runs' properties are shown to     *)
(* reject them.                                                            *)
(***************************************************************************)
EXTENDS Integers, Sequences, SequencesExt, FiniteSets

CONSTANTS
  Capacity,     \* contexts kept at once, and reparenting entries (500)
  Requests      \* request ids, numbered in the order of their invocations

ASSUME BufferAssumption == Capacity \in Nat \ {0} /\ Requests \subseteq Nat \ {0}

EmptyId == 0    \* the request id "" of a context created at init
None == 0       \* no start, no end

\* Context::from_request_id over Context::default.  Span and trace ids are
\* where they come from ("unset" is the number 0), never their value.
from_request_id(id, now) ==
  [id |-> id, created_at |-> now,
   trace |-> "unset", span |-> "unset", parent |-> "unset", error |-> FALSE,
   start |-> None, end |-> None, extracted |-> FALSE, inferred |-> FALSE,
   runtime_duration |-> FALSE, runtime_done_received |-> FALSE,
   oom_emitted |-> FALSE, tracer_span |-> FALSE,
   cold_start_span |-> "none", restore_span |-> FALSE]

EmptyBuffer ==
  [buffer |-> <<>>, invokes |-> <<>>, dones |-> <<>>, starts |-> <<>>, ends |-> <<>>,
   starts_with_id |-> {}, ends_with_id |-> {}, reparenting |-> <<>>]

-----------------------------------------------------------------------------
\* The position of the first context with this id, 0 if there is none.
Position(b, id) == SelectInSeq(b.buffer, LAMBDA c : c.id = id)

Has(b, id) == Position(b, id) # 0
get(b, id) == b.buffer[Position(b, id)]

\* A write through a reference into the buffer.
write(b, i, c) == [b EXCEPT !.buffer = [@ EXCEPT ![i] = c]]

\* get_mut and an update of what it finds; nothing happens without a context.
get_mut(b, id, Update(_)) ==
  IF Has(b, id) THEN write(b, Position(b, id), Update(get(b, id))) ELSE b

remove(b, id) ==
  IF Has(b, id) THEN [b EXCEPT !.buffer = RemoveAt(@, Position(b, id))] ELSE b

\* A full buffer drops its oldest context and does not look for the id.
insert(b, c) ==
  IF Len(b.buffer) = Capacity
    THEN [b EXCEPT !.buffer = Append(Tail(@), c)]
    ELSE LET b1 == remove(b, c.id) IN [b1 EXCEPT !.buffer = Append(@, c)]

\* The first of the contexts created closest to the time, 0 if there is none.
get_closest(b, time) ==
  LET Gap(i) == LET d == b.buffer[i].created_at - time IN IF d < 0 THEN -d ELSE d
      Closest == {i \in DOMAIN b.buffer : \A j \in DOMAIN b.buffer : Gap(i) <= Gap(j)}
  IN IF Closest = {} THEN 0 ELSE CHOOSE i \in Closest : \A j \in Closest : i <= j

start_context(b, id, now) == insert(b, from_request_id(id, now))

update_empty_context_request_id(b, id) == get_mut(b, EmptyId, LAMBDA c : [c EXCEPT !.id = id])

add_runtime_duration(b, id) == get_mut(b, id, LAMBDA c : [c EXCEPT !.runtime_duration = TRUE])

add_tracer_span(b, id) == get_mut(b, id, LAMBDA c : [c EXCEPT !.tracer_span = TRUE])

get_context_with_cold_start(b) == SelectInSeq(b.buffer, LAMBDA c : c.cold_start_span # "none")

-----------------------------------------------------------------------------
\* Pairing in order of arrival.  Each operation returns the buffer and the
\* partner it found, None if the event has to wait for it.
PairOrQueue(waiting, mine, event) ==
  IF waiting # <<>>
    THEN [partner |-> Head(waiting), waiting |-> Tail(waiting), mine |-> mine]
    ELSE [partner |-> None, waiting |-> waiting, mine |-> Append(mine, event)]

pair_invoke_event(b, id) ==
  LET q == PairOrQueue(b.starts, b.invokes, id)
  IN [b |-> [b EXCEPT !.starts = q.waiting, !.invokes = q.mine], start |-> q.partner]

MutPairNewest(b, event) ==
  LET q == PairOrQueue(Reverse(b.invokes), b.starts, event)
  IN [b |-> [b EXCEPT !.invokes = Reverse(q.waiting), !.starts = q.mine], id |-> q.partner]
pair_universal_instrumentation_start_event(b, event) ==
  LET q == PairOrQueue(b.invokes, b.starts, event)
  IN [b |-> [b EXCEPT !.invokes = q.waiting, !.starts = q.mine], id |-> q.partner]

pair_platform_runtime_done_event(b, id) ==
  LET q == PairOrQueue(b.ends, b.dones, id)
  IN [b |-> [b EXCEPT !.ends = q.waiting, !.dones = q.mine], end |-> q.partner]

pair_universal_instrumentation_end_event(b, event) ==
  LET q == PairOrQueue(b.dones, b.ends, event)
  IN [b |-> [b EXCEPT !.dones = q.waiting, !.ends = q.mine], id |-> q.partner]

-----------------------------------------------------------------------------
\* Pairing by request id, when the tracer sends one.
pair_universal_instrumentation_start_with_request_id(b, id) ==
  IF Contains(b.invokes, id)
    THEN [b |-> [b EXCEPT !.invokes = RemoveFirst(@, id)], paired |-> TRUE]
    ELSE [b |-> [b EXCEPT !.starts_with_id = @ \cup {id}], paired |-> FALSE]

take_universal_instrumentation_start_for_request_id(b, id) ==
  [b EXCEPT !.starts_with_id = @ \ {id}]

pair_universal_instrumentation_end_with_request_id(b, id) ==
  IF Contains(b.dones, id)
    THEN [b |-> [b EXCEPT !.dones = RemoveFirst(@, id)], paired |-> TRUE]
    ELSE [b |-> [b EXCEPT !.ends_with_id = @ \cup {id}], paired |-> FALSE]

take_universal_instrumentation_end_for_request_id(b, id) ==
  [b EXCEPT !.ends_with_id = @ \ {id}]
=============================================================================
