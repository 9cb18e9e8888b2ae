--------------------------- MODULE InvocationProofs ---------------------------
(***************************************************************************)
(* The invocation processor keeps the ledger of InvocationLedger, its      *)
(* usage metrics cover the right invocations, a context carries only the   *)
(* start and the end of its own invocation, and an invocation whose events *)
(* arrived in time has its span sent, for any requests, any buffer         *)
(* capacity and any number of optional events.                             *)
(***************************************************************************)
EXTENDS Invocation, FiniteSetTheorems, WellFoundedInduction, TLAPS

-----------------------------------------------------------------------------
(* Numbers and sequences *)

\* A set of natural numbers has a least one.  Induction rests on this: the
\* least counterexample is not 0 and its predecessor is none.
LEMMA LeastNumber ==
  ASSUME NEW T \in SUBSET Nat, T # {}
  PROVE  \E x \in T : \A y \in T : x <= y
<1> DEFINE Below == {ss \in Nat \X Nat : ss[1] < ss[2]}
<1>1. IsWellFoundedOn(OpToRel(<, Nat), Nat)
  BY NatLessThanWellFounded
<1>2. OpToRel(<, Nat) = Below
  BY Zenon DEF OpToRel
<1> HIDE DEF Below
<1>3. IsWellFoundedOn(Below, Nat)
  BY <1>1, <1>2, Zenon
<1>4. PICK x \in T : \A y \in T : <<y, x>> \notin Below
  BY <1>3, WFMin
<1>5. ASSUME NEW y \in T, y < x PROVE FALSE
  <2>1. <<y, x>> \in Nat \X Nat /\ <<y, x>>[1] < <<y, x>>[2]
    BY <1>5
  <2>2. <<y, x>> \in Below
    BY <2>1 DEF Below
  <2> QED BY <2>2, <1>4
<1>6. \A y \in T : x <= y
  BY <1>5
<1> QED BY <1>6

IsSequence(q) == q \in Seq({q[i] : i \in DOMAIN q})
Elems(q) == {q[i] : i \in DOMAIN q}

\* A sequence over any set is one over its own elements.
LEMMA SequenceFact ==
  ASSUME NEW S, NEW q \in Seq(S)
  PROVE  IsSequence(q) /\ Len(q) \in Nat /\ DOMAIN q = 1 .. Len(q)
<1>1. Len(q) \in Nat /\ DOMAIN q = 1 .. Len(q) /\ q = [i \in 1 .. Len(q) |-> q[i]]
  OBVIOUS
<1> DEFINE T == {q[i] : i \in DOMAIN q}
<1>2. \A i \in 1 .. Len(q) : q[i] \in T
  BY <1>1
<1> HIDE DEF T
<1>3. q \in Seq(T)
  BY <1>1, <1>2
<1> QED BY <1>1, <1>3 DEF IsSequence, T

\* What Append does to a sequence.
LEMMA AppendFact ==
  ASSUME NEW q, IsSequence(q), NEW e
  PROVE  /\ IsSequence(Append(q, e))
         /\ DOMAIN Append(q, e) = 1 .. Len(q) + 1 /\ Len(Append(q, e)) = Len(q) + 1
         /\ \A i \in DOMAIN q : Append(q, e)[i] = q[i]
         /\ Append(q, e)[Len(q) + 1] = e
         /\ Elems(Append(q, e)) = Elems(q) \cup {e}
         /\ Len(q) \in Nat /\ DOMAIN q = 1 .. Len(q)
<1> DEFINE S == Elems(q) \cup {e}
<1>1. q \in Seq(Elems(q))
  BY DEF IsSequence, Elems
<1>2. q \in Seq(S)
  <2> HIDE DEF S
  <2>1. Elems(q) \subseteq S
    BY DEF S
  <2> QED BY <1>1, <2>1
<1>3. e \in S
  OBVIOUS
<1> HIDE DEF S
<1>4. Append(q, e) \in Seq(S)
  BY <1>2, <1>3
<1>5. /\ DOMAIN Append(q, e) = 1 .. Len(q) + 1 /\ Len(Append(q, e)) = Len(q) + 1
      /\ \A i \in DOMAIN q : Append(q, e)[i] = q[i]
      /\ Append(q, e)[Len(q) + 1] = e
      /\ Len(q) \in Nat /\ DOMAIN q = 1 .. Len(q)
  BY <1>2, <1>3
<1>6. Elems(Append(q, e)) = Elems(q) \cup {e}
  BY <1>5 DEF Elems
<1> QED BY <1>4, <1>5, <1>6, SequenceFact

\* What Head and Tail do to a sequence.
LEMMA TailFact ==
  ASSUME NEW q, IsSequence(q), q # <<>>
  PROVE  /\ IsSequence(Tail(q)) /\ Len(q) \in Nat \ {0} /\ DOMAIN q = 1 .. Len(q)
         /\ Len(Tail(q)) = Len(q) - 1 /\ DOMAIN Tail(q) = 1 .. Len(q) - 1
         /\ \A i \in 1 .. Len(q) - 1 : Tail(q)[i] = q[i + 1]
         /\ Head(q) = q[1]
<1>1. q \in Seq(Elems(q))
  BY DEF IsSequence, Elems
<1> DEFINE S == Elems(q)
<1> HIDE DEF S
<1>2. Tail(q) \in Seq(S)
  BY <1>1 DEF S
<1>3. /\ Len(q) \in Nat \ {0} /\ DOMAIN q = 1 .. Len(q)
      /\ Len(Tail(q)) = Len(q) - 1 /\ DOMAIN Tail(q) = 1 .. Len(q) - 1
      /\ Head(q) = q[1]
  BY <1>1
<1>4. \A i \in 1 .. Len(q) - 1 : Tail(q)[i] = q[i + 1]
  BY <1>1
<1>5. IsSequence(Tail(q))
  BY <1>2, SequenceFact
<1> QED BY <1>3, <1>4, <1>5

\* RemoveAt shifts what is behind the position.
LEMMA RemoveAtFact ==
  ASSUME NEW q, IsSequence(q), NEW k \in DOMAIN q
  PROVE  /\ IsSequence(RemoveAt(q, k)) /\ Len(q) \in Nat /\ DOMAIN q = 1 .. Len(q)
         /\ DOMAIN RemoveAt(q, k) = 1 .. Len(q) - 1
         /\ \A i \in 1 .. Len(q) - 1 : RemoveAt(q, k)[i] = IF i < k THEN q[i] ELSE q[i + 1]
<1> DEFINE S == Elems(q)
           a == SubSeq(q, 1, k - 1)
           b == SubSeq(q, k + 1, Len(q))
<1>1. q \in Seq(S)
  BY DEF IsSequence, Elems
<1> HIDE DEF S
<1>2. Len(q) \in Nat /\ DOMAIN q = 1 .. Len(q) /\ k \in 1 .. Len(q)
  BY <1>1
<1>3. a \in Seq(S) /\ Len(a) = k - 1 /\ \A i \in 1 .. k - 1 : a[i] = q[i]
  BY <1>1, <1>2
<1>4. b \in Seq(S) /\ Len(b) = Len(q) - k /\ \A i \in 1 .. Len(q) - k : b[i] = q[k + i]
  BY <1>1, <1>2
<1> HIDE DEF a, b
<1>5. /\ a \o b \in Seq(S) /\ Len(a \o b) = Len(q) - 1
      /\ \A i \in 1 .. Len(q) - 1 : (a \o b)[i] = IF i <= Len(a) THEN a[i] ELSE b[i - Len(a)]
  <2>1. a \o b \in Seq(S) /\ Len(a \o b) = Len(a) + Len(b)
    <3>1. a \in Seq(S) /\ b \in Seq(S)
      BY <1>3, <1>4
    <3> QED BY <3>1
  <2>2. \A i \in 1 .. Len(a) + Len(b) : (a \o b)[i] = IF i <= Len(a) THEN a[i] ELSE b[i - Len(a)]
    BY <1>3, <1>4
  <2>3. Len(a) + Len(b) = Len(q) - 1
    BY <1>2, <1>3, <1>4
  <2> QED BY <2>1, <2>2, <2>3
<1>6. \A i \in 1 .. Len(q) - 1 : (a \o b)[i] = IF i < k THEN q[i] ELSE q[i + 1]
  <2> SUFFICES ASSUME NEW i \in 1 .. Len(q) - 1 PROVE (a \o b)[i] = IF i < k THEN q[i] ELSE q[i + 1]
    OBVIOUS
  <2>1. CASE i < k
    BY <2>1, <1>2, <1>3, <1>5
  <2>2. CASE ~(i < k)
    <3>1. i - Len(a) \in 1 .. Len(q) - k /\ k + (i - Len(a)) = i + 1 /\ ~(i <= Len(a))
      BY <2>2, <1>2, <1>3
    <3>2. b[i - Len(a)] = q[k + (i - Len(a))]
      BY <3>1, <1>4
    <3> QED BY <3>1, <3>2, <2>2, <1>5
  <2> QED BY <2>1, <2>2
<1>7. RemoveAt(q, k) = a \o b
  BY DEF RemoveAt, a, b
<1>8. DOMAIN (a \o b) = 1 .. Len(q) - 1
  BY <1>5
<1> QED BY <1>2, <1>5, <1>6, <1>7, <1>8, SequenceFact

\* A write through a reference changes one element.
LEMMA WriteFact ==
  ASSUME NEW q, IsSequence(q), NEW k, NEW e
  PROVE  /\ IsSequence([q EXCEPT ![k] = e])
         /\ DOMAIN [q EXCEPT ![k] = e] = DOMAIN q
         /\ \A i \in DOMAIN q : [q EXCEPT ![k] = e][i] = IF i = k THEN e ELSE q[i]
<1> DEFINE S == Elems(q) \cup {e}
           r == [q EXCEPT ![k] = e]
<1>1. q \in Seq(Elems(q))
  BY DEF IsSequence, Elems
<1>2. Len(q) \in Nat /\ DOMAIN q = 1 .. Len(q)
  BY <1>1
<1>3. r = [i \in 1 .. Len(q) |-> IF i = k THEN e ELSE q[i]]
  BY <1>2
<1>4. \A i \in 1 .. Len(q) : (IF i = k THEN e ELSE q[i]) \in S
  BY <1>2 DEF Elems
<1> HIDE DEF S
<1>5. [i \in 1 .. Len(q) |-> IF i = k THEN e ELSE q[i]] \in Seq(S)
  BY <1>2, <1>4
<1> QED BY <1>2, <1>3, <1>5, SequenceFact

-----------------------------------------------------------------------------
(* What most handlers do to a buffer and to the processor *)

ContextFields ==
  {"id", "created_at", "trace", "span", "parent", "error", "start", "end", "extracted", "inferred",
   "runtime_duration", "runtime_done_received", "oom_emitted", "tracer_span", "cold_start_span",
   "restore_span"}
BufferFields ==
  {"buffer", "invokes", "dones", "starts", "ends", "starts_with_id", "ends_with_id", "reparenting"}
ProcessorFields ==
  {"managed", "tracer", "buf", "clock", "tracer_detected", "active_invocations",
   "awaiting_first_invocation", "restored", "init_duration_metric_emitted", "first_invocation",
   "dsm_processed", "init_tag", "invoked_received", "monitoring", "usage", "usage_reads",
   "invocations", "init_durations", "unused_inits", "oom", "dsm", "sent", "cold_sent",
   "usage_reports"}

BufferShape(b) ==
  /\ DOMAIN b = BufferFields /\ IsSequence(b.buffer) /\ IsSequence(b.reparenting)
  /\ \A i \in DOMAIN b.buffer : DOMAIN b.buffer[i] = ContextFields
Shape(x) == DOMAIN x = ProcessorFields /\ BufferShape(x.buf)

\* A context that is filled in: it stays the one of its request, and an id that
\* was set stays set.
Grows(c, d) ==
  /\ DOMAIN d = ContextFields /\ d.id = c.id /\ d.runtime_done_received = c.runtime_done_received
  /\ Sendable(c) => Sendable(d)
Advances(b, n) ==
  /\ BufferShape(n) /\ DOMAIN n.buffer = DOMAIN b.buffer
  /\ \A i \in DOMAIN b.buffer : Grows(b.buffer[i], n.buffer[i])

\* A tracer that was detected stays detected.
Alert(x, y) == y.tracer_detected \in {x.tracer_detected, TRUE}

\* What the usage metrics and the ledger depend on besides the buffer.
Calm(x, y) ==
  /\ y.managed = x.managed /\ y.usage = x.usage /\ y.usage_reads = x.usage_reads
  /\ y.usage_reports = x.usage_reports /\ y.monitoring = x.monitoring
  /\ y.active_invocations = x.active_invocations /\ Alert(x, y)
SameUsage(x, y) == Calm(x, y) /\ y.awaiting_first_invocation = x.awaiting_first_invocation
Keeps(x, y) == Shape(y) /\ SameUsage(x, y) /\ y.sent = x.sent /\ Advances(x.buf, y.buf)

\* Whose contexts they are.
Ids(q) == {q[i].id : i \in DOMAIN q}
LEMMA AdvancesIds ==
  ASSUME NEW b, NEW n, Advances(b, n)
  PROVE  Ids(n.buffer) = Ids(b.buffer)
BY DEF Advances, Grows, Ids

\* Buffers advance in several steps.
LEMMA AdvancesTwice ==
  ASSUME NEW a, NEW b, NEW c, Advances(a, b), Advances(b, c)
  PROVE  Advances(a, c)
BY DEF Advances, Grows

\* A change outside the buffer of contexts advances it.
LEMMA SameContexts ==
  ASSUME NEW b, BufferShape(b), NEW n, DOMAIN n = BufferFields, n.buffer = b.buffer,
         IsSequence(n.reparenting)
  PROVE  Advances(b, n)
BY DEF Advances, Grows, BufferShape

\* Keeps composes.
LEMMA KeepsTwice ==
  ASSUME NEW x, NEW y, NEW z, Keeps(x, y), Keeps(y, z)
  PROVE  Keeps(x, z)
<1>1. SameUsage(x, z)
  BY DEF Keeps, SameUsage, Calm, Alert
<1>2. Advances(x.buf, z.buf)
  BY AdvancesTwice DEF Keeps
<1> QED BY <1>1, <1>2 DEF Keeps

\* Nothing happens.
LEMMA KeepsSelf == ASSUME NEW x, Shape(x) PROVE Keeps(x, x)
BY SameContexts DEF Keeps, SameUsage, Calm, Alert, Shape, BufferShape

\* Only the buffer changes.
LEMMA KeepsBuffer ==
  ASSUME NEW x, Shape(x), NEW b, Advances(x.buf, b)
  PROVE  Keeps(x, [x EXCEPT !.buf = b])
<1>1. BufferShape(b)
  BY DEF Advances
<1> QED BY <1>1 DEF Keeps, SameUsage, Calm, Alert, Shape, ProcessorFields

\* Position finds the first context with an id.
LEMMA PositionFact ==
  ASSUME NEW b, BufferShape(b), NEW id
  PROVE  /\ Has(b, id) <=> \E i \in DOMAIN b.buffer : b.buffer[i].id = id
         /\ Has(b, id) => /\ Position(b, id) \in DOMAIN b.buffer
                          /\ get(b, id) = b.buffer[Position(b, id)] /\ get(b, id).id = id
<1> DEFINE I == {i \in 1 .. Len(b.buffer) : b.buffer[i].id = id}
<1>1. Len(b.buffer) \in Nat /\ DOMAIN b.buffer = 1 .. Len(b.buffer)
  BY SequenceFact DEF BufferShape, IsSequence
<1>2. Position(b, id) = IF I # {} THEN Min(I) ELSE 0
  BY Zenon DEF Position, SelectInSeq
<1>3. ASSUME I # {} PROVE Min(I) \in I
  <2>1. \E k \in I : \A y \in I : k <= y
    <3>1. I \in SUBSET Nat
      BY <1>1
    <3> HIDE DEF I
    <3> QED BY <1>3, <3>1, LeastNumber
  <2> HIDE DEF I
  <2> QED BY <2>1 DEF Min
<1>4. CASE I = {}
  <2>1. ~ \E i \in DOMAIN b.buffer : b.buffer[i].id = id
    BY <1>1, <1>4
  <2> QED BY <2>1, <1>2, <1>4 DEF Has
<1>5. CASE I # {}
  <2>1. Position(b, id) \in 1 .. Len(b.buffer) /\ b.buffer[Position(b, id)].id = id
    BY <1>2, <1>3, <1>5
  <2> QED BY <2>1, <1>1 DEF Has, get
<1> QED BY <1>4, <1>5

\* A context is filled in through a reference.
LEMMA WriteAdvances ==
  ASSUME NEW b, BufferShape(b), NEW k \in DOMAIN b.buffer, NEW c, Grows(b.buffer[k], c)
  PROVE  Advances(b, write(b, k, c))
<1> DEFINE n == [b.buffer EXCEPT ![k] = c]
<1>1. /\ IsSequence(n) /\ DOMAIN n = DOMAIN b.buffer
      /\ \A i \in DOMAIN b.buffer : n[i] = IF i = k THEN c ELSE b.buffer[i]
  BY WriteFact DEF BufferShape
<1>2. /\ DOMAIN write(b, k, c) = BufferFields /\ write(b, k, c).buffer = n
      /\ write(b, k, c).reparenting = b.reparenting
  BY DEF write, BufferShape, BufferFields
<1> HIDE DEF n
<1>3. \A i \in DOMAIN b.buffer : Grows(b.buffer[i], n[i])
  BY <1>1 DEF Grows, BufferShape
<1>4. \A i \in DOMAIN n : DOMAIN n[i] = ContextFields
  BY <1>1, <1>3 DEF Grows
<1> QED BY <1>1, <1>2, <1>3, <1>4 DEF Advances, BufferShape

\* The same for get_mut: nothing happens without a context.
LEMMA GetMutAdvances ==
  ASSUME NEW b, BufferShape(b), NEW id, NEW c, Has(b, id) => Grows(get(b, id), c)
  PROVE  Advances(b, IF Has(b, id) THEN write(b, Position(b, id), c) ELSE b)
<1>1. CASE Has(b, id)
  BY <1>1, PositionFact, WriteAdvances
<1>2. CASE ~Has(b, id)
  BY <1>2, SameContexts DEF BufferShape
<1> QED BY <1>1, <1>2

-----------------------------------------------------------------------------
(* The helpers of the handlers *)

\* Nothing the ledger or the usage metrics depend on changes.
LEMMA KeepsAside ==
  ASSUME NEW x, Shape(x), NEW y, DOMAIN y = ProcessorFields, SameUsage(x, y),
         y.sent = x.sent, y.buf = x.buf
  PROVE  Keeps(x, y)
BY SameContexts DEF Keeps, Shape, BufferShape

\* Tags and counters.
LEMMA CountersKeep ==
  ASSUME NEW x, Shape(x), NEW late, NEW r
  PROVE  /\ Keeps(x, set_init_tags(x, late)) /\ Keeps(x, CountInvocation(x))
         /\ Keeps(x, flush_pending_first_invocation_metric(x)) /\ Keeps(x, EmitInitDuration(x))
         /\ Keeps(x, record_dsm_consume_from_payload(x, r))
         /\ Keeps(x, send_cold_start_span(x))
<1> DEFINE Aside(y) == DOMAIN y = ProcessorFields /\ SameUsage(x, y) /\ y.sent = x.sent /\ y.buf = x.buf
<1>1. Aside(set_init_tags(x, late))
  BY DEF Shape, ProcessorFields, SameUsage, Calm, Alert, set_init_tags
<1>2. Aside(CountInvocation(x))
  BY DEF Shape, ProcessorFields, SameUsage, Calm, Alert, CountInvocation
<1>3. Aside(flush_pending_first_invocation_metric(x))
  BY DEF Shape, ProcessorFields, SameUsage, Calm, Alert, flush_pending_first_invocation_metric
<1>4. Aside(EmitInitDuration(x))
  BY DEF Shape, ProcessorFields, SameUsage, Calm, Alert, EmitInitDuration
<1>5. Aside(record_dsm_consume_from_payload(x, r))
  BY DEF Shape, ProcessorFields, SameUsage, Calm, Alert, record_dsm_consume_from_payload
<1>6. Aside(send_cold_start_span(x))
  BY DEF Shape, ProcessorFields, SameUsage, Calm, Alert, send_cold_start_span
<1> QED BY <1>1, <1>2, <1>3, <1>4, <1>5, <1>6, KeepsAside

\* The out-of-memory metric.
LEMMA OomKeeps ==
  ASSUME NEW x, Shape(x), NEW id
  PROVE  Keeps(x, try_increment_oom_metric(x, id))
<1> DEFINE c == [get(x.buf, id) EXCEPT !.oom_emitted = TRUE]
           b == IF Has(x.buf, id) THEN write(x.buf, Position(x.buf, id), c) ELSE x.buf
<1>1. Has(x.buf, id) => Grows(get(x.buf, id), c)
  BY PositionFact DEF Shape, BufferShape, Grows, ContextFields, Sendable
<1>2. Advances(x.buf, b)
  <2> HIDE DEF c
  <2> QED BY <1>1, GetMutAdvances DEF Shape
<1>3. try_increment_oom_metric(x, id) \in
        {x, [x EXCEPT !.oom[id] = @ + 1], [x EXCEPT !.buf = b, !.oom[id] = @ + 1]}
  BY Zenon DEF try_increment_oom_metric, get_mut
<1> HIDE DEF b
<1>4. Keeps(x, x) /\ Keeps(x, [x EXCEPT !.oom[id] = @ + 1])
  <2> DEFINE y == [x EXCEPT !.oom[id] = @ + 1]
  <2>1. DOMAIN y = ProcessorFields /\ SameUsage(x, y) /\ y.sent = x.sent /\ y.buf = x.buf
    BY DEF Shape, ProcessorFields, SameUsage, Calm, Alert
  <2> HIDE DEF y
  <2>2. Keeps(x, y)
    BY <2>1, KeepsAside
  <2> QED BY <2>2, KeepsSelf DEF y
<1>5. Keeps(x, [x EXCEPT !.buf = b, !.oom[id] = @ + 1])
  BY <1>2 DEF Keeps, Advances, Shape, ProcessorFields, SameUsage, Calm, Alert
<1> QED BY <1>3, <1>4, <1>5

-----------------------------------------------------------------------------
(* Universal instrumentation *)

\* The pairing queues are apart from the contexts.
LEMMA PairingAdvances ==
  ASSUME NEW b, BufferShape(b), NEW r
  PROVE  /\ Advances(b, pair_invoke_event(b, r).b)
         /\ Advances(b, pair_universal_instrumentation_start_event(b, r).b)
         /\ Advances(b, pair_platform_runtime_done_event(b, r).b)
         /\ Advances(b, pair_universal_instrumentation_end_event(b, r).b)
         /\ Advances(b, pair_universal_instrumentation_start_with_request_id(b, r).b)
         /\ Advances(b, pair_universal_instrumentation_end_with_request_id(b, r).b)
         /\ Advances(b, take_universal_instrumentation_start_for_request_id(b, r))
         /\ Advances(b, take_universal_instrumentation_end_for_request_id(b, r))
<1> DEFINE Apart(n) == DOMAIN n = BufferFields /\ n.buffer = b.buffer /\ IsSequence(n.reparenting)
<1> USE DEF BufferShape, BufferFields
<1>1. Apart(pair_invoke_event(b, r).b)
  BY DEF pair_invoke_event
<1>2. Apart(pair_universal_instrumentation_start_event(b, r).b)
  BY DEF pair_universal_instrumentation_start_event
<1>3. Apart(pair_platform_runtime_done_event(b, r).b)
  BY DEF pair_platform_runtime_done_event
<1>4. Apart(pair_universal_instrumentation_end_event(b, r).b)
  BY DEF pair_universal_instrumentation_end_event
<1>5. Apart(pair_universal_instrumentation_start_with_request_id(b, r).b)
  BY DEF pair_universal_instrumentation_start_with_request_id
<1>6. Apart(pair_universal_instrumentation_end_with_request_id(b, r).b)
  BY DEF pair_universal_instrumentation_end_with_request_id
<1>7. Apart(take_universal_instrumentation_start_for_request_id(b, r))
  BY DEF take_universal_instrumentation_start_for_request_id
<1>8. Apart(take_universal_instrumentation_end_for_request_id(b, r))
  BY DEF take_universal_instrumentation_end_for_request_id
<1> QED BY <1>1, <1>2, <1>3, <1>4, <1>5, <1>6, <1>7, <1>8, SameContexts

\* A start event fills in the context of its request.
LEMMA ProcessStartKeeps ==
  ASSUME NEW x, Shape(x), NEW r, NEW s
  PROVE  Keeps(x, process_on_universal_instrumentation_start(x, r, s))
<1> DEFINE Start(c) ==
             [c EXCEPT !.start = s,
                       !.inferred = s \in Inferred,
                       !.extracted = s \in Distributed,
                       !.trace = IF s \in Distributed THEN "extracted" ELSE @,
                       !.parent = CASE s \in Inferred -> "inferred"
                                    [] s \in Distributed -> "extracted"
                                    [] OTHER -> @]
           c == Start(get(x.buf, r))
           b == IF Has(x.buf, r) THEN write(x.buf, Position(x.buf, r), c) ELSE x.buf
           y == [x EXCEPT !.buf = b]
<1>1. Has(x.buf, r) => Grows(get(x.buf, r), c)
  <2> SUFFICES ASSUME Has(x.buf, r) PROVE Grows(get(x.buf, r), c)
    OBVIOUS
  <2>1. DOMAIN get(x.buf, r) = ContextFields
    BY PositionFact DEF Shape, BufferShape
  <2>2. /\ DOMAIN c = ContextFields /\ c.id = get(x.buf, r).id /\ c.span = get(x.buf, r).span
        /\ c.runtime_done_received = get(x.buf, r).runtime_done_received
        /\ c.trace = IF s \in Distributed THEN "extracted" ELSE get(x.buf, r).trace
    BY <2>1 DEF ContextFields
  <2> HIDE DEF c
  <2> QED BY <2>2 DEF Grows, Sendable
<1>2. process_on_universal_instrumentation_start(x, r, s) \in {x, record_dsm_consume_from_payload(y, r)}
  BY Zenon DEF process_on_universal_instrumentation_start, get_mut
<1>3. Advances(x.buf, b)
  <2> HIDE DEF c
  <2> QED BY <1>1, GetMutAdvances DEF Shape
<1> HIDE DEF b
<1>4. Keeps(x, y)
  BY <1>3, KeepsBuffer
<1> HIDE DEF y
<1>5. Keeps(y, record_dsm_consume_from_payload(y, r))
  BY <1>4, CountersKeep DEF Keeps
<1> QED BY <1>2, <1>4, <1>5, KeepsTwice, KeepsSelf

\* So does an end event.
LEMMA ProcessEndKeeps ==
  ASSUME NEW x, Shape(x), NEW r, NEW e
  PROVE  Keeps(x, process_on_universal_instrumentation_end(x, r, e))
<1> DEFINE ids == x.tracer # "lwa"
           End(c) ==
             [c EXCEPT !.end = e,
                       !.error = @ \/ e \in Failing,
                       !.trace = CASE c.extracted -> "extracted"
                                   [] ~c.extracted /\ ids -> "header"
                                   [] OTHER -> @,
                       !.span = IF ids THEN "header" ELSE @,
                       !.parent = CASE c.inferred -> @
                                    [] ~c.inferred /\ c.extracted -> "extracted"
                                    [] ~c.inferred /\ ~c.extracted /\ ids -> "header"
                                    [] OTHER -> "unset"]
           c == End(get(x.buf, r))
           b == IF Has(x.buf, r) THEN write(x.buf, Position(x.buf, r), c) ELSE x.buf
           y == [x EXCEPT !.buf = b]
<1>1. Has(x.buf, r) => Grows(get(x.buf, r), c)
  <2> SUFFICES ASSUME Has(x.buf, r) PROVE Grows(get(x.buf, r), c)
    OBVIOUS
  <2>1. DOMAIN get(x.buf, r) = ContextFields
    BY PositionFact DEF Shape, BufferShape
  <2>2. /\ DOMAIN c = ContextFields /\ c.id = get(x.buf, r).id
        /\ c.runtime_done_received = get(x.buf, r).runtime_done_received
    BY <2>1 DEF ContextFields
  <2>3. c.span \in {"header", get(x.buf, r).span}
    BY <2>1 DEF ContextFields
  <2>4. c.trace \in {"extracted", "header", get(x.buf, r).trace}
    BY <2>1 DEF ContextFields
  <2> HIDE DEF c
  <2> QED BY <2>2, <2>3, <2>4 DEF Grows, Sendable
<1>2. process_on_universal_instrumentation_end(x, r, e) \in {x, y}
  BY Zenon DEF process_on_universal_instrumentation_end, get_mut
<1>3. Advances(x.buf, b)
  <2> HIDE DEF c
  <2> QED BY <1>1, GetMutAdvances DEF Shape
<1> HIDE DEF b
<1>4. Keeps(x, y)
  BY <1>3, KeepsBuffer
<1> QED BY <1>2, <1>4, KeepsSelf

\* The start handler, paired or not, with and without a request id.
LEMMA StartKeeps ==
  ASSUME NEW x, Shape(x), NEW s, NEW with_id \in BOOLEAN
  PROVE  LET z == on_universal_instrumentation_start(x, s, with_id)
         IN Keeps(x, z) /\ z.tracer_detected = TRUE
<1> DEFINE y == [x EXCEPT !.tracer_detected = TRUE]
           q == pair_universal_instrumentation_start_with_request_id(y.buf, s)
           f == pair_universal_instrumentation_start_event(y.buf, s)
           yq == [y EXCEPT !.buf = q.b]
           yf == [y EXCEPT !.buf = f.b]
           z == on_universal_instrumentation_start(x, s, with_id)
<1>1. Keeps(x, y) /\ Shape(y) /\ y.tracer_detected = TRUE
  <2>1. /\ DOMAIN y = ProcessorFields /\ SameUsage(x, y) /\ y.sent = x.sent /\ y.buf = x.buf
        /\ y.tracer_detected = TRUE
    BY DEF Shape, ProcessorFields, SameUsage, Calm, Alert
  <2> HIDE DEF y
  <2> QED BY <2>1, KeepsAside DEF Keeps
<1>2. z \in
        {process_on_universal_instrumentation_start(y, s, s),
         process_on_universal_instrumentation_start(yq, s, s), yq,
         process_on_universal_instrumentation_start(yf, f.id, s), yf}
  <2> HIDE DEF process_on_universal_instrumentation_start
  <2>1. CASE with_id /\ y.managed /\ Has(y.buf, s)
    BY <2>1, Zenon DEF on_universal_instrumentation_start
  <2>2. CASE with_id /\ ~(y.managed /\ Has(y.buf, s))
    BY <2>2, Zenon DEF on_universal_instrumentation_start
  <2>3. CASE ~with_id
    BY <2>3, Zenon DEF on_universal_instrumentation_start
  <2> QED BY <2>1, <2>2, <2>3
<1> HIDE DEF y, z
<1>3. Keeps(y, yq) /\ Keeps(y, yf)
  BY <1>1, PairingAdvances, KeepsBuffer DEF Shape
<1> HIDE DEF yq, yf, f
<1>4. Shape(yq) /\ Shape(yf)
  BY <1>3 DEF Keeps
<1>5. Keeps(y, z)
  BY <1>1, <1>2, <1>3, <1>4, ProcessStartKeeps, KeepsTwice
<1>6. z.tracer_detected = TRUE
  BY <1>1, <1>5 DEF Keeps, SameUsage, Calm, Alert
<1> QED BY <1>1, <1>5, <1>6, KeepsTwice DEF z

\* The end handler.
LEMMA EndKeeps ==
  ASSUME NEW x, Shape(x), NEW e, NEW with_id \in BOOLEAN
  PROVE  Keeps(x, on_universal_instrumentation_end(x, e, with_id))
<1> DEFINE q == pair_universal_instrumentation_end_with_request_id(x.buf, e)
           f == pair_universal_instrumentation_end_event(x.buf, e)
           yq == [x EXCEPT !.buf = q.b]
           yf == [x EXCEPT !.buf = f.b]
<1>1. on_universal_instrumentation_end(x, e, with_id) \in
        {process_on_universal_instrumentation_end(yq, e, e), yq,
         process_on_universal_instrumentation_end(yf, f.id, e), yf}
  BY Zenon DEF on_universal_instrumentation_end
<1>2. Keeps(x, yq) /\ Keeps(x, yf)
  BY PairingAdvances, KeepsBuffer DEF Shape
<1> HIDE DEF yq, yf, f
<1>3. Shape(yq) /\ Shape(yf)
  BY <1>2 DEF Keeps
<1> QED BY <1>1, <1>2, <1>3, ProcessEndKeeps, KeepsTwice

-----------------------------------------------------------------------------
(* Opening a context *)

OneEach(b) == \A i, j \in DOMAIN b.buffer : b.buffer[i].id = b.buffer[j].id => i = j

\* n holds what b held, filled in or evicted, and a fresh context for r.
Opened(b, n, r) ==
  /\ BufferShape(n) /\ OneEach(n)
  /\ \A j \in DOMAIN n.buffer :
       \/ n.buffer[j].id = r /\ ~n.buffer[j].runtime_done_received
       \/ \E i \in DOMAIN b.buffer : Grows(b.buffer[i], n.buffer[j])

\* A context that is open may then be filled in.
LEMMA OpenedAdvances ==
  ASSUME NEW a, NEW b, NEW c, NEW r, Opened(a, b, r), Advances(b, c)
  PROVE  Opened(a, c, r)
<1>1. OneEach(c)
  BY DEF OneEach, Opened, Advances, Grows
<1>2. ASSUME NEW j \in DOMAIN c.buffer
      PROVE  \/ c.buffer[j].id = r /\ ~c.buffer[j].runtime_done_received
             \/ \E i \in DOMAIN a.buffer : Grows(a.buffer[i], c.buffer[j])
  <2>1. j \in DOMAIN b.buffer /\ Grows(b.buffer[j], c.buffer[j])
    BY <1>2 DEF Advances
  <2>2. CASE b.buffer[j].id = r /\ ~b.buffer[j].runtime_done_received
    BY <2>1, <2>2 DEF Grows
  <2>3. CASE \E i \in DOMAIN a.buffer : Grows(a.buffer[i], b.buffer[j])
    BY <2>1, <2>3 DEF Grows
  <2> QED BY <2>1, <2>2, <2>3 DEF Opened
<1> QED BY <1>1, <1>2 DEF Opened, Advances

\* remove takes out the one context of the request.
LEMMA RemoveFact ==
  ASSUME NEW b, BufferShape(b), OneEach(b), NEW id
  PROVE  /\ BufferShape(remove(b, id)) /\ OneEach(remove(b, id))
         /\ remove(b, id).reparenting = b.reparenting
         /\ ~Has(b, id) => remove(b, id) = b
         /\ \A j \in DOMAIN remove(b, id).buffer :
              /\ remove(b, id).buffer[j].id # id
              /\ \E i \in DOMAIN b.buffer : remove(b, id).buffer[j] = b.buffer[i]
         /\ \A i \in DOMAIN b.buffer :
              b.buffer[i].id # id => \E j \in DOMAIN remove(b, id).buffer : remove(b, id).buffer[j] = b.buffer[i]
<1>1. CASE ~Has(b, id)
  BY <1>1, PositionFact DEF remove
<1>2. CASE Has(b, id)
  <2> DEFINE k == Position(b, id)
             q == RemoveAt(b.buffer, k)
  <2>1. k \in DOMAIN b.buffer /\ b.buffer[k].id = id
    BY <1>2, PositionFact
  <2> HIDE DEF k
  <2>2. /\ IsSequence(q) /\ Len(b.buffer) \in Nat /\ DOMAIN b.buffer = 1 .. Len(b.buffer)
        /\ DOMAIN q = 1 .. Len(b.buffer) - 1
        /\ \A i \in 1 .. Len(b.buffer) - 1 : q[i] = IF i < k THEN b.buffer[i] ELSE b.buffer[i + 1]
    BY <2>1, RemoveAtFact DEF BufferShape
  <2>3. /\ DOMAIN remove(b, id) = BufferFields /\ remove(b, id).buffer = q
        /\ remove(b, id).reparenting = b.reparenting
    BY <1>2 DEF remove, BufferShape, BufferFields, k
  <2> DEFINE At(j) == IF j < k THEN j ELSE j + 1
  <2> HIDE DEF q
  <2>4. \A j \in DOMAIN q : At(j) \in DOMAIN b.buffer /\ At(j) # k /\ q[j] = b.buffer[At(j)]
    BY <2>1, <2>2
  <2>5. \A i, j \in DOMAIN q : At(i) = At(j) => i = j
    BY <2>1, <2>2
  <2>7. \A i \in DOMAIN b.buffer : i # k => \E j \in DOMAIN q : At(j) = i
    <3> SUFFICES ASSUME NEW i \in DOMAIN b.buffer, i # k PROVE \E j \in DOMAIN q : At(j) = i
      OBVIOUS
    <3>1. CASE i < k
      BY <2>1, <2>2, <3>1
    <3>2. CASE ~(i < k)
      <4>1. i - 1 \in DOMAIN q /\ At(i - 1) = i
        BY <2>1, <2>2, <3>2
      <4> QED BY <4>1
    <3> QED BY <3>1, <3>2
  <2>8. \A i \in DOMAIN b.buffer : b.buffer[i].id # id => \E j \in DOMAIN q : q[j] = b.buffer[i]
    <3> HIDE DEF At
    <3> QED BY <2>1, <2>4, <2>7
  <2> HIDE DEF At
  <2>6. /\ \A j \in DOMAIN q : q[j].id # id /\ DOMAIN q[j] = ContextFields
        /\ \A i, j \in DOMAIN q : q[i].id = q[j].id => i = j
    BY <2>1, <2>4, <2>5 DEF OneEach, BufferShape
  <2> QED BY <1>2, <2>2, <2>3, <2>4, <2>6, <2>8 DEF BufferShape, OneEach
<1> QED BY <1>1, <1>2

\* insert drops the oldest context of a full buffer.
LEMMA InsertFact ==
  ASSUME NEW b, BufferShape(b), OneEach(b), NEW c, DOMAIN c = ContextFields,
         \A i \in DOMAIN b.buffer : b.buffer[i].id # c.id
  PROVE  /\ BufferShape(insert(b, c)) /\ OneEach(insert(b, c))
         /\ \A j \in DOMAIN insert(b, c).buffer :
              \/ insert(b, c).buffer[j] = c
              \/ \E i \in DOMAIN b.buffer : insert(b, c).buffer[j] = b.buffer[i]
<1>0. IsSequence(b.buffer) /\ Len(b.buffer) \in Nat /\ DOMAIN b.buffer = 1 .. Len(b.buffer)
  BY SequenceFact DEF BufferShape, IsSequence
<1> DEFINE q == IF Len(b.buffer) = Capacity THEN Tail(b.buffer) ELSE b.buffer
<1>1. /\ IsSequence(q)
      /\ \A j \in DOMAIN q : \E i \in DOMAIN b.buffer : q[j] = b.buffer[i]
      /\ \A i, j \in DOMAIN q : q[i].id = q[j].id => i = j
  <2>1. CASE Len(b.buffer) = Capacity
    <3>1. b.buffer # <<>>
      BY <2>1, BufferAssumption
    <3>2. /\ IsSequence(q) /\ DOMAIN q = 1 .. Len(b.buffer) - 1
          /\ \A i \in 1 .. Len(b.buffer) - 1 : q[i] = b.buffer[i + 1]
      BY <2>1, <3>1, <1>0, TailFact
    <3> HIDE DEF q
    <3>3. \A j \in DOMAIN q : j + 1 \in DOMAIN b.buffer /\ q[j] = b.buffer[j + 1] /\ j \in Nat
      BY <3>2, <1>0
    <3>4. \A i, j \in DOMAIN q : q[i].id = q[j].id => i + 1 = j + 1
      BY <3>3 DEF OneEach
    <3> QED BY <3>2, <3>3, <3>4
  <2>2. CASE Len(b.buffer) # Capacity
    BY <2>2, <1>0 DEF OneEach
  <2> QED BY <2>1, <2>2
<1>2. /\ DOMAIN insert(b, c) = BufferFields /\ insert(b, c).buffer = Append(q, c)
      /\ insert(b, c).reparenting = b.reparenting
  <2>1. remove(b, c.id) = b
    BY RemoveFact, PositionFact
  <2> QED BY <2>1 DEF insert, BufferShape, BufferFields
<1> HIDE DEF q
<1>3. /\ IsSequence(Append(q, c)) /\ DOMAIN Append(q, c) = 1 .. Len(q) + 1
      /\ \A i \in DOMAIN q : Append(q, c)[i] = q[i]
      /\ Append(q, c)[Len(q) + 1] = c
      /\ Len(q) \in Nat /\ DOMAIN q = 1 .. Len(q)
  BY <1>1, AppendFact
<1>4. \A j \in DOMAIN Append(q, c) :
        \/ j = Len(q) + 1 /\ Append(q, c)[j] = c
        \/ j \in DOMAIN q /\ Append(q, c)[j] = q[j] /\ q[j].id # c.id
  BY <1>1, <1>3
<1>5. \A j \in DOMAIN Append(q, c) : DOMAIN Append(q, c)[j] = ContextFields
  BY <1>1, <1>4 DEF BufferShape
<1>6. \A i, j \in DOMAIN Append(q, c) : Append(q, c)[i].id = Append(q, c)[j].id => i = j
  BY <1>1, <1>4
<1>7. \A j \in DOMAIN Append(q, c) :
        \/ Append(q, c)[j] = c
        \/ \E i \in DOMAIN b.buffer : Append(q, c)[j] = b.buffer[i]
  BY <1>1, <1>4
<1> QED BY <1>2, <1>3, <1>5, <1>6, <1>7 DEF BufferShape, OneEach

\* start_context for a request that has no context.
LEMMA StartContextOpens ==
  ASSUME NEW b, BufferShape(b), OneEach(b), NEW r, NEW now, \A i \in DOMAIN b.buffer : b.buffer[i].id # r
  PROVE  Opened(b, start_context(b, r, now), r)
<1> DEFINE c == from_request_id(r, now)
           n == start_context(b, r, now)
<1>1. DOMAIN c = ContextFields /\ c.id = r /\ c.runtime_done_received = FALSE
  BY DEF from_request_id, ContextFields
<1>2. n = insert(b, c)
  BY DEF start_context
<1> HIDE DEF c, n
<1>3. /\ BufferShape(n) /\ OneEach(n)
      /\ \A j \in DOMAIN n.buffer : n.buffer[j] = c \/ \E i \in DOMAIN b.buffer : n.buffer[j] = b.buffer[i]
  BY <1>1, <1>2, InsertFact
<1>4. \A i \in DOMAIN b.buffer : Grows(b.buffer[i], b.buffer[i])
  BY DEF Grows, BufferShape
<1> QED BY <1>1, <1>3, <1>4 DEF Opened, n

\* The context created at init gets the id of the first request.
LEMMA RenameOpens ==
  ASSUME NEW b, BufferShape(b), OneEach(b), NEW r, \A i \in DOMAIN b.buffer : b.buffer[i].id # r,
         Has(b, EmptyId), \A i \in DOMAIN b.buffer : b.buffer[i].id = EmptyId => ~b.buffer[i].runtime_done_received
  PROVE  Opened(b, update_empty_context_request_id(b, r), r)
<1> DEFINE k == Position(b, EmptyId)
           c == [get(b, EmptyId) EXCEPT !.id = r]
           n == update_empty_context_request_id(b, r)
           q == [b.buffer EXCEPT ![k] = c]
<1>1. k \in DOMAIN b.buffer /\ get(b, EmptyId) = b.buffer[k] /\ b.buffer[k].id = EmptyId
  BY PositionFact
<1>2. DOMAIN c = ContextFields /\ c.id = r /\ ~c.runtime_done_received
  BY <1>1 DEF BufferShape, ContextFields
<1>3. n = [b EXCEPT !.buffer = q]
  BY DEF update_empty_context_request_id, get_mut, write
<1>4. DOMAIN n = BufferFields /\ n.buffer = q /\ n.reparenting = b.reparenting
  BY <1>3 DEF BufferShape, BufferFields
<1>5. /\ IsSequence(q) /\ DOMAIN q = DOMAIN b.buffer
      /\ \A i \in DOMAIN b.buffer : q[i] = IF i = k THEN c ELSE b.buffer[i]
  <2> HIDE DEF k, c
  <2> QED BY WriteFact DEF BufferShape
<1> HIDE DEF k, c, n, q
<1>6. OneEach(n) /\ BufferShape(n)
  BY <1>1, <1>2, <1>4, <1>5 DEF OneEach, BufferShape
<1>7. \A i \in DOMAIN b.buffer : Grows(b.buffer[i], b.buffer[i])
  BY DEF Grows, BufferShape
<1> QED BY <1>2, <1>4, <1>5, <1>6, <1>7 DEF Opened, n

-----------------------------------------------------------------------------
(* The handlers that open and end an invocation *)

\* MonitorInvocation as seen by the usage metrics.
Monitored(x, y) ==
  /\ y.managed = x.managed /\ y.usage_reads = x.usage_reads /\ y.usage_reports = x.usage_reports
  /\ ~PROC_METRICS => /\ y.usage = x.usage /\ y.monitoring = x.monitoring
                      /\ y.active_invocations = x.active_invocations
  /\ PROC_METRICS /\ x.managed => /\ y.usage = x.usage /\ y.active_invocations = x.active_invocations + 1
                                  /\ y.monitoring = (y.active_invocations = 1 \/ x.monitoring)
  /\ PROC_METRICS /\ ~x.managed => /\ y.usage = {} /\ y.monitoring = TRUE
                                   /\ y.active_invocations = x.active_invocations
  /\ Alert(x, y)

\* MonitorInvocation leaves the ledger alone.
LEMMA MonitorEffect ==
  ASSUME NEW x, Shape(x), x.monitoring \in BOOLEAN
  PROVE  LET y == MonitorInvocation(x)
         IN Shape(y) /\ y.sent = x.sent /\ y.buf = x.buf /\ Monitored(x, y)
<1> DEFINE y == MonitorInvocation(x)
           x1 == [x EXCEPT !.active_invocations = @ + 1]
<1>0. /\ DOMAIN x1 = ProcessorFields /\ x1.sent = x.sent /\ x1.buf = x.buf /\ x1.managed = x.managed
      /\ x1.usage_reads = x.usage_reads /\ x1.usage_reports = x.usage_reports /\ x1.usage = x.usage
      /\ x1.monitoring = x.monitoring /\ x1.active_invocations = x.active_invocations + 1
      /\ x1.tracer_detected = x.tracer_detected
  BY DEF Shape, ProcessorFields
<1>1. CASE PROC_METRICS /\ x.managed
  <2>1. y = IF x1.active_invocations = 1 THEN [x1 EXCEPT !.monitoring = TRUE] ELSE x1
    BY <1>1, Zenon DEF MonitorInvocation, resume_usage_metrics_monitoring
  <2> HIDE DEF y, x1
  <2> QED BY <1>0, <1>1, <2>1 DEF Monitored, Alert, Shape, ProcessorFields, y
<1>2. CASE PROC_METRICS /\ ~x.managed
  <2>1. y = [x EXCEPT !.usage = {}, !.monitoring = TRUE]
    BY <1>2 DEF MonitorInvocation, restart_usage_metrics_monitoring
  <2> HIDE DEF y
  <2> QED BY <1>2, <2>1 DEF Monitored, Alert, Shape, ProcessorFields, y
<1>3. CASE ~PROC_METRICS
  <2>1. y = x
    BY <1>3 DEF MonitorInvocation
  <2> HIDE DEF y
  <2> QED BY <1>3, <2>1 DEF Monitored, Alert, Shape, y
<1> QED BY <1>1, <1>2, <1>3

\* OpenContext opens one for the request.
LEMMA OpenContextEffect ==
  ASSUME NEW x, Shape(x), OneEach(x.buf), NEW r, NEW late,
         \A i \in DOMAIN x.buf.buffer :
           /\ x.buf.buffer[i].id # r
           /\ x.buf.buffer[i].id = EmptyId => ~x.buf.buffer[i].runtime_done_received
  PROVE  LET y == OpenContext(x, r, late)
         IN DOMAIN y = ProcessorFields /\ SameUsage(x, y) /\ y.sent = x.sent /\ Opened(x.buf, y.buf, r)
<1> DEFINE y == OpenContext(x, r, late)
           b1 == update_empty_context_request_id(x.buf, r)
           t == set_init_tags(x, late)
           b2 == start_context(x.buf, r, x.clock)
<1>1. CASE x.managed /\ x.awaiting_first_invocation /\ Has(x.buf, EmptyId)
  <2>1. y = [x EXCEPT !.buf = b1]
    BY <1>1 DEF OpenContext
  <2>2. Opened(x.buf, b1, r)
    BY <1>1, RenameOpens DEF Shape
  <2> HIDE DEF b1, y
  <2> QED BY <2>1, <2>2 DEF Shape, ProcessorFields, SameUsage, Calm, Alert, y
<1>2. CASE ~(x.managed /\ x.awaiting_first_invocation /\ Has(x.buf, EmptyId))
  <2>1. DOMAIN t = ProcessorFields /\ SameUsage(x, t) /\ t.sent = x.sent /\ t.buf = x.buf
    BY DEF set_init_tags, Shape, ProcessorFields, SameUsage, Calm, Alert
  <2> HIDE DEF t
  <2>2. y = [t EXCEPT !.buf = b2, !.clock = t.clock + 1]
    BY <1>2, <2>1, Zenon DEF OpenContext, t
  <2>3. Opened(x.buf, b2, r)
    BY StartContextOpens DEF Shape
  <2> HIDE DEF b2, y
  <2> QED BY <2>1, <2>2, <2>3 DEF ProcessorFields, SameUsage, Calm, Alert, y
<1> QED BY <1>1, <1>2

\* The invoke event, or platform.start of a Managed Instance.
Invokes(x, y, r) ==
  Shape(y) /\ y.sent = x.sent /\ Opened(x.buf, y.buf, r) /\ Monitored(x, y)

\* on_invoke_event opens a context and starts the monitoring.
LEMMA InvokeEffect ==
  ASSUME NEW x, Shape(x), OneEach(x.buf), x.monitoring \in BOOLEAN, x.managed \in BOOLEAN, NEW r, NEW late,
         \A i \in DOMAIN x.buf.buffer :
           /\ x.buf.buffer[i].id # r
           /\ x.buf.buffer[i].id = EmptyId => ~x.buf.buffer[i].runtime_done_received
  PROVE  /\ Invokes(x, on_invoke_event(x, r, late), r)
         /\ Ids(on_invoke_event(x, r, late).buf.buffer) = Ids(OpenContext(x, r, late).buf.buffer)
<1> DEFINE o == OpenContext(x, r, late)
           a == [o EXCEPT !.awaiting_first_invocation = FALSE]
           m == MonitorInvocation(a)
           k == CountInvocation(m)
           y == [k EXCEPT !.invoked_received = TRUE]
           f == pair_invoke_event(y.buf, r)
           yt == [y EXCEPT !.buf = take_universal_instrumentation_start_for_request_id(y.buf, r)]
           yf == [y EXCEPT !.buf = f.b]
           z == on_invoke_event(x, r, late)
<1>1. z \in {process_on_universal_instrumentation_start(yt, r, r),
             process_on_universal_instrumentation_start(yf, r, f.start), yf, y}
  <2>1. CASE r \in y.buf.starts_with_id
    BY <2>1, Zenon DEF on_invoke_event
  <2>2. CASE r \notin y.buf.starts_with_id /\ ~y.managed
    BY <2>2, Zenon DEF on_invoke_event
  <2>3. CASE r \notin y.buf.starts_with_id /\ y.managed
    BY <2>3, Zenon DEF on_invoke_event
  <2> QED BY <2>1, <2>2, <2>3
<1> HIDE DEF z
<1>2. DOMAIN o = ProcessorFields /\ SameUsage(x, o) /\ o.sent = x.sent /\ Opened(x.buf, o.buf, r)
  BY OpenContextEffect
<1> HIDE DEF o
<1>3. Shape(a) /\ Calm(x, a) /\ a.sent = x.sent /\ Opened(x.buf, a.buf, r) /\ a.buf = o.buf
  BY <1>2 DEF Shape, ProcessorFields, SameUsage, Calm, Alert, Opened
<1> HIDE DEF a
<1>4. Shape(m) /\ m.sent = x.sent /\ Opened(x.buf, m.buf, r) /\ Monitored(x, m) /\ m.buf = o.buf
  <2>1. a.monitoring \in BOOLEAN
    BY <1>3 DEF SameUsage, Calm, Alert
  <2>2. Shape(m) /\ m.sent = a.sent /\ m.buf = a.buf /\ Monitored(a, m)
    BY <1>3, <2>1, MonitorEffect
  <2> HIDE DEF m
  <2> QED BY <1>3, <2>2 DEF Calm, Alert, Monitored
<1> HIDE DEF m
<1>5. Keeps(m, k)
  BY <1>4, CountersKeep
<1> HIDE DEF k
<1>6. Keeps(k, y)
  <2>1. DOMAIN y = ProcessorFields /\ SameUsage(k, y) /\ y.sent = k.sent /\ y.buf = k.buf
    BY <1>5 DEF Keeps, Shape, ProcessorFields, SameUsage, Calm, Alert
  <2> HIDE DEF y
  <2> QED BY <1>5, <2>1, KeepsAside DEF Keeps
<1> HIDE DEF y
<1>7. Keeps(y, yt) /\ Keeps(y, yf) /\ Shape(y)
  BY <1>6, PairingAdvances, KeepsBuffer DEF Shape, Keeps
<1> HIDE DEF yt, yf, f
<1>8. Keeps(y, z)
  BY <1>1, <1>7, ProcessStartKeeps, KeepsTwice, KeepsSelf DEF Keeps
<1>9. Keeps(m, z)
  BY <1>5, <1>6, <1>8, KeepsTwice
<1>10. Ids(z.buf.buffer) = Ids(o.buf.buffer)
  BY <1>4, <1>9, AdvancesIds DEF Keeps
<1> QED BY <1>4, <1>9, <1>10, OpenedAdvances DEF Keeps, Invokes, Monitored, SameUsage, Calm, Alert, z, o

-----------------------------------------------------------------------------
\* The contexts after the runtime of r is done.
Ended(b, n, r) ==
  /\ BufferShape(n) /\ DOMAIN n.buffer = DOMAIN b.buffer
  /\ \A i \in DOMAIN b.buffer :
       /\ n.buffer[i].id = b.buffer[i].id
       /\ Sendable(b.buffer[i]) => Sendable(n.buffer[i])
       /\ n.buffer[i].runtime_done_received => b.buffer[i].id = r \/ b.buffer[i].runtime_done_received

\* At most the span of r was sent, and then its context has both ids.
Pays(x, y, r) ==
  \/ y.sent = x.sent
  \/ /\ \E i \in DOMAIN y.buf.buffer : y.buf.buffer[i].id = r /\ Sendable(y.buf.buffer[i])
     /\ \E trace : y.sent = [x.sent EXCEPT ![r] = Append(x.sent[r], trace)]

\* The span of r was sent.
Sends(x, y, r) == \E trace : y.sent = [x.sent EXCEPT ![r] = Append(x.sent[r], trace)]

\* Its context has what it takes.
Ready(x, r) ==
  x.tracer_detected = TRUE /\ \E i \in DOMAIN x.buf.buffer : x.buf.buffer[i].id = r /\ Sendable(x.buf.buffer[i])

\* What comes before is filled in.
LEMMA KeepsThenEnded ==
  ASSUME NEW a, NEW b, NEW c, NEW r, Advances(a, b), Ended(b, c, r)
  PROVE  Ended(a, c, r)
BY DEF Advances, Grows, Ended

\* enrich_ctx_at_platform_done and the sending of the span.
LEMMA ProcessDoneEffect ==
  ASSUME NEW x, Shape(x), OneEach(x.buf), NEW r, NEW status
  PROVE  LET y == process_on_platform_runtime_done(x, r, status)
         IN /\ Shape(y) /\ SameUsage(x, y) /\ Ended(x.buf, y.buf, r) /\ Pays(x, y, r)
            /\ Ready(x, r) => Sends(x, y, r)
<1> DEFINE Enrich(c) ==
             LET timeout == status = "Timeout"
                 trace == IF timeout /\ c.trace = "unset" THEN "generated" ELSE c.trace
             IN [c EXCEPT !.runtime_done_received = TRUE,
                          !.trace = trace,
                          !.span = IF timeout /\ @ = "unset" THEN "generated" ELSE @,
                          !.error = @ \/ timeout,
                          !.cold_start_span =
                             IF @ # "none" /\ trace # "unset" /\ x.tracer_detected THEN "traced" ELSE @]
           g == get(x.buf, r)
           c == Enrich(g)
           k == Position(x.buf, r)
           q == [x.buf.buffer EXCEPT ![k] = c]
           b == IF Has(x.buf, r) THEN write(x.buf, k, c) ELSE x.buf
           e == [x EXCEPT !.buf = b]
           y == process_on_platform_runtime_done(x, r, status)
<1>1. enrich_ctx_at_platform_done(x, r, status) = e
  BY Zenon DEF enrich_ctx_at_platform_done, get_mut
<1>2. Has(x.buf, r) => /\ DOMAIN c = ContextFields /\ c.id = r /\ (Sendable(g) => Sendable(c))
                       /\ k \in DOMAIN x.buf.buffer /\ g = x.buf.buffer[k] /\ g.id = r
  <2> SUFFICES ASSUME Has(x.buf, r)
               PROVE  /\ DOMAIN c = ContextFields /\ c.id = r /\ (Sendable(g) => Sendable(c))
                      /\ k \in DOMAIN x.buf.buffer /\ g = x.buf.buffer[k] /\ g.id = r
    OBVIOUS
  <2>1. k \in DOMAIN x.buf.buffer /\ g = x.buf.buffer[k] /\ g.id = r /\ DOMAIN g = ContextFields
    BY PositionFact DEF Shape, BufferShape
  <2> HIDE DEF g, k
  <2>2. DOMAIN c = ContextFields /\ c.id = g.id
    BY <2>1 DEF ContextFields
  <2>3. c.trace \in {"generated", g.trace} /\ c.span \in {"generated", g.span}
    BY <2>1 DEF ContextFields
  <2> HIDE DEF c
  <2> QED BY <2>1, <2>2, <2>3 DEF Sendable
<1> HIDE DEF c, g, k
<1>3. Ended(x.buf, b, r)
  <2>1. CASE Has(x.buf, r)
    <3>1. /\ IsSequence(q) /\ DOMAIN q = DOMAIN x.buf.buffer
          /\ \A i \in DOMAIN x.buf.buffer : q[i] = IF i = k THEN c ELSE x.buf.buffer[i]
      BY WriteFact DEF Shape, BufferShape
    <3>2. DOMAIN b = BufferFields /\ b.buffer = q /\ b.reparenting = x.buf.reparenting
      BY <2>1 DEF write, Shape, BufferShape, BufferFields
    <3> HIDE DEF b, q
    <3> QED BY <2>1, <1>2, <3>1, <3>2 DEF Ended, Shape, BufferShape
  <2>2. CASE ~Has(x.buf, r)
    BY <2>2 DEF Ended, Shape
  <2> QED BY <2>1, <2>2
<1> HIDE DEF b
<1>4. Shape(e) /\ SameUsage(x, e) /\ e.sent = x.sent /\ e.buf = b /\ e.tracer_detected = x.tracer_detected
  BY <1>3 DEF Shape, ProcessorFields, SameUsage, Calm, Alert, Ended
<1>5. y \in {e, send_cold_start_span(e)} \/ (y = send_ctx_spans(e, get(e.buf, r)) /\ Has(e.buf, r) /\ Sendable(get(e.buf, r)))
  BY <1>1, Zenon DEF process_on_platform_runtime_done
<1> DEFINE Sent == y = send_ctx_spans(e, get(e.buf, r)) /\ Has(e.buf, r) /\ Sendable(get(e.buf, r))
<1>8. e.tracer_detected = TRUE /\ Has(e.buf, r) /\ Sendable(get(e.buf, r)) => Sent
  BY <1>1, Zenon DEF process_on_platform_runtime_done
<1> HIDE DEF e, y
<1>9. Ready(x, r) => Sent
  <2> SUFFICES ASSUME Ready(x, r) PROVE Has(e.buf, r) /\ Sendable(get(e.buf, r)) /\ e.tracer_detected = TRUE
    BY <1>8
  <2>1. PICK i \in DOMAIN x.buf.buffer : x.buf.buffer[i].id = r /\ Sendable(x.buf.buffer[i])
    BY DEF Ready
  <2>2. i \in DOMAIN e.buf.buffer /\ e.buf.buffer[i].id = r /\ Sendable(e.buf.buffer[i])
    BY <1>3, <1>4, <2>1 DEF Ended
  <2>3. OneEach(e.buf)
    BY <1>3, <1>4 DEF Ended, OneEach
  <2>4. Has(e.buf, r) /\ Position(e.buf, r) = i /\ get(e.buf, r) = e.buf.buffer[i]
    BY <1>4, <2>2, <2>3, PositionFact DEF Shape, OneEach
  <2> QED BY <1>4, <2>2, <2>4 DEF Ready
<1>6. CASE y \in {e, send_cold_start_span(e)} /\ ~Sent
  <2>1. y = e \/ (DOMAIN y = ProcessorFields /\ SameUsage(e, y) /\ y.sent = e.sent /\ y.buf = e.buf)
    BY <1>4, <1>6 DEF send_cold_start_span, Shape, ProcessorFields, SameUsage, Calm, Alert
  <2> QED BY <1>3, <1>4, <1>6, <1>9, <2>1 DEF Shape, SameUsage, Calm, Alert, Pays, y
<1>7. CASE Sent
  <2> DEFINE d == get(e.buf, r)
  <2>1. d.id = r /\ \E i \in DOMAIN e.buf.buffer : d = e.buf.buffer[i]
    BY <1>4, <1>7, PositionFact DEF Shape
  <2> HIDE DEF d
  <2>2. /\ DOMAIN y = ProcessorFields /\ SameUsage(e, y) /\ y.buf = e.buf
        /\ y.sent = [e.sent EXCEPT ![d.id] = Append(e.sent[d.id], d.trace)]
    BY <1>4, <1>7 DEF send_ctx_spans, Shape, ProcessorFields, SameUsage, Calm, Alert, d
  <2>3. Shape(y) /\ SameUsage(x, y) /\ Ended(x.buf, y.buf, r)
    BY <1>3, <1>4, <2>2 DEF Shape, SameUsage, Calm, Alert
  <2>4. y.sent = [x.sent EXCEPT ![r] = Append(x.sent[r], d.trace)]
    BY <1>4, <2>1, <2>2
  <2>5. Sendable(d)
    BY <1>7 DEF d
  <2>6. \E i \in DOMAIN y.buf.buffer : y.buf.buffer[i].id = r /\ Sendable(y.buf.buffer[i])
    BY <2>1, <2>2, <2>5
  <2>7. Pays(x, y, r) /\ Sends(x, y, r)
    BY <2>4, <2>6, Zenon DEF Pays, Sends
  <2> QED BY <2>3, <2>7 DEF y
<1> QED BY <1>5, <1>6, <1>7 DEF y

-----------------------------------------------------------------------------
\* What the usage metrics see of the end of an invocation.
Paused(x, y, r) ==
  /\ y.managed = x.managed /\ y.usage = x.usage /\ y.usage_reports = x.usage_reports
  /\ y.active_invocations = x.active_invocations
  /\ x.managed => y.monitoring = x.monitoring /\ y.usage_reads = x.usage_reads
  /\ ~x.managed => y.monitoring = FALSE /\ y.usage_reads = x.usage_reads \cup {r}
  /\ Alert(x, y) /\ y.awaiting_first_invocation = x.awaiting_first_invocation

\* platform.runtimeDone.
LEMMA RuntimeDoneEffect ==
  ASSUME NEW x, Shape(x), OneEach(x.buf), NEW r, NEW status
  PROVE  LET z == on_platform_runtime_done(x, r, status)
         IN Shape(z) /\ Paused(x, z, r) /\ Ended(x.buf, z.buf, r) /\ Pays(x, z, r)
<1> DEFINE x1 == IF status = "OutOfMemory" THEN try_increment_oom_metric(x, r) ELSE x
           x2 == IF x1.managed THEN x1 ELSE set_usage_enhanced_metrics(x1, r)
           d == add_runtime_duration(x2.buf, r)
           y == [x2 EXCEPT !.buf = d]
           f == pair_platform_runtime_done_event(y.buf, r)
           yt == [y EXCEPT !.buf = take_universal_instrumentation_end_for_request_id(y.buf, r)]
           yf == [y EXCEPT !.buf = f.b]
           paired == CASE r \in y.buf.ends_with_id ->
                            process_on_universal_instrumentation_end(yt, r, r)
                       [] r \notin y.buf.ends_with_id /\ ~y.managed ->
                            IF f.end # None THEN process_on_universal_instrumentation_end(yf, r, f.end)
                                            ELSE yf
                       [] OTHER -> y
           z == on_platform_runtime_done(x, r, status)
<1>1. z = process_on_platform_runtime_done(paired, r, status)
  BY Zenon DEF on_platform_runtime_done
<1>2. paired \in {process_on_universal_instrumentation_end(yt, r, r),
                  process_on_universal_instrumentation_end(yf, r, f.end), yf, y}
  <2>1. CASE r \in y.buf.ends_with_id
    BY <2>1, Zenon
  <2>2. CASE r \notin y.buf.ends_with_id /\ ~y.managed
    BY <2>2, Zenon
  <2>3. CASE r \notin y.buf.ends_with_id /\ y.managed
    BY <2>3, Zenon
  <2> QED BY <2>1, <2>2, <2>3
<1> HIDE DEF z, paired
<1>3. Keeps(x, x1)
  BY OomKeeps, KeepsSelf
<1> HIDE DEF x1
<1>4. Shape(x2) /\ x2.sent = x.sent /\ x2.buf = x1.buf /\ Paused(x, x2, r)
  BY <1>3 DEF Keeps, Shape, ProcessorFields, SameUsage, Calm, Alert, Paused, set_usage_enhanced_metrics
<1> HIDE DEF x2
<1>5. Advances(x2.buf, d)
  <2> DEFINE c == [get(x2.buf, r) EXCEPT !.runtime_duration = TRUE]
  <2>1. Has(x2.buf, r) => Grows(get(x2.buf, r), c)
    <3>1. Has(x2.buf, r) => DOMAIN get(x2.buf, r) = ContextFields
      BY <1>4, PositionFact DEF Shape, BufferShape
    <3> QED BY <3>1 DEF Grows, ContextFields, Sendable
  <2>2. d = IF Has(x2.buf, r) THEN write(x2.buf, Position(x2.buf, r), c) ELSE x2.buf
    BY DEF add_runtime_duration, get_mut
  <2> HIDE DEF c, d
  <2> QED BY <1>4, <2>1, <2>2, GetMutAdvances DEF Shape
<1> HIDE DEF d
<1>6. Keeps(x2, y)
  BY <1>4, <1>5, KeepsBuffer
<1> HIDE DEF y
<1>7. Keeps(y, yt) /\ Keeps(y, yf) /\ Shape(y)
  BY <1>6, PairingAdvances, KeepsBuffer DEF Shape, Keeps
<1> HIDE DEF yt, yf, f
<1>8. Keeps(y, paired)
  BY <1>2, <1>7, ProcessEndKeeps, KeepsTwice, KeepsSelf DEF Keeps
<1>9. Keeps(x2, paired) /\ Shape(paired)
  BY <1>6, <1>8, KeepsTwice DEF Keeps
<1>10. Advances(x.buf, paired.buf) /\ paired.sent = x.sent /\ Paused(x, paired, r)
  <2>1. Advances(x.buf, x2.buf)
    BY <1>3, <1>4 DEF Keeps
  <2>2. paired.sent = x.sent /\ Paused(x, paired, r)
    BY <1>4, <1>9 DEF Keeps, SameUsage, Calm, Alert, Paused
  <2> QED BY <1>9, <2>1, <2>2, AdvancesTwice DEF Keeps
<1>11. OneEach(paired.buf)
  BY <1>10 DEF Advances, Grows, OneEach
<1>12. Shape(z) /\ SameUsage(paired, z) /\ Ended(paired.buf, z.buf, r) /\ Pays(paired, z, r)
  BY <1>1, <1>9, <1>11, ProcessDoneEffect
<1>13. Ended(x.buf, z.buf, r)
  BY <1>10, <1>12, KeepsThenEnded
<1>14. Paused(x, z, r) /\ Pays(x, z, r)
  BY <1>10, <1>12 DEF SameUsage, Calm, Alert, Paused, Pays
<1> QED BY <1>12, <1>13, <1>14 DEF z

-----------------------------------------------------------------------------
\* The report: active invocations of a Managed Instance are counted down.
Discounted(x, y) ==
  /\ y.managed = x.managed /\ y.usage = x.usage /\ y.usage_reports = x.usage_reports
  /\ y.usage_reads = x.usage_reads
  /\ ~x.managed => y.monitoring = x.monitoring /\ y.active_invocations = x.active_invocations
  /\ x.managed => /\ y.active_invocations = IF x.active_invocations > 0 THEN x.active_invocations - 1
                                            ELSE x.active_invocations
                  /\ y.monitoring = (y.active_invocations # 0 /\ x.monitoring)
  /\ Alert(x, y) /\ y.awaiting_first_invocation = x.awaiting_first_invocation

\* After it r has no context.
Closed(b, n, r) ==
  /\ BufferShape(n) /\ OneEach(n)
  /\ \A j \in DOMAIN n.buffer :
       /\ n.buffer[j].id # r
       /\ \E i \in DOMAIN b.buffer :
            /\ n.buffer[j].id = b.buffer[i].id /\ DOMAIN n.buffer[j] = ContextFields
            /\ Sendable(b.buffer[i]) => Sendable(n.buffer[j])
            /\ n.buffer[j].runtime_done_received => b.buffer[i].runtime_done_received
  /\ \A i \in DOMAIN b.buffer : b.buffer[i].id # r => \E j \in DOMAIN n.buffer : n.buffer[j].id = b.buffer[i].id

\* A report may send the span of a Managed Instance's invocation.
PaysAtReport(x, y, r) ==
  \/ y.sent = x.sent
  \/ /\ x.managed /\ \E i \in DOMAIN x.buf.buffer : x.buf.buffer[i].id = r
     /\ \E trace : y.sent = [x.sent EXCEPT ![r] = Append(x.sent[r], trace)]

\* release_invocation_context.
LEMMA ReleaseEffect ==
  ASSUME NEW x, Shape(x), OneEach(x.buf), NEW r
  PROVE  LET z == release_invocation_context(x, r)
         IN Shape(z) /\ SameUsage(x, z) /\ z.sent = x.sent /\ Closed(x.buf, z.buf, r)
<1> DEFINE m == remove(x.buf, r)
           q == forget_reparenting(m.reparenting, r)
           n == [m EXCEPT !.reparenting = q]
           z == release_invocation_context(x, r)
<1>1. z = [x EXCEPT !.buf = n, !.dsm_processed = x.dsm_processed \ {r}]
  BY Zenon DEF release_invocation_context
<1>2. /\ BufferShape(m) /\ OneEach(m) /\ m.reparenting = x.buf.reparenting
      /\ \A j \in DOMAIN m.buffer :
           /\ m.buffer[j].id # r
           /\ \E i \in DOMAIN x.buf.buffer : m.buffer[j] = x.buf.buffer[i]
      /\ \A i \in DOMAIN x.buf.buffer :
           x.buf.buffer[i].id # r => \E j \in DOMAIN m.buffer : m.buffer[j] = x.buf.buffer[i]
  BY RemoveFact DEF Shape
<1> HIDE DEF m
<1>3. IsSequence(q)
  <2> DEFINE s == m.reparenting
             I == {i \in 1 .. Len(s) : s[i].id = r}
  <2>1. IsSequence(s) /\ Len(s) \in Nat /\ DOMAIN s = 1 .. Len(s)
    BY <1>2, SequenceFact DEF BufferShape, IsSequence
  <2>2. q = IF \E i \in 1 .. Len(s) : s[i].id = r THEN RemoveAt(s, IF I # {} THEN Min(I) ELSE 0) ELSE s
    BY Zenon DEF forget_reparenting, RemoveFirstMatch, SelectInSeq
  <2> HIDE DEF q, s
  <2>3. CASE I = {}
    BY <2>1, <2>2, <2>3
  <2>4. CASE I # {}
    <3>1. \E k \in I : \A y \in I : k <= y
      <4>1. I \in SUBSET Nat
        BY <2>1
      <4> HIDE DEF I
      <4> QED BY <2>4, <4>1, LeastNumber
    <3>2. Min(I) \in I
      <4> HIDE DEF I
      <4> QED BY <3>1 DEF Min
    <3>3. q = RemoveAt(s, Min(I))
      BY <2>2, <2>4
    <3>4. Min(I) \in DOMAIN s
      BY <2>1, <3>2
    <3> HIDE DEF I
    <3> QED BY <2>1, <3>3, <3>4, RemoveAtFact
  <2> QED BY <2>3, <2>4
<1> HIDE DEF q
<1>4. DOMAIN n = BufferFields /\ n.buffer = m.buffer /\ n.reparenting = q
  BY <1>2 DEF BufferShape, BufferFields
<1> HIDE DEF n, z
<1>5. Shape(z) /\ SameUsage(x, z) /\ z.sent = x.sent /\ z.buf = n
  BY <1>1, <1>2, <1>3, <1>4 DEF Shape, BufferShape, ProcessorFields, SameUsage, Calm, Alert
<1>6. Closed(x.buf, n, r)
  BY <1>2, <1>3, <1>4 DEF Closed, BufferShape, OneEach, Shape
<1> QED BY <1>5, <1>6 DEF z

\* Contexts that were filled in before r was released.
LEMMA ClosedAfter ==
  ASSUME NEW a, NEW b, NEW c, NEW r, Ended(a, b, r), Closed(b, c, r)
  PROVE  Closed(a, c, r)
BY DEF Ended, Closed

\* platform.report.
LEMMA ReportEffect ==
  ASSUME NEW x, Shape(x), OneEach(x.buf), NEW r, NEW status, NEW at_limit, NEW with_init,
         x.monitoring \in BOOLEAN, x.active_invocations \in Nat
  PROVE  LET z == on_platform_report(x, r, status, at_limit, with_init)
         IN Shape(z) /\ Discounted(x, z) /\ Closed(x.buf, z.buf, r) /\ PaysAtReport(x, z, r)
<1> DEFINE h == IF x.managed THEN handle_managed_instance_report(x, r, status)
                ELSE handle_ondemand_report(x, r, at_limit, with_init)
           z == on_platform_report(x, r, status, at_limit, with_init)
<1>1. z = release_invocation_context(h, r)
  BY DEF on_platform_report
<1>2. Shape(h) /\ Discounted(x, h) /\ Ended(x.buf, h.buf, r) /\ PaysAtReport(x, h, r)
  <2>1. CASE x.managed
    <3> DEFINE x1 == [x EXCEPT !.active_invocations = IF @ > 0 THEN @ - 1 ELSE @]
               x2 == IF x1.active_invocations = 0 THEN pause_usage_metrics_monitoring(x1) ELSE x1
    <3>1. h = IF Has(x2.buf, r) THEN on_platform_runtime_done(x2, r, status) ELSE x2
      BY <2>1, Zenon DEF handle_managed_instance_report
    <3> HIDE DEF h
    <3>2. Shape(x1) /\ x1.sent = x.sent /\ x1.buf = x.buf /\ x1.managed = x.managed
          /\ x1.usage = x.usage /\ x1.usage_reports = x.usage_reports /\ x1.usage_reads = x.usage_reads
          /\ x1.monitoring = x.monitoring /\ x1.tracer_detected = x.tracer_detected
          /\ x1.awaiting_first_invocation = x.awaiting_first_invocation
          /\ x1.active_invocations = IF x.active_invocations > 0 THEN x.active_invocations - 1
                                     ELSE x.active_invocations
      BY DEF Shape, ProcessorFields
    <3> HIDE DEF x1
    <3>3. Shape(x2) /\ x2.sent = x.sent /\ x2.buf = x.buf /\ Discounted(x, x2)
      BY <2>1, <3>2 DEF Shape, ProcessorFields, Discounted, Alert, pause_usage_metrics_monitoring
    <3> HIDE DEF x2
    <3>4. CASE Has(x2.buf, r)
      <4>1. Shape(h) /\ Paused(x2, h, r) /\ Ended(x2.buf, h.buf, r) /\ Pays(x2, h, r)
        BY <3>1, <3>3, <3>4, RuntimeDoneEffect
      <4>2. Discounted(x, h)
        BY <2>1, <3>3, <4>1 DEF Discounted, Paused, Alert
      <4>3. \E i \in DOMAIN x.buf.buffer : x.buf.buffer[i].id = r
        BY <3>3, <3>4, PositionFact DEF Shape
      <4>4. PaysAtReport(x, h, r)
        BY <2>1, <3>3, <4>1, <4>3 DEF Pays, PaysAtReport
      <4> QED BY <3>3, <4>1, <4>2, <4>4
    <3>5. CASE ~Has(x2.buf, r)
      BY <3>1, <3>3, <3>5 DEF Ended, PaysAtReport, Shape
    <3> QED BY <3>4, <3>5
  <2>2. CASE ~x.managed
    <3> DEFINE x1 == IF at_limit THEN try_increment_oom_metric(x, r) ELSE x
    <3>1. h = IF with_init THEN EmitInitDuration(x1) ELSE x1
      BY <2>2, Zenon DEF handle_ondemand_report
    <3>2. Keeps(x, x1)
      BY OomKeeps, KeepsSelf
    <3> HIDE DEF h, x1
    <3>3. Keeps(x1, h)
      BY <3>1, <3>2, CountersKeep, KeepsSelf DEF Keeps
    <3>4. Keeps(x, h)
      BY <3>2, <3>3, KeepsTwice
    <3> QED BY <2>2, <3>4 DEF Keeps, SameUsage, Calm, Alert, Discounted, PaysAtReport, Ended, Advances, Grows
  <2> QED BY <2>1, <2>2
<1> HIDE DEF h, z
<1>3. OneEach(h.buf)
  BY <1>2 DEF Ended, OneEach
<1>4. Shape(z) /\ SameUsage(h, z) /\ z.sent = h.sent /\ Closed(h.buf, z.buf, r)
  BY <1>1, <1>2, <1>3, ReleaseEffect
<1>5. Closed(x.buf, z.buf, r)
  BY <1>2, <1>4, ClosedAfter
<1>6. Discounted(x, z) /\ PaysAtReport(x, z, r)
  BY <1>2, <1>4 DEF Discounted, SameUsage, Calm, Alert, PaysAtReport
<1> QED BY <1>4, <1>5, <1>6 DEF z

-----------------------------------------------------------------------------
(* Init, restore and spans of the tracer *)

\* A reference by position, filled in.
LEMMA WriteKeeps ==
  ASSUME NEW x, Shape(x), NEW i \in DOMAIN x.buf.buffer, NEW c, Grows(x.buf.buffer[i], c)
  PROVE  Keeps(x, [x EXCEPT !.buf = write(x.buf, i, c)])
BY WriteAdvances, KeepsBuffer DEF Shape

\* The two searches by position.
LEMMA SearchFact ==
  ASSUME NEW b, BufferShape(b)
  PROVE  /\ \A time \in Int : get_closest(b, time) # 0 => get_closest(b, time) \in DOMAIN b.buffer
         /\ get_context_with_cold_start(b) # 0 => get_context_with_cold_start(b) \in DOMAIN b.buffer
<1>0. Len(b.buffer) \in Nat /\ DOMAIN b.buffer = 1 .. Len(b.buffer)
  BY SequenceFact DEF BufferShape, IsSequence
<1>1. ASSUME NEW time \in Int, get_closest(b, time) # 0
      PROVE  get_closest(b, time) \in DOMAIN b.buffer
  <2> DEFINE Gap(i) == LET d == b.buffer[i].created_at - time IN IF d < 0 THEN -d ELSE d
             C == {i \in DOMAIN b.buffer : \A j \in DOMAIN b.buffer : Gap(i) <= Gap(j)}
  <2>1. get_closest(b, time) = IF C = {} THEN 0 ELSE CHOOSE i \in C : \A j \in C : i <= j
    BY DEF get_closest
  <2>2. C \subseteq DOMAIN b.buffer /\ C \in SUBSET Nat
    BY <1>0
  <2> HIDE DEF C
  <2>3. C # {}
    BY <1>1, <2>1
  <2>4. \E i \in C : \A j \in C : i <= j
    BY <2>2, <2>3, LeastNumber
  <2>5. get_closest(b, time) \in C
    BY <2>1, <2>3, <2>4
  <2> QED BY <2>2, <2>5
<1>2. ASSUME get_context_with_cold_start(b) # 0
      PROVE  get_context_with_cold_start(b) \in DOMAIN b.buffer
  <2> DEFINE I == {i \in 1 .. Len(b.buffer) : b.buffer[i].cold_start_span # "none"}
  <2>1. get_context_with_cold_start(b) = IF I # {} THEN Min(I) ELSE 0
    BY Zenon DEF get_context_with_cold_start, SelectInSeq
  <2>2. I \subseteq DOMAIN b.buffer /\ I \in SUBSET Nat
    BY <1>0
  <2> HIDE DEF I
  <2>3. I # {}
    BY <1>2, <2>1
  <2>4. \E i \in I : \A j \in I : i <= j
    BY <2>2, <2>3, LeastNumber
  <2>5. Min(I) \in I
    BY <2>4 DEF Min
  <2> QED BY <2>1, <2>2, <2>3, <2>5
<1> QED BY <1>1, <1>2

\* platform.initStart: on demand a context is marked, else one is opened.
LEMMA InitStartEffect ==
  ASSUME NEW x, Shape(x), OneEach(x.buf), x.managed \in BOOLEAN, NEW time \in Int, NEW late,
         x.managed => \A i \in DOMAIN x.buf.buffer : x.buf.buffer[i].id # EmptyId
  PROVE  LET z == on_platform_init_start(x, time, late)
         IN \/ Keeps(x, z)
            \/ /\ x.managed /\ Shape(z) /\ Calm(x, z) /\ z.sent = x.sent /\ Opened(x.buf, z.buf, EmptyId)
               /\ z.awaiting_first_invocation = TRUE
<1> DEFINE a == [x EXCEPT !.first_invocation = IF @ = "Pending" THEN "InitStartSeen" ELSE @]
           y == flush_pending_first_invocation_metric(a)
           i == get_closest(y.buf, time)
           t == set_init_tags(y, late)
           c == [y.buf.buffer[i] EXCEPT !.cold_start_span = "idle"]
           n == start_context(t.buf, EmptyId, y.clock)
           z == on_platform_init_start(x, time, late)
<1>1. /\ y.managed => z = [t EXCEPT !.buf = n, !.clock = t.clock + 1, !.awaiting_first_invocation = TRUE]
      /\ ~y.managed /\ i # 0 => z = [y EXCEPT !.buf = write(y.buf, i, c)]
      /\ ~y.managed /\ i = 0 => z = y
  <2>1. y.managed => z = [t EXCEPT !.buf = n, !.clock = t.clock + 1, !.awaiting_first_invocation = TRUE]
    BY Zenon DEF on_platform_init_start
  <2>2. ~y.managed /\ i # 0 => z = [y EXCEPT !.buf = write(y.buf, i, c)]
    BY Zenon DEF on_platform_init_start
  <2>3. ~y.managed /\ i = 0 => z = y
    BY Zenon DEF on_platform_init_start
  <2> QED BY <2>1, <2>2, <2>3
<1> HIDE DEF z
<1>2. Shape(a) /\ SameUsage(x, a) /\ a.sent = x.sent /\ a.buf = x.buf
  BY DEF Shape, ProcessorFields, SameUsage, Calm, Alert
<1> HIDE DEF a
<1>3. Keeps(a, y) /\ y.buf = a.buf
  <2>1. y.buf = a.buf
    BY <1>2 DEF flush_pending_first_invocation_metric, Shape, ProcessorFields
  <2> QED BY <1>2, <2>1, CountersKeep
<1> HIDE DEF y
<1>4. Shape(y) /\ SameUsage(x, y) /\ y.sent = x.sent /\ y.buf = x.buf
  BY <1>2, <1>3 DEF Keeps, SameUsage, Calm, Alert
<1>5. Keeps(x, y)
  BY <1>4, KeepsAside DEF Shape
<1>6. CASE ~x.managed
  <2>1. ~y.managed
    BY <1>4, <1>6 DEF SameUsage, Calm, Alert
  <2>2. CASE i = 0
    BY <1>1, <1>5, <2>1, <2>2 DEF z
  <2>3. CASE i # 0
    <3>1. i \in DOMAIN y.buf.buffer
      BY <1>4, <2>3, SearchFact DEF Shape
    <3> HIDE DEF i
    <3>2. DOMAIN y.buf.buffer[i] = ContextFields
      BY <1>4, <3>1 DEF Shape, BufferShape
    <3>3. Grows(y.buf.buffer[i], c)
      BY <3>2 DEF Grows, ContextFields, Sendable
    <3> HIDE DEF c
    <3>4. Keeps(y, [y EXCEPT !.buf = write(y.buf, i, c)])
      BY <1>4, <3>1, <3>3, WriteKeeps
    <3> QED BY <1>1, <1>5, <2>1, <2>3, <3>4, KeepsTwice DEF z
  <2> QED BY <2>2, <2>3
<1>7. CASE x.managed
  <2>1. y.managed
    BY <1>4, <1>7 DEF SameUsage, Calm, Alert
  <2>2. DOMAIN t = ProcessorFields /\ SameUsage(x, t) /\ t.sent = x.sent /\ t.buf = x.buf
    BY <1>4 DEF set_init_tags, Shape, ProcessorFields, SameUsage, Calm, Alert
  <2> HIDE DEF t
  <2>3. Opened(x.buf, n, EmptyId)
    BY <1>7, <2>2, StartContextOpens DEF Shape
  <2> HIDE DEF n
  <2>4. z = [t EXCEPT !.buf = n, !.clock = t.clock + 1, !.awaiting_first_invocation = TRUE]
    BY <1>1, <2>1
  <2>5. Shape(z) /\ Calm(x, z) /\ z.sent = x.sent /\ z.buf = n /\ z.awaiting_first_invocation = TRUE
    BY <2>2, <2>3, <2>4 DEF Shape, ProcessorFields, SameUsage, Calm, Alert, Opened
  <2> QED BY <1>7, <2>3, <2>5 DEF z
<1> QED BY <1>6, <1>7

\* platform.restoreStart.
LEMMA RestoreKeeps ==
  ASSUME NEW x, Shape(x), NEW time \in Int
  PROVE  Keeps(x, on_platform_restore_start(x, time))
<1> DEFINE y == [x EXCEPT !.restored = TRUE]
           i == get_closest(x.buf, time)
           c == [y.buf.buffer[i] EXCEPT !.restore_span = TRUE]
<1>1. on_platform_restore_start(x, time) = IF i = 0 THEN y ELSE [y EXCEPT !.buf = write(y.buf, i, c)]
  BY Zenon DEF on_platform_restore_start
<1>2. DOMAIN y = ProcessorFields /\ SameUsage(x, y) /\ y.sent = x.sent /\ y.buf = x.buf
  BY DEF Shape, ProcessorFields, SameUsage, Calm, Alert
<1> HIDE DEF y
<1>3. Keeps(x, y) /\ Shape(y)
  BY <1>2, KeepsAside DEF Shape
<1>4. CASE i # 0
  <2>1. i \in DOMAIN y.buf.buffer
    BY <1>2, <1>4, SearchFact DEF Shape
  <2> HIDE DEF i
  <2>2. DOMAIN y.buf.buffer[i] = ContextFields
    BY <1>3, <2>1 DEF Shape, BufferShape
  <2>3. Grows(y.buf.buffer[i], c)
    BY <2>2 DEF Grows, ContextFields, Sendable
  <2> HIDE DEF c
  <2> QED BY <1>1, <1>3, <1>4, <2>1, <2>3, WriteKeeps, KeepsTwice
<1> QED BY <1>1, <1>3, <1>4

\* The trace id of the cold start span.
LEMMA ColdStartTraceKeeps ==
  ASSUME NEW x, Shape(x)
  PROVE  Keeps(x, set_cold_start_span_trace_id(x))
<1> DEFINE i == get_context_with_cold_start(x.buf)
           c == [x.buf.buffer[i] EXCEPT !.cold_start_span = "traced"]
<1>1. set_cold_start_span_trace_id(x) = IF i = 0 THEN x ELSE [x EXCEPT !.buf = write(x.buf, i, c)]
  BY Zenon DEF set_cold_start_span_trace_id
<1>2. CASE i # 0
  <2>1. i \in DOMAIN x.buf.buffer
    BY <1>2, SearchFact DEF Shape
  <2> HIDE DEF i
  <2>2. DOMAIN x.buf.buffer[i] = ContextFields
    BY <2>1 DEF Shape, BufferShape
  <2>3. Grows(x.buf.buffer[i], c)
    BY <2>2 DEF Grows, ContextFields, Sendable
  <2> HIDE DEF c
  <2> QED BY <1>1, <1>2, <2>1, <2>3, WriteKeeps
<1> QED BY <1>1, <1>2, KeepsSelf

\* A tracer span.
LEMMA TracerSpanKeeps ==
  ASSUME NEW x, Shape(x), NEW r
  PROVE  Keeps(x, [x EXCEPT !.buf = add_tracer_span(x.buf, r)])
<1> DEFINE c == [get(x.buf, r) EXCEPT !.tracer_span = TRUE]
<1>1. Has(x.buf, r) => Grows(get(x.buf, r), c)
  <2>1. Has(x.buf, r) => DOMAIN get(x.buf, r) = ContextFields
    BY PositionFact DEF Shape, BufferShape
  <2> QED BY <2>1 DEF Grows, ContextFields, Sendable
<1>2. add_tracer_span(x.buf, r) = IF Has(x.buf, r) THEN write(x.buf, Position(x.buf, r), c) ELSE x.buf
  BY DEF add_tracer_span, get_mut
<1> HIDE DEF c
<1> QED BY <1>1, <1>2, GetMutAdvances, KeepsBuffer DEF Shape

\* The proxy announces a request to reparent.
LEMMA AddReparentingKeeps ==
  ASSUME NEW x, Shape(x), NEW r
  PROVE  Keeps(x, add_reparenting(x, r))
<1> DEFINE s == x.buf.reparenting
           q == IF Len(s) = Capacity THEN Tail(s) ELSE s
           n == Append(q, [id |-> r, needs_trace_id |-> TRUE])
           b == [x.buf EXCEPT !.reparenting = n]
<1>1. add_reparenting(x, r) \in {x, [x EXCEPT !.buf.reparenting = n]}
  BY Zenon DEF add_reparenting
<1>2. IsSequence(s)
  BY DEF Shape, BufferShape
<1> HIDE DEF s
<1>3. IsSequence(q)
  <2>1. CASE Len(s) = Capacity
    <3>1. s # <<>>
      BY <2>1, BufferAssumption
    <3> QED BY <2>1, <1>2, <3>1, TailFact
  <2> QED BY <1>2, <2>1
<1> HIDE DEF q
<1>4. IsSequence(n)
  BY <1>3, AppendFact
<1> HIDE DEF n
<1>5. Advances(x.buf, b)
  <2>1. DOMAIN b = BufferFields /\ b.buffer = x.buf.buffer /\ b.reparenting = n
    BY DEF Shape, BufferShape, BufferFields
  <2> HIDE DEF b
  <2> QED BY <1>4, <2>1, SameContexts DEF Shape
<1>6. [x EXCEPT !.buf.reparenting = n] = [x EXCEPT !.buf = b]
  BY DEF Shape, ProcessorFields
<1> HIDE DEF b
<1> QED BY <1>1, <1>5, <1>6, KeepsBuffer, KeepsSelf

-----------------------------------------------------------------------------
(* Reparenting: the loop of update_reparenting *)

\* g is what the loop computes, entry by entry.
IsLoop(g, buf, infos) ==
  g = [n \in 0 .. Len(infos) |->
         IF n = 0 THEN [b |-> buf, due |-> <<>>] ELSE UpdateOne(g[n - 1], infos[n])]

\* The loop has a value at every entry.
LEMMA LoopExists ==
  ASSUME NEW buf, NEW infos, IsSequence(infos)
  PROVE  \E g : IsLoop(g, buf, infos)
<1> DEFINE base == [b |-> buf, due |-> <<>>]
           Good(n) == \E g : g = [i \in 0 .. n |-> IF i = 0 THEN base ELSE UpdateOne(g[i - 1], infos[i])]
           T == {n \in 0 .. Len(infos) : ~Good(n)}
<1> HIDE DEF base
<1>0. Len(infos) \in Nat
  BY SequenceFact DEF IsSequence
<1>1. Good(0)
  <2> DEFINE g == [i \in 0 .. 0 |-> base]
  <2>1. g = [i \in 0 .. 0 |-> IF i = 0 THEN base ELSE UpdateOne(g[i - 1], infos[i])]
    OBVIOUS
  <2> QED BY <2>1
<1>2. ASSUME NEW m \in Nat, m # 0, Good(m - 1) PROVE Good(m)
  <2> PICK g : g = [i \in 0 .. m - 1 |-> IF i = 0 THEN base ELSE UpdateOne(g[i - 1], infos[i])]
    BY <1>2
  <2> DEFINE h == [i \in 0 .. m |-> IF i = m THEN UpdateOne(g[m - 1], infos[m]) ELSE g[i]]
  <2>1. \A i \in 0 .. m : h[i] = IF i = 0 THEN base ELSE UpdateOne(h[i - 1], infos[i])
    <3> SUFFICES ASSUME NEW i \in 0 .. m PROVE h[i] = IF i = 0 THEN base ELSE UpdateOne(h[i - 1], infos[i])
      OBVIOUS
    <3>1. CASE i = m
      <4>1. h[i - 1] = g[m - 1] /\ h[i] = UpdateOne(g[m - 1], infos[m])
        BY <3>1, <1>2
      <4> QED BY <3>1, <4>1, <1>2
    <3>2. CASE i # m
      <4>1. i \in 0 .. m - 1 /\ h[i] = g[i] /\ (i # 0 => h[i - 1] = g[i - 1])
        BY <3>2, <1>2
      <4>2. g[i] = IF i = 0 THEN base ELSE UpdateOne(g[i - 1], infos[i])
        BY <4>1
      <4> HIDE DEF h
      <4> QED BY <4>1, <4>2
    <3> QED BY <3>1, <3>2
  <2>2. h = [i \in 0 .. m |-> h[i]]
    OBVIOUS
  <2> HIDE DEF h
  <2>3. h = [i \in 0 .. m |-> IF i = 0 THEN base ELSE UpdateOne(h[i - 1], infos[i])]
    BY <2>1, <2>2
  <2> QED BY <2>3
<1> HIDE DEF Good
<1>3. T = {}
  <2> SUFFICES ASSUME T # {} PROVE FALSE
    OBVIOUS
  <2>1. T \in SUBSET Nat
    BY <1>0
  <2>2. PICK m \in T : \A y \in T : m <= y
    BY <2>1, LeastNumber
  <2>3. m \in 0 .. Len(infos) /\ ~Good(m) /\ m # 0
    BY <1>1, <2>2
  <2>4. m - 1 \in 0 .. Len(infos) /\ ~(m <= m - 1)
    BY <1>0, <2>3
  <2>5. Good(m - 1)
    BY <2>2, <2>4
  <2> QED BY <1>0, <1>2, <2>3, <2>5
<1>4. Good(Len(infos))
  BY <1>0, <1>3
<1> QED BY <1>4, Zenon DEF Good, base, IsLoop

\* One entry of the list: it may make one context due, which lacked an id.
NewlyDue(b, n, c) ==
  \E k \in DOMAIN b.buffer :
    /\ c = n.buffer[k] /\ ~Sendable(b.buffer[k]) /\ Sendable(c) /\ c.runtime_done_received

\* UpdateOne advances the buffer and appends at most one context.
LEMMA UpdateOneEffect ==
  ASSUME NEW acc, BufferShape(acc.b), NEW info
  PROVE  LET o == UpdateOne(acc, info)
         IN /\ Advances(acc.b, o.b)
            /\ \/ o.due = acc.due
               \/ \E c : o.due = Append(acc.due, c) /\ NewlyDue(acc.b, o.b, c)
<1> DEFINE id == info.id
           g == get(acc.b, id)
           Give(c) == [c EXCEPT !.span = IF @ = "unset" THEN "reparented" ELSE @,
                                !.trace = IF @ = "unset" /\ ~info.needs_trace_id THEN "guessed" ELSE @]
           c == Give(g)
           b == IF Has(acc.b, id) THEN write(acc.b, Position(acc.b, id), c) ELSE acc.b
           Keep(i) == IF i.id = info.id THEN info ELSE i
           q == [i \in DOMAIN b.reparenting |-> Keep(b.reparenting[i])]
           n == [b EXCEPT !.reparenting = q]
           falls_due == Has(acc.b, id) /\ ~Sendable(g) /\ Sendable(get(b, id)) /\ get(b, id).runtime_done_received
           o == UpdateOne(acc, info)
<1>1. o = [b |-> n, due |-> IF falls_due THEN Append(acc.due, get(b, id)) ELSE acc.due]
  BY Zenon DEF UpdateOne, get_mut
<1> HIDE DEF o
<1>2. Has(acc.b, id) => Grows(g, c)
  <2> SUFFICES ASSUME Has(acc.b, id) PROVE Grows(g, c)
    OBVIOUS
  <2>1. DOMAIN g = ContextFields
    BY PositionFact DEF BufferShape
  <2> HIDE DEF g
  <2>2. /\ DOMAIN c = ContextFields /\ c.id = g.id /\ c.runtime_done_received = g.runtime_done_received
        /\ c.span \in {"reparented", g.span} /\ c.trace \in {"guessed", g.trace}
    BY <2>1 DEF ContextFields
  <2> HIDE DEF c
  <2> QED BY <2>2 DEF Grows, Sendable
<1> HIDE DEF c
<1>3. Advances(acc.b, b)
  BY <1>2, GetMutAdvances
<1>4. falls_due => \E k \in DOMAIN acc.b.buffer : get(b, id) = b.buffer[k] /\ g = acc.b.buffer[k]
  <2> SUFFICES ASSUME falls_due PROVE \E k \in DOMAIN acc.b.buffer : get(b, id) = b.buffer[k] /\ g = acc.b.buffer[k]
    OBVIOUS
  <2>1. Has(acc.b, id)
    OBVIOUS
  <2> HIDE DEF b, g
  <2>2. Position(acc.b, id) \in DOMAIN acc.b.buffer /\ g = acc.b.buffer[Position(acc.b, id)]
    BY <2>1, PositionFact DEF g
  <2>3. Position(b, id) = Position(acc.b, id)
    <3>1. DOMAIN b.buffer = DOMAIN acc.b.buffer /\ \A i \in DOMAIN acc.b.buffer : b.buffer[i].id = acc.b.buffer[i].id
      BY <1>3 DEF Advances, Grows
    <3>2. /\ Len(b.buffer) \in Nat /\ DOMAIN b.buffer = 1 .. Len(b.buffer)
          /\ Len(acc.b.buffer) \in Nat /\ DOMAIN acc.b.buffer = 1 .. Len(acc.b.buffer)
      BY <1>3, SequenceFact DEF BufferShape, IsSequence, Advances
    <3>3. {i \in 1 .. Len(b.buffer) : b.buffer[i].id = id} = {i \in 1 .. Len(acc.b.buffer) : acc.b.buffer[i].id = id}
      BY <3>1, <3>2
    <3> QED BY <3>3, Zenon DEF Position, SelectInSeq
  <2> QED BY <2>2, <2>3 DEF get
<1> HIDE DEF b
<1>5. IsSequence(q)
  <2>1. Len(b.reparenting) \in Nat /\ DOMAIN b.reparenting = 1 .. Len(b.reparenting)
    BY <1>3, SequenceFact DEF Advances, BufferShape, IsSequence
  <2> DEFINE S == {Keep(b.reparenting[i]) : i \in 1 .. Len(b.reparenting)}
  <2>2. \A i \in 1 .. Len(b.reparenting) : Keep(b.reparenting[i]) \in S
    OBVIOUS
  <2>3. q = [i \in 1 .. Len(b.reparenting) |-> Keep(b.reparenting[i])]
    BY <2>1
  <2> HIDE DEF S, Keep, q
  <2>4. q \in Seq(S)
    BY <2>1, <2>2, <2>3
  <2> QED BY <2>4, SequenceFact
<1> HIDE DEF q
<1>6. DOMAIN n = BufferFields /\ n.buffer = b.buffer /\ n.reparenting = q
  BY <1>3 DEF Advances, BufferShape, BufferFields
<1> HIDE DEF n
<1>7. Advances(acc.b, n)
  BY <1>3, <1>5, <1>6, SameContexts, AdvancesTwice DEF Advances
<1>8. o.b = n /\ o.due = IF falls_due THEN Append(acc.due, get(b, id)) ELSE acc.due
  BY <1>1
<1>9. falls_due => NewlyDue(acc.b, n, get(b, id))
  BY <1>4, <1>6 DEF NewlyDue
<1> HIDE DEF falls_due
<1> QED BY <1>7, <1>8, <1>9 DEF o

\* What the whole loop makes due: contexts of different requests whose runtime
\* was done and that lacked an id before.
MakesDue(buf, n, q) ==
  /\ Advances(buf, n) /\ IsSequence(q)
  /\ \A i \in DOMAIN q :
       \E k \in DOMAIN buf.buffer :
         /\ q[i].id = buf.buffer[k].id /\ buf.buffer[k].runtime_done_received
         /\ ~Sendable(buf.buffer[k]) /\ Sendable(n.buffer[k])
  /\ \A i, j \in DOMAIN q : q[i].id = q[j].id => i = j

\* One more entry keeps what the loop promises.
LEMMA MakesDueOnce ==
  ASSUME NEW buf, BufferShape(buf), OneEach(buf), NEW acc, MakesDue(buf, acc.b, acc.due), NEW info
  PROVE  MakesDue(buf, UpdateOne(acc, info).b, UpdateOne(acc, info).due)
<1> DEFINE o == UpdateOne(acc, info)
<1>1. /\ Advances(acc.b, o.b)
      /\ o.due = acc.due \/ \E c : o.due = Append(acc.due, c) /\ NewlyDue(acc.b, o.b, c)
  BY UpdateOneEffect DEF MakesDue, Advances
<1> HIDE DEF o
<1>2. Advances(buf, o.b)
  BY <1>1, AdvancesTwice DEF MakesDue
<1>3. \A k \in DOMAIN buf.buffer : Sendable(acc.b.buffer[k]) => Sendable(o.b.buffer[k])
  BY <1>1 DEF MakesDue, Advances, Grows
<1>4. CASE o.due = acc.due
  BY <1>2, <1>3, <1>4 DEF MakesDue, o
<1>5. CASE o.due # acc.due
  <2>1. PICK c : o.due = Append(acc.due, c) /\ NewlyDue(acc.b, o.b, c)
    BY <1>1, <1>5
  <2>2. PICK k \in DOMAIN acc.b.buffer :
          c = o.b.buffer[k] /\ ~Sendable(acc.b.buffer[k]) /\ Sendable(c) /\ c.runtime_done_received
    BY <2>1 DEF NewlyDue
  <2>3. /\ k \in DOMAIN buf.buffer /\ c.id = buf.buffer[k].id /\ buf.buffer[k].runtime_done_received
        /\ ~Sendable(buf.buffer[k]) /\ Sendable(o.b.buffer[k])
    BY <1>1, <1>2, <2>2 DEF MakesDue, Advances, Grows
  <2>4. \A i \in DOMAIN acc.due : acc.due[i].id # c.id
    <3> SUFFICES ASSUME NEW i \in DOMAIN acc.due, acc.due[i].id = c.id PROVE FALSE
      OBVIOUS
    <3>1. PICK h \in DOMAIN buf.buffer : acc.due[i].id = buf.buffer[h].id /\ Sendable(acc.b.buffer[h])
      BY DEF MakesDue
    <3>2. h = k
      BY <2>3, <3>1 DEF OneEach
    <3> QED BY <2>2, <3>1, <3>2
  <2>5. /\ IsSequence(o.due) /\ DOMAIN o.due = 1 .. Len(acc.due) + 1
        /\ \A i \in DOMAIN acc.due : o.due[i] = acc.due[i]
        /\ o.due[Len(acc.due) + 1] = c
        /\ Len(acc.due) \in Nat /\ DOMAIN acc.due = 1 .. Len(acc.due)
    BY <2>1, AppendFact DEF MakesDue
  <2>6. \A i \in DOMAIN o.due : (i \in DOMAIN acc.due /\ o.due[i] = acc.due[i]) \/ (i = Len(acc.due) + 1 /\ o.due[i] = c)
    BY <2>5
  <2>7. \A i, j \in DOMAIN o.due : o.due[i].id = o.due[j].id => i = j
    BY <2>4, <2>6 DEF MakesDue
  <2>8. \A i \in DOMAIN o.due :
          \E h \in DOMAIN buf.buffer :
            /\ o.due[i].id = buf.buffer[h].id /\ buf.buffer[h].runtime_done_received
            /\ ~Sendable(buf.buffer[h]) /\ Sendable(o.b.buffer[h])
    BY <1>3, <2>3, <2>6 DEF MakesDue
  <2> QED BY <1>2, <2>5, <2>7, <2>8 DEF MakesDue, o
<1> QED BY <1>4, <1>5

\* The loop, by induction on the entries.
LEMMA UpdateReparentingEffect ==
  ASSUME NEW buf, BufferShape(buf), OneEach(buf), NEW infos, IsSequence(infos)
  PROVE  LET o == update_reparenting(buf, infos) IN MakesDue(buf, o.b, o.due)
<1> DEFINE base == [b |-> buf, due |-> <<>>]
           loop == CHOOSE g : IsLoop(g, buf, infos)
           Made(n) == MakesDue(buf, loop[n].b, loop[n].due)
           T == {n \in 0 .. Len(infos) : ~Made(n)}
<1>0. Len(infos) \in Nat
  BY SequenceFact DEF IsSequence
<1>1. update_reparenting(buf, infos) = loop[Len(infos)]
  BY Zenon DEF update_reparenting, IsLoop
<1>2. IsLoop(loop, buf, infos)
  BY LoopExists, Zenon
<1>3. loop[0] = base /\ \A n \in 1 .. Len(infos) : loop[n] = UpdateOne(loop[n - 1], infos[n])
  <2> HIDE DEF loop
  <2> QED BY <1>0, <1>2 DEF IsLoop
<1> HIDE DEF loop
<1>4. Made(0)
  <2>1. Advances(buf, buf)
    BY SameContexts DEF BufferShape
  <2>2. IsSequence(<<>>) /\ DOMAIN <<>> = {}
    BY DEF IsSequence
  <2> QED BY <1>3, <2>1, <2>2 DEF MakesDue
<1>5. ASSUME NEW n \in 1 .. Len(infos), Made(n - 1) PROVE Made(n)
  BY <1>3, <1>5, MakesDueOnce
<1> HIDE DEF Made
<1>6. T = {}
  <2> SUFFICES ASSUME T # {} PROVE FALSE
    OBVIOUS
  <2>1. T \in SUBSET Nat
    BY <1>0
  <2>2. PICK m \in T : \A y \in T : m <= y
    BY <2>1, LeastNumber
  <2>3. m \in 0 .. Len(infos) /\ ~Made(m) /\ m # 0
    BY <1>4, <2>2
  <2>4. m - 1 \in 0 .. Len(infos) /\ ~(m <= m - 1) /\ m \in 1 .. Len(infos)
    BY <1>0, <2>3
  <2>5. Made(m - 1)
    BY <2>2, <2>4
  <2> QED BY <1>5, <2>3, <2>4, <2>5
<1>7. Made(Len(infos))
  BY <1>0, <1>6
<1> QED BY <1>1, <1>7 DEF Made

-----------------------------------------------------------------------------
(* The inductive invariant *)

\* Invocations are opened before they end, and end before they are reported.
EnvFields == {"invoked", "started", "ended", "lost", "overtaken", "done", "reported", "complete",
              "sampled", "straddled", "init", "extra", "stopped"}
EnvInv ==
  /\ DOMAIN env = EnvFields
  /\ env.reported \subseteq env.done /\ env.done \subseteq env.invoked /\ env.invoked \subseteq Requests
  /\ IsFiniteSet(env.invoked)

\* Requests whose span was sent, and whose span is or was due.
Paid == {r \in Requests : p.sent[r] # <<>>}
DueNow == Ids(due)
Owed == Paid \cup DueNow

\* A context is of an open invocation (or of none yet), is marked done only after
\* the end of its runtime, and has both ids once its span was due.
ContextInv(c) ==
  /\ c.id \in (env.invoked \ env.reported) \cup {EmptyId}
  /\ c.runtime_done_received => c.id \in env.done
  /\ c.id \in Owed => Sendable(c)

LedgerInv ==
  /\ Shape(p) /\ p.managed \in BOOLEAN /\ IsSequence(agent.infos)
  /\ OneEach(p.buf) /\ \A i \in DOMAIN p.buf.buffer : ContextInv(p.buf.buffer[i])
  /\ env.init = "none" => \A i \in DOMAIN p.buf.buffer : p.buf.buffer[i].id # EmptyId
  /\ p.managed => env.done = env.reported
  /\ DOMAIN p.sent = Requests /\ \A r \in Requests : p.sent[r] = <<>> \/ \E t : p.sent[r] = <<t>>
  /\ IsSequence(due) /\ \A i, j \in DOMAIN due : due[i].id = due[j].id => i = j
  /\ Paid \cap DueNow = {} /\ Owed \subseteq env.done

\* On demand the peaks, and a sample under way, are of no invocation before the
\* last one that began without a sample under way.  A Managed Instance keeps every
\* sample, reads them once it is stopped, and counts its active invocations.
UsageOnDemand ==
  /\ p.usage_reads \subseteq env.invoked /\ env.sampled \cup sampler.seen \subseteq env.invoked
  /\ \A r \in env.invoked : Before(r) \subseteq env.invoked
  /\ \A u \in p.usage \cup sampler.seen, q \in env.invoked \ env.straddled : q <= u
  /\ \A u \in env.sampled : (\A q \in env.invoked : q <= u) => u \in p.usage
  /\ \A r \in Requests \ env.straddled :
       \A i \in DOMAIN p.usage_reports[r] : p.usage_reports[r][i] \cap Before(r) = {}
  /\ p.usage_reports[None] = <<>>
UsageManaged ==
  /\ p.usage_reads \subseteq {None} /\ env.sampled \subseteq p.usage
  /\ \A r \in Requests : p.usage_reports[r] = <<>>
  /\ \A i \in DOMAIN p.usage_reports[None] : env.sampled \subseteq p.usage_reports[None][i]
  /\ p.usage_reads # {} \/ p.usage_reports[None] # <<>> => env.stopped
  /\ env.stopped => ~p.monitoring
  /\ PROC_METRICS => p.active_invocations = Cardinality(env.invoked \ env.reported)
  /\ PROC_METRICS /\ ~env.stopped => (p.monitoring <=> p.active_invocations # 0)
UsageInv ==
  /\ p.monitoring \in BOOLEAN /\ env.stopped \in BOOLEAN /\ p.active_invocations \in Nat
  /\ DOMAIN p.usage_reports = Requests \cup {None}
  /\ \A r \in Requests \cup {None} : IsSequence(p.usage_reports[r])
  /\ sampler.phase = "idle" => sampler.seen = {}
  /\ ~PROC_METRICS => ~p.monitoring /\ p.usage = {} /\ sampler.phase = "idle"
  /\ p.managed => UsageManaged
  /\ ~p.managed => UsageOnDemand

Inv == EnvInv /\ LedgerInv /\ UsageInv

\* A step that the ledger allows.
Lawful ==
  /\ env.invoked \subseteq env'.invoked /\ env.reported \subseteq env'.reported
  /\ Paid \subseteq Paid' /\ Owed \subseteq Owed' /\ Owed' \ Owed \subseteq env.invoked \ env.reported
LawfulSteps == [][Lawful]_vars

-----------------------------------------------------------------------------
(* Steps that leave the ledger and the usage metrics alone *)

\* The initial states satisfy the invariant.
LEMMA InitHolds == Init => Inv
<1> SUFFICES ASSUME Init PROVE Inv
  OBVIOUS
<1>1. PICK s \in Setups : p = new(s.managed, s.tracer)
  BY DEF Init
<1>2. s.managed \in BOOLEAN
  BY SetupAssumption
<1>3. /\ DOMAIN p = ProcessorFields /\ p.buf = EmptyBuffer /\ p.managed = s.managed
      /\ p.active_invocations = 0 /\ p.monitoring = FALSE /\ p.usage = {} /\ p.usage_reads = {}
      /\ p.sent = [r \in Requests |-> <<>>]
      /\ p.usage_reports = [r \in Requests \cup {None} |-> <<>>]
  BY <1>1 DEF new, ProcessorFields
<1>4. /\ DOMAIN env = EnvFields /\ env.invoked = {} /\ env.done = {} /\ env.reported = {}
      /\ env.sampled = {} /\ env.stopped = FALSE /\ sampler.seen = {} /\ sampler.phase = "idle"
  BY DEF Init, EnvFields
<1>5. agent.infos = <<>> /\ due = <<>>
  BY DEF Init
<1>6. IsSequence(<<>>) /\ DOMAIN <<>> = {}
  <2>1. <<>> \in Seq({})
    OBVIOUS
  <2>2. IsSequence(<<>>)
    BY <2>1, SequenceFact
  <2>3. DOMAIN <<>> = {}
    OBVIOUS
  <2> QED BY <2>2, <2>3
<1>7. BufferShape(p.buf) /\ p.buf.buffer = <<>>
  BY <1>3, <1>6 DEF BufferShape, EmptyBuffer, BufferFields
<1>8. EnvInv
  BY <1>4, FS_EmptySet DEF EnvInv
<1>9. LedgerInv
  BY <1>2, <1>3, <1>4, <1>5, <1>6, <1>7 DEF LedgerInv, Shape, OneEach, Paid, DueNow, Ids, Owed
<1>10. Cardinality(env.invoked \ env.reported) = 0
  <2>1. env.invoked \ env.reported = {}
    BY <1>4
  <2> QED BY <2>1, FS_EmptySet
<1>11. UsageInv
  <2>1. \A r \in Requests \cup {None} : p.usage_reports[r] = <<>>
    BY <1>3
  <2>2. UsageManaged
    BY <1>3, <1>4, <1>6, <1>10, <2>1 DEF UsageManaged
  <2>3. UsageOnDemand
    BY <1>3, <1>4, <1>6, <2>1 DEF UsageOnDemand
  <2>4. \A r \in Requests \cup {None} : IsSequence(p.usage_reports[r])
    BY <1>6, <2>1
  <2>5. DOMAIN p.usage_reports = Requests \cup {None}
    BY <1>3
  <2>6. p.monitoring \in BOOLEAN /\ ~p.monitoring /\ env.stopped \in BOOLEAN
    BY <1>3, <1>4, Zenon
  <2>7. p.usage = {} /\ p.active_invocations \in Nat /\ sampler.seen = {} /\ sampler.phase = "idle"
    BY <1>3, <1>4
  <2> QED BY <2>2, <2>3, <2>4, <2>5, <2>6, <2>7, Zenon DEF UsageInv
<1> QED BY <1>8, <1>9, <1>11 DEF Inv

\* What the environment did is none of the ledger's business.
QuietEnv ==
  /\ DOMAIN env' = EnvFields /\ env'.invoked = env.invoked /\ env'.done = env.done
  /\ env'.reported = env.reported /\ env'.sampled = env.sampled /\ env'.stopped = env.stopped
  /\ env'.straddled = env.straddled /\ (env'.init = "none" => env.init = "none")
  /\ sampler' = sampler

\* Contexts are filled in and nothing else happens to the ledger.
LEMMA QuietStep ==
  ASSUME Inv, QuietEnv, Keeps(p, p'), due' = due, IsSequence(agent'.infos)
  PROVE  Inv' /\ Lawful
<1>1. EnvInv'
  BY DEF Inv, EnvInv, QuietEnv
<1>2. Paid' = Paid /\ DueNow' = DueNow /\ Owed' = Owed
  BY DEF Paid, DueNow, Owed, Keeps
<1>3. Lawful
  BY <1>2 DEF Lawful, QuietEnv
<1>4. \A i \in DOMAIN p'.buf.buffer : ContextInv(p.buf.buffer[i])' /\ i \in DOMAIN p.buf.buffer /\ p'.buf.buffer[i].id = p.buf.buffer[i].id
  <2> SUFFICES ASSUME NEW i \in DOMAIN p'.buf.buffer
               PROVE  ContextInv(p.buf.buffer[i])' /\ i \in DOMAIN p.buf.buffer /\ p'.buf.buffer[i].id = p.buf.buffer[i].id
    OBVIOUS
  <2>1. i \in DOMAIN p.buf.buffer /\ Grows(p.buf.buffer[i], p'.buf.buffer[i])
    BY DEF Keeps, Advances
  <2>2. ContextInv(p.buf.buffer[i])
    BY <2>1 DEF Inv, LedgerInv
  <2> QED BY <1>2, <2>1, <2>2 DEF ContextInv, Grows, QuietEnv
<1>5. OneEach(p.buf)'
  <2>1. OneEach(p.buf)
    BY DEF Inv, LedgerInv
  <2> QED BY <1>4, <2>1 DEF OneEach
<1>6. /\ p'.managed = p.managed /\ p'.sent = p.sent /\ Shape(p)'
  BY DEF Keeps, SameUsage, Calm, Alert
<1>7. LedgerInv'
  <2>1. env'.init = "none" => \A i \in DOMAIN p'.buf.buffer : p'.buf.buffer[i].id # EmptyId
    BY <1>4 DEF Inv, LedgerInv, QuietEnv
  <2> QED BY <1>2, <1>4, <1>5, <1>6, <2>1 DEF Inv, LedgerInv, QuietEnv
<1>8. UsageInv'
  <2>1. SameUsage(p, p')
    BY DEF Keeps
  <2>2. UsageManaged => UsageManaged'
    BY <2>1 DEF UsageManaged, SameUsage, Calm, Alert, QuietEnv
  <2>3. UsageOnDemand => UsageOnDemand'
    BY <2>1 DEF UsageOnDemand, SameUsage, Calm, Alert, QuietEnv, Before
  <2> QED BY <2>1, <2>2, <2>3 DEF Inv, UsageInv, SameUsage, Calm, Alert, QuietEnv
<1> QED BY <1>1, <1>3, <1>7, <1>8 DEF Inv

\* Every step of this kind.
Quiet ==
  \/ \E r \in Requests :
       \/ RecordDsmConsumeFromPayload(r) \/ AddReparenting(r) \/ AddTracerSpan(r)
       \/ handle_start_invocation(r) \/ handle_end_invocation(r) \/ TracerLosesEvent(r)
  \/ \E id \in Requests \cup {None} : OutOfMemory(id)
  \/ PlatformInitReport \/ PlatformRestoreStart
  \/ universal_instrumentation_start \/ universal_instrumentation_end
  \/ GetReparentingInfo \/ SetColdStartSpanTraceId \/ UNCHANGED vars

\* Each of them keeps the invariant.
LEMMA QuietSteps ==
  ASSUME Inv, Quiet
  PROVE  Inv' /\ Lawful /\ Keeps(p, p')
<1>e. DOMAIN env = EnvFields
  BY DEF Inv, EnvInv
<1>0. Shape(p) /\ Keeps(p, p) /\ IsSequence(agent.infos) /\ IsSequence(p.buf.reparenting)
  BY KeepsSelf DEF Inv, LedgerInv, Shape, BufferShape
<1>1. ASSUME NEW r \in Requests, RecordDsmConsumeFromPayload(r) PROVE Inv' /\ Lawful /\ Keeps(p, p')
  <2>e. QuietEnv
    BY <1>e, <1>1 DEF QuietEnv, EnvFields, RecordDsmConsumeFromPayload
  <2>k. Keeps(p, p') /\ due' = due /\ IsSequence(agent'.infos)
    BY <1>0, <1>1, CountersKeep DEF RecordDsmConsumeFromPayload
  <2> QED BY <2>e, <2>k, QuietStep
<1>2. ASSUME NEW r \in Requests, AddReparenting(r) PROVE Inv' /\ Lawful /\ Keeps(p, p')
  <2>e. QuietEnv
    BY <1>e, <1>2 DEF QuietEnv, EnvFields, AddReparenting
  <2>k. Keeps(p, p') /\ due' = due /\ IsSequence(agent'.infos)
    BY <1>0, <1>2, AddReparentingKeeps DEF AddReparenting
  <2> QED BY <2>e, <2>k, QuietStep
<1>3. ASSUME NEW r \in Requests, AddTracerSpan(r) PROVE Inv' /\ Lawful /\ Keeps(p, p')
  <2>e. QuietEnv
    BY <1>e, <1>3 DEF QuietEnv, EnvFields, AddTracerSpan
  <2>k. Keeps(p, p') /\ due' = due /\ IsSequence(agent'.infos)
    BY <1>0, <1>3, TracerSpanKeeps DEF AddTracerSpan
  <2> QED BY <2>e, <2>k, QuietStep
<1>4. ASSUME NEW r \in Requests, handle_start_invocation(r) PROVE Inv' /\ Lawful /\ Keeps(p, p')
  <2>e. QuietEnv
    BY <1>e, <1>4 DEF QuietEnv, EnvFields, handle_start_invocation
  <2>k. Keeps(p, p') /\ due' = due /\ IsSequence(agent'.infos)
    BY <1>0, <1>4 DEF handle_start_invocation
  <2> QED BY <2>e, <2>k, QuietStep
<1>5. ASSUME NEW r \in Requests, handle_end_invocation(r) PROVE Inv' /\ Lawful /\ Keeps(p, p')
  <2>e. QuietEnv
    BY <1>e, <1>5 DEF QuietEnv, EnvFields, handle_end_invocation
  <2>k. Keeps(p, p') /\ due' = due /\ IsSequence(agent'.infos)
    BY <1>0, <1>5 DEF handle_end_invocation
  <2> QED BY <2>e, <2>k, QuietStep
<1>6. ASSUME NEW r \in Requests, TracerLosesEvent(r) PROVE Inv' /\ Lawful /\ Keeps(p, p')
  <2>e. QuietEnv
    BY <1>e, <1>6 DEF QuietEnv, EnvFields, TracerLosesEvent
  <2>k. Keeps(p, p') /\ due' = due /\ IsSequence(agent'.infos)
    BY <1>0, <1>6 DEF TracerLosesEvent
  <2> QED BY <2>e, <2>k, QuietStep
<1>7. ASSUME NEW id \in Requests \cup {None}, OutOfMemory(id) PROVE Inv' /\ Lawful /\ Keeps(p, p')
  <2>e. QuietEnv
    BY <1>e, <1>7 DEF QuietEnv, EnvFields, OutOfMemory
  <2>k. Keeps(p, p') /\ due' = due /\ IsSequence(agent'.infos)
    BY <1>0, <1>7, OomKeeps DEF OutOfMemory
  <2> QED BY <2>e, <2>k, QuietStep
<1>8. ASSUME PlatformInitReport PROVE Inv' /\ Lawful /\ Keeps(p, p')
  <2>e. QuietEnv
    BY <1>e, <1>8 DEF QuietEnv, EnvFields, PlatformInitReport
  <2>k. Keeps(p, p') /\ due' = due /\ IsSequence(agent'.infos)
    BY <1>0, <1>8, CountersKeep DEF PlatformInitReport, on_platform_init_report
  <2> QED BY <2>e, <2>k, QuietStep
<1>9. ASSUME PlatformRestoreStart PROVE Inv' /\ Lawful /\ Keeps(p, p')
  <2>e. QuietEnv
    BY <1>e, <1>9 DEF QuietEnv, EnvFields, PlatformRestoreStart
  <2>k. Keeps(p, p') /\ due' = due /\ IsSequence(agent'.infos)
    BY <1>0, <1>9, RestoreKeeps DEF PlatformRestoreStart
  <2> QED BY <2>e, <2>k, QuietStep
<1>10. ASSUME universal_instrumentation_start PROVE Inv' /\ Lawful /\ Keeps(p, p')
  <2>1. WithId \in BOOLEAN
    BY DEF WithId
  <2>2. PICK e : p' = on_universal_instrumentation_start(p, e, WithId)
    BY <1>10 DEF universal_instrumentation_start
  <2>e. QuietEnv
    BY <1>e, <1>10 DEF QuietEnv, EnvFields, universal_instrumentation_start
  <2>k. Keeps(p, p') /\ due' = due /\ IsSequence(agent'.infos)
    BY <1>0, <1>10, <2>1, <2>2, StartKeeps DEF universal_instrumentation_start
  <2> QED BY <2>e, <2>k, QuietStep
<1>11. ASSUME universal_instrumentation_end PROVE Inv' /\ Lawful /\ Keeps(p, p')
  <2>1. WithId \in BOOLEAN
    BY DEF WithId
  <2>2. PICK e : p' = on_universal_instrumentation_end(p, e, WithId)
    BY <1>11 DEF universal_instrumentation_end
  <2>e. QuietEnv
    BY <1>e, <1>11 DEF QuietEnv, EnvFields, universal_instrumentation_end
  <2>k. Keeps(p, p') /\ due' = due /\ IsSequence(agent'.infos)
    BY <1>0, <1>11, <2>1, <2>2, EndKeeps DEF universal_instrumentation_end
  <2> QED BY <2>e, <2>k, QuietStep
<1>12. ASSUME GetReparentingInfo PROVE Inv' /\ Lawful /\ Keeps(p, p')
  <2>e. QuietEnv
    BY <1>e, <1>12 DEF QuietEnv, EnvFields, GetReparentingInfo
  <2>k. Keeps(p, p') /\ due' = due /\ IsSequence(agent'.infos)
    BY <1>0, <1>12 DEF GetReparentingInfo
  <2> QED BY <2>e, <2>k, QuietStep
<1>13. ASSUME SetColdStartSpanTraceId PROVE Inv' /\ Lawful /\ Keeps(p, p')
  <2>e. QuietEnv
    BY <1>e, <1>13 DEF QuietEnv, EnvFields, SetColdStartSpanTraceId
  <2>k. Keeps(p, p') /\ due' = due /\ IsSequence(agent'.infos)
    BY <1>0, <1>13, ColdStartTraceKeeps DEF SetColdStartSpanTraceId
  <2> QED BY <2>e, <2>k, QuietStep
<1>14. ASSUME UNCHANGED vars PROVE Inv' /\ Lawful /\ Keeps(p, p')
  <2>e. QuietEnv
    BY <1>e, <1>14 DEF QuietEnv, EnvFields, vars
  <2>k. Keeps(p, p') /\ due' = due /\ IsSequence(agent'.infos)
    BY <1>0, <1>14 DEF vars
  <2> QED BY <2>e, <2>k, QuietStep
<1> QED BY <1>1, <1>2, <1>3, <1>4, <1>5, <1>6, <1>7, <1>8, <1>9, <1>10, <1>11, <1>12, <1>13, <1>14 DEF Quiet

-----------------------------------------------------------------------------
(* Steps that open an invocation *)

\* No request has the empty id, and a context without an id is not done.
LEMMA EmptyIdFact ==
  ASSUME Inv
  PROVE  /\ EmptyId \notin Requests /\ EmptyId \notin Owed
         /\ \A i \in DOMAIN p.buf.buffer :
              p.buf.buffer[i].id = EmptyId => ~p.buf.buffer[i].runtime_done_received
<1>1. EmptyId \notin Requests
  BY BufferAssumption DEF EmptyId
<1>2. EmptyId \notin Owed
  BY <1>1 DEF Inv, EnvInv, LedgerInv
<1>3. ASSUME NEW i \in DOMAIN p.buf.buffer, p.buf.buffer[i].id = EmptyId
      PROVE  ~p.buf.buffer[i].runtime_done_received
  BY <1>1, <1>3 DEF Inv, EnvInv, LedgerInv, ContextInv
<1> QED BY <1>1, <1>2, <1>3

\* A context is opened for a request that no span was due for.
LEMMA OpenKeepsLedger ==
  ASSUME Inv, NEW r, Shape(p'), p'.managed = p.managed, p'.sent = p.sent, Opened(p.buf, p'.buf, r),
         due' = due, agent' = agent, r \notin Owed,
         env.invoked \subseteq env'.invoked, env'.done = env.done, env'.reported = env.reported,
         r \in (env'.invoked \ env'.reported) \cup {EmptyId},
         env'.init = "none" => env.init = "none" /\ r # EmptyId
  PROVE  LedgerInv' /\ Lawful
<1>1. Paid' = Paid /\ DueNow' = DueNow /\ Owed' = Owed
  BY DEF Paid, DueNow, Owed
<1>2. Lawful
  BY <1>1 DEF Lawful
<1>3. ASSUME NEW j \in DOMAIN p'.buf.buffer
      PROVE  ContextInv(p.buf.buffer[j])' /\ (env'.init = "none" => p'.buf.buffer[j].id # EmptyId)
  <2>1. CASE p'.buf.buffer[j].id = r /\ ~p'.buf.buffer[j].runtime_done_received
    BY <1>1, <2>1 DEF ContextInv
  <2>2. CASE \E i \in DOMAIN p.buf.buffer : Grows(p.buf.buffer[i], p'.buf.buffer[j])
    <3>1. PICK i \in DOMAIN p.buf.buffer : Grows(p.buf.buffer[i], p'.buf.buffer[j])
      BY <2>2
    <3>2. ContextInv(p.buf.buffer[i]) /\ (env.init = "none" => p.buf.buffer[i].id # EmptyId)
      BY DEF Inv, LedgerInv
    <3> QED BY <1>1, <3>1, <3>2 DEF ContextInv, Grows
  <2> QED BY <2>1, <2>2 DEF Opened
<1>4. OneEach(p.buf)'
  BY DEF Opened
<1>5. LedgerInv'
  BY <1>1, <1>3, <1>4 DEF Inv, LedgerInv
<1> QED BY <1>2, <1>5

\* One more active invocation.
LEMMA InvokeCounted ==
  ASSUME EnvInv, NEW r, r \notin env.invoked
  PROVE  /\ IsFiniteSet(env.invoked \cup {r})
         /\ Cardinality((env.invoked \cup {r}) \ env.reported) = Cardinality(env.invoked \ env.reported) + 1
<1> DEFINE A == env.invoked \ env.reported
<1>1. IsFiniteSet(env.invoked) /\ r \notin env.reported /\ r \notin A
  BY DEF EnvInv
<1>2. IsFiniteSet(env.invoked \cup {r})
  BY <1>1, FS_AddElement
<1>3. IsFiniteSet(A)
  BY <1>1, FS_Subset
<1>4. (env.invoked \cup {r}) \ env.reported = A \cup {r}
  BY <1>1
<1> HIDE DEF A
<1>5. Cardinality(A \cup {r}) = Cardinality(A) + 1
  BY <1>1, <1>3, FS_AddElement
<1> QED BY <1>2, <1>4, <1>5 DEF A

\* The invoke event of an on-demand function and platform.start of a Managed Instance.
LEMMA InvokeStep ==
  ASSUME Inv, NEW r \in Requests, InvokeEvent(r) \/ PlatformStart(r)
  PROVE  Inv' /\ Lawful
<1>1. /\ Shape(p) /\ OneEach(p.buf) /\ p.monitoring \in BOOLEAN /\ p.managed \in BOOLEAN
      /\ DOMAIN env = EnvFields
  BY DEF Inv, EnvInv, LedgerInv, UsageInv
<1>2. p' = on_invoke_event(p, r, FALSE)
  BY <1>1 DEF InvokeEvent, PlatformStart, on_platform_start
<1>3. /\ r \notin env.invoked /\ ~env.stopped /\ agent' = agent /\ due' = due /\ sampler' = sampler
      /\ ~p.managed => Before(r) \subseteq env.invoked
  BY DEF InvokeEvent, PlatformStart, Live, InOrder
<1>4. /\ DOMAIN env' = EnvFields /\ env'.invoked = env.invoked \cup {r} /\ env'.done = env.done
      /\ env'.reported = env.reported /\ env'.sampled = env.sampled /\ env'.stopped = env.stopped
      /\ env'.init = env.init /\ env.straddled \subseteq env'.straddled
      /\ ~p.managed => r \in env'.straddled \/ sampler.phase = "idle"
  BY <1>1 DEF InvokeEvent, PlatformStart, EnvFields
<1>5. r \notin env.reported /\ r \notin Owed /\ r # EmptyId
  BY <1>3, EmptyIdFact DEF Inv, EnvInv, LedgerInv
<1>6. Invokes(p, p', r)
  <2>1. \A i \in DOMAIN p.buf.buffer : p.buf.buffer[i].id # r
    BY <1>3, <1>5 DEF Inv, LedgerInv, ContextInv
  <2> QED BY <1>1, <1>2, <2>1, EmptyIdFact, InvokeEffect
<1>7. EnvInv'
  BY <1>3, <1>4, InvokeCounted DEF Inv, EnvInv
<1>8. LedgerInv' /\ Lawful
  <2>1. Shape(p') /\ p'.managed = p.managed /\ p'.sent = p.sent /\ Opened(p.buf, p'.buf, r)
    BY <1>6 DEF Invokes, Monitored
  <2>2. r \in env'.invoked \ env'.reported /\ env.invoked \subseteq env'.invoked
    BY <1>4, <1>5
  <2>3. r \in (env'.invoked \ env'.reported) \cup {EmptyId}
    BY <2>2
  <2>4. env'.init = "none" => env.init = "none" /\ r # EmptyId
    BY <1>4, <1>5
  <2>5. env'.done = env.done /\ env'.reported = env.reported /\ r \notin Owed
    BY <1>4, <1>5
  <2>6. due' = due /\ agent' = agent
    BY <1>3
  <2> QED BY <2>1, <2>2, <2>3, <2>4, <2>5, <2>6, OpenKeepsLedger, Zenon
<1>9. UsageInv'
  <2>1. Monitored(p, p')
    BY <1>6 DEF Invokes
  <2>2. CASE p.managed
    <3>1. UsageManaged
      BY <2>2 DEF Inv, UsageInv
    <3>2. PROC_METRICS => p'.active_invocations = Cardinality(env'.invoked \ env'.reported)
      <4>1. Cardinality((env.invoked \cup {r}) \ env.reported) = Cardinality(env.invoked \ env.reported) + 1
        BY <1>3, InvokeCounted DEF Inv
      <4>2. env'.invoked \ env'.reported = (env.invoked \cup {r}) \ env.reported
        BY <1>4
      <4> QED BY <2>1, <2>2, <3>1, <4>1, <4>2 DEF UsageManaged, Monitored
    <3>3. PROC_METRICS => p'.monitoring /\ p'.active_invocations # 0 /\ p'.active_invocations \in Nat
      <4> SUFFICES ASSUME PROC_METRICS
                   PROVE  p'.monitoring /\ p'.active_invocations # 0 /\ p'.active_invocations \in Nat
        OBVIOUS
      <4>1. p.active_invocations \in Nat /\ p'.active_invocations = p.active_invocations + 1
        BY <2>1, <2>2 DEF Inv, UsageInv, Monitored
      <4>2. p.monitoring <=> p.active_invocations # 0
        BY <1>3, <3>1, Zenon DEF UsageManaged
      <4>3. p'.monitoring = (p'.active_invocations = 1 \/ p.monitoring)
        BY <2>1, <2>2, Zenon DEF Monitored
      <4>4. p'.active_invocations = 1 \/ p.active_invocations # 0
        BY <4>1
      <4>5. p'.monitoring
        BY <4>2, <4>3, <4>4, Zenon
      <4> QED BY <4>1, <4>5
    <3>4. UsageManaged'
      BY <1>3, <1>4, <2>1, <2>2, <3>1, <3>2, <3>3 DEF UsageManaged, Monitored
    <3>5. p'.monitoring \in BOOLEAN /\ p'.active_invocations \in Nat
      BY <1>3, <2>1, <3>3, SetupAssumption DEF Inv, UsageInv, Monitored
    <3> QED BY <1>3, <1>4, <2>1, <2>2, <3>4, <3>5, SetupAssumption DEF Inv, UsageInv, Monitored
  <2>3. CASE ~p.managed
    <3>1. UsageOnDemand
      BY <2>3 DEF Inv, UsageInv
    <3>2. p'.usage = {}
      BY <2>1, <2>3, SetupAssumption DEF Monitored, Inv, UsageInv
    <3>3. \A u \in sampler.seen, q \in env'.invoked \ env'.straddled : q <= u
      <4> SUFFICES ASSUME NEW u \in sampler.seen, NEW q \in env'.invoked \ env'.straddled PROVE q <= u
        OBVIOUS
      <4>1. q # r
        BY <1>4, <2>3 DEF Inv, UsageInv
      <4> QED BY <1>4, <3>1, <4>1 DEF UsageOnDemand
    <3>4. ASSUME NEW u \in env.sampled, r <= u PROVE FALSE
      <4>1. u \in env.invoked /\ u \in Nat /\ r \in Nat /\ u # r
        BY <1>3, <3>1, BufferAssumption DEF UsageOnDemand, Inv, EnvInv
      <4>2. r \in Before(u)
        BY <3>4, <4>1 DEF Before
      <4> QED BY <1>3, <3>1, <4>1, <4>2 DEF UsageOnDemand
    <3>5. \A u \in env'.sampled : ~ \A q \in env'.invoked : q <= u
      BY <1>4, <3>4
    <3>6. \A x \in env'.invoked : Before(x) \subseteq env'.invoked
      BY <1>3, <1>4, <2>3, <3>1 DEF UsageOnDemand
    <3>7. UsageOnDemand'
      BY <1>3, <1>4, <2>1, <3>1, <3>2, <3>3, <3>5, <3>6 DEF UsageOnDemand, Monitored, Before
    <3> QED BY <1>3, <1>4, <2>1, <2>3, <3>2, <3>7, SetupAssumption DEF Inv, UsageInv, Monitored
  <2> QED BY <1>1, <2>2, <2>3
<1> QED BY <1>7, <1>8, <1>9 DEF Inv

\* platform.initStart: a Managed Instance opens a context without a request id.
Awaits(x, y) ==
  /\ x.managed /\ Shape(y) /\ Calm(x, y) /\ y.sent = x.sent /\ Opened(x.buf, y.buf, EmptyId)
  /\ y.awaiting_first_invocation = TRUE
LEMMA InitStartStep ==
  ASSUME Inv, PlatformInitStart
  PROVE  Inv' /\ Lawful /\ (Keeps(p, p') \/ Awaits(p, p'))
<1>1. Shape(p) /\ OneEach(p.buf) /\ p.managed \in BOOLEAN /\ DOMAIN env = EnvFields /\ IsSequence(agent.infos)
  BY DEF Inv, EnvInv, LedgerInv
<1>2. PICK late : p' = on_platform_init_start(p, 0, late)
  BY DEF PlatformInitStart
<1>3. /\ env' = [env EXCEPT !.init = "started"] /\ env.init = "none" /\ agent' = agent /\ due' = due
      /\ sampler' = sampler
  BY DEF PlatformInitStart
<1>4. QuietEnv /\ env'.init = "started"
  BY <1>1, <1>3 DEF QuietEnv, EnvFields
<1>5. \A i \in DOMAIN p.buf.buffer : p.buf.buffer[i].id # EmptyId
  BY <1>3 DEF Inv, LedgerInv
<1>6. Keeps(p, p') \/ Awaits(p, p')
  <2>1. 0 \in Int /\ (p.managed => \A i \in DOMAIN p.buf.buffer : p.buf.buffer[i].id # EmptyId)
    BY <1>5
  <2> DEFINE z == on_platform_init_start(p, 0, late)
  <2>2. Keeps(p, z) \/ Awaits(p, z)
    BY <1>1, <2>1, InitStartEffect, Zenon DEF Awaits
  <2> HIDE DEF z
  <2> QED BY <1>2, <2>2 DEF z
<1>7. CASE Keeps(p, p')
  BY <1>1, <1>3, <1>4, <1>7, QuietStep
<1>8. CASE Awaits(p, p')
  <2>0. Shape(p') /\ Calm(p, p') /\ p'.sent = p.sent /\ Opened(p.buf, p'.buf, EmptyId)
    BY <1>8 DEF Awaits
  <2>1. EnvInv'
    BY <1>4 DEF Inv, EnvInv, QuietEnv
  <2>2. LedgerInv' /\ Lawful
    BY <1>3, <1>4, <2>0, EmptyIdFact, OpenKeepsLedger DEF QuietEnv, SameUsage, Calm, Alert
  <2>3. UsageInv'
    <3>2. UsageManaged => UsageManaged'
      BY <1>4, <2>0 DEF UsageManaged, SameUsage, Calm, Alert, QuietEnv
    <3>3. UsageOnDemand => UsageOnDemand'
      BY <1>4, <2>0 DEF UsageOnDemand, SameUsage, Calm, Alert, QuietEnv, Before
    <3> QED BY <1>4, <2>0, <3>2, <3>3 DEF Inv, UsageInv, SameUsage, Calm, Alert, QuietEnv
  <2> QED BY <1>8, <2>1, <2>2, <2>3 DEF Inv
<1> QED BY <1>6, <1>7, <1>8

-----------------------------------------------------------------------------
(* Steps that end an invocation, and the end of the sandbox *)

\* The shutdown event asks a Managed Instance for its usage.
LEMMA ShutdownEffect ==
  ASSUME NEW x, Shape(x), x.managed \in BOOLEAN
  PROVE  LET z == on_shutdown_event(x)
         IN /\ Shape(z) /\ z.sent = x.sent /\ Advances(x.buf, z.buf) /\ z.managed = x.managed
            /\ z.usage = x.usage /\ z.usage_reports = x.usage_reports
            /\ z.active_invocations = x.active_invocations
            /\ x.managed => z.monitoring = FALSE /\ z.usage_reads = x.usage_reads \cup {None}
            /\ ~x.managed => z.monitoring = x.monitoring /\ z.usage_reads = x.usage_reads
            /\ Alert(x, z) /\ z.awaiting_first_invocation = x.awaiting_first_invocation
<1> DEFINE x1 == flush_pending_first_invocation_metric(x)
           y == [x1 EXCEPT !.unused_inits = IF x1.invoked_received THEN @ ELSE @ + 1]
           z == on_shutdown_event(x)
<1>1. Keeps(x, x1)
  BY CountersKeep
<1>2. z = IF y.managed THEN set_usage_enhanced_metrics(y, None) ELSE y
  BY DEF on_shutdown_event
<1> HIDE DEF x1, z
<1>3. DOMAIN y = ProcessorFields /\ SameUsage(x, y) /\ y.sent = x.sent /\ y.buf = x1.buf
  BY <1>1 DEF Keeps, Shape, SameUsage, Calm, Alert, ProcessorFields
<1> HIDE DEF y
<1>4. /\ DOMAIN z = ProcessorFields /\ z.buf = y.buf /\ z.sent = y.sent /\ z.managed = y.managed
      /\ z.usage = y.usage /\ z.usage_reports = y.usage_reports
      /\ z.active_invocations = y.active_invocations
      /\ y.managed => z.monitoring = FALSE /\ z.usage_reads = y.usage_reads \cup {None}
      /\ ~y.managed => z.monitoring = y.monitoring /\ z.usage_reads = y.usage_reads
      /\ z.tracer_detected = y.tracer_detected
      /\ z.awaiting_first_invocation = y.awaiting_first_invocation
  BY <1>2, <1>3 DEF set_usage_enhanced_metrics, ProcessorFields
<1>5. BufferShape(z.buf) /\ Advances(x.buf, z.buf)
  BY <1>1, <1>3, <1>4 DEF Keeps, Advances
<1> QED BY <1>3, <1>4, <1>5, Zenon DEF Shape, SameUsage, Calm, Alert, z

\* The shutdown event.
LEMMA ShutdownStep ==
  ASSUME Inv, ShutdownEvent
  PROVE  Inv' /\ Lawful
<1>1. Shape(p) /\ p.managed \in BOOLEAN /\ DOMAIN env = EnvFields /\ IsSequence(agent.infos)
  BY DEF Inv, EnvInv, LedgerInv
<1>2. /\ Shape(p') /\ p'.sent = p.sent /\ Advances(p.buf, p'.buf) /\ p'.managed = p.managed
      /\ p'.usage = p.usage /\ p'.usage_reports = p.usage_reports
      /\ p'.active_invocations = p.active_invocations
      /\ p.managed => p'.monitoring = FALSE /\ p'.usage_reads = p.usage_reads \cup {None}
      /\ ~p.managed => p'.monitoring = p.monitoring /\ p'.usage_reads = p.usage_reads
  BY <1>1, ShutdownEffect DEF ShutdownEvent
<1>3. env' = [env EXCEPT !.stopped = TRUE] /\ agent' = agent /\ due' = due /\ sampler' = sampler
  BY DEF ShutdownEvent
<1>4. /\ DOMAIN env' = EnvFields /\ env'.invoked = env.invoked /\ env'.done = env.done
      /\ env'.reported = env.reported /\ env'.sampled = env.sampled /\ env'.stopped = TRUE
      /\ env'.init = env.init /\ env'.straddled = env.straddled
  BY <1>1, <1>3 DEF EnvFields
<1>5. EnvInv'
  BY <1>4 DEF Inv, EnvInv
<1>6. LedgerInv' /\ Lawful
  <2>1. Paid' = Paid /\ DueNow' = DueNow /\ Owed' = Owed
    BY <1>2, <1>3 DEF Paid, DueNow, Owed
  <2>2. ASSUME NEW i \in DOMAIN p'.buf.buffer
        PROVE  ContextInv(p.buf.buffer[i])' /\ i \in DOMAIN p.buf.buffer /\ p'.buf.buffer[i].id = p.buf.buffer[i].id
    <3>1. i \in DOMAIN p.buf.buffer /\ Grows(p.buf.buffer[i], p'.buf.buffer[i])
      BY <1>2 DEF Advances
    <3>2. ContextInv(p.buf.buffer[i])
      BY <3>1 DEF Inv, LedgerInv
    <3> QED BY <1>4, <2>1, <3>1, <3>2 DEF ContextInv, Grows
  <2>3. OneEach(p.buf)'
    <3>1. OneEach(p.buf)
      BY DEF Inv, LedgerInv
    <3> QED BY <2>2, <3>1 DEF OneEach
  <2>4. env'.init = "none" => \A i \in DOMAIN p'.buf.buffer : p'.buf.buffer[i].id # EmptyId
    BY <1>4, <2>2 DEF Inv, LedgerInv
  <2>5. LedgerInv'
    BY <1>2, <1>3, <1>4, <2>1, <2>2, <2>3, <2>4 DEF Inv, LedgerInv
  <2> QED BY <1>4, <2>1, <2>5 DEF Lawful
<1>7. UsageInv'
  <2>1. CASE p.managed
    <3>1. UsageManaged
      BY <2>1 DEF Inv, UsageInv
    <3>2. UsageManaged'
      BY <1>2, <1>3, <1>4, <2>1, <3>1 DEF UsageManaged
    <3>3. p'.monitoring \in BOOLEAN /\ env'.stopped \in BOOLEAN /\ ~p'.monitoring
      BY <1>2, <1>4, <2>1, Zenon
    <3> QED BY <1>2, <1>3, <2>1, <3>2, <3>3 DEF Inv, UsageInv
  <2>2. CASE ~p.managed
    <3>1. UsageOnDemand'
      BY <1>2, <1>3, <1>4, <2>2 DEF Inv, UsageInv, UsageOnDemand, Before
    <3> QED BY <1>2, <1>3, <1>4, <2>2, <3>1 DEF Inv, UsageInv
  <2> QED BY <1>1, <2>1, <2>2
<1> QED BY <1>5, <1>6, <1>7 DEF Inv

\* Paying for r, whose span was neither sent nor due.
LEMMA PaidOnce ==
  ASSUME Inv, NEW r \in Requests, r \notin Owed, due' = due,
         \/ p'.sent = p.sent
         \/ \E trace : p'.sent = [p.sent EXCEPT ![r] = Append(p.sent[r], trace)]
  PROVE  /\ DOMAIN p'.sent = Requests
         /\ \A q \in Requests : p'.sent[q] = <<>> \/ \E t : p'.sent[q] = <<t>>
         /\ DueNow' = DueNow /\ Paid \subseteq Paid' /\ Owed \subseteq Owed' /\ Owed' \subseteq Owed \cup {r}
         /\ Paid' \cap DueNow' = {}
         /\ p'.sent = p.sent => Owed' = Owed
<1>1. /\ DOMAIN p.sent = Requests /\ \A q \in Requests : p.sent[q] = <<>> \/ \E t : p.sent[q] = <<t>>
      /\ Paid \cap DueNow = {}
  BY DEF Inv, LedgerInv
<1>2. p.sent[r] = <<>> /\ r \notin DueNow
  BY <1>1 DEF Owed, Paid
<1>3. DueNow' = DueNow
  BY DEF DueNow
<1>4. CASE p'.sent = p.sent
  <2>1. Paid' = Paid
    BY <1>4 DEF Paid
  <2> QED BY <1>1, <1>3, <1>4, <2>1 DEF Owed
<1>5. CASE \E trace : p'.sent = [p.sent EXCEPT ![r] = Append(p.sent[r], trace)]
  <2>1. PICK trace : p'.sent = [p.sent EXCEPT ![r] = Append(p.sent[r], trace)]
    BY <1>5
  <2>2. Append(<<>>, trace) = <<trace>> /\ <<trace>> # <<>>
    OBVIOUS
  <2>3. /\ DOMAIN p'.sent = Requests /\ p'.sent[r] = <<trace>>
        /\ \A q \in Requests : q # r => p'.sent[q] = p.sent[q]
    BY <1>1, <1>2, <2>1, <2>2
  <2>4. Paid' = Paid \cup {r}
    BY <2>2, <2>3 DEF Paid
  <2>5. \A q \in Requests : p'.sent[q] = <<>> \/ \E t : p'.sent[q] = <<t>>
    BY <1>1, <2>3
  <2>6. p'.sent # p.sent
    BY <1>2, <2>2, <2>3
  <2> QED BY <1>1, <1>2, <1>3, <2>3, <2>4, <2>5, <2>6 DEF Owed
<1> QED BY <1>4, <1>5

\* platform.runtimeDone of an on-demand function.
LEMMA RuntimeDoneStep ==
  ASSUME Inv, NEW r \in Requests, PlatformRuntimeDone(r)
  PROVE  Inv' /\ Lawful
<1>1. Shape(p) /\ OneEach(p.buf) /\ DOMAIN env = EnvFields
  BY DEF Inv, EnvInv, LedgerInv
<1>2. PICK status : p' = on_platform_runtime_done(p, r, status)
  BY DEF PlatformRuntimeDone
<1>3. /\ ~p.managed /\ r \in env.invoked \ env.done /\ agent' = agent /\ due' = due /\ sampler' = sampler
      /\ env' = [env EXCEPT !.done = @ \cup {r}, !.complete = @ \cup ({r} \cap Through)]
  BY DEF PlatformRuntimeDone
<1>4. /\ DOMAIN env' = EnvFields /\ env'.invoked = env.invoked /\ env'.done = env.done \cup {r}
      /\ env'.reported = env.reported /\ env'.sampled = env.sampled /\ env'.stopped = env.stopped
      /\ env'.init = env.init /\ env'.straddled = env.straddled
  BY <1>1, <1>3 DEF EnvFields
<1>5. Shape(p') /\ Paused(p, p', r) /\ Ended(p.buf, p'.buf, r) /\ Pays(p, p', r)
  BY <1>1, <1>2, RuntimeDoneEffect
<1>6. r \notin Owed /\ r \notin env.reported
  BY <1>3 DEF Inv, EnvInv, LedgerInv
<1>7. EnvInv'
  BY <1>3, <1>4 DEF Inv, EnvInv
<1>8. /\ DOMAIN p'.sent = Requests
      /\ \A q \in Requests : p'.sent[q] = <<>> \/ \E t : p'.sent[q] = <<t>>
      /\ DueNow' = DueNow /\ Paid \subseteq Paid' /\ Owed \subseteq Owed' /\ Owed' \subseteq Owed \cup {r}
      /\ Paid' \cap DueNow' = {}
      /\ p'.sent = p.sent => Owed' = Owed
  <2>1. \/ p'.sent = p.sent
        \/ \E trace : p'.sent = [p.sent EXCEPT ![r] = Append(p.sent[r], trace)]
    BY <1>5 DEF Pays
  <2> QED BY <1>3, <1>6, <2>1, PaidOnce
<1>9. Lawful
  BY <1>3, <1>4, <1>6, <1>8 DEF Lawful
<1>10. \A i \in DOMAIN p'.buf.buffer : i \in DOMAIN p.buf.buffer /\ p'.buf.buffer[i].id = p.buf.buffer[i].id
  BY <1>5 DEF Ended
<1>11. OneEach(p.buf)'
  BY <1>1, <1>10 DEF OneEach
<1>12. ASSUME NEW i \in DOMAIN p'.buf.buffer
       PROVE  ContextInv(p.buf.buffer[i])' /\ (env'.init = "none" => p'.buf.buffer[i].id # EmptyId)
  <2> DEFINE c == p.buf.buffer[i]
             d == p'.buf.buffer[i]
  <2>1. d.runtime_done_received => c.id = r \/ c.runtime_done_received
    BY <1>10, <1>5 DEF Ended
  <2>2. ContextInv(c) /\ (env.init = "none" => c.id # EmptyId)
    BY <1>10 DEF Inv, LedgerInv
  <2>3. d.id = c.id
    BY <1>10
  <2>4. d.id \in Owed' => Sendable(d)
    <3>1. CASE d.id \in Owed
      BY <1>10, <1>5, <2>2, <2>3, <3>1 DEF ContextInv, Ended
    <3>2. CASE d.id \notin Owed
      <4> SUFFICES ASSUME d.id \in Owed' PROVE Sendable(d)
        OBVIOUS
      <4>1. d.id = r /\ p'.sent # p.sent
        BY <1>8, <3>2
      <4>2. PICK k \in DOMAIN p'.buf.buffer : p'.buf.buffer[k].id = r /\ Sendable(p'.buf.buffer[k])
        BY <1>5, <4>1 DEF Pays
      <4>3. k = i
        BY <1>11, <4>1, <4>2 DEF OneEach
      <4> QED BY <4>2, <4>3
    <3> QED BY <3>1, <3>2
  <2> HIDE DEF c, d
  <2>5. d.id \in (env'.invoked \ env'.reported) \cup {EmptyId}
    BY <1>4, <2>2, <2>3 DEF ContextInv
  <2>6. d.runtime_done_received => d.id \in env'.done
    BY <1>4, <2>1, <2>2, <2>3 DEF ContextInv
  <2> QED BY <1>4, <2>2, <2>3, <2>4, <2>5, <2>6 DEF ContextInv, c, d
<1>13. LedgerInv'
  <2>1. p'.managed = p.managed
    BY <1>5 DEF Paused
  <2>2. Owed' \subseteq env'.done
    BY <1>4, <1>8 DEF Inv, LedgerInv
  <2> QED BY <1>3, <1>5, <1>8, <1>11, <1>12, <2>1, <2>2 DEF Inv, LedgerInv
<1>14. UsageInv'
  <2>1. /\ p'.managed = p.managed /\ p'.usage = p.usage /\ p'.usage_reports = p.usage_reports
        /\ p'.active_invocations = p.active_invocations
        /\ p'.monitoring = FALSE /\ p'.usage_reads = p.usage_reads \cup {r}
    BY <1>3, <1>5 DEF Paused
  <2>2. UsageOnDemand
    BY <1>3 DEF Inv, UsageInv
  <2>3. UsageOnDemand'
    BY <1>3, <1>4, <2>1, <2>2 DEF UsageOnDemand, Before
  <2>4. p'.monitoring \in BOOLEAN /\ ~p'.monitoring
    BY <2>1, Zenon
  <2> QED BY <1>3, <1>4, <2>1, <2>3, <2>4 DEF Inv, UsageInv
<1> QED BY <1>7, <1>9, <1>13, <1>14 DEF Inv

\* One active invocation less.
LEMMA ReportCounted ==
  ASSUME EnvInv, NEW r \in env.invoked \ env.reported
  PROVE  /\ Cardinality(env.invoked \ env.reported) \in Nat \ {0}
         /\ Cardinality(env.invoked \ (env.reported \cup {r})) = Cardinality(env.invoked \ env.reported) - 1
<1> DEFINE A == env.invoked \ env.reported
<1>1. IsFiniteSet(A)
  BY FS_Subset DEF EnvInv
<1>2. env.invoked \ (env.reported \cup {r}) = A \ {r} /\ r \in A
  OBVIOUS
<1> HIDE DEF A
<1>3. Cardinality(A \ {r}) = Cardinality(A) - 1
  BY <1>1, <1>2, FS_RemoveElement
<1>4. Cardinality(A) \in Nat /\ Cardinality(A) # 0
  BY <1>1, <1>2, FS_CardinalityType, FS_EmptySet
<1> QED BY <1>2, <1>3, <1>4 DEF A

\* platform.report.
LEMMA ReportStep ==
  ASSUME Inv, NEW r \in Requests, PlatformReport(r)
  PROVE  Inv' /\ Lawful
<1>1. /\ Shape(p) /\ OneEach(p.buf) /\ DOMAIN env = EnvFields /\ p.managed \in BOOLEAN
      /\ p.monitoring \in BOOLEAN /\ p.active_invocations \in Nat
  BY DEF Inv, EnvInv, LedgerInv, UsageInv
<1>2. PICK status, at_limit : p' = on_platform_report(p, r, status, at_limit, r = 1)
  BY DEF PlatformReport
<1>3. /\ agent' = agent /\ due' = due /\ sampler' = sampler /\ ~env.stopped
      /\ env' = [env EXCEPT !.reported = @ \cup {r}, !.done = @ \cup {r},
                            !.complete = @ \cup ({r} \cap (Through \ env.done))]
      /\ r \in (IF p.managed THEN env.invoked ELSE env.done) \ env.reported
  BY DEF PlatformReport, Live
<1>4. /\ DOMAIN env' = EnvFields /\ env'.invoked = env.invoked /\ env'.done = env.done \cup {r}
      /\ env'.reported = env.reported \cup {r} /\ env'.sampled = env.sampled /\ env'.stopped = env.stopped
      /\ env'.init = env.init /\ env'.straddled = env.straddled
  BY <1>1, <1>3 DEF EnvFields
<1>5. Shape(p') /\ Discounted(p, p') /\ Closed(p.buf, p'.buf, r) /\ PaysAtReport(p, p', r)
  BY <1>1, <1>2, ReportEffect
<1>6. r \in env.invoked \ env.reported /\ (p.managed => r \notin env.done)
  BY <1>3 DEF Inv, EnvInv, LedgerInv
<1>7. EnvInv'
  BY <1>4, <1>6 DEF Inv, EnvInv
<1>8. /\ DOMAIN p'.sent = Requests
      /\ \A q \in Requests : p'.sent[q] = <<>> \/ \E t : p'.sent[q] = <<t>>
      /\ DueNow' = DueNow /\ Paid \subseteq Paid' /\ Owed \subseteq Owed' /\ Owed' \subseteq Owed \cup {r}
      /\ Paid' \cap DueNow' = {}
  <2>1. CASE p'.sent = p.sent
    <3>1. Paid' = Paid /\ DueNow' = DueNow /\ Owed' = Owed
      BY <1>3, <2>1 DEF Paid, DueNow, Owed
    <3> QED BY <2>1, <3>1 DEF Inv, LedgerInv
  <2>2. CASE p'.sent # p.sent
    <3>1. /\ p.managed
          /\ \E trace : p'.sent = [p.sent EXCEPT ![r] = Append(p.sent[r], trace)]
      BY <1>5, <2>2 DEF PaysAtReport
    <3>2. r \notin Owed
      BY <1>6, <3>1 DEF Inv, LedgerInv
    <3> QED BY <1>3, <3>1, <3>2, PaidOnce
  <2> QED BY <2>1, <2>2
<1>9. Lawful
  BY <1>4, <1>6, <1>8 DEF Lawful
<1>10. OneEach(p.buf)'
  BY <1>5 DEF Closed
<1>11. ASSUME NEW j \in DOMAIN p'.buf.buffer
       PROVE  ContextInv(p.buf.buffer[j])' /\ (env'.init = "none" => p'.buf.buffer[j].id # EmptyId)
  <2>1. PICK i \in DOMAIN p.buf.buffer :
          /\ p'.buf.buffer[j].id # r /\ p'.buf.buffer[j].id = p.buf.buffer[i].id
          /\ Sendable(p.buf.buffer[i]) => Sendable(p'.buf.buffer[j])
          /\ p'.buf.buffer[j].runtime_done_received => p.buf.buffer[i].runtime_done_received
    BY <1>5 DEF Closed
  <2>2. ContextInv(p.buf.buffer[i]) /\ (env.init = "none" => p.buf.buffer[i].id # EmptyId)
    BY DEF Inv, LedgerInv
  <2> QED BY <1>4, <1>8, <2>1, <2>2 DEF ContextInv
<1>12. LedgerInv'
  <2>1. p'.managed = p.managed
    BY <1>5 DEF Discounted
  <2>2. Owed' \subseteq env'.done /\ (p.managed => env'.done = env'.reported)
    BY <1>4, <1>8 DEF Inv, LedgerInv
  <2> QED BY <1>3, <1>5, <1>8, <1>10, <1>11, <2>1, <2>2 DEF Inv, LedgerInv
<1>13. UsageInv'
  <2>1. /\ p'.managed = p.managed /\ p'.usage = p.usage /\ p'.usage_reports = p.usage_reports
        /\ p'.usage_reads = p.usage_reads
    BY <1>5 DEF Discounted
  <2>2. CASE p.managed
    <3>1. UsageManaged
      BY <2>2 DEF Inv, UsageInv
    <3>2. /\ p'.active_invocations = IF p.active_invocations > 0 THEN p.active_invocations - 1
                                     ELSE p.active_invocations
          /\ p'.monitoring = (p'.active_invocations # 0 /\ p.monitoring)
      BY <1>5, <2>2, Zenon DEF Discounted
    <3>3. p'.active_invocations \in Nat
      BY <1>1, <3>2
    <3>4. p'.monitoring \in BOOLEAN /\ (p'.monitoring <=> p'.active_invocations # 0 /\ p.monitoring)
      BY <3>2, Zenon
    <3>5. PROC_METRICS => /\ p.active_invocations = Cardinality(env.invoked \ env.reported)
                          /\ p'.active_invocations = Cardinality(env'.invoked \ env'.reported)
                          /\ p.active_invocations # 0
      <4> SUFFICES ASSUME PROC_METRICS
                   PROVE  /\ p.active_invocations = Cardinality(env.invoked \ env.reported)
                          /\ p'.active_invocations = Cardinality(env'.invoked \ env'.reported)
                          /\ p.active_invocations # 0
        OBVIOUS
      <4>1. p.active_invocations = Cardinality(env.invoked \ env.reported)
        BY <3>1 DEF UsageManaged
      <4>2. /\ Cardinality(env.invoked \ env.reported) \in Nat \ {0}
            /\ Cardinality(env.invoked \ (env.reported \cup {r})) = Cardinality(env.invoked \ env.reported) - 1
        BY <1>6, ReportCounted DEF Inv
      <4>3. p'.active_invocations = p.active_invocations - 1
        BY <3>2, <4>1, <4>2
      <4> QED BY <1>4, <4>1, <4>2, <4>3
    <3>6. PROC_METRICS /\ ~env'.stopped => (p'.monitoring <=> p'.active_invocations # 0)
      BY <1>4, <3>1, <3>4, <3>5, Zenon DEF UsageManaged
    <3>7. env'.stopped => ~p'.monitoring
      BY <1>4, <3>1, <3>4, Zenon DEF UsageManaged
    <3>8. UsageManaged'
      BY <1>3, <1>4, <2>1, <3>1, <3>5, <3>6, <3>7 DEF UsageManaged
    <3>9. ~PROC_METRICS => ~p'.monitoring /\ p'.usage = {}
      BY <2>1, <3>4, Zenon DEF Inv, UsageInv
    <3> QED BY <1>3, <1>4, <2>1, <2>2, <3>3, <3>4, <3>8, <3>9 DEF Inv, UsageInv
  <2>3. CASE ~p.managed
    <3>1. p'.monitoring = p.monitoring /\ p'.active_invocations \in Nat
      BY <1>1, <1>5, <2>3 DEF Discounted
    <3>2. UsageOnDemand'
      BY <1>3, <1>4, <2>1, <2>3 DEF Inv, UsageInv, UsageOnDemand, Before
    <3> QED BY <1>3, <1>4, <2>1, <2>3, <3>1, <3>2 DEF Inv, UsageInv
  <2> QED BY <1>1, <2>2, <2>3
<1> QED BY <1>7, <1>9, <1>12, <1>13 DEF Inv

-----------------------------------------------------------------------------
(* Steps of the trace agent, and of the usage metrics *)

\* Two sequences, one after the other.
LEMMA ConcatFact ==
  ASSUME NEW a, IsSequence(a), NEW b, IsSequence(b)
  PROVE  /\ IsSequence(a \o b)
         /\ \A i \in DOMAIN (a \o b) :
              \/ i \in DOMAIN a /\ (a \o b)[i] = a[i]
              \/ i - Len(a) \in DOMAIN b /\ (a \o b)[i] = b[i - Len(a)] /\ i \notin DOMAIN a
         /\ Ids(a \o b) = Ids(a) \cup Ids(b)
         /\ Len(a) \in Nat /\ DOMAIN (a \o b) \subseteq Nat
<1> DEFINE S == Elems(a) \cup Elems(b)
<1>1. /\ Len(a) \in Nat /\ DOMAIN a = 1 .. Len(a) /\ Len(b) \in Nat /\ DOMAIN b = 1 .. Len(b)
      /\ a \in Seq(Elems(a)) /\ b \in Seq(Elems(b))
  BY SequenceFact DEF IsSequence, Elems
<1>2. a \in Seq(S) /\ b \in Seq(S)
  <2>1. /\ \A i \in DOMAIN a : a[i] \in S
        /\ \A i \in DOMAIN b : b[i] \in S
    BY DEF Elems
  <2> HIDE DEF S
  <2> QED BY <1>1, <2>1
<1> HIDE DEF S
<1>3. /\ a \o b \in Seq(S) /\ DOMAIN (a \o b) = 1 .. Len(a) + Len(b)
      /\ \A i \in 1 .. Len(a) + Len(b) : (a \o b)[i] = IF i <= Len(a) THEN a[i] ELSE b[i - Len(a)]
  BY <1>1, <1>2
<1>4. IsSequence(a \o b)
  BY <1>3, SequenceFact
<1> DEFINE o == a \o b
<1>5. /\ DOMAIN o = 1 .. Len(a) + Len(b)
      /\ \A i \in 1 .. Len(a) + Len(b) : o[i] = IF i <= Len(a) THEN a[i] ELSE b[i - Len(a)]
  BY <1>3
<1> HIDE DEF o
<1>6. \A i \in DOMAIN o :
        \/ i \in DOMAIN a /\ o[i] = a[i]
        \/ i - Len(a) \in DOMAIN b /\ o[i] = b[i - Len(a)] /\ i \notin DOMAIN a
  BY <1>1, <1>5
<1>7. \A i \in DOMAIN a : i \in DOMAIN o /\ o[i] = a[i]
  BY <1>1, <1>5
<1>8. ASSUME NEW i \in DOMAIN b PROVE i + Len(a) \in DOMAIN o /\ o[i + Len(a)] = b[i]
  <2>1. i + Len(a) \in 1 .. Len(a) + Len(b) /\ ~(i + Len(a) <= Len(a)) /\ (i + Len(a)) - Len(a) = i
    BY <1>1
  <2> QED BY <1>5, <2>1
<1>9. Ids(o) = Ids(a) \cup Ids(b)
  BY <1>6, <1>7, <1>8 DEF Ids
<1>10. DOMAIN o \subseteq Nat
  BY <1>1, <1>5
<1> QED BY <1>1, <1>4, <1>6, <1>9, <1>10, Zenon DEF o

\* The usage metrics when nothing they depend on changes.
LEMMA SameUsageStep ==
  ASSUME UsageInv, SameUsage(p, p'), env' = env, sampler' = sampler
  PROVE  UsageInv'
<1>1. UsageManaged => UsageManaged'
  BY DEF UsageManaged, SameUsage, Calm, Alert
<1>2. UsageOnDemand => UsageOnDemand'
  BY DEF UsageOnDemand, SameUsage, Calm, Alert, Before
<1> QED BY <1>1, <1>2 DEF UsageInv, SameUsage, Calm, Alert

\* The trace agent hands back the list it was given, with what it guessed.
LEMMA GuessedFact ==
  ASSUME NEW infos, IsSequence(infos), NEW spans
  PROVE  IsSequence([i \in DOMAIN infos |-> [infos[i] EXCEPT !.needs_trace_id = @ /\ ~spans]])
<1> DEFINE guessed == [i \in DOMAIN infos |-> [infos[i] EXCEPT !.needs_trace_id = @ /\ ~spans]]
           Guess(x) == [x EXCEPT !.needs_trace_id = @ /\ ~spans]
           S == {Guess(infos[i]) : i \in DOMAIN infos}
<1>1. Len(infos) \in Nat /\ DOMAIN infos = 1 .. Len(infos)
  BY SequenceFact DEF IsSequence
<1>2. guessed = [i \in 1 .. Len(infos) |-> Guess(infos[i])]
  BY <1>1, Zenon
<1>3. \A i \in 1 .. Len(infos) : Guess(infos[i]) \in S
  BY <1>1
<1>4. IsSequence(guessed)
  <2> HIDE DEF S, Guess, guessed
  <2>1. guessed \in Seq(S)
    BY <1>1, <1>2, <1>3
  <2> QED BY <2>1, SequenceFact
<1> QED BY <1>4

\* UpdateReparenting makes spans due, each once.
LEMMA ReparentingStep ==
  ASSUME Inv, UpdateReparenting
  PROVE  Inv' /\ Lawful /\ Keeps(p, p')
<1>1. /\ Shape(p) /\ OneEach(p.buf) /\ IsSequence(agent.infos) /\ IsSequence(due)
      /\ BufferShape(p.buf)
  BY DEF Inv, LedgerInv, Shape
<1>2. PICK spans \in BOOLEAN :
        LET guessed == [i \in DOMAIN agent.infos |->
                         [agent.infos[i] EXCEPT !.needs_trace_id = @ /\ ~spans]]
            result == update_reparenting(p.buf, guessed)
        IN p' = [p EXCEPT !.buf = result.b] /\ due' = due \o result.due
  BY DEF UpdateReparenting
<1> DEFINE guessed == [i \in DOMAIN agent.infos |->
                        [agent.infos[i] EXCEPT !.needs_trace_id = @ /\ ~spans]]
           n == update_reparenting(p.buf, guessed).b
           q == update_reparenting(p.buf, guessed).due
<1>3. /\ p' = [p EXCEPT !.buf = n] /\ due' = due \o q /\ env' = env /\ agent'.infos = <<>>
      /\ sampler' = sampler
  BY <1>2 DEF UpdateReparenting
<1>4. IsSequence(guessed)
  BY <1>1, GuessedFact
<1>5. MakesDue(p.buf, n, q)
  <2> HIDE DEF guessed
  <2> QED BY <1>1, <1>4, UpdateReparentingEffect
<1> HIDE DEF n, q
<1>6. Keeps(p, p') /\ p'.buf = n /\ SameUsage(p, p') /\ p'.sent = p.sent /\ Shape(p)'
  <2>1. Keeps(p, p')
    BY <1>1, <1>3, <1>5, KeepsBuffer DEF MakesDue
  <2>2. p'.buf = n
    BY <1>1, <1>3 DEF Shape, ProcessorFields
  <2> QED BY <2>1, <2>2 DEF Keeps
<1>7. /\ \A i \in DOMAIN q :
           \E k \in DOMAIN p.buf.buffer :
             /\ q[i].id = p.buf.buffer[k].id /\ p.buf.buffer[k].runtime_done_received
             /\ ~Sendable(p.buf.buffer[k]) /\ Sendable(n.buffer[k])
      /\ \A i, j \in DOMAIN q : q[i].id = q[j].id => i = j
      /\ IsSequence(q) /\ Advances(p.buf, n)
  BY <1>5 DEF MakesDue
<1> DEFINE Fresh == Ids(q)
<1>8. Paid' = Paid /\ DueNow' = DueNow \cup Fresh /\ Owed' = Owed \cup Fresh
  <2>1. Paid' = Paid
    BY <1>6 DEF Paid
  <2>2. DueNow' = DueNow \cup Fresh
    <3>1. Ids(due \o q) = Ids(due) \cup Ids(q)
      BY <1>1, <1>7, ConcatFact, Zenon
    <3> QED BY <1>3, <3>1, Zenon DEF DueNow
  <2> QED BY <2>1, <2>2 DEF Owed
<1>9. \A i \in DOMAIN q : q[i].id \in env.done \ env.reported /\ q[i].id \notin Owed
  <2> SUFFICES ASSUME NEW i \in DOMAIN q PROVE q[i].id \in env.done \ env.reported /\ q[i].id \notin Owed
    OBVIOUS
  <2>1. PICK k \in DOMAIN p.buf.buffer :
          /\ q[i].id = p.buf.buffer[k].id /\ p.buf.buffer[k].runtime_done_received
          /\ ~Sendable(p.buf.buffer[k])
    BY <1>7
  <2>2. ContextInv(p.buf.buffer[k])
    BY DEF Inv, LedgerInv
  <2>3. EmptyId \notin env.done
    BY EmptyIdFact DEF Inv, EnvInv
  <2> QED BY <2>1, <2>2, <2>3 DEF ContextInv
<1>10. Fresh \subseteq env.done \ env.reported /\ Fresh \cap Owed = {}
  BY <1>9 DEF Ids
<1>11. Lawful
  BY <1>3, <1>8, <1>10 DEF Lawful, Inv, EnvInv
<1>12. IsSequence(due') /\ \A i, j \in DOMAIN due' : due'[i].id = due'[j].id => i = j
  <2>1. /\ IsSequence(due')
        /\ \A i \in DOMAIN due' :
             \/ i \in DOMAIN due /\ due'[i] = due[i]
             \/ i - Len(due) \in DOMAIN q /\ due'[i] = q[i - Len(due)]
        /\ Len(due) \in Nat /\ DOMAIN due' \subseteq Nat
    <3> DEFINE o == due \o q
    <3>1. /\ IsSequence(o)
          /\ \A i \in DOMAIN o :
               \/ i \in DOMAIN due /\ o[i] = due[i]
               \/ i - Len(due) \in DOMAIN q /\ o[i] = q[i - Len(due)] /\ i \notin DOMAIN due
          /\ Len(due) \in Nat /\ DOMAIN o \subseteq Nat
      BY <1>1, <1>7, ConcatFact, Zenon
    <3>2. due' = o
      BY <1>3
    <3> HIDE DEF o
    <3> QED BY <3>1, <3>2
  <2>2. \A i \in DOMAIN due, j \in DOMAIN q : due[i].id # q[j].id
    BY <1>9 DEF Owed, DueNow, Ids
  <2>3. \A i, j \in DOMAIN due : due[i].id = due[j].id => i = j
    BY DEF Inv, LedgerInv
  <2>4. \A i, j \in DOMAIN due' : i - Len(due) = j - Len(due) => i = j
    BY <2>1
  <2> QED BY <1>7, <2>1, <2>2, <2>3, <2>4
<1>13. ASSUME NEW i \in DOMAIN p'.buf.buffer
       PROVE  /\ ContextInv(p.buf.buffer[i])' /\ i \in DOMAIN p.buf.buffer
              /\ p'.buf.buffer[i].id = p.buf.buffer[i].id
  <2>1. i \in DOMAIN p.buf.buffer /\ Grows(p.buf.buffer[i], p'.buf.buffer[i])
    BY <1>6, <1>7 DEF Advances
  <2>2. ContextInv(p.buf.buffer[i])
    BY <2>1 DEF Inv, LedgerInv
  <2>3. p'.buf.buffer[i].id \in Fresh => Sendable(p'.buf.buffer[i])
    <3> SUFFICES ASSUME p'.buf.buffer[i].id \in Fresh PROVE Sendable(p'.buf.buffer[i])
      OBVIOUS
    <3>1. PICK k \in DOMAIN p.buf.buffer :
            p'.buf.buffer[i].id = p.buf.buffer[k].id /\ Sendable(n.buffer[k])
      BY <1>7 DEF Ids
    <3>2. k = i
      BY <1>1, <2>1, <3>1 DEF OneEach, Grows
    <3> QED BY <1>6, <3>1, <3>2
  <2> HIDE DEF Fresh
  <2> QED BY <1>3, <1>8, <2>1, <2>2, <2>3 DEF ContextInv, Grows
<1>14. LedgerInv'
  <2>1. OneEach(p.buf)'
    BY <1>1, <1>13 DEF OneEach
  <2>2. env'.init = "none" => \A i \in DOMAIN p'.buf.buffer : p'.buf.buffer[i].id # EmptyId
    BY <1>3, <1>13 DEF Inv, LedgerInv
  <2>3. IsSequence(agent'.infos)
    <3>1. <<>> \in Seq({})
      OBVIOUS
    <3> QED BY <1>3, <3>1, SequenceFact
  <2>4. Paid' \cap DueNow' = {} /\ Owed' \subseteq env'.done
    BY <1>3, <1>8, <1>10 DEF Inv, LedgerInv, Owed
  <2>5. p'.managed = p.managed /\ p'.sent = p.sent
    BY <1>6 DEF SameUsage, Calm, Alert
  <2> QED BY <1>3, <1>6, <1>12, <1>13, <2>1, <2>2, <2>3, <2>4, <2>5 DEF Inv, LedgerInv
<1>15. UsageInv'
  BY <1>3, <1>6, SameUsageStep DEF Inv
<1>16. EnvInv'
  BY <1>3 DEF Inv, EnvInv
<1> QED BY <1>6, <1>11, <1>14, <1>15, <1>16 DEF Inv

\* SendCtxSpans pays what is due first.
LEMMA SendStep ==
  ASSUME Inv, SendCtxSpans
  PROVE  Inv' /\ Lawful
<1> DEFINE c == Head(due)
           q == c.id
<1>1. Shape(p) /\ IsSequence(due) /\ due # <<>> /\ DOMAIN p.sent = Requests
  BY DEF Inv, LedgerInv, SendCtxSpans
<1>2. /\ due' = Tail(due) /\ env' = env /\ agent' = agent /\ p' = send_ctx_spans(p, c)
      /\ sampler' = sampler
  BY DEF SendCtxSpans
<1>3. /\ IsSequence(Tail(due)) /\ Len(due) \in Nat \ {0} /\ DOMAIN due = 1 .. Len(due)
      /\ DOMAIN Tail(due) = 1 .. Len(due) - 1
      /\ \A i \in 1 .. Len(due) - 1 : Tail(due)[i] = due[i + 1]
      /\ c = due[1]
  BY <1>1, TailFact
<1> HIDE DEF c
<1>4. /\ DOMAIN p' = ProcessorFields /\ SameUsage(p, p') /\ p'.buf = p.buf
      /\ p'.sent = [p.sent EXCEPT ![q] = Append(p.sent[q], c.trace)]
  BY <1>1, <1>2 DEF send_ctx_spans, Shape, ProcessorFields, SameUsage, Calm, Alert
<1>5. Shape(p')
  BY <1>1, <1>4 DEF Shape
<1>6. \A i, j \in DOMAIN due : due[i].id = due[j].id => i = j
  BY DEF Inv, LedgerInv
<1>7. q \in DueNow /\ q \in Requests /\ q \notin Paid
  <2>1. q \in DueNow
    BY <1>3 DEF DueNow, Ids
  <2> QED BY <2>1 DEF Inv, EnvInv, LedgerInv, Owed
<1>8. DueNow = DueNow' \cup {q} /\ q \notin DueNow'
  <2>1. DueNow' = {due[i + 1].id : i \in 1 .. Len(due) - 1}
    BY <1>2, <1>3 DEF DueNow, Ids
  <2>2. q \notin DueNow'
    BY <1>3, <1>6, <2>1
  <2>3. DueNow = DueNow' \cup {q}
    <3>1. ASSUME NEW i \in DOMAIN due PROVE due[i].id \in DueNow' \cup {q}
      <4>1. CASE i = 1
        BY <1>3, <4>1
      <4>2. CASE i # 1
        <5>1. i - 1 \in 1 .. Len(due) - 1 /\ (i - 1) + 1 = i
          BY <1>3, <4>2
        <5> QED BY <2>1, <5>1
      <4> QED BY <4>1, <4>2
    <3>2. \A i \in 1 .. Len(due) - 1 : i + 1 \in DOMAIN due
      BY <1>3
    <3> QED BY <1>7, <2>1, <3>1, <3>2 DEF DueNow, Ids
  <2> QED BY <2>2, <2>3
<1>9. \A i, j \in DOMAIN due' : due'[i].id = due'[j].id => i = j
  <2> SUFFICES ASSUME NEW i \in DOMAIN due', NEW j \in DOMAIN due', due'[i].id = due'[j].id PROVE i = j
    OBVIOUS
  <2>1. i + 1 \in DOMAIN due /\ j + 1 \in DOMAIN due /\ i \in Int /\ j \in Int
    BY <1>2, <1>3
  <2>2. due[i + 1].id = due[j + 1].id
    BY <1>2, <1>3
  <2>3. i + 1 = j + 1
    BY <1>6, <2>1, <2>2
  <2> QED BY <2>1, <2>3
<1>10. /\ p.sent[q] = <<>> /\ DOMAIN p'.sent = Requests /\ p'.sent[q] = <<c.trace>>
       /\ \A r \in Requests : r # q => p'.sent[r] = p.sent[r]
  <2>1. p.sent[q] = <<>>
    BY <1>7 DEF Paid
  <2>2. Append(<<>>, c.trace) = <<c.trace>>
    OBVIOUS
  <2> QED BY <1>1, <1>4, <1>7, <2>1, <2>2
<1>11. Paid' = Paid \cup {q}
  <2>1. <<c.trace>> # <<>>
    OBVIOUS
  <2> QED BY <1>7, <1>10, <2>1 DEF Paid
<1>12. Owed' = Owed
  BY <1>8, <1>11 DEF Owed
<1>13. Lawful
  BY <1>2, <1>11, <1>12 DEF Lawful
<1>14. LedgerInv'
  <2>1. \A r \in Requests : p'.sent[r] = <<>> \/ \E t : p'.sent[r] = <<t>>
    BY <1>10 DEF Inv, LedgerInv
  <2>2. ASSUME NEW i \in DOMAIN p'.buf.buffer PROVE ContextInv(p.buf.buffer[i])'
    <3>1. ContextInv(p.buf.buffer[i])
      BY <1>4 DEF Inv, LedgerInv
    <3> QED BY <1>2, <1>4, <1>12, <3>1 DEF ContextInv
  <2>3. Paid' \cap DueNow' = {}
    BY <1>8, <1>11 DEF Inv, LedgerInv
  <2>4. IsSequence(due') /\ p'.managed = p.managed /\ OneEach(p.buf)'
    BY <1>2, <1>3, <1>4 DEF SameUsage, Calm, Alert, Inv, LedgerInv
  <2>5. env'.init = "none" => \A i \in DOMAIN p'.buf.buffer : p'.buf.buffer[i].id # EmptyId
    BY <1>2, <1>4 DEF Inv, LedgerInv
  <2> QED BY <1>2, <1>5, <1>9, <1>10, <1>12, <2>1, <2>2, <2>3, <2>4, <2>5 DEF Inv, LedgerInv
<1>15. UsageInv' /\ EnvInv'
  BY <1>2, <1>4, SameUsageStep DEF Inv, EnvInv
<1> QED BY <1>13, <1>14, <1>15 DEF Inv

\* A step that changes neither contexts, nor spans, nor the invocations.
LEMMA UsageKeepsLedger ==
  ASSUME Inv, p'.buf = p.buf, p'.sent = p.sent, p'.managed = p.managed, DOMAIN p' = ProcessorFields,
         DOMAIN env' = EnvFields, env'.invoked = env.invoked, env'.done = env.done,
         env'.reported = env.reported, env'.init = env.init, agent' = agent, due' = due
  PROVE  LedgerInv' /\ EnvInv' /\ Lawful
<1>1. Paid' = Paid /\ DueNow' = DueNow /\ Owed' = Owed
  BY DEF Paid, DueNow, Owed
<1>2. ASSUME NEW i \in DOMAIN p'.buf.buffer PROVE ContextInv(p.buf.buffer[i])'
  <2>1. ContextInv(p.buf.buffer[i])
    BY DEF Inv, LedgerInv
  <2> QED BY <1>1, <2>1 DEF ContextInv
<1>3. Shape(p)' /\ OneEach(p.buf)'
  BY DEF Inv, LedgerInv, Shape
<1>4. LedgerInv'
  BY <1>1, <1>2, <1>3 DEF Inv, LedgerInv
<1>5. EnvInv'
  BY DEF Inv, EnvInv
<1> QED BY <1>1, <1>4, <1>5 DEF Lawful

\* The sampling task ticks and takes a sample: the peaks stay as they are, and a
\* sample is of the invocation that runs.
LEMMA UsageTickStep ==
  ASSUME Inv, UsageTick \/ UsageSample
  PROVE  Inv' /\ Lawful
<1>1. Shape(p) /\ DOMAIN env = EnvFields /\ p.managed \in BOOLEAN
  BY DEF Inv, EnvInv, LedgerInv
<1>2. p' = p /\ agent' = agent /\ due' = due
  BY DEF UsageTick, UsageSample
<1>3. /\ DOMAIN env' = EnvFields /\ env'.invoked = env.invoked /\ env'.done = env.done
      /\ env'.reported = env.reported /\ env'.sampled = env.sampled /\ env'.straddled = env.straddled
      /\ env'.stopped = env.stopped /\ env'.init = env.init
  BY <1>1 DEF EnvFields, UsageTick, UsageSample
<1>4. sampler'.phase # "idle" /\ (sampler'.seen = {} \/ sampler'.seen = Running)
  BY DEF UsageTick, UsageSample
<1>5. PROC_METRICS
  <2>1. CASE UsageTick
    <3>1. p.monitoring
      BY <2>1 DEF UsageTick
    <3> QED BY <3>1, Zenon DEF Inv, UsageInv
  <2>2. CASE UsageSample
    <3>1. sampler.phase # "idle"
      BY <2>2 DEF UsageSample
    <3> QED BY <3>1, Zenon DEF Inv, UsageInv
  <2> QED BY <2>1, <2>2
<1>6. LedgerInv' /\ EnvInv' /\ Lawful
  BY <1>1, <1>2, <1>3, UsageKeepsLedger DEF Shape
<1>7. UsageInv'
  <2>1. UsageManaged => UsageManaged'
    BY <1>2, <1>3 DEF UsageManaged
  <2>2. CASE p.managed
    BY <1>2, <1>3, <1>4, <1>5, <2>1, <2>2 DEF Inv, UsageInv
  <2>3. CASE ~p.managed
    <3>1. UsageOnDemand
      BY <2>3 DEF Inv, UsageInv
    <3>2. Running = {r \in env.invoked : \A q \in env.invoked : q <= r}
      BY <2>3 DEF Running
    <3>3. UsageOnDemand'
      BY <1>2, <1>3, <1>4, <3>1, <3>2 DEF UsageOnDemand, Before
    <3> QED BY <1>2, <1>3, <1>4, <1>5, <2>3, <3>3 DEF Inv, UsageInv
  <2> QED BY <1>1, <2>2, <2>3
<1> QED BY <1>6, <1>7 DEF Inv

\* It sends the sample.
LEMMA UsageUpdateStep ==
  ASSUME Inv, UsageUpdate
  PROVE  Inv' /\ Lawful
<1>1. /\ Shape(p) /\ DOMAIN env = EnvFields /\ p.managed \in BOOLEAN /\ env.stopped \in BOOLEAN
      /\ sampler.phase # "idle"
  BY DEF Inv, EnvInv, LedgerInv, UsageInv, UsageUpdate
<1>2. /\ p' = [p EXCEPT !.usage = @ \cup sampler.seen] /\ agent' = agent /\ due' = due
      /\ sampler'.seen = {} /\ sampler'.phase = "idle"
      /\ env' = [env EXCEPT !.sampled = IF env.stopped THEN @ ELSE @ \cup sampler.seen]
  BY DEF UsageUpdate
<1>3. /\ DOMAIN p' = ProcessorFields /\ p'.buf = p.buf /\ p'.sent = p.sent /\ p'.managed = p.managed
      /\ p'.usage = p.usage \cup sampler.seen /\ p'.usage_reads = p.usage_reads
      /\ p'.usage_reports = p.usage_reports /\ p'.monitoring = p.monitoring
      /\ p'.active_invocations = p.active_invocations
  BY <1>1, <1>2 DEF Shape, ProcessorFields
<1>4. /\ DOMAIN env' = EnvFields /\ env'.invoked = env.invoked /\ env'.done = env.done
      /\ env'.reported = env.reported /\ env'.straddled = env.straddled
      /\ env'.stopped = env.stopped /\ env'.init = env.init
      /\ env'.sampled = IF env.stopped THEN env.sampled ELSE env.sampled \cup sampler.seen
  BY <1>1, <1>2 DEF EnvFields
<1>5. env'.sampled \subseteq env.sampled \cup sampler.seen /\ (env.stopped => env'.sampled = env.sampled)
  BY <1>4
<1>6. LedgerInv' /\ EnvInv' /\ Lawful
  BY <1>2, <1>3, <1>4, UsageKeepsLedger
<1>7. PROC_METRICS
  BY <1>1, Zenon DEF Inv, UsageInv
<1>8. UsageInv'
  <2>2. CASE p.managed
    <3>1. UsageManaged
      BY <2>2 DEF Inv, UsageInv
    <3>2. \A i \in DOMAIN p.usage_reports[None] : env'.sampled \subseteq p.usage_reports[None][i]
      <4>1. CASE env.stopped
        BY <1>5, <3>1, <4>1 DEF UsageManaged
      <4>2. CASE ~env.stopped
        <5>1. p.usage_reports[None] = <<>>
          BY <3>1, <4>2 DEF UsageManaged
        <5>2. DOMAIN <<>> = {}
          OBVIOUS
        <5> QED BY <5>1, <5>2
      <4> QED BY <4>1, <4>2
    <3>3. env'.sampled \subseteq p'.usage
      BY <1>3, <1>5, <3>1 DEF UsageManaged
    <3>4. UsageManaged'
      BY <1>3, <1>4, <3>1, <3>2, <3>3 DEF UsageManaged
    <3> QED BY <1>2, <1>3, <1>4, <1>7, <2>2, <3>4 DEF Inv, UsageInv
  <2>3. CASE ~p.managed
    <3>1. UsageOnDemand
      BY <2>3 DEF Inv, UsageInv
    <3>2. env'.sampled \cup sampler'.seen \subseteq env'.invoked
      BY <1>2, <1>4, <1>5, <3>1 DEF UsageOnDemand
    <3>3. \A u \in p'.usage \cup sampler'.seen, q \in env'.invoked \ env'.straddled : q <= u
      BY <1>2, <1>3, <1>4, <3>1 DEF UsageOnDemand
    <3>4. \A u \in env'.sampled : (\A q \in env'.invoked : q <= u) => u \in p'.usage
      BY <1>3, <1>4, <1>5, <3>1 DEF UsageOnDemand
    <3>5. UsageOnDemand'
      BY <1>3, <1>4, <3>1, <3>2, <3>3, <3>4 DEF UsageOnDemand, Before
    <3> QED BY <1>2, <1>3, <1>4, <1>7, <2>3, <3>5 DEF Inv, UsageInv
  <2> QED BY <1>1, <2>2, <2>3
<1> QED BY <1>6, <1>8 DEF Inv

\* The task that reads the peaks.
LEMMA ReadUsageStep ==
  ASSUME Inv, NEW r \in Requests \cup {None}, ReadUsage(r)
  PROVE  Inv' /\ Lawful
<1>1. /\ Shape(p) /\ DOMAIN env = EnvFields /\ p.managed \in BOOLEAN
      /\ DOMAIN p.usage_reports = Requests \cup {None}
      /\ \A s \in Requests \cup {None} : IsSequence(p.usage_reports[s])
  BY DEF Inv, EnvInv, LedgerInv, UsageInv
<1>2. /\ p' = [p EXCEPT !.usage_reads = @ \ {r}, !.usage_reports[r] = Append(@, p.usage)]
      /\ agent' = agent /\ due' = due /\ env' = env /\ sampler' = sampler /\ r \in p.usage_reads
  BY DEF ReadUsage
<1>3. /\ DOMAIN p' = ProcessorFields /\ p'.buf = p.buf /\ p'.sent = p.sent /\ p'.managed = p.managed
      /\ p'.usage = p.usage /\ p'.usage_reads = p.usage_reads \ {r}
      /\ p'.usage_reports = [p.usage_reports EXCEPT ![r] = Append(p.usage_reports[r], p.usage)]
      /\ p'.monitoring = p.monitoring /\ p'.active_invocations = p.active_invocations
  BY <1>1, <1>2 DEF Shape, ProcessorFields
<1>4. LedgerInv' /\ EnvInv' /\ Lawful
  BY <1>1, <1>2, <1>3, UsageKeepsLedger
<1> DEFINE old == p.usage_reports[r]
<1>5. /\ DOMAIN p'.usage_reports = Requests \cup {None} /\ p'.usage_reports[r] = Append(old, p.usage)
      /\ \A s \in Requests \cup {None} : s # r => p'.usage_reports[s] = p.usage_reports[s]
  BY <1>1, <1>3
<1>6. /\ IsSequence(Append(old, p.usage)) /\ DOMAIN Append(old, p.usage) = 1 .. Len(old) + 1
      /\ \A i \in DOMAIN old : Append(old, p.usage)[i] = old[i]
      /\ Append(old, p.usage)[Len(old) + 1] = p.usage
      /\ Len(old) \in Nat /\ DOMAIN old = 1 .. Len(old)
  BY <1>1, AppendFact
<1>7. ASSUME NEW i \in DOMAIN p'.usage_reports[r]
      PROVE  p'.usage_reports[r][i] = p.usage \/ (i \in DOMAIN old /\ p'.usage_reports[r][i] = old[i])
  <2>1. i = Len(old) + 1 \/ i \in DOMAIN old
    BY <1>5, <1>6, <1>7
  <2> QED BY <1>5, <1>6, <2>1
<1>8. \A s \in Requests \cup {None} : IsSequence(p'.usage_reports[s])
  BY <1>1, <1>5, <1>6
<1> HIDE DEF old
<1>9. EmptyId \notin Requests /\ EmptyId = None
  BY EmptyIdFact DEF EmptyId, None
<1>10. UsageInv'
  <2>1. CASE p.managed
    <3>1. UsageManaged
      BY <2>1 DEF Inv, UsageInv
    <3>2. r = None /\ env.stopped
      BY <1>2, <3>1 DEF UsageManaged
    <3>3. \A i \in DOMAIN p'.usage_reports[None] : env.sampled \subseteq p'.usage_reports[None][i]
      BY <1>7, <3>1, <3>2 DEF UsageManaged, old
    <3>4. \A s \in Requests : p'.usage_reports[s] = <<>>
      BY <1>5, <1>9, <3>1, <3>2 DEF UsageManaged
    <3>5. p'.usage_reads \subseteq {None}
      BY <1>3, <3>1 DEF UsageManaged
    <3>6. UsageManaged'
      BY <1>2, <1>3, <3>1, <3>2, <3>3, <3>4, <3>5 DEF UsageManaged
    <3> QED BY <1>2, <1>3, <1>5, <1>8, <2>1, <3>6 DEF Inv, UsageInv
  <2>2. CASE ~p.managed
    <3>1. UsageOnDemand
      BY <2>2 DEF Inv, UsageInv
    <3>2. r \in env.invoked /\ r # None
      BY <1>2, <1>9, <3>1 DEF UsageOnDemand, Inv, EnvInv
    <3>3. r \notin env.straddled => p.usage \cap Before(r) = {}
      <4>1. ASSUME r \notin env.straddled, NEW u \in p.usage, u \in Before(r) PROVE FALSE
        <5>1. r <= u /\ u < r /\ u \in Int /\ r \in Int
          BY <3>1, <3>2, <4>1, BufferAssumption DEF UsageOnDemand, Before, Inv, EnvInv
        <5> QED BY <5>1
      <4> QED BY <4>1
    <3>4. ASSUME NEW s \in Requests \ env.straddled, NEW i \in DOMAIN p'.usage_reports[s]
          PROVE  p'.usage_reports[s][i] \cap Before(s) = {}
      <4>1. CASE s = r
        BY <1>7, <3>1, <3>3, <3>4, <4>1 DEF UsageOnDemand, old
      <4>2. CASE s # r
        BY <1>5, <3>1, <3>4, <4>2 DEF UsageOnDemand
      <4> QED BY <4>1, <4>2
    <3>5. UsageOnDemand'
      BY <1>2, <1>3, <1>5, <3>1, <3>2, <3>4 DEF UsageOnDemand, Before
    <3> QED BY <1>2, <1>3, <1>5, <1>8, <2>2, <3>5 DEF Inv, UsageInv
  <2> QED BY <1>1, <2>1, <2>2
<1> QED BY <1>4, <1>10 DEF Inv

-----------------------------------------------------------------------------
(* The theorems *)

\* Every step keeps the invariant and is one that the ledger allows.
LEMMA StepHolds ==
  ASSUME Inv, [Next]_vars
  PROVE  Inv' /\ Lawful
<1>1. CASE Quiet
  BY <1>1, QuietSteps
<1>2. ASSUME NEW r \in Requests, InvokeEvent(r) \/ PlatformStart(r) PROVE Inv' /\ Lawful
  BY <1>2, InvokeStep
<1>3. ASSUME NEW r \in Requests, PlatformRuntimeDone(r) PROVE Inv' /\ Lawful
  BY <1>3, RuntimeDoneStep
<1>4. ASSUME NEW r \in Requests, PlatformReport(r) PROVE Inv' /\ Lawful
  BY <1>4, ReportStep
<1>5. CASE ShutdownEvent
  BY <1>5, ShutdownStep
<1>6. CASE PlatformInitStart
  BY <1>6, InitStartStep
<1>7. CASE UpdateReparenting
  BY <1>7, ReparentingStep
<1>8. CASE SendCtxSpans
  BY <1>8, SendStep
<1>9. CASE UsageTick \/ UsageSample
  BY <1>9, UsageTickStep
<1>11. CASE UsageUpdate
  BY <1>11, UsageUpdateStep
<1>10. ASSUME NEW r \in Requests \cup {None}, ReadUsage(r) PROVE Inv' /\ Lawful
  BY <1>10, ReadUsageStep
<1> QED BY <1>1, <1>2, <1>3, <1>4, <1>5, <1>6, <1>7, <1>8, <1>9, <1>10, <1>11, Zenon DEF Next, run, Quiet

\* The inductive invariant holds in every reachable state, whatever the order in
\* which the events of the platform, the tracer and the trace agent arrive.
THEOREM InvocationInvariant == Spec => []Inv
<1>1. Inv /\ [Next]_vars => Inv'
  BY StepHolds
<1> QED BY InitHolds, <1>1, PTL DEF Spec

\* The usage peaks reported for an invocation hold no sample of an earlier one
\* unless one was under way when they were reset for it; until the next
\* invocation they hold every sample of the current one; a Managed Instance
\* reports all samples sent before its shutdown and samples exactly while an
\* invocation is active (start_usage_metrics_task, on_invoke_event,
\* on_platform_runtime_done, handle_managed_instance_report, on_shutdown_event).
THEOREM UsagePeriods == Spec => []UsageCoversItsPeriod
<1>1. Inv => UsageCoversItsPeriod
  <2> SUFFICES ASSUME Inv PROVE UsageCoversItsPeriod
    OBVIOUS
  <2>0. DOMAIN <<>> = {} /\ p.managed \in BOOLEAN
    BY DEF Inv, LedgerInv
  <2>1. CASE p.managed
    <3>1. UsageManaged
      BY <2>1 DEF Inv, UsageInv
    <3>2. Cardinality(env.invoked \ env.reported) # 0 <=> env.invoked # env.reported
      <4> DEFINE A == env.invoked \ env.reported
      <4>1. IsFiniteSet(A)
        BY FS_Subset DEF Inv, EnvInv
      <4> HIDE DEF A
      <4>2. Cardinality(A) = 0 <=> A = {}
        BY <4>1, FS_EmptySet
      <4> QED BY <4>2 DEF A, Inv, EnvInv
    <3>3. (PROC_METRICS /\ p.managed /\ ~env.stopped) => (p.monitoring <=> env.invoked # env.reported)
      BY <3>1, <3>2, Zenon DEF UsageManaged
    <3>4. \A r \in Requests \ env.straddled :
            \A i \in DOMAIN p.usage_reports[r] : p.usage_reports[r][i] \cap Before(r) = {}
      BY <2>0, <3>1 DEF UsageManaged
    <3> QED BY <2>1, <3>1, <3>3, <3>4, Zenon DEF UsageManaged, UsageCoversItsPeriod
  <2>2. CASE ~p.managed
    <3>1. UsageOnDemand
      BY <2>2 DEF Inv, UsageInv
    <3>2. Running \cap env.sampled \subseteq p.usage
      BY <2>2, <3>1 DEF UsageOnDemand, Running
    <3> QED BY <2>0, <2>2, <3>1, <3>2 DEF UsageOnDemand, UsageCoversItsPeriod
  <2> QED BY <2>0, <2>1, <2>2
<1> QED BY <1>1, InvocationInvariant, PTL

\* The account of a request as the ledger sees it.
Phase(r) == CASE r \in env.reported -> "closed"
              [] r \in env.invoked \ env.reported -> "open"
              [] OTHER -> "unseen"
Span(r) == CASE Len(p.sent[r]) = 1 -> "sent"
             [] p.sent[r] = <<>> /\ \E i \in DOMAIN due : due[i].id = r -> "due"
             [] p.sent[r] = <<>> /\ ~\E i \in DOMAIN due : due[i].id = r -> "none"
             [] OTHER -> "overpaid"

Booked(r) ==
  /\ r \in env.reported => Phase(r) = "closed"
  /\ r \in env.invoked \ env.reported => Phase(r) = "open"
  /\ r \notin env.invoked => Phase(r) = "unseen"
  /\ r \in Paid => Span(r) = "sent"
  /\ r \in DueNow => Span(r) = "due"
  /\ r \notin Owed => Span(r) = "none"

\* The account of a request in a state that satisfies the invariant.
LEMMA AccountFact == Inv => \A r \in Requests : Booked(r)
<1> SUFFICES ASSUME Inv, NEW r \in Requests PROVE Booked(r)
  OBVIOUS
<1>1. env.reported \subseteq env.invoked /\ Paid \cap DueNow = {}
  BY DEF Inv, EnvInv, LedgerInv
<1>2. r \in DueNow <=> \E i \in DOMAIN due : due[i].id = r
  BY DEF DueNow, Ids
<1>3. p.sent[r] = <<>> \/ \E t : p.sent[r] = <<t>>
  BY DEF Inv, LedgerInv
<1>4. Len(<<>>) # 1 /\ \A t : Len(<<t>>) = 1 /\ <<t>> # <<>>
  OBVIOUS
<1>5. r \in Paid => Len(p.sent[r]) = 1
  BY <1>3, <1>4 DEF Paid
<1>6. r \notin Paid => p.sent[r] = <<>> /\ Len(p.sent[r]) # 1
  BY <1>4 DEF Paid
<1>7. r \in Paid => Span(r) = "sent"
  BY <1>4, <1>5 DEF Span, Paid
<1>8. r \in DueNow => Span(r) = "due"
  BY <1>1, <1>2, <1>6 DEF Span
<1>9. r \notin Owed => Span(r) = "none"
  BY <1>2, <1>6 DEF Span, Owed
<1>10. /\ r \in env.reported => Phase(r) = "closed"
       /\ r \in env.invoked \ env.reported => Phase(r) = "open"
       /\ r \notin env.invoked => Phase(r) = "unseen"
  BY <1>1 DEF Phase
<1> QED BY <1>7, <1>8, <1>9, <1>10 DEF Booked

\* So it is after a step.
LEMMA AccountFactNext == Inv' => (\A r \in Requests : Booked(r))'
BY AccountFact, PTL

\* A lawful step of one account is one the ledger allows.
LEMMA LawfulIsLegal ==
  ASSUME Inv, Inv', Lawful, NEW r \in Requests
  PROVE  /\ [phase |-> Phase(r), span |-> Span(r)]' \in Ledger!Accounts
         /\ Ledger!Legal([phase |-> Phase(r), span |-> Span(r)], [phase |-> Phase(r), span |-> Span(r)]')
<1>1. /\ r \in env.reported => Phase(r) = "closed"
      /\ r \in env.invoked \ env.reported => Phase(r) = "open"
      /\ r \notin env.invoked => Phase(r) = "unseen"
      /\ r \in Paid => Span(r) = "sent"
      /\ r \in DueNow => Span(r) = "due"
      /\ r \notin Owed => Span(r) = "none"
  BY AccountFact DEF Booked
<1>2. /\ r \in env'.reported => Phase(r)' = "closed"
      /\ r \in env'.invoked \ env'.reported => Phase(r)' = "open"
      /\ r \notin env'.invoked => Phase(r)' = "unseen"
      /\ r \in Paid' => Span(r)' = "sent"
      /\ r \in DueNow' => Span(r)' = "due"
      /\ r \notin Owed' => Span(r)' = "none"
  BY AccountFactNext DEF Booked
<1>3. /\ env.reported \subseteq env.invoked /\ env'.reported \subseteq env'.invoked
      /\ Owed = Paid \cup DueNow /\ Owed' = Paid' \cup DueNow'
  BY DEF Inv, EnvInv, Owed
<1>4. Ledger!NoLater(Ledger!Phases, Phase(r), Phase(r)')
  BY <1>1, <1>2, <1>3 DEF Lawful, Ledger!NoLater, Ledger!Phases
<1>5. Ledger!NoLater(Ledger!Debts, Span(r), Span(r)')
  BY <1>1, <1>2, <1>3 DEF Lawful, Ledger!NoLater, Ledger!Debts
<1>6. Span(r) = "none" /\ Span(r)' # "none" => Phase(r) = "open"
  BY <1>1, <1>2, <1>3 DEF Lawful
<1>7. Phase(r)' \in {"unseen", "open", "closed"} /\ Span(r)' \in {"none", "due", "sent"}
  BY <1>2, <1>3
<1> QED BY <1>4, <1>5, <1>6, <1>7 DEF Ledger!Legal, Ledger!Accounts

\* The invocation processor keeps the ledger: an invocation is opened once and
\* closed once, and its span falls due at most once, while it is open, and is sent
\* at most once (process_on_platform_runtime_done, release_invocation_context,
\* update_reparenting and send_ctx_spans, in any order of their callers).
THEOREM LedgerKept == Spec => KeepsLedger
<1> DEFINE account == [r \in Requests |-> [phase |-> Phase(r), span |-> Span(r)]]
<1>1. Init => Ledger!Init
  <2> SUFFICES ASSUME Init PROVE Ledger!Init
    OBVIOUS
  <2>1. Inv /\ env.invoked = {} /\ env.reported = {}
    BY InitHolds DEF Init
  <2>2. Owed = {}
    BY <2>1 DEF Inv, EnvInv, LedgerInv
  <2>3. \A r \in Requests : Phase(r) = "unseen" /\ Span(r) = "none"
    BY <2>1, <2>2, AccountFact DEF Booked
  <2>4. account = [r \in Requests |-> [phase |-> "unseen", span |-> "none"]]
    BY <2>3
  <2> QED BY <2>4, Zenon DEF Ledger!Init, Phase, Span
<1>2. Inv /\ Inv' /\ [Next]_vars => account' \in [Requests -> Ledger!Accounts]
                                  /\ \A r \in Requests : Ledger!Legal(account[r], account'[r])
  <2> SUFFICES ASSUME Inv, Inv', [Next]_vars
               PROVE  account' \in [Requests -> Ledger!Accounts]
                      /\ \A r \in Requests : Ledger!Legal(account[r], account'[r])
    OBVIOUS
  <2>1. Lawful
    BY StepHolds
  <2> QED BY <2>1, LawfulIsLegal
<1>3. Inv /\ Inv' /\ [Next]_vars => Ledger!Next
  BY <1>2 DEF Ledger!Next, Phase, Span
<1> QED BY <1>1, <1>3, InvocationInvariant, PTL DEF Spec, KeepsLedger, Ledger!Spec

-----------------------------------------------------------------------------
(* Pairing in order of arrival *)

\* A queue that holds the members of T in ascending order.
Line(q, T) == IsSequence(q) /\ Elems(q) = T /\ \A i, j \in DOMAIN q : i < j => q[i] < q[j]

\* Requests that an event has been seen of, in the order of the invocations.
Down(A) == A \subseteq Requests /\ \A r \in A : Before(r) \subseteq A

\* The last one joins the queue.
LEMMA LineAppend ==
  ASSUME NEW q, NEW T, Line(q, T), NEW r, \A t \in T : t < r
  PROVE  Line(Append(q, r), T \cup {r})
<1>1. /\ IsSequence(Append(q, r)) /\ DOMAIN Append(q, r) = 1 .. Len(q) + 1
      /\ \A i \in DOMAIN q : Append(q, r)[i] = q[i]
      /\ Append(q, r)[Len(q) + 1] = r
      /\ Elems(Append(q, r)) = Elems(q) \cup {r}
      /\ Len(q) \in Nat /\ DOMAIN q = 1 .. Len(q)
  BY AppendFact DEF Line
<1>2. \A i \in DOMAIN q : q[i] < r
  BY DEF Line, Elems
<1>3. ASSUME NEW i \in DOMAIN Append(q, r), NEW j \in DOMAIN Append(q, r), i < j
      PROVE  Append(q, r)[i] < Append(q, r)[j]
  <2>1. i \in DOMAIN q /\ (j \in DOMAIN q \/ j = Len(q) + 1)
    BY <1>1, <1>3
  <2> QED BY <1>1, <1>2, <1>3, <2>1 DEF Line
<1> QED BY <1>1, <1>3 DEF Line

\* The first one leaves it.
LEMMA LineTail ==
  ASSUME NEW q, NEW T, T \subseteq Requests, Line(q, T), q # <<>>
  PROVE  /\ Head(q) \in T /\ \A t \in T : Head(q) <= t
         /\ Line(Tail(q), T \ {Head(q)})
<1>1. /\ IsSequence(Tail(q)) /\ Len(q) \in Nat \ {0} /\ DOMAIN q = 1 .. Len(q)
      /\ DOMAIN Tail(q) = 1 .. Len(q) - 1
      /\ \A i \in 1 .. Len(q) - 1 : Tail(q)[i] = q[i + 1]
      /\ Head(q) = q[1]
  BY TailFact DEF Line
<1>2. \A i \in DOMAIN q : q[i] \in Nat /\ q[i] \in T
  BY BufferAssumption DEF Line, Elems
<1>3. \A i \in DOMAIN q : i # 1 => q[1] < q[i]
  BY <1>1 DEF Line
<1>4. Head(q) \in T /\ \A t \in T : Head(q) <= t
  BY <1>1, <1>2, <1>3 DEF Line, Elems
<1>5. Elems(Tail(q)) = T \ {Head(q)}
  <2>1. ASSUME NEW t \in Elems(Tail(q)) PROVE t \in T \ {Head(q)}
    <3>1. PICK i \in 1 .. Len(q) - 1 : t = q[i + 1]
      BY <1>1, <2>1 DEF Elems
    <3>2. i + 1 \in DOMAIN q /\ i + 1 # 1
      BY <1>1, <3>1
    <3> QED BY <1>1, <1>2, <1>3, <3>1, <3>2
  <2>2. ASSUME NEW t \in T, t # Head(q) PROVE t \in Elems(Tail(q))
    <3>1. PICK i \in DOMAIN q : t = q[i]
      BY DEF Line, Elems
    <3>2. i - 1 \in 1 .. Len(q) - 1 /\ Tail(q)[i - 1] = q[i]
      BY <1>1, <2>2, <3>1
    <3> QED BY <1>1, <3>1, <3>2 DEF Elems
  <2> QED BY <2>1, <2>2
<1>6. ASSUME NEW i \in DOMAIN Tail(q), NEW j \in DOMAIN Tail(q), i < j PROVE Tail(q)[i] < Tail(q)[j]
  <2>1. i + 1 \in DOMAIN q /\ j + 1 \in DOMAIN q /\ i + 1 < j + 1
    BY <1>1, <1>6
  <2> QED BY <1>1, <1>6, <2>1 DEF Line
<1> QED BY <1>1, <1>4, <1>5, <1>6 DEF Line

\* Of two kinds of events, each in the order of the invocations, the queues
\* hold those that wait for their partner.  The next event of one kind finds the
\* event of the same invocation, or waits.
LEMMA PairsInOrder ==
  ASSUME NEW A, NEW B, Down(A), Down(B), NEW mine, NEW waiting,
         Line(mine, A \ B), Line(waiting, B \ A),
         NEW r \in Requests, r \notin A, Before(r) \subseteq A
  PROVE  LET q == PairOrQueue(waiting, mine, r)
         IN /\ q.partner \in {None, r}
            /\ Line(q.mine, (A \cup {r}) \ B) /\ Line(q.waiting, B \ (A \cup {r}))
            /\ Down(A \cup {r})
<1>0. Requests \subseteq Nat \ {0} /\ A \subseteq Requests /\ B \subseteq Requests
  BY BufferAssumption DEF Down
<1>1. Down(A \cup {r})
  BY DEF Down
<1>2. CASE waiting # <<>>
  <2>1. /\ Head(waiting) \in B \ A /\ \A t \in B \ A : Head(waiting) <= t
        /\ Line(Tail(waiting), (B \ A) \ {Head(waiting)})
    BY <1>0, <1>2, LineTail
  <2> DEFINE h == Head(waiting)
  <2> HIDE DEF h
  <2>2. h \in B \ A /\ ~(h < r)
    <3>1. h \in B \ A
      BY <2>1 DEF h
    <3> QED BY <1>0, <3>1 DEF Before
  <2>3. r \in B
    BY <1>0, <2>2 DEF Down, Before
  <2>4. h = r
    <3>1. h <= r
      BY <2>1, <2>3 DEF h
    <3> QED BY <1>0, <2>2, <3>1
  <2>5. (B \ A) \ {Head(waiting)} = B \ (A \cup {r}) /\ A \ B = (A \cup {r}) \ B
    BY <2>3, <2>4 DEF h
  <2> QED BY <1>1, <1>2, <2>1, <2>4, <2>5 DEF PairOrQueue, h
<1>3. CASE waiting = <<>>
  <2>1. Elems(waiting) = {}
    BY <1>3 DEF Elems
  <2>2. B \subseteq A
    BY <2>1 DEF Line
  <2>3. \A t \in A : t < r
    BY <1>0 DEF Down, Before
  <2>4. (A \ B) \cup {r} = (A \cup {r}) \ B /\ B \ (A \cup {r}) = B \ A
    BY <2>2
  <2>5. Line(Append(mine, r), (A \cup {r}) \ B)
    BY <2>3, <2>4, LineAppend
  <2> QED BY <1>1, <1>3, <2>4, <2>5 DEF PairOrQueue
<1> QED BY <1>2, <1>3

-----------------------------------------------------------------------------
(* What handlers do to the pairing *)

\* A context with the events of its own invocation.
Match(c) == c.start \in {None, c.id} /\ c.end \in {None, c.id}
Matched(b) == \A i \in DOMAIN b.buffer : Match(b.buffer[i])

SameQueues(b, n) ==
  /\ n.invokes = b.invokes /\ n.dones = b.dones /\ n.starts = b.starts /\ n.ends = b.ends
  /\ n.starts_with_id = b.starts_with_id /\ n.ends_with_id = b.ends_with_id

\* Most handlers pair nothing, and no context gets the events of another.
Matches(b, n) == SameQueues(b, n) /\ (Matched(b) => Matched(n))
Pairs(x, y) == y.tracer = x.tracer /\ y.managed = x.managed /\ Matches(x.buf, y.buf)

\* Such handlers compose.
LEMMA PairsTwice ==
  ASSUME NEW x, NEW y, NEW z, Pairs(x, y), Pairs(y, z)
  PROVE  Pairs(x, z)
BY DEF Pairs, Matches, SameQueues

\* The buffer stays as it is.
LEMMA PairsAside ==
  ASSUME NEW x, NEW y, y.tracer = x.tracer, y.managed = x.managed, y.buf = x.buf
  PROVE  Pairs(x, y)
BY DEF Pairs, Matches, SameQueues

\* Only the buffer changes.
LEMMA PairsBuffer ==
  ASSUME NEW x, Shape(x), NEW b, Matches(x.buf, b)
  PROVE  Pairs(x, [x EXCEPT !.buf = b])
BY DEF Pairs, Shape, ProcessorFields

\* A context is written to.
LEMMA WriteMatches ==
  ASSUME NEW b, BufferShape(b), NEW k \in DOMAIN b.buffer, NEW c, Match(b.buffer[k]) => Match(c)
  PROVE  Matches(b, write(b, k, c))
<1> DEFINE n == [b.buffer EXCEPT ![k] = c]
<1>1. DOMAIN n = DOMAIN b.buffer /\ \A i \in DOMAIN b.buffer : n[i] = IF i = k THEN c ELSE b.buffer[i]
  BY WriteFact DEF BufferShape
<1>2. write(b, k, c).buffer = n /\ SameQueues(b, write(b, k, c))
  BY DEF write, BufferShape, BufferFields, SameQueues
<1> HIDE DEF n
<1> QED BY <1>1, <1>2 DEF Matches, Matched

\* The same for get_mut.
LEMMA GetMutMatches ==
  ASSUME NEW b, BufferShape(b), NEW id, NEW c,
         Has(b, id) /\ DOMAIN get(b, id) = ContextFields /\ get(b, id).id = id /\ Match(get(b, id)) => Match(c)
  PROVE  Matches(b, IF Has(b, id) THEN write(b, Position(b, id), c) ELSE b)
<1>1. CASE Has(b, id)
  <2>1. /\ Position(b, id) \in DOMAIN b.buffer /\ get(b, id) = b.buffer[Position(b, id)]
        /\ get(b, id).id = id /\ DOMAIN get(b, id) = ContextFields
    BY <1>1, PositionFact DEF BufferShape
  <2> QED BY <1>1, <2>1, WriteMatches
<1>2. CASE ~Has(b, id)
  BY <1>2 DEF Matches, SameQueues
<1> QED BY <1>1, <1>2

\* Tags, counters and switches.
LEMMA CountersPair ==
  ASSUME NEW x, Shape(x), NEW late, NEW r
  PROVE  /\ Pairs(x, set_init_tags(x, late)) /\ Pairs(x, CountInvocation(x))
         /\ Pairs(x, flush_pending_first_invocation_metric(x)) /\ Pairs(x, EmitInitDuration(x))
         /\ Pairs(x, record_dsm_consume_from_payload(x, r))
         /\ Pairs(x, send_cold_start_span(x))
         /\ Pairs(x, set_usage_enhanced_metrics(x, r))
         /\ Pairs(x, pause_usage_metrics_monitoring(x))
<1> DEFINE Aside(y) == y.tracer = x.tracer /\ y.managed = x.managed /\ y.buf = x.buf
<1>1. Aside(set_init_tags(x, late))
  BY DEF Shape, ProcessorFields, set_init_tags
<1>2. Aside(CountInvocation(x))
  BY DEF Shape, ProcessorFields, CountInvocation
<1>3. Aside(flush_pending_first_invocation_metric(x))
  BY DEF Shape, ProcessorFields, flush_pending_first_invocation_metric
<1>4. Aside(EmitInitDuration(x))
  BY DEF Shape, ProcessorFields, EmitInitDuration
<1>5. Aside(record_dsm_consume_from_payload(x, r))
  BY DEF Shape, ProcessorFields, record_dsm_consume_from_payload
<1>6. Aside(send_cold_start_span(x))
  BY DEF Shape, ProcessorFields, send_cold_start_span
<1>7. Aside(set_usage_enhanced_metrics(x, r))
  BY DEF Shape, ProcessorFields, set_usage_enhanced_metrics
<1>8. Aside(pause_usage_metrics_monitoring(x))
  BY DEF Shape, ProcessorFields, pause_usage_metrics_monitoring
<1> QED BY <1>1, <1>2, <1>3, <1>4, <1>5, <1>6, <1>7, <1>8, PairsAside

\* The monitoring switch of an invocation.
LEMMA MonitorPairs ==
  ASSUME NEW x, Shape(x)
  PROVE  Pairs(x, MonitorInvocation(x))
<1> DEFINE y == MonitorInvocation(x)
           x1 == [x EXCEPT !.active_invocations = @ + 1]
<1>1. y \in {x, x1, [x1 EXCEPT !.monitoring = TRUE], [x EXCEPT !.usage = {}, !.monitoring = TRUE]}
  <2>1. CASE PROC_METRICS /\ x.managed
    BY <2>1, Zenon DEF MonitorInvocation, resume_usage_metrics_monitoring
  <2>2. CASE PROC_METRICS /\ ~x.managed
    BY <2>2, Zenon DEF MonitorInvocation, restart_usage_metrics_monitoring
  <2>3. CASE ~PROC_METRICS
    BY <2>3 DEF MonitorInvocation
  <2> QED BY <2>1, <2>2, <2>3
<1> HIDE DEF y
<1>2. y.tracer = x.tracer /\ y.managed = x.managed /\ y.buf = x.buf
  BY <1>1 DEF Shape, ProcessorFields
<1> QED BY <1>2, PairsAside DEF y

\* The out-of-memory metric.
LEMMA OomPairs ==
  ASSUME NEW x, Shape(x), NEW id
  PROVE  Pairs(x, try_increment_oom_metric(x, id))
<1> DEFINE c == [get(x.buf, id) EXCEPT !.oom_emitted = TRUE]
           b == IF Has(x.buf, id) THEN write(x.buf, Position(x.buf, id), c) ELSE x.buf
           y == try_increment_oom_metric(x, id)
<1>1. DOMAIN get(x.buf, id) = ContextFields /\ Match(get(x.buf, id)) => Match(c)
  BY DEF Match, ContextFields
<1>2. Matches(x.buf, b)
  <2> HIDE DEF c
  <2> QED BY <1>1, GetMutMatches DEF Shape
<1>3. y \in {x, [x EXCEPT !.oom[id] = @ + 1], [x EXCEPT !.buf = b, !.oom[id] = @ + 1]}
  BY Zenon DEF try_increment_oom_metric, get_mut
<1> HIDE DEF b, y
<1>4. y.tracer = x.tracer /\ y.managed = x.managed /\ (y.buf = x.buf \/ y.buf = b)
  BY <1>3 DEF Shape, ProcessorFields
<1> QED BY <1>2, <1>4, PairsAside DEF Pairs, y

\* The end of the runtime and the spans of the tracer are noted in the context.
LEMMA NotesMatch ==
  ASSUME NEW b, BufferShape(b), NEW r
  PROVE  Matches(b, add_runtime_duration(b, r)) /\ Matches(b, add_tracer_span(b, r))
<1> DEFINE c == [get(b, r) EXCEPT !.runtime_duration = TRUE]
           d == [get(b, r) EXCEPT !.tracer_span = TRUE]
<1>1. DOMAIN get(b, r) = ContextFields /\ Match(get(b, r)) => Match(c) /\ Match(d)
  BY DEF Match, ContextFields
<1>2. /\ add_runtime_duration(b, r) = IF Has(b, r) THEN write(b, Position(b, r), c) ELSE b
      /\ add_tracer_span(b, r) = IF Has(b, r) THEN write(b, Position(b, r), d) ELSE b
  BY DEF add_runtime_duration, add_tracer_span, get_mut
<1> HIDE DEF c, d
<1> QED BY <1>1, <1>2, GetMutMatches

\* A start event that reaches the context of its own invocation.
LEMMA ProcessStartPairs ==
  ASSUME NEW x, Shape(x), NEW r
  PROVE  Pairs(x, process_on_universal_instrumentation_start(x, r, r))
<1> DEFINE Start(c) ==
             [c EXCEPT !.start = r,
                       !.inferred = r \in Inferred,
                       !.extracted = r \in Distributed,
                       !.trace = IF r \in Distributed THEN "extracted" ELSE @,
                       !.parent = CASE r \in Inferred -> "inferred"
                                    [] r \in Distributed -> "extracted"
                                    [] OTHER -> @]
           g == get(x.buf, r)
           c == Start(g)
           b == IF Has(x.buf, r) THEN write(x.buf, Position(x.buf, r), c) ELSE x.buf
           y == [x EXCEPT !.buf = b]
<1>1. DOMAIN g = ContextFields /\ g.id = r /\ Match(g) => Match(c)
  <2> HIDE DEF g
  <2> QED BY DEF Match, ContextFields
<1>2. process_on_universal_instrumentation_start(x, r, r) \in {x, record_dsm_consume_from_payload(y, r)}
  BY Zenon DEF process_on_universal_instrumentation_start, get_mut
<1>3. Matches(x.buf, b)
  <2> HIDE DEF c
  <2> QED BY <1>1, GetMutMatches DEF Shape
<1> HIDE DEF b
<1>4. Pairs(x, y)
  BY <1>3, PairsBuffer
<1>5. Pairs(y, record_dsm_consume_from_payload(y, r))
  <2>1. DOMAIN y = ProcessorFields
    BY DEF Shape
  <2> HIDE DEF y
  <2>2. record_dsm_consume_from_payload(y, r).tracer = y.tracer
        /\ record_dsm_consume_from_payload(y, r).managed = y.managed
        /\ record_dsm_consume_from_payload(y, r).buf = y.buf
    BY <2>1 DEF record_dsm_consume_from_payload, ProcessorFields
  <2> QED BY <2>2, PairsAside
<1> QED BY <1>2, <1>4, <1>5, PairsTwice, PairsAside

\* An end event that does.
LEMMA ProcessEndPairs ==
  ASSUME NEW x, Shape(x), NEW r
  PROVE  Pairs(x, process_on_universal_instrumentation_end(x, r, r))
<1> DEFINE ids == x.tracer # "lwa"
           End(c) ==
             [c EXCEPT !.end = r,
                       !.error = @ \/ r \in Failing,
                       !.trace = CASE c.extracted -> "extracted"
                                   [] ~c.extracted /\ ids -> "header"
                                   [] OTHER -> @,
                       !.span = IF ids THEN "header" ELSE @,
                       !.parent = CASE c.inferred -> @
                                    [] ~c.inferred /\ c.extracted -> "extracted"
                                    [] ~c.inferred /\ ~c.extracted /\ ids -> "header"
                                    [] OTHER -> "unset"]
           g == get(x.buf, r)
           c == End(g)
           b == IF Has(x.buf, r) THEN write(x.buf, Position(x.buf, r), c) ELSE x.buf
<1>1. DOMAIN g = ContextFields /\ g.id = r /\ Match(g) => Match(c)
  <2> HIDE DEF g
  <2> QED BY DEF Match, ContextFields
<1>2. process_on_universal_instrumentation_end(x, r, r) \in {x, [x EXCEPT !.buf = b]}
  BY Zenon DEF process_on_universal_instrumentation_end, get_mut
<1>3. Matches(x.buf, b)
  <2> HIDE DEF c
  <2> QED BY <1>1, GetMutMatches DEF Shape
<1> HIDE DEF b
<1> QED BY <1>2, <1>3, PairsBuffer, PairsAside

\* The context is completed and its span sent.
LEMMA ProcessDonePairs ==
  ASSUME NEW x, Shape(x), NEW r, NEW status
  PROVE  Pairs(x, process_on_platform_runtime_done(x, r, status))
<1> DEFINE Enrich(c) ==
             LET timeout == status = "Timeout"
                 trace == IF timeout /\ c.trace = "unset" THEN "generated" ELSE c.trace
             IN [c EXCEPT !.runtime_done_received = TRUE,
                          !.trace = trace,
                          !.span = IF timeout /\ @ = "unset" THEN "generated" ELSE @,
                          !.error = @ \/ timeout,
                          !.cold_start_span =
                             IF @ # "none" /\ trace # "unset" /\ x.tracer_detected THEN "traced" ELSE @]
           g == get(x.buf, r)
           c == Enrich(g)
           b == IF Has(x.buf, r) THEN write(x.buf, Position(x.buf, r), c) ELSE x.buf
           e == [x EXCEPT !.buf = b]
           y == process_on_platform_runtime_done(x, r, status)
<1>1. enrich_ctx_at_platform_done(x, r, status) = e
  BY Zenon DEF enrich_ctx_at_platform_done, get_mut
<1>2. DOMAIN g = ContextFields /\ g.id = r /\ Match(g) => Match(c)
  <2> HIDE DEF g
  <2> QED BY DEF Match, ContextFields
<1>3. Matches(x.buf, b)
  <2> HIDE DEF c
  <2> QED BY <1>2, GetMutMatches DEF Shape
<1> HIDE DEF b
<1>4. Pairs(x, e) /\ DOMAIN e = ProcessorFields
  BY <1>3, PairsBuffer DEF Shape
<1>5. y \in {e, send_cold_start_span(e), send_ctx_spans(e, get(e.buf, r))}
  BY <1>1, Zenon DEF process_on_platform_runtime_done
<1> HIDE DEF e, y
<1>6. y.tracer = e.tracer /\ y.managed = e.managed /\ y.buf = e.buf
  BY <1>4, <1>5 DEF send_cold_start_span, send_ctx_spans, ProcessorFields
<1> QED BY <1>4, <1>6, PairsAside, PairsTwice DEF y

\* A new context has no events yet.
LEMMA StartContextMatches ==
  ASSUME NEW b, BufferShape(b), OneEach(b), NEW r, NEW now, \A i \in DOMAIN b.buffer : b.buffer[i].id # r
  PROVE  Matches(b, start_context(b, r, now))
<1> DEFINE c == from_request_id(r, now)
           n == start_context(b, r, now)
<1>1. DOMAIN c = ContextFields /\ c.id = r /\ Match(c)
  BY DEF from_request_id, ContextFields, Match
<1>2. n = insert(b, c)
  BY DEF start_context
<1> HIDE DEF c
<1>3. remove(b, c.id) = b
  BY <1>1, RemoveFact, PositionFact
<1>4. SameQueues(b, n)
  BY <1>2, <1>3 DEF insert, SameQueues, BufferShape, BufferFields
<1>5. \A j \in DOMAIN n.buffer : n.buffer[j] = c \/ \E i \in DOMAIN b.buffer : n.buffer[j] = b.buffer[i]
  BY <1>1, <1>2, InsertFact
<1> QED BY <1>1, <1>4, <1>5 DEF Matches, Matched

\* Nor has the context created at init.
LEMMA RenameMatches ==
  ASSUME NEW b, BufferShape(b), NEW r
  PROVE  Matches(b, update_empty_context_request_id(b, r))
<1> DEFINE g == get(b, EmptyId)
           c == [g EXCEPT !.id = r]
<1>1. DOMAIN g = ContextFields /\ g.id = EmptyId /\ Match(g) => Match(c)
  <2> HIDE DEF g
  <2> QED BY DEF Match, ContextFields, EmptyId, None
<1>2. update_empty_context_request_id(b, r) = IF Has(b, EmptyId) THEN write(b, Position(b, EmptyId), c) ELSE b
  BY Zenon DEF update_empty_context_request_id, get_mut
<1> HIDE DEF c
<1> QED BY <1>1, <1>2, GetMutMatches

\* OpenContext does one or the other.
LEMMA OpenContextPairs ==
  ASSUME NEW x, Shape(x), OneEach(x.buf), NEW r, NEW late, \A i \in DOMAIN x.buf.buffer : x.buf.buffer[i].id # r
  PROVE  Pairs(x, OpenContext(x, r, late))
<1> DEFINE y == OpenContext(x, r, late)
           b1 == update_empty_context_request_id(x.buf, r)
           t == set_init_tags(x, late)
           b2 == start_context(x.buf, r, x.clock)
<1>1. CASE x.managed /\ x.awaiting_first_invocation /\ Has(x.buf, EmptyId)
  <2>1. y = [x EXCEPT !.buf = b1]
    BY <1>1 DEF OpenContext
  <2>2. Matches(x.buf, b1)
    BY RenameMatches DEF Shape
  <2> QED BY <2>1, <2>2, PairsBuffer
<1>2. CASE ~(x.managed /\ x.awaiting_first_invocation /\ Has(x.buf, EmptyId))
  <2>1. DOMAIN t = ProcessorFields /\ t.tracer = x.tracer /\ t.managed = x.managed /\ t.buf = x.buf
    BY DEF set_init_tags, Shape, ProcessorFields
  <2> HIDE DEF t
  <2>2. y = [t EXCEPT !.buf = b2, !.clock = t.clock + 1]
    BY <1>2, <2>1, Zenon DEF OpenContext, t
  <2>3. Matches(x.buf, b2)
    BY StartContextMatches DEF Shape
  <2> HIDE DEF b2, y
  <2>4. y.tracer = x.tracer /\ y.managed = x.managed /\ y.buf = b2
    BY <2>1, <2>2 DEF ProcessorFields
  <2> QED BY <2>3, <2>4 DEF Pairs, y
<1> QED BY <1>1, <1>2

\* platform.initStart.
LEMMA InitStartPairs ==
  ASSUME NEW x, Shape(x), OneEach(x.buf), x.managed \in BOOLEAN, NEW time \in Int, NEW late,
         \A i \in DOMAIN x.buf.buffer : x.buf.buffer[i].id # EmptyId
  PROVE  Pairs(x, on_platform_init_start(x, time, late))
<1> DEFINE a == [x EXCEPT !.first_invocation = IF @ = "Pending" THEN "InitStartSeen" ELSE @]
           y == flush_pending_first_invocation_metric(a)
           i == get_closest(y.buf, time)
           t == set_init_tags(y, late)
           c == [y.buf.buffer[i] EXCEPT !.cold_start_span = "idle"]
           n == start_context(t.buf, EmptyId, y.clock)
           z == on_platform_init_start(x, time, late)
<1>1. /\ y.managed => z = [t EXCEPT !.buf = n, !.clock = t.clock + 1, !.awaiting_first_invocation = TRUE]
      /\ ~y.managed /\ i # 0 => z = [y EXCEPT !.buf = write(y.buf, i, c)]
      /\ ~y.managed /\ i = 0 => z = y
  <2>1. y.managed => z = [t EXCEPT !.buf = n, !.clock = t.clock + 1, !.awaiting_first_invocation = TRUE]
    BY Zenon DEF on_platform_init_start
  <2>2. ~y.managed /\ i # 0 => z = [y EXCEPT !.buf = write(y.buf, i, c)]
    BY Zenon DEF on_platform_init_start
  <2>3. ~y.managed /\ i = 0 => z = y
    BY Zenon DEF on_platform_init_start
  <2> QED BY <2>1, <2>2, <2>3
<1> HIDE DEF z
<1>2. DOMAIN a = ProcessorFields /\ a.tracer = x.tracer /\ a.managed = x.managed /\ a.buf = x.buf
  BY DEF Shape, ProcessorFields
<1> HIDE DEF a
<1>3. DOMAIN y = ProcessorFields /\ y.tracer = x.tracer /\ y.managed = x.managed /\ y.buf = x.buf
  BY <1>2 DEF flush_pending_first_invocation_metric, ProcessorFields
<1> HIDE DEF y
<1>4. DOMAIN t = ProcessorFields /\ t.tracer = x.tracer /\ t.managed = x.managed /\ t.buf = x.buf
  BY <1>3 DEF set_init_tags, ProcessorFields
<1> HIDE DEF t
<1>5. CASE x.managed
  <2>1. Matches(x.buf, n)
    BY <1>4, StartContextMatches DEF Shape
  <2> HIDE DEF n
  <2>2. z.tracer = x.tracer /\ z.managed = x.managed /\ z.buf = n
    BY <1>1, <1>3, <1>4, <1>5 DEF ProcessorFields
  <2> QED BY <2>1, <2>2 DEF Pairs, z
<1>6. CASE ~x.managed /\ i # 0
  <2>1. i \in DOMAIN x.buf.buffer
    BY <1>3, <1>6, SearchFact DEF Shape
  <2> HIDE DEF i
  <2>2. Match(x.buf.buffer[i]) => Match(c)
    BY <1>3, <2>1 DEF Match, Shape, BufferShape, ContextFields
  <2> HIDE DEF c
  <2>3. Matches(x.buf, write(x.buf, i, c))
    BY <2>1, <2>2, WriteMatches DEF Shape
  <2>4. z.tracer = x.tracer /\ z.managed = x.managed /\ z.buf = write(x.buf, i, c)
    BY <1>1, <1>3, <1>6 DEF ProcessorFields
  <2> QED BY <2>3, <2>4 DEF Pairs, z
<1>7. CASE ~x.managed /\ i = 0
  BY <1>1, <1>3, <1>7, PairsAside DEF z
<1> QED BY <1>5, <1>6, <1>7

\* platform.restoreStart and the trace id of the cold start span.
LEMMA SpansPair ==
  ASSUME NEW x, Shape(x), NEW time \in Int
  PROVE  Pairs(x, on_platform_restore_start(x, time)) /\ Pairs(x, set_cold_start_span_trace_id(x))
<1>1. ASSUME NEW k \in DOMAIN x.buf.buffer
      PROVE  /\ Matches(x.buf, write(x.buf, k, [x.buf.buffer[k] EXCEPT !.restore_span = TRUE]))
             /\ Matches(x.buf, write(x.buf, k, [x.buf.buffer[k] EXCEPT !.cold_start_span = "traced"]))
  <2> DEFINE c == [x.buf.buffer[k] EXCEPT !.restore_span = TRUE]
             d == [x.buf.buffer[k] EXCEPT !.cold_start_span = "traced"]
  <2>1. Match(x.buf.buffer[k]) => Match(c) /\ Match(d)
    BY <1>1 DEF Match, Shape, BufferShape, ContextFields
  <2> HIDE DEF c, d
  <2>2. Matches(x.buf, write(x.buf, k, c)) /\ Matches(x.buf, write(x.buf, k, d))
    BY <1>1, <2>1, WriteMatches DEF Shape
  <2> QED BY <2>2 DEF c, d
<1>2. Pairs(x, on_platform_restore_start(x, time))
  <2> DEFINE y == [x EXCEPT !.restored = TRUE]
             i == get_closest(x.buf, time)
             n == write(y.buf, i, [y.buf.buffer[i] EXCEPT !.restore_span = TRUE])
             z == on_platform_restore_start(x, time)
  <2>1. z = IF i = 0 THEN y ELSE [y EXCEPT !.buf = n]
    BY Zenon DEF on_platform_restore_start
  <2>2. DOMAIN y = ProcessorFields /\ y.tracer = x.tracer /\ y.managed = x.managed /\ y.buf = x.buf
    BY DEF Shape, ProcessorFields
  <2> HIDE DEF y, z
  <2>3. i # 0 => Matches(x.buf, n)
    BY <1>1, <2>2, SearchFact DEF Shape
  <2> HIDE DEF n, i
  <2>4. z.tracer = x.tracer /\ z.managed = x.managed /\ z.buf = IF i = 0 THEN x.buf ELSE n
    BY <2>1, <2>2 DEF ProcessorFields
  <2> QED BY <2>3, <2>4, PairsAside DEF Pairs, z
<1>3. Pairs(x, set_cold_start_span_trace_id(x))
  <2> DEFINE i == get_context_with_cold_start(x.buf)
             n == write(x.buf, i, [x.buf.buffer[i] EXCEPT !.cold_start_span = "traced"])
  <2>1. set_cold_start_span_trace_id(x) = IF i = 0 THEN x ELSE [x EXCEPT !.buf = n]
    BY Zenon DEF set_cold_start_span_trace_id
  <2>2. i # 0 => Matches(x.buf, n)
    BY <1>1, SearchFact DEF Shape
  <2> HIDE DEF n, i
  <2> QED BY <2>1, <2>2, PairsBuffer, PairsAside
<1> QED BY <1>2, <1>3

\* A context is taken out of the buffer.
LEMMA ReleasePairs ==
  ASSUME NEW x, Shape(x), OneEach(x.buf), NEW r
  PROVE  Pairs(x, release_invocation_context(x, r))
<1> DEFINE m == remove(x.buf, r)
           q == forget_reparenting(m.reparenting, r)
           n == [m EXCEPT !.reparenting = q]
           z == release_invocation_context(x, r)
<1>1. z = [x EXCEPT !.buf = n, !.dsm_processed = x.dsm_processed \ {r}]
  BY Zenon DEF release_invocation_context
<1>2. /\ DOMAIN m = BufferFields
      /\ \A j \in DOMAIN m.buffer : \E i \in DOMAIN x.buf.buffer : m.buffer[j] = x.buf.buffer[i]
  BY RemoveFact DEF Shape, BufferShape
<1>3. SameQueues(x.buf, m)
  BY DEF remove, SameQueues, Shape, BufferShape, BufferFields
<1> HIDE DEF m, q
<1>4. n.buffer = m.buffer /\ SameQueues(m, n)
  BY <1>2 DEF SameQueues, BufferFields
<1> HIDE DEF n, z
<1>5. z.tracer = x.tracer /\ z.managed = x.managed /\ z.buf = n
  BY <1>1 DEF Shape, ProcessorFields
<1> QED BY <1>2, <1>3, <1>4, <1>5 DEF Pairs, Matches, SameQueues, Matched, z

\* Reparenting entries are apart.
LEMMA AddReparentingPairs ==
  ASSUME NEW x, Shape(x), NEW r
  PROVE  Pairs(x, add_reparenting(x, r))
<1> DEFINE s == x.buf.reparenting
           n == Append(IF Len(s) = Capacity THEN Tail(s) ELSE s, [id |-> r, needs_trace_id |-> TRUE])
           y == add_reparenting(x, r)
<1>1. y \in {x, [x EXCEPT !.buf.reparenting = n]}
  BY Zenon DEF add_reparenting
<1> HIDE DEF n, y
<1>2. /\ y.tracer = x.tracer /\ y.managed = x.managed /\ y.buf.buffer = x.buf.buffer
      /\ SameQueues(x.buf, y.buf)
  BY <1>1 DEF Shape, ProcessorFields, BufferShape, BufferFields, SameQueues
<1> QED BY <1>2 DEF Pairs, Matches, Matched, y

\* One entry of the trace agent's list gives ids and no events.
LEMMA UpdateOneMatches ==
  ASSUME NEW acc, BufferShape(acc.b), NEW info
  PROVE  Matches(acc.b, UpdateOne(acc, info).b)
<1> DEFINE id == info.id
           g == get(acc.b, id)
           Give(c) == [c EXCEPT !.span = IF @ = "unset" THEN "reparented" ELSE @,
                                !.trace = IF @ = "unset" /\ ~info.needs_trace_id THEN "guessed" ELSE @]
           c == Give(g)
           b == IF Has(acc.b, id) THEN write(acc.b, Position(acc.b, id), c) ELSE acc.b
           Keep(i) == IF i.id = info.id THEN info ELSE i
           q == [i \in DOMAIN b.reparenting |-> Keep(b.reparenting[i])]
           n == [b EXCEPT !.reparenting = q]
<1>1. UpdateOne(acc, info).b = n
  BY Zenon DEF UpdateOne, get_mut
<1>2. DOMAIN g = ContextFields /\ g.id = id /\ Match(g) => Match(c)
  <2> HIDE DEF g
  <2> QED BY DEF Match, ContextFields
<1>3. Matches(acc.b, b) /\ DOMAIN b = BufferFields
  <2>1. DOMAIN b = BufferFields
    BY DEF BufferShape, write
  <2> HIDE DEF c
  <2> QED BY <1>2, <2>1, GetMutMatches
<1> HIDE DEF b, q
<1>4. n.buffer = b.buffer /\ SameQueues(b, n)
  BY <1>3 DEF SameQueues, BufferFields
<1> QED BY <1>1, <1>3, <1>4 DEF Matches, SameQueues, Matched

\* So does the whole list.
LEMMA UpdateReparentingMatches ==
  ASSUME NEW buf, BufferShape(buf), NEW infos, IsSequence(infos)
  PROVE  Matches(buf, update_reparenting(buf, infos).b)
<1> DEFINE base == [b |-> buf, due |-> <<>>]
           loop == CHOOSE g : IsLoop(g, buf, infos)
           Made(n) == BufferShape(loop[n].b) /\ Matches(buf, loop[n].b)
           T == {n \in 0 .. Len(infos) : ~Made(n)}
<1>0. Len(infos) \in Nat
  BY SequenceFact DEF IsSequence
<1>1. update_reparenting(buf, infos) = loop[Len(infos)]
  BY Zenon DEF update_reparenting, IsLoop
<1>2. IsLoop(loop, buf, infos)
  BY LoopExists, Zenon
<1>3. loop[0] = base /\ \A n \in 1 .. Len(infos) : loop[n] = UpdateOne(loop[n - 1], infos[n])
  <2> HIDE DEF loop
  <2> QED BY <1>0, <1>2 DEF IsLoop
<1> HIDE DEF loop
<1>4. Made(0)
  BY <1>3 DEF Matches, SameQueues
<1>5. ASSUME NEW n \in 1 .. Len(infos), Made(n - 1) PROVE Made(n)
  <2> DEFINE acc == loop[n - 1]
             o == UpdateOne(acc, infos[n])
  <2>1. loop[n] = o /\ BufferShape(acc.b) /\ Matches(buf, acc.b)
    BY <1>3, <1>5
  <2> HIDE DEF acc
  <2>2. BufferShape(o.b) /\ Matches(acc.b, o.b)
    BY <2>1, UpdateOneEffect, UpdateOneMatches DEF Advances
  <2> QED BY <2>1, <2>2 DEF Matches, SameQueues
<1> HIDE DEF Made
<1>6. T = {}
  <2> SUFFICES ASSUME T # {} PROVE FALSE
    OBVIOUS
  <2>1. T \in SUBSET Nat
    BY <1>0
  <2>2. PICK m \in T : \A y \in T : m <= y
    BY <2>1, LeastNumber
  <2>3. m \in 0 .. Len(infos) /\ ~Made(m) /\ m # 0
    BY <1>4, <2>2
  <2>4. m - 1 \in 0 .. Len(infos) /\ ~(m <= m - 1) /\ m \in 1 .. Len(infos)
    BY <1>0, <2>3
  <2>5. Made(m - 1)
    BY <2>2, <2>4
  <2> QED BY <1>5, <2>3, <2>4, <2>5
<1>7. Made(Len(infos))
  BY <1>0, <1>6
<1> QED BY <1>1, <1>7 DEF Made

-----------------------------------------------------------------------------
(* The handlers that pair *)

\* Which of the queues a handler leaves alone.
SameStarts(b, n) == n.invokes = b.invokes /\ n.starts = b.starts /\ n.starts_with_id = b.starts_with_id
SameEnds(b, n) == n.dones = b.dones /\ n.ends = b.ends /\ n.ends_with_id = b.ends_with_id
SameSetting(x, y) == y.tracer = x.tracer /\ y.managed = x.managed

\* Whatever event reaches a context, no other event is paired by it.
LEMMA ProcessStartFrame ==
  ASSUME NEW x, Shape(x), NEW r, NEW s
  PROVE  LET y == process_on_universal_instrumentation_start(x, r, s)
         IN SameSetting(x, y) /\ SameQueues(x.buf, y.buf)
<1> DEFINE y == process_on_universal_instrumentation_start(x, r, s)
<1>1. y = x \/ \E c, k : LET a == [x EXCEPT !.buf = write(x.buf, k, c)]
                       IN y = record_dsm_consume_from_payload(a, r)
  BY Zenon DEF process_on_universal_instrumentation_start, get_mut
<1>2. CASE y = x
  BY <1>2 DEF SameSetting, SameQueues
<1>3. ASSUME NEW c, NEW k, y = record_dsm_consume_from_payload([x EXCEPT !.buf = write(x.buf, k, c)], r)
      PROVE  SameSetting(x, y) /\ SameQueues(x.buf, y.buf)
  <2> DEFINE b == write(x.buf, k, c)
             a == [x EXCEPT !.buf = b]
  <2>1. SameQueues(x.buf, b)
    BY DEF write, SameQueues, Shape, BufferShape, BufferFields
  <2> HIDE DEF b
  <2>2. DOMAIN a = ProcessorFields /\ a.tracer = x.tracer /\ a.managed = x.managed /\ a.buf = b
    BY DEF Shape, ProcessorFields
  <2>3. y = record_dsm_consume_from_payload(a, r)
    BY <1>3 DEF b
  <2> HIDE DEF a, y
  <2> QED BY <2>1, <2>2, <2>3 DEF record_dsm_consume_from_payload, SameSetting, ProcessorFields
<1> QED BY <1>1, <1>2, <1>3

\* The same for an end event.
LEMMA ProcessEndFrame ==
  ASSUME NEW x, Shape(x), NEW r, NEW e
  PROVE  LET y == process_on_universal_instrumentation_end(x, r, e)
         IN SameSetting(x, y) /\ SameQueues(x.buf, y.buf)
<1> DEFINE y == process_on_universal_instrumentation_end(x, r, e)
<1>1. y = x \/ \E c, k : y = [x EXCEPT !.buf = write(x.buf, k, c)]
  BY Zenon DEF process_on_universal_instrumentation_end, get_mut
<1>2. CASE y = x
  BY <1>2 DEF SameSetting, SameQueues
<1>3. ASSUME NEW c, NEW k, y = [x EXCEPT !.buf = write(x.buf, k, c)]
      PROVE  SameSetting(x, y) /\ SameQueues(x.buf, y.buf)
  <2> HIDE DEF y
  <2> QED BY <1>3 DEF write, SameQueues, SameSetting, Shape, ProcessorFields, BufferShape, BufferFields
<1> QED BY <1>1, <1>2, <1>3

\* The invoke event is paired with a start that waits for it.
LEMMA InvokePairs ==
  ASSUME NEW x, Shape(x), OneEach(x.buf), x.monitoring \in BOOLEAN, x.managed \in BOOLEAN, NEW r, NEW late,
         \A i \in DOMAIN x.buf.buffer :
           /\ x.buf.buffer[i].id # r
           /\ x.buf.buffer[i].id = EmptyId => ~x.buf.buffer[i].runtime_done_received
  PROVE  LET z == on_invoke_event(x, r, late)
             q == PairOrQueue(x.buf.starts, x.buf.invokes, r)
         IN /\ SameSetting(x, z) /\ SameEnds(x.buf, z.buf)
            /\ r \in x.buf.starts_with_id \/ x.managed =>
                 z.buf.invokes = x.buf.invokes /\ z.buf.starts = x.buf.starts
            /\ r \notin x.buf.starts_with_id /\ ~x.managed =>
                 z.buf.invokes = q.mine /\ z.buf.starts = q.waiting
            /\ z.buf.starts_with_id \subseteq x.buf.starts_with_id
            /\ Matched(x.buf) /\ (x.managed \/ q.partner \in {None, r}) => Matched(z.buf)
<1> DEFINE o == OpenContext(x, r, late)
           a == [o EXCEPT !.awaiting_first_invocation = FALSE]
           m == MonitorInvocation(a)
           k == CountInvocation(m)
           y == [k EXCEPT !.invoked_received = TRUE]
           f == pair_invoke_event(y.buf, r)
           bt == take_universal_instrumentation_start_for_request_id(y.buf, r)
           yt == [y EXCEPT !.buf = bt]
           yf == [y EXCEPT !.buf = f.b]
           z == on_invoke_event(x, r, late)
           q == PairOrQueue(x.buf.starts, x.buf.invokes, r)
<1>1. /\ r \in y.buf.starts_with_id => z = process_on_universal_instrumentation_start(yt, r, r)
      /\ r \notin y.buf.starts_with_id /\ ~y.managed =>
           z = IF f.start # None THEN process_on_universal_instrumentation_start(yf, r, f.start) ELSE yf
      /\ r \notin y.buf.starts_with_id /\ y.managed => z = y
  <2>1. CASE r \in y.buf.starts_with_id
    BY <2>1, Zenon DEF on_invoke_event
  <2>2. CASE r \notin y.buf.starts_with_id /\ ~y.managed
    BY <2>2, Zenon DEF on_invoke_event
  <2>3. CASE r \notin y.buf.starts_with_id /\ y.managed
    BY <2>3, Zenon DEF on_invoke_event
  <2> QED BY <2>1, <2>2, <2>3
<1> HIDE DEF z
<1>2. Pairs(x, o) /\ DOMAIN o = ProcessorFields /\ BufferShape(o.buf) /\ SameUsage(x, o)
  BY OpenContextPairs, OpenContextEffect DEF Opened
<1> HIDE DEF o
<1>3. Pairs(x, a) /\ Shape(a) /\ a.monitoring \in BOOLEAN
  <2>1. /\ DOMAIN a = ProcessorFields /\ a.tracer = o.tracer /\ a.managed = o.managed /\ a.buf = o.buf
        /\ a.monitoring = o.monitoring
    BY <1>2 DEF ProcessorFields
  <2> HIDE DEF a
  <2> QED BY <1>2, <2>1, PairsAside, PairsTwice DEF Shape, SameUsage, Calm, Alert
<1> HIDE DEF a
<1>4. Pairs(x, m) /\ Shape(m)
  BY <1>3, MonitorEffect, MonitorPairs, PairsTwice
<1> HIDE DEF m
<1>5. Pairs(x, k) /\ Shape(k)
  BY <1>4, CountersKeep, CountersPair, PairsTwice DEF Keeps
<1> HIDE DEF k
<1>6. Pairs(x, y) /\ Shape(y)
  <2>1. DOMAIN y = ProcessorFields /\ y.tracer = k.tracer /\ y.managed = k.managed /\ y.buf = k.buf
    BY <1>5 DEF Shape, ProcessorFields
  <2> HIDE DEF y
  <2> QED BY <1>5, <2>1, PairsAside, PairsTwice DEF Shape
<1> HIDE DEF y
<1>7. /\ SameSetting(x, y) /\ SameQueues(x.buf, y.buf) /\ (Matched(x.buf) => Matched(y.buf))
      /\ DOMAIN y.buf = BufferFields
  BY <1>6 DEF Pairs, Matches, SameSetting, Shape, BufferShape
<1>8. Shape(yt) /\ Shape(yf)
  BY <1>6, PairingAdvances, KeepsBuffer DEF Shape, Keeps
<1>9. CASE r \in x.buf.starts_with_id
  <2>1. /\ bt.buffer = y.buf.buffer /\ SameEnds(y.buf, bt) /\ bt.invokes = y.buf.invokes
        /\ bt.starts = y.buf.starts /\ bt.starts_with_id = y.buf.starts_with_id \ {r}
    BY <1>7 DEF take_universal_instrumentation_start_for_request_id, SameEnds, BufferFields
  <2>2. yt.tracer = y.tracer /\ yt.managed = y.managed /\ yt.buf = bt
    BY <1>6 DEF Shape, ProcessorFields
  <2> HIDE DEF yt, bt
  <2>3. Pairs(yt, z)
    BY <1>1, <1>7, <1>8, <1>9, ProcessStartPairs DEF SameQueues
  <2>4. Matched(y.buf) => Matched(bt)
    BY <2>1 DEF Matched
  <2> QED BY <1>7, <1>9, <2>1, <2>2, <2>3, <2>4 DEF Pairs, Matches, SameSetting, SameQueues, SameEnds, z
<1>10. CASE r \notin x.buf.starts_with_id /\ ~x.managed
  <2>1. /\ f.b.buffer = y.buf.buffer /\ SameEnds(y.buf, f.b) /\ f.b.invokes = q.mine
        /\ f.b.starts = q.waiting /\ f.b.starts_with_id = y.buf.starts_with_id
        /\ f.start = q.partner
    BY <1>7 DEF pair_invoke_event, SameEnds, BufferFields, SameQueues
  <2>2. yf.tracer = y.tracer /\ yf.managed = y.managed /\ yf.buf = f.b
    BY <1>6 DEF Shape, ProcessorFields
  <2>3. z = IF f.start # None THEN process_on_universal_instrumentation_start(yf, r, f.start) ELSE yf
    BY <1>1, <1>7, <1>10 DEF SameQueues, SameSetting
  <2> HIDE DEF yf, f, q
  <2>4. SameSetting(yf, z) /\ SameQueues(yf.buf, z.buf)
    BY <1>8, <2>3, ProcessStartFrame DEF SameSetting, SameQueues
  <2>5. q.partner \in {None, r} => Pairs(yf, z)
    BY <1>8, <2>1, <2>3, ProcessStartPairs, PairsAside
  <2>6. Matched(y.buf) => Matched(f.b)
    BY <2>1 DEF Matched
  <2>7. Matched(x.buf) /\ (x.managed \/ q.partner \in {None, r}) => Matched(z.buf)
    BY <1>7, <1>10, <2>2, <2>5, <2>6 DEF Pairs, Matches
  <2>8. SameSetting(x, z) /\ SameEnds(x.buf, z.buf)
    BY <1>7, <2>1, <2>2, <2>4 DEF SameSetting, SameQueues, SameEnds
  <2>9. z.buf.invokes = q.mine /\ z.buf.starts = q.waiting /\ z.buf.starts_with_id = x.buf.starts_with_id
    BY <1>7, <2>1, <2>2, <2>4 DEF SameQueues
  <2> QED BY <1>10, <2>7, <2>8, <2>9 DEF z, q
<1>11. CASE r \notin x.buf.starts_with_id /\ x.managed
  BY <1>1, <1>7, <1>11 DEF SameSetting, SameQueues, SameEnds, z
<1> QED BY <1>9, <1>10, <1>11

\* A start event is paired with its invoke event, by id or in order.
LEMMA StartPairs ==
  ASSUME NEW x, Shape(x), NEW s, NEW with_id \in BOOLEAN
  PROVE  LET z == on_universal_instrumentation_start(x, s, with_id)
             q == PairOrQueue(x.buf.invokes, x.buf.starts, s)
         IN /\ SameSetting(x, z) /\ SameEnds(x.buf, z.buf)
            /\ with_id => z.buf.starts = x.buf.starts
            /\ ~with_id => /\ z.buf.invokes = q.waiting /\ z.buf.starts = q.mine
                           /\ z.buf.starts_with_id = x.buf.starts_with_id
            /\ x.buf.invokes = <<>> => z.buf.invokes = <<>>
            /\ Matched(x.buf) /\ (with_id \/ q.partner \in {None, s}) => Matched(z.buf)
<1> DEFINE y == [x EXCEPT !.tracer_detected = TRUE]
           g == pair_universal_instrumentation_start_with_request_id(y.buf, s)
           f == pair_universal_instrumentation_start_event(y.buf, s)
           yg == [y EXCEPT !.buf = g.b]
           yf == [y EXCEPT !.buf = f.b]
           z == on_universal_instrumentation_start(x, s, with_id)
           q == PairOrQueue(x.buf.invokes, x.buf.starts, s)
<1>1. /\ with_id => z \in {process_on_universal_instrumentation_start(y, s, s),
                           process_on_universal_instrumentation_start(yg, s, s), yg}
      /\ ~with_id => z = IF f.id # None THEN process_on_universal_instrumentation_start(yf, f.id, s) ELSE yf
  <2> HIDE DEF process_on_universal_instrumentation_start
  <2>1. CASE with_id /\ y.managed /\ Has(y.buf, s)
    BY <2>1, Zenon DEF on_universal_instrumentation_start
  <2>2. CASE with_id /\ ~(y.managed /\ Has(y.buf, s))
    BY <2>2, Zenon DEF on_universal_instrumentation_start
  <2>3. CASE ~with_id
    BY <2>3, Zenon DEF on_universal_instrumentation_start
  <2> QED BY <2>1, <2>2, <2>3
<1> HIDE DEF z
<1>2. SameSetting(x, y) /\ y.buf = x.buf /\ Shape(y) /\ DOMAIN x.buf = BufferFields
  BY DEF Shape, ProcessorFields, SameSetting, BufferShape
<1> HIDE DEF y
<1>3. Shape(yg) /\ Shape(yf)
  BY <1>2, PairingAdvances, KeepsBuffer DEF Shape, Keeps
<1>4. CASE with_id
  <2>1. /\ g.b.buffer = x.buf.buffer /\ SameEnds(x.buf, g.b) /\ g.b.starts = x.buf.starts
        /\ x.buf.invokes = <<>> => g.b.invokes = <<>>
    <3>1. ~Contains(<<>>, s)
      BY DEF Contains
    <3>2. g.b.buffer = x.buf.buffer /\ SameEnds(x.buf, g.b) /\ g.b.starts = x.buf.starts
      BY <1>2 DEF pair_universal_instrumentation_start_with_request_id, SameEnds, BufferFields
    <3>3. x.buf.invokes = <<>> => g.b.invokes = <<>>
      BY <1>2, <3>1 DEF pair_universal_instrumentation_start_with_request_id, BufferFields
    <3> QED BY <3>2, <3>3
  <2>2. SameSetting(x, yg) /\ yg.buf = g.b
    BY <1>2 DEF Shape, ProcessorFields, SameSetting
  <2>3. Matched(x.buf) => Matched(g.b)
    BY <2>1 DEF Matched
  <2> HIDE DEF yg, g
  <2>4. Pairs(y, z) \/ Pairs(yg, z)
    BY <1>1, <1>2, <1>3, <1>4, ProcessStartPairs, PairsAside
  <2>5. CASE Pairs(y, z)
    BY <1>2, <1>4, <2>5 DEF Pairs, Matches, SameSetting, SameQueues, SameEnds, z
  <2>6. CASE Pairs(yg, z)
    BY <1>4, <2>1, <2>2, <2>3, <2>6 DEF Pairs, Matches, SameSetting, SameQueues, SameEnds, z
  <2> QED BY <2>4, <2>5, <2>6
<1>5. CASE ~with_id
  <2>1. /\ f.b.buffer = x.buf.buffer /\ SameEnds(x.buf, f.b) /\ f.b.invokes = q.waiting
        /\ f.b.starts = q.mine /\ f.b.starts_with_id = x.buf.starts_with_id
        /\ f.id = q.partner
    BY <1>2 DEF pair_universal_instrumentation_start_event, SameEnds, BufferFields
  <2>2. SameSetting(x, yf) /\ yf.buf = f.b
    BY <1>2 DEF Shape, ProcessorFields, SameSetting
  <2>3. z = IF f.id # None THEN process_on_universal_instrumentation_start(yf, f.id, s) ELSE yf
    BY <1>1, <1>5
  <2>4. Matched(x.buf) => Matched(f.b)
    BY <2>1 DEF Matched
  <2>5. x.buf.invokes = <<>> => q.waiting = <<>>
    BY DEF PairOrQueue
  <2> HIDE DEF yf, f, q
  <2>6. SameSetting(yf, z) /\ SameQueues(yf.buf, z.buf)
    BY <1>3, <2>3, ProcessStartFrame DEF SameSetting, SameQueues
  <2>7. q.partner \in {None, s} => Pairs(yf, z)
    BY <1>3, <2>1, <2>3, ProcessStartPairs, PairsAside
  <2>8. Matched(x.buf) /\ q.partner \in {None, s} => Matched(z.buf)
    BY <2>2, <2>4, <2>7 DEF Pairs, Matches
  <2> QED BY <1>5, <2>1, <2>2, <2>5, <2>6, <2>8 DEF SameSetting, SameQueues, SameEnds, z, q
<1> QED BY <1>4, <1>5

\* An end event with a request id finds the end of its runtime or waits for it.
EndQueued(b, n, e) ==
  \/ Contains(b.dones, e) /\ n.dones = RemoveFirst(b.dones, e) /\ n.ends_with_id = b.ends_with_id
  \/ n.dones = b.dones /\ n.ends_with_id = b.ends_with_id \cup {e}

\* An end event is paired with the end of the runtime in the same way.
LEMMA EndPairs ==
  ASSUME NEW x, Shape(x), NEW e, NEW with_id \in BOOLEAN
  PROVE  LET z == on_universal_instrumentation_end(x, e, with_id)
             q == PairOrQueue(x.buf.dones, x.buf.ends, e)
         IN /\ SameSetting(x, z) /\ SameStarts(x.buf, z.buf)
            /\ with_id => z.buf.ends = x.buf.ends /\ EndQueued(x.buf, z.buf, e)
            /\ ~with_id => /\ z.buf.dones = q.waiting /\ z.buf.ends = q.mine
                           /\ z.buf.ends_with_id = x.buf.ends_with_id
            /\ x.buf.dones = <<>> => z.buf.dones = <<>>
            /\ Matched(x.buf) /\ (with_id \/ q.partner \in {None, e}) => Matched(z.buf)
<1> DEFINE g == pair_universal_instrumentation_end_with_request_id(x.buf, e)
           f == pair_universal_instrumentation_end_event(x.buf, e)
           yg == [x EXCEPT !.buf = g.b]
           yf == [x EXCEPT !.buf = f.b]
           z == on_universal_instrumentation_end(x, e, with_id)
           q == PairOrQueue(x.buf.dones, x.buf.ends, e)
<1>1. /\ with_id => z \in {process_on_universal_instrumentation_end(yg, e, e), yg}
      /\ ~with_id => z = IF f.id # None THEN process_on_universal_instrumentation_end(yf, f.id, e) ELSE yf
  BY Zenon DEF on_universal_instrumentation_end
<1> HIDE DEF z
<1>2. DOMAIN x.buf = BufferFields
  BY DEF Shape, BufferShape
<1>3. Shape(yg) /\ Shape(yf)
  BY PairingAdvances, KeepsBuffer DEF Shape, Keeps
<1>4. CASE with_id
  <2>1. /\ g.b.buffer = x.buf.buffer /\ SameStarts(x.buf, g.b) /\ g.b.ends = x.buf.ends
        /\ x.buf.dones = <<>> => g.b.dones = <<>>
        /\ EndQueued(x.buf, g.b, e)
    <3>1. ~Contains(<<>>, e)
      BY DEF Contains
    <3>2. g.b.buffer = x.buf.buffer /\ SameStarts(x.buf, g.b) /\ g.b.ends = x.buf.ends
      BY <1>2 DEF pair_universal_instrumentation_end_with_request_id, SameStarts, BufferFields
    <3>3. x.buf.dones = <<>> => g.b.dones = <<>>
      BY <1>2, <3>1 DEF pair_universal_instrumentation_end_with_request_id, BufferFields
    <3>4. EndQueued(x.buf, g.b, e)
      BY <1>2 DEF pair_universal_instrumentation_end_with_request_id, BufferFields, EndQueued
    <3> QED BY <3>2, <3>3, <3>4
  <2>2. SameSetting(x, yg) /\ yg.buf = g.b
    BY DEF Shape, ProcessorFields, SameSetting
  <2>3. Matched(x.buf) => Matched(g.b)
    BY <2>1 DEF Matched
  <2> HIDE DEF yg, g
  <2>4. Pairs(yg, z)
    BY <1>1, <1>3, <1>4, ProcessEndPairs, PairsAside
  <2>5. EndQueued(x.buf, z.buf, e)
    BY <2>1, <2>2, <2>4 DEF Pairs, Matches, SameQueues, EndQueued
  <2> QED BY <1>4, <2>1, <2>2, <2>3, <2>4, <2>5 DEF Pairs, Matches, SameSetting, SameQueues, SameStarts, z
<1>5. CASE ~with_id
  <2>1. /\ f.b.buffer = x.buf.buffer /\ SameStarts(x.buf, f.b) /\ f.b.dones = q.waiting
        /\ f.b.ends = q.mine /\ f.b.ends_with_id = x.buf.ends_with_id
        /\ f.id = q.partner
    BY <1>2 DEF pair_universal_instrumentation_end_event, SameStarts, BufferFields
  <2>2. SameSetting(x, yf) /\ yf.buf = f.b
    BY DEF Shape, ProcessorFields, SameSetting
  <2>3. z = IF f.id # None THEN process_on_universal_instrumentation_end(yf, f.id, e) ELSE yf
    BY <1>1, <1>5
  <2>4. Matched(x.buf) => Matched(f.b)
    BY <2>1 DEF Matched
  <2>5. x.buf.dones = <<>> => q.waiting = <<>>
    BY DEF PairOrQueue
  <2> HIDE DEF yf, f, q
  <2>6. SameSetting(yf, z) /\ SameQueues(yf.buf, z.buf)
    BY <1>3, <2>3, ProcessEndFrame DEF SameSetting, SameQueues
  <2>7. q.partner \in {None, e} => Pairs(yf, z)
    BY <1>3, <2>1, <2>3, ProcessEndPairs, PairsAside
  <2>8. Matched(x.buf) /\ q.partner \in {None, e} => Matched(z.buf)
    BY <2>2, <2>4, <2>7 DEF Pairs, Matches
  <2> QED BY <1>5, <2>1, <2>2, <2>5, <2>6, <2>8 DEF SameSetting, SameQueues, SameStarts, z, q
<1> QED BY <1>4, <1>5

\* The end of the runtime is paired with an end event that waits for it.
LEMMA RuntimeDonePairs ==
  ASSUME NEW x, Shape(x), x.managed \in BOOLEAN, NEW r, NEW status
  PROVE  LET z == on_platform_runtime_done(x, r, status)
             q == PairOrQueue(x.buf.ends, x.buf.dones, r)
         IN /\ SameSetting(x, z) /\ SameStarts(x.buf, z.buf)
            /\ r \in x.buf.ends_with_id \/ x.managed =>
                 z.buf.dones = x.buf.dones /\ z.buf.ends = x.buf.ends
            /\ r \notin x.buf.ends_with_id /\ ~x.managed =>
                 z.buf.dones = q.mine /\ z.buf.ends = q.waiting
            /\ z.buf.ends_with_id \subseteq x.buf.ends_with_id
            /\ x.buf.ends_with_id \ {r} \subseteq z.buf.ends_with_id
            /\ Matched(x.buf) /\ (x.managed \/ q.partner \in {None, r}) => Matched(z.buf)
<1> DEFINE x1 == IF status = "OutOfMemory" THEN try_increment_oom_metric(x, r) ELSE x
           x2 == IF x1.managed THEN x1 ELSE set_usage_enhanced_metrics(x1, r)
           d == add_runtime_duration(x2.buf, r)
           y == [x2 EXCEPT !.buf = d]
           f == pair_platform_runtime_done_event(y.buf, r)
           bt == take_universal_instrumentation_end_for_request_id(y.buf, r)
           yt == [y EXCEPT !.buf = bt]
           yf == [y EXCEPT !.buf = f.b]
           paired == CASE r \in y.buf.ends_with_id ->
                            process_on_universal_instrumentation_end(yt, r, r)
                       [] r \notin y.buf.ends_with_id /\ ~y.managed ->
                            IF f.end # None THEN process_on_universal_instrumentation_end(yf, r, f.end)
                                            ELSE yf
                       [] OTHER -> y
           z == on_platform_runtime_done(x, r, status)
           q == PairOrQueue(x.buf.ends, x.buf.dones, r)
<1>1. z = process_on_platform_runtime_done(paired, r, status)
  BY Zenon DEF on_platform_runtime_done
<1>2. /\ r \in y.buf.ends_with_id => paired = process_on_universal_instrumentation_end(yt, r, r)
      /\ r \notin y.buf.ends_with_id /\ ~y.managed =>
           paired = IF f.end # None THEN process_on_universal_instrumentation_end(yf, r, f.end) ELSE yf
      /\ r \notin y.buf.ends_with_id /\ y.managed => paired = y
  <2>1. CASE r \in y.buf.ends_with_id
    BY <2>1, Zenon
  <2>2. CASE r \notin y.buf.ends_with_id /\ ~y.managed
    BY <2>2, Zenon
  <2>3. CASE r \notin y.buf.ends_with_id /\ y.managed
    BY <2>3, Zenon
  <2> QED BY <2>1, <2>2, <2>3
<1> HIDE DEF z, paired
<1>3. Pairs(x, x1) /\ Shape(x1)
  BY OomKeeps, OomPairs, PairsAside DEF Keeps
<1> HIDE DEF x1
<1>4. Pairs(x, x2) /\ Shape(x2)
  <2>1. Shape(set_usage_enhanced_metrics(x1, r))
    BY <1>3 DEF set_usage_enhanced_metrics, Shape, ProcessorFields
  <2> QED BY <1>3, <2>1, CountersPair, PairsTwice
<1> HIDE DEF x2
<1>5. Matches(x2.buf, d) /\ BufferShape(d)
  <2>1. BufferShape(x2.buf)
    BY <1>4 DEF Shape
  <2>2. BufferShape(d)
    <3> DEFINE c == [get(x2.buf, r) EXCEPT !.runtime_duration = TRUE]
    <3>1. Has(x2.buf, r) => Grows(get(x2.buf, r), c)
      <4>1. Has(x2.buf, r) => DOMAIN get(x2.buf, r) = ContextFields
        BY <2>1, PositionFact DEF BufferShape
      <4> QED BY <4>1 DEF Grows, ContextFields, Sendable
    <3>2. d = IF Has(x2.buf, r) THEN write(x2.buf, Position(x2.buf, r), c) ELSE x2.buf
      BY DEF add_runtime_duration, get_mut
    <3> HIDE DEF c, d
    <3> QED BY <2>1, <3>1, <3>2, GetMutAdvances DEF Advances
  <2> QED BY <2>1, <2>2, NotesMatch
<1> HIDE DEF d
<1>6. Pairs(x, y) /\ Shape(y)
  <2>1. Shape(y)
    BY <1>4, <1>5 DEF Shape, ProcessorFields
  <2> QED BY <1>4, <1>5, <2>1, PairsBuffer, PairsTwice
<1> HIDE DEF y
<1>7. /\ SameSetting(x, y) /\ SameQueues(x.buf, y.buf) /\ (Matched(x.buf) => Matched(y.buf))
      /\ DOMAIN y.buf = BufferFields
  BY <1>6 DEF Pairs, Matches, SameSetting, Shape, BufferShape
<1>8. Shape(yt) /\ Shape(yf)
  BY <1>6, PairingAdvances, KeepsBuffer DEF Shape, Keeps
<1>9. Shape(paired)
  BY <1>2, <1>6, <1>7, <1>8, ProcessEndKeeps DEF Keeps, SameSetting
<1>10. Pairs(paired, z)
  BY <1>1, <1>9, ProcessDonePairs
<1>11. CASE r \in x.buf.ends_with_id
  <2>1. /\ bt.buffer = y.buf.buffer /\ SameStarts(y.buf, bt) /\ bt.dones = y.buf.dones
        /\ bt.ends = y.buf.ends /\ bt.ends_with_id = y.buf.ends_with_id \ {r}
    BY <1>7 DEF take_universal_instrumentation_end_for_request_id, SameStarts, BufferFields
  <2>2. yt.tracer = y.tracer /\ yt.managed = y.managed /\ yt.buf = bt
    BY <1>6 DEF Shape, ProcessorFields
  <2> HIDE DEF yt, bt
  <2>3. Pairs(yt, z)
    BY <1>2, <1>7, <1>8, <1>10, <1>11, ProcessEndPairs, PairsTwice DEF SameQueues
  <2>4. Matched(y.buf) => Matched(bt)
    BY <2>1 DEF Matched
  <2> QED BY <1>7, <1>11, <2>1, <2>2, <2>3, <2>4 DEF Pairs, Matches, SameSetting, SameQueues, SameStarts, z
<1>12. CASE r \notin x.buf.ends_with_id /\ ~x.managed
  <2>1. /\ f.b.buffer = y.buf.buffer /\ SameStarts(y.buf, f.b) /\ f.b.dones = q.mine
        /\ f.b.ends = q.waiting /\ f.b.ends_with_id = y.buf.ends_with_id
        /\ f.end = q.partner
    BY <1>7 DEF pair_platform_runtime_done_event, SameStarts, BufferFields, SameQueues
  <2>2. yf.tracer = y.tracer /\ yf.managed = y.managed /\ yf.buf = f.b
    BY <1>6 DEF Shape, ProcessorFields
  <2>3. paired = IF f.end # None THEN process_on_universal_instrumentation_end(yf, r, f.end) ELSE yf
    BY <1>2, <1>7, <1>12 DEF SameQueues, SameSetting
  <2>4. Matched(y.buf) => Matched(f.b)
    BY <2>1 DEF Matched
  <2> HIDE DEF yf, f, q
  <2>5. SameSetting(yf, paired) /\ SameQueues(yf.buf, paired.buf)
    BY <1>8, <2>3, ProcessEndFrame DEF SameSetting, SameQueues
  <2>6. SameSetting(yf, z) /\ SameQueues(yf.buf, z.buf)
    BY <1>10, <2>5 DEF Pairs, Matches, SameSetting, SameQueues
  <2>7. q.partner \in {None, r} => Pairs(yf, z)
    BY <1>8, <1>10, <2>1, <2>3, ProcessEndPairs, PairsAside, PairsTwice
  <2>8. Matched(x.buf) /\ (x.managed \/ q.partner \in {None, r}) => Matched(z.buf)
    BY <1>7, <1>12, <2>2, <2>4, <2>7 DEF Pairs, Matches
  <2>9. SameSetting(x, z) /\ SameStarts(x.buf, z.buf)
    BY <1>7, <2>1, <2>2, <2>6 DEF SameSetting, SameQueues, SameStarts
  <2>10. z.buf.dones = q.mine /\ z.buf.ends = q.waiting /\ z.buf.ends_with_id = x.buf.ends_with_id
    BY <1>7, <2>1, <2>2, <2>6 DEF SameQueues
  <2> QED BY <1>12, <2>8, <2>9, <2>10 DEF z, q
<1>13. CASE r \notin x.buf.ends_with_id /\ x.managed
  <2>1. Pairs(y, z)
    BY <1>2, <1>7, <1>10, <1>13 DEF SameSetting, SameQueues
  <2> QED BY <1>7, <1>13, <2>1 DEF Pairs, Matches, SameSetting, SameQueues, SameStarts, z
<1> QED BY <1>11, <1>12, <1>13

\* platform.report pairs only by id, with Managed Instances.
LEMMA ReportPairs ==
  ASSUME NEW x, Shape(x), OneEach(x.buf), x.managed \in BOOLEAN, NEW r, NEW status, NEW at_limit, NEW with_init
  PROVE  LET z == on_platform_report(x, r, status, at_limit, with_init)
         IN /\ SameSetting(x, z) /\ SameStarts(x.buf, z.buf)
            /\ z.buf.dones = x.buf.dones /\ z.buf.ends = x.buf.ends
            /\ z.buf.ends_with_id \subseteq x.buf.ends_with_id
            /\ x.buf.ends_with_id \ {r} \subseteq z.buf.ends_with_id
            /\ Matched(x.buf) => Matched(z.buf)
<1> DEFINE h == IF x.managed THEN handle_managed_instance_report(x, r, status)
                ELSE handle_ondemand_report(x, r, at_limit, with_init)
           z == on_platform_report(x, r, status, at_limit, with_init)
           Ok(n) == /\ SameSetting(x, n) /\ SameStarts(x.buf, n.buf)
                    /\ n.buf.dones = x.buf.dones /\ n.buf.ends = x.buf.ends
                    /\ n.buf.ends_with_id \subseteq x.buf.ends_with_id
                    /\ x.buf.ends_with_id \ {r} \subseteq n.buf.ends_with_id
                    /\ Matched(x.buf) => Matched(n.buf)
<1>1. z = release_invocation_context(h, r)
  BY DEF on_platform_report
<1>2. Ok(h) /\ Shape(h) /\ OneEach(h.buf)
  <2>1. CASE x.managed
    <3> DEFINE x1 == [x EXCEPT !.active_invocations = IF @ > 0 THEN @ - 1 ELSE @]
               x2 == IF x1.active_invocations = 0 THEN pause_usage_metrics_monitoring(x1) ELSE x1
    <3>1. h = IF Has(x2.buf, r) THEN on_platform_runtime_done(x2, r, status) ELSE x2
      BY <2>1, Zenon DEF handle_managed_instance_report
    <3> HIDE DEF h
    <3>2. DOMAIN x1 = ProcessorFields /\ x1.tracer = x.tracer /\ x1.managed = x.managed /\ x1.buf = x.buf
      BY DEF Shape, ProcessorFields
    <3> HIDE DEF x1
    <3>3. DOMAIN x2 = ProcessorFields /\ x2.tracer = x.tracer /\ x2.managed = x.managed /\ x2.buf = x.buf
      BY <3>2 DEF ProcessorFields, pause_usage_metrics_monitoring
    <3> HIDE DEF x2
    <3>4. Shape(x2) /\ OneEach(x2.buf)
      BY <3>3 DEF Shape
    <3>5. CASE Has(x2.buf, r)
      <4>1. Shape(h) /\ Ended(x2.buf, h.buf, r)
        BY <3>1, <3>4, <3>5, RuntimeDoneEffect
      <4>2. OneEach(h.buf)
        BY <3>4, <4>1 DEF Ended, OneEach
      <4>3. /\ SameSetting(x2, h) /\ SameStarts(x2.buf, h.buf)
            /\ h.buf.dones = x2.buf.dones /\ h.buf.ends = x2.buf.ends
            /\ h.buf.ends_with_id \subseteq x2.buf.ends_with_id
            /\ x2.buf.ends_with_id \ {r} \subseteq h.buf.ends_with_id
            /\ Matched(x2.buf) => Matched(h.buf)
        <5> DEFINE g == on_platform_runtime_done(x2, r, status)
        <5>1. h = g /\ x2.managed /\ x2.managed \in BOOLEAN
          BY <2>1, <3>1, <3>3, <3>5
        <5>2. /\ SameSetting(x2, g) /\ SameStarts(x2.buf, g.buf)
              /\ x2.managed => g.buf.dones = x2.buf.dones /\ g.buf.ends = x2.buf.ends
              /\ g.buf.ends_with_id \subseteq x2.buf.ends_with_id
              /\ x2.buf.ends_with_id \ {r} \subseteq g.buf.ends_with_id
              /\ Matched(x2.buf) /\ x2.managed => Matched(g.buf)
          BY <3>4, <5>1, RuntimeDonePairs
        <5> HIDE DEF g
        <5> QED BY <5>1, <5>2
      <4> QED BY <3>3, <4>1, <4>2, <4>3 DEF SameSetting
    <3>6. CASE ~Has(x2.buf, r)
      BY <3>1, <3>3, <3>4, <3>6 DEF SameSetting, SameStarts
    <3> QED BY <3>5, <3>6
  <2>2. CASE ~x.managed
    <3> DEFINE x1 == IF at_limit THEN try_increment_oom_metric(x, r) ELSE x
    <3>1. h = IF with_init THEN EmitInitDuration(x1) ELSE x1
      BY <2>2, Zenon DEF handle_ondemand_report
    <3>2. Keeps(x, x1) /\ Pairs(x, x1) /\ Shape(x1)
      BY OomKeeps, OomPairs, KeepsSelf, PairsAside DEF Keeps
    <3> HIDE DEF h, x1
    <3>3. Keeps(x1, h) /\ Pairs(x1, h)
      BY <3>1, <3>2, CountersKeep, CountersPair, KeepsSelf, PairsAside
    <3>4. Keeps(x, h) /\ Pairs(x, h)
      BY <3>2, <3>3, KeepsTwice, PairsTwice
    <3>5. Shape(h) /\ OneEach(h.buf)
      BY <3>4 DEF Keeps, Advances, Grows, OneEach
    <3> QED BY <3>4, <3>5 DEF Pairs, Matches, SameQueues, SameSetting, SameStarts
  <2> QED BY <2>1, <2>2
<1> HIDE DEF h, z
<1>3. Pairs(h, z)
  BY <1>1, <1>2, ReleasePairs
<1> QED BY <1>2, <1>3 DEF Pairs, Matches, SameQueues, SameSetting, SameStarts, z

-----------------------------------------------------------------------------
(* Events are paired with their own invocation *)

\* Requests whose start, whose end has reached the processor.
Begun == env.started \ Elems(tasks.start)
Finished == env.ended \ Elems(tasks.end)

\* On demand, as long as no event is lost and no listener task is overtaken,
\* everything happens in the order of the invocations, and the queues hold what
\* waits for its partner.
Ordered ==
  /\ Down(env.invoked) /\ Down(env.done) /\ Down(env.started) /\ Down(env.ended)
  /\ \A r \in env.started : Before(r) \subseteq env.ended
  /\ Down(Begun) /\ Down(Finished)
  /\ Line(tasks.start, env.started \ Begun) /\ Line(tasks.end, env.ended \ Finished)
  /\ Line(p.buf.invokes, env.invoked \ Begun) /\ Line(p.buf.starts, Begun \ env.invoked)
  /\ Line(p.buf.dones, env.done \ Finished) /\ Line(p.buf.ends, Finished \ env.done)

PairInv ==
  /\ DOMAIN tasks = {"start", "end"} /\ env.ended \subseteq env.started
  /\ p.managed => p.buf.invokes = <<>> /\ p.buf.dones = <<>>
  /\ WithId => p.buf.starts = <<>> /\ p.buf.ends = <<>>
  /\ ~WithId => p.buf.starts_with_id = {} /\ p.buf.ends_with_id = {}
  /\ WithId \/ Orderly => Matched(p.buf)
  /\ ~WithId /\ ~p.managed /\ Orderly => Ordered

\* What the platform and the tracer did so far.
SameFlow ==
  /\ env'.invoked = env.invoked /\ env'.done = env.done /\ env'.started = env.started
  /\ env'.ended = env.ended /\ (Orderly' <=> Orderly) /\ env'.reported = env.reported
  /\ env'.complete = env.complete /\ tasks' = tasks

\* A step that pairs nothing.
LEMMA UnpairedStep ==
  ASSUME PairInv, SameFlow, Pairs(p, p')
  PROVE  PairInv'
<1>1. WithId' = WithId /\ Begun' = Begun /\ Finished' = Finished
  BY DEF WithId, Begun, Finished, SameFlow, Pairs
<1>2. /\ p'.managed = p.managed /\ SameQueues(p.buf, p'.buf)
      /\ Matched(p.buf) => Matched(p'.buf)
  BY DEF Pairs, Matches
<1>3. Ordered => Ordered'
  BY <1>1, <1>2 DEF Ordered, SameFlow, SameQueues
<1>4. (Matched(p.buf))' = Matched(p'.buf)
  BY DEF Matched
<1> QED BY <1>1, <1>2, <1>3, <1>4 DEF PairInv, SameFlow, SameQueues

\* The invoke event.
LEMMA InvokePairStep ==
  ASSUME Inv, PairInv, NEW r \in Requests, InvokeEvent(r) \/ PlatformStart(r)
  PROVE  PairInv'
<1>1. /\ Shape(p) /\ OneEach(p.buf) /\ p.monitoring \in BOOLEAN /\ p.managed \in BOOLEAN
      /\ DOMAIN env = EnvFields
  BY DEF Inv, EnvInv, LedgerInv, UsageInv
<1>2. p' = on_invoke_event(p, r, FALSE)
  BY <1>1 DEF InvokeEvent, PlatformStart, on_platform_start
<1>3. /\ r \notin env.invoked /\ tasks' = tasks
      /\ ~p.managed => Before(r) \subseteq env.invoked
  BY DEF InvokeEvent, PlatformStart, InOrder
<1>4. /\ env'.invoked = env.invoked \cup {r} /\ env'.done = env.done /\ env'.started = env.started
      /\ env'.ended = env.ended /\ (Orderly' <=> Orderly)
  BY <1>1 DEF InvokeEvent, PlatformStart, EnvFields, Orderly
<1>5. \A i \in DOMAIN p.buf.buffer :
        /\ p.buf.buffer[i].id # r
        /\ p.buf.buffer[i].id = EmptyId => ~p.buf.buffer[i].runtime_done_received
  BY <1>3, EmptyIdFact DEF Inv, LedgerInv, ContextInv
<1> DEFINE q == PairOrQueue(p.buf.starts, p.buf.invokes, r)
<1>6. /\ SameSetting(p, p') /\ SameEnds(p.buf, p'.buf)
      /\ r \in p.buf.starts_with_id \/ p.managed =>
           p'.buf.invokes = p.buf.invokes /\ p'.buf.starts = p.buf.starts
      /\ r \notin p.buf.starts_with_id /\ ~p.managed =>
           p'.buf.invokes = q.mine /\ p'.buf.starts = q.waiting
      /\ p'.buf.starts_with_id \subseteq p.buf.starts_with_id
      /\ Matched(p.buf) /\ (p.managed \/ q.partner \in {None, r}) => Matched(p'.buf)
  BY <1>1, <1>2, <1>5, InvokePairs
<1>7. WithId' = WithId /\ Begun' = Begun /\ Finished' = Finished /\ (Matched(p.buf))' = Matched(p'.buf)
  BY <1>3, <1>4, <1>6 DEF WithId, Begun, Finished, SameSetting, Matched
<1>8. p.buf.starts = <<>> => q.waiting = <<>> /\ q.partner = None
  BY DEF PairOrQueue
<1>9. ASSUME ~WithId, ~p.managed, Orderly PROVE Ordered' /\ q.partner \in {None, r}
  <2>1. Ordered /\ r \notin p.buf.starts_with_id
    BY <1>9 DEF PairInv
  <2>2. /\ q.partner \in {None, r} /\ Down(env.invoked \cup {r})
        /\ Line(q.mine, (env.invoked \cup {r}) \ Begun) /\ Line(q.waiting, Begun \ (env.invoked \cup {r}))
    <3> DEFINE A == env.invoked
               B == Begun
               mine == p.buf.invokes
               waiting == p.buf.starts
    <3>1. /\ Down(A) /\ Down(B) /\ Line(mine, A \ B) /\ Line(waiting, B \ A)
          /\ r \notin A /\ Before(r) \subseteq A
      BY <1>3, <1>9, <2>1 DEF Ordered
    <3>2. q = PairOrQueue(waiting, mine, r)
      OBVIOUS
    <3> HIDE DEF A, B, mine, waiting, q
    <3>3. /\ q.partner \in {None, r} /\ Down(A \cup {r})
          /\ Line(q.mine, (A \cup {r}) \ B) /\ Line(q.waiting, B \ (A \cup {r}))
      BY <3>1, <3>2, PairsInOrder
    <3> QED BY <3>3 DEF A, B
  <2>3. p'.buf.invokes = q.mine /\ p'.buf.starts = q.waiting /\ SameEnds(p.buf, p'.buf)
    BY <1>6, <1>9, <2>1
  <2> HIDE DEF q
  <2>4. Ordered'
    BY <1>3, <1>4, <1>7, <2>1, <2>2, <2>3 DEF Ordered, SameEnds
  <2> QED BY <2>2, <2>4
<1> HIDE DEF q
<1>10. WithId \/ Orderly => Matched(p'.buf)
  <2>1. CASE WithId
    BY <1>6, <1>8, <2>1 DEF PairInv
  <2>2. CASE ~WithId /\ Orderly
    BY <1>6, <1>9, <2>2 DEF PairInv
  <2> QED BY <2>1, <2>2
<1>11. WithId => p'.buf.starts = <<>> /\ p'.buf.ends = <<>>
  BY <1>6, <1>8 DEF PairInv, SameEnds
<1>12. p.managed => p'.buf.invokes = <<>> /\ p'.buf.dones = <<>>
  BY <1>6 DEF PairInv, SameEnds
<1>13. ~WithId => p'.buf.starts_with_id = {} /\ p'.buf.ends_with_id = {}
  BY <1>6 DEF PairInv, SameEnds
<1>14. p'.managed = p.managed /\ env'.ended \subseteq env'.started
  BY <1>4, <1>6 DEF SameSetting, PairInv
<1> QED BY <1>3, <1>4, <1>7, <1>9, <1>10, <1>11, <1>12, <1>13, <1>14 DEF PairInv

\* platform.runtimeDone.
LEMMA RuntimeDonePairStep ==
  ASSUME Inv, PairInv, NEW r \in Requests, PlatformRuntimeDone(r)
  PROVE  PairInv'
<1>1. Shape(p) /\ ~p.managed /\ p.managed \in BOOLEAN /\ DOMAIN env = EnvFields
  BY DEF Inv, EnvInv, LedgerInv, PlatformRuntimeDone
<1>2. PICK status : p' = on_platform_runtime_done(p, r, status)
  BY DEF PlatformRuntimeDone
<1>3. /\ env' = [env EXCEPT !.done = @ \cup {r}, !.complete = @ \cup ({r} \cap Through)] /\ tasks' = tasks
      /\ r \notin env.done /\ Before(r) \subseteq env.reported
  BY <1>1 DEF PlatformRuntimeDone, InOrder
<1>4. /\ env'.invoked = env.invoked /\ env'.done = env.done \cup {r} /\ env'.started = env.started
      /\ env'.ended = env.ended /\ (Orderly' <=> Orderly) /\ Before(r) \subseteq env.done
  BY <1>1, <1>3 DEF EnvFields, Orderly, Inv, EnvInv
<1> DEFINE q == PairOrQueue(p.buf.ends, p.buf.dones, r)
<1>6. /\ SameSetting(p, p') /\ SameStarts(p.buf, p'.buf)
      /\ r \in p.buf.ends_with_id \/ p.managed =>
           p'.buf.dones = p.buf.dones /\ p'.buf.ends = p.buf.ends
      /\ r \notin p.buf.ends_with_id /\ ~p.managed =>
           p'.buf.dones = q.mine /\ p'.buf.ends = q.waiting
      /\ p'.buf.ends_with_id \subseteq p.buf.ends_with_id
      /\ Matched(p.buf) /\ (p.managed \/ q.partner \in {None, r}) => Matched(p'.buf)
  BY <1>1, <1>2, RuntimeDonePairs
<1>7. WithId' = WithId /\ Begun' = Begun /\ Finished' = Finished /\ (Matched(p.buf))' = Matched(p'.buf)
  BY <1>3, <1>4, <1>6 DEF WithId, Begun, Finished, SameSetting, Matched
<1>8. p.buf.ends = <<>> => q.waiting = <<>> /\ q.partner = None
  BY DEF PairOrQueue
<1>9. ASSUME ~WithId, Orderly PROVE Ordered' /\ q.partner \in {None, r}
  <2>1. Ordered /\ r \notin p.buf.ends_with_id
    BY <1>1, <1>9 DEF PairInv
  <2>2. /\ q.partner \in {None, r} /\ Down(env.done \cup {r})
        /\ Line(q.mine, (env.done \cup {r}) \ Finished) /\ Line(q.waiting, Finished \ (env.done \cup {r}))
    <3> DEFINE A == env.done
               B == Finished
               mine == p.buf.dones
               waiting == p.buf.ends
    <3>1. /\ Down(A) /\ Down(B) /\ Line(mine, A \ B) /\ Line(waiting, B \ A)
          /\ r \notin A /\ Before(r) \subseteq A
      BY <1>3, <1>4, <2>1 DEF Ordered
    <3>2. q = PairOrQueue(waiting, mine, r)
      OBVIOUS
    <3> HIDE DEF A, B, mine, waiting, q
    <3>3. /\ q.partner \in {None, r} /\ Down(A \cup {r})
          /\ Line(q.mine, (A \cup {r}) \ B) /\ Line(q.waiting, B \ (A \cup {r}))
      BY <3>1, <3>2, PairsInOrder
    <3> QED BY <3>3 DEF A, B
  <2>3. p'.buf.dones = q.mine /\ p'.buf.ends = q.waiting /\ SameStarts(p.buf, p'.buf)
    BY <1>1, <1>6, <2>1
  <2> HIDE DEF q
  <2>4. Ordered'
    BY <1>3, <1>4, <1>7, <2>1, <2>2, <2>3 DEF Ordered, SameStarts
  <2> QED BY <2>2, <2>4
<1> HIDE DEF q
<1>10. WithId \/ Orderly => Matched(p'.buf)
  <2>1. CASE WithId
    BY <1>6, <1>8, <2>1 DEF PairInv
  <2>2. CASE ~WithId /\ Orderly
    BY <1>6, <1>9, <2>2 DEF PairInv
  <2> QED BY <2>1, <2>2
<1>11. WithId => p'.buf.starts = <<>> /\ p'.buf.ends = <<>>
  BY <1>1, <1>6, <1>8 DEF PairInv, SameStarts
<1>12. ~WithId => p'.buf.starts_with_id = {} /\ p'.buf.ends_with_id = {}
  BY <1>6 DEF PairInv, SameStarts
<1>13. ~p'.managed /\ env'.ended \subseteq env'.started
  BY <1>1, <1>4, <1>6 DEF SameSetting, PairInv
<1> QED BY <1>3, <1>4, <1>7, <1>9, <1>10, <1>11, <1>12, <1>13 DEF PairInv

\* platform.report.
LEMMA ReportPairStep ==
  ASSUME Inv, PairInv, NEW r \in Requests, PlatformReport(r)
  PROVE  PairInv'
<1>1. Shape(p) /\ OneEach(p.buf) /\ p.managed \in BOOLEAN /\ DOMAIN env = EnvFields
  BY DEF Inv, EnvInv, LedgerInv
<1>2. PICK status, at_limit : p' = on_platform_report(p, r, status, at_limit, r = 1)
  BY DEF PlatformReport
<1>3. /\ env' = [env EXCEPT !.reported = @ \cup {r}, !.done = @ \cup {r},
                            !.complete = @ \cup ({r} \cap (Through \ env.done))]
      /\ tasks' = tasks /\ (~p.managed => r \in env.done)
  BY DEF PlatformReport
<1>4. /\ env'.invoked = env.invoked /\ env'.started = env.started
      /\ env'.ended = env.ended /\ (Orderly' <=> Orderly) /\ (~p.managed => env'.done = env.done)
  BY <1>1, <1>3 DEF EnvFields, Orderly
<1>5. /\ SameSetting(p, p') /\ SameStarts(p.buf, p'.buf)
      /\ p'.buf.dones = p.buf.dones /\ p'.buf.ends = p.buf.ends
      /\ p'.buf.ends_with_id \subseteq p.buf.ends_with_id
      /\ Matched(p.buf) => Matched(p'.buf)
  BY <1>1, <1>2, ReportPairs
<1>6. WithId' = WithId /\ Begun' = Begun /\ Finished' = Finished /\ (Matched(p.buf))' = Matched(p'.buf)
  BY <1>3, <1>4, <1>5 DEF WithId, Begun, Finished, SameSetting, Matched
<1>7. ~p.managed /\ Ordered => Ordered'
  BY <1>3, <1>4, <1>5, <1>6 DEF Ordered, SameStarts
<1> QED BY <1>3, <1>4, <1>5, <1>6, <1>7 DEF PairInv, SameSetting, SameStarts

\* The task at a position of a queue of tasks runs.
LEMMA RunFact ==
  ASSUME NEW q, IsSequence(q), NEW k \in DOMAIN q
  PROVE  /\ IsSequence(RemoveAt(q, k)) /\ k \in Nat \ {0} /\ (k # 1 => 1 \in 1 .. k - 1)
         /\ Elems(RemoveAt(q, k)) \subseteq Elems(q) /\ Elems(q) \subseteq Elems(RemoveAt(q, k)) \cup {q[k]}
         /\ k = 1 => q # <<>> /\ q[k] = Head(q) /\ RemoveAt(q, k) = Tail(q)
<1>1. /\ IsSequence(RemoveAt(q, k)) /\ Len(q) \in Nat /\ DOMAIN q = 1 .. Len(q)
      /\ DOMAIN RemoveAt(q, k) = 1 .. Len(q) - 1
      /\ \A i \in 1 .. Len(q) - 1 : RemoveAt(q, k)[i] = IF i < k THEN q[i] ELSE q[i + 1]
  BY RemoveAtFact
<1> DEFINE t == RemoveAt(q, k)
<1> HIDE DEF t
<1>2. ASSUME NEW e \in Elems(t) PROVE e \in Elems(q)
  <2>1. PICK i \in 1 .. Len(q) - 1 : e = IF i < k THEN q[i] ELSE q[i + 1]
    BY <1>1, <1>2 DEF Elems, t
  <2>2. i \in DOMAIN q /\ i + 1 \in DOMAIN q
    BY <1>1
  <2> QED BY <2>1, <2>2 DEF Elems
<1>3. ASSUME NEW e \in Elems(q), e # q[k] PROVE e \in Elems(t)
  <2>1. PICK i \in DOMAIN q : e = q[i]
    BY <1>3 DEF Elems
  <2>2. i # k /\ i \in 1 .. Len(q) /\ k \in 1 .. Len(q)
    BY <1>1, <1>3, <2>1
  <2>3. CASE i < k
    <3>1. i \in 1 .. Len(q) - 1
      BY <1>1, <2>2, <2>3
    <3>2. t[i] = q[i] /\ i \in DOMAIN t
      BY <1>1, <2>3, <3>1 DEF t
    <3> QED BY <2>1, <3>2 DEF Elems
  <2>4. CASE ~(i < k)
    <3>1. i - 1 \in 1 .. Len(q) - 1 /\ ~(i - 1 < k) /\ (i - 1) + 1 = i
      BY <1>1, <2>2, <2>4
    <3>2. t[i - 1] = q[i] /\ i - 1 \in DOMAIN t
      BY <1>1, <3>1 DEF t
    <3> QED BY <2>1, <3>2 DEF Elems
  <2> QED BY <2>3, <2>4
<1>4. ASSUME k = 1 PROVE q # <<>> /\ q[k] = Head(q) /\ t = Tail(q)
  <2>1. q # <<>>
    BY <1>1, <1>4
  <2>2. /\ IsSequence(Tail(q)) /\ DOMAIN Tail(q) = 1 .. Len(q) - 1 /\ Head(q) = q[1]
        /\ \A i \in 1 .. Len(q) - 1 : Tail(q)[i] = q[i + 1]
    BY <2>1, TailFact
  <2>3. \A i \in 1 .. Len(q) - 1 : t[i] = q[i + 1]
    BY <1>1, <1>4 DEF t
  <2> DEFINE w == Tail(q)
  <2> HIDE DEF w
  <2>4. t = [i \in DOMAIN t |-> t[i]] /\ w = [i \in DOMAIN w |-> w[i]]
    <3>1. t \in Seq(Elems(t)) /\ w \in Seq(Elems(w))
      BY <1>1, <2>2 DEF t, w, IsSequence, Elems
    <3> QED BY <3>1
  <2>5. t = w
    BY <1>1, <2>2, <2>3, <2>4 DEF t, w
  <2> QED BY <1>4, <2>1, <2>2, <2>5 DEF w
<1>5. k \in Nat \ {0} /\ (k # 1 => 1 \in 1 .. k - 1)
  BY <1>1
<1> QED BY <1>1, <1>2, <1>3, <1>4, <1>5 DEF t

\* The first task of a queue of tasks runs: it is of the next request whose
\* event the processor has not seen.
LEMMA TaskFact ==
  ASSUME NEW q, NEW S, Down(S), Down(S \ Elems(q)), Line(q, S \ (S \ Elems(q))), q # <<>>
  PROVE  LET D == S \ Elems(q)
             N == S \ Elems(Tail(q))
         IN /\ Head(q) \in Requests /\ Head(q) \notin D /\ Before(Head(q)) \subseteq D
            /\ N = D \cup {Head(q)} /\ Line(Tail(q), S \ N)
<1> DEFINE D == S \ Elems(q)
           h == Head(q)
<1>1. S \subseteq Requests /\ S \ D \subseteq Requests /\ Requests \subseteq Nat \ {0}
  BY BufferAssumption DEF Down
<1>2. Elems(q) \subseteq S
  BY DEF Line
<1>3. h \in S \ D /\ (\A t \in S \ D : h <= t) /\ Line(Tail(q), (S \ D) \ {h})
  BY <1>1, LineTail
<1>4. Elems(Tail(q)) = (S \ D) \ {h}
  BY <1>3 DEF Line
<1> HIDE DEF h
<1>5. ASSUME NEW t \in Before(h) PROVE t \in D
  <2>1. t \in Requests /\ t < h /\ t \in S
    BY <1>1, <1>3 DEF Before, Down
  <2> QED BY <1>1, <1>3, <2>1
<1>6. S \ Elems(Tail(q)) = D \cup {h}
  BY <1>2, <1>3, <1>4
<1>7. S \ (D \cup {h}) = (S \ D) \ {h}
  OBVIOUS
<1> QED BY <1>1, <1>3, <1>5, <1>6, <1>7 DEF h

\* The start event reaches the processor.
LEMMA StartPairStep ==
  ASSUME Inv, PairInv, universal_instrumentation_start
  PROVE  PairInv'
<1>1. Shape(p) /\ p.managed \in BOOLEAN /\ WithId \in BOOLEAN
  BY DEF Inv, LedgerInv, WithId
<1>0. PICK k \in DOMAIN tasks.start :
        /\ p' = on_universal_instrumentation_start(p, tasks.start[k], WithId)
        /\ tasks' = [tasks EXCEPT !.start = RemoveAt(@, k)]
        /\ env' = [env EXCEPT !.overtaken = @ \cup {tasks.start[j] : j \in 1 .. k - 1}]
  BY DEF universal_instrumentation_start
<1> DEFINE s == tasks.start[k]
<1>2. /\ p' = on_universal_instrumentation_start(p, s, WithId)
      /\ env'.invoked = env.invoked /\ env'.done = env.done /\ env'.started = env.started
      /\ env'.ended = env.ended /\ env'.lost = env.lost
      /\ env'.overtaken = env.overtaken \cup {tasks.start[j] : j \in 1 .. k - 1}
  BY <1>0 DEF Inv, EnvInv, EnvFields
<1>o. Orderly' => Orderly
  BY <1>2 DEF Orderly
<1> DEFINE q == PairOrQueue(p.buf.invokes, p.buf.starts, s)
<1>3. /\ SameSetting(p, p') /\ SameEnds(p.buf, p'.buf)
      /\ WithId => p'.buf.starts = p.buf.starts
      /\ ~WithId => /\ p'.buf.invokes = q.waiting /\ p'.buf.starts = q.mine
                    /\ p'.buf.starts_with_id = p.buf.starts_with_id
      /\ p.buf.invokes = <<>> => p'.buf.invokes = <<>>
      /\ Matched(p.buf) /\ (WithId \/ q.partner \in {None, s}) => Matched(p'.buf)
  BY <1>1, <1>2, StartPairs
<1>4. WithId' = WithId /\ (Matched(p.buf))' = Matched(p'.buf)
  BY <1>3 DEF WithId, SameSetting, Matched
<1>5. p.buf.invokes = <<>> => q.partner = None
  BY DEF PairOrQueue
<1>6. ASSUME ~WithId, ~p.managed, Orderly' PROVE Ordered' /\ q.partner \in {None, s}
  <2>1. Ordered
    BY <1>6, <1>o DEF PairInv
  <2>2. DOMAIN tasks = {"start", "end"}
    BY DEF PairInv
  <2>0. tasks.start # <<>> /\ s = Head(tasks.start) /\ RemoveAt(tasks.start, k) = Tail(tasks.start)
    <3>1. IsSequence(tasks.start)
      BY <2>1 DEF Ordered, Line
    <3> DEFINE t == tasks.start
    <3> HIDE DEF t
    <3>2. /\ k # 1 => 1 \in 1 .. k - 1
          /\ k = 1 => t # <<>> /\ t[k] = Head(t) /\ RemoveAt(t, k) = Tail(t)
      BY <3>1, RunFact DEF t
    <3>3. k = 1
      BY <1>2, <1>6, <3>2 DEF Orderly
    <3> QED BY <3>2, <3>3 DEF t
  <2>3. tasks'.start = Tail(tasks.start) /\ tasks'.end = tasks.end
    BY <1>0, <2>0, <2>2
  <2>4. /\ s \in Requests /\ s \notin Begun /\ Before(s) \subseteq Begun
        /\ Begun' = Begun \cup {s} /\ Line(Tail(tasks.start), env.started \ (Begun \cup {s}))
    <3> DEFINE S == env.started
               t == tasks.start
    <3>1. Down(S) /\ Down(S \ Elems(t)) /\ Line(t, S \ (S \ Elems(t))) /\ t # <<>>
      BY <2>0, <2>1 DEF Ordered, Begun
    <3> HIDE DEF S, t
    <3>2. LET D == S \ Elems(t)
              N == S \ Elems(Tail(t))
          IN /\ Head(t) \in Requests /\ Head(t) \notin D /\ Before(Head(t)) \subseteq D
             /\ N = D \cup {Head(t)} /\ Line(Tail(t), S \ N)
      BY <3>1, TaskFact
    <3> QED BY <1>2, <2>0, <2>3, <3>2 DEF Begun, S, t
  <2> HIDE DEF s
  <2>5. /\ q.partner \in {None, s} /\ Down(Begun \cup {s})
        /\ Line(q.mine, (Begun \cup {s}) \ env.invoked) /\ Line(q.waiting, env.invoked \ (Begun \cup {s}))
    <3> DEFINE A == Begun
               B == env.invoked
               mine == p.buf.starts
               waiting == p.buf.invokes
    <3>1. /\ Down(A) /\ Down(B) /\ Line(mine, A \ B) /\ Line(waiting, B \ A)
          /\ s \in Requests /\ s \notin A /\ Before(s) \subseteq A
      BY <2>1, <2>4 DEF Ordered
    <3>2. q = PairOrQueue(waiting, mine, s)
      OBVIOUS
    <3> HIDE DEF A, B, mine, waiting, q
    <3>3. /\ q.partner \in {None, s} /\ Down(A \cup {s})
          /\ Line(q.mine, (A \cup {s}) \ B) /\ Line(q.waiting, B \ (A \cup {s}))
      BY <3>1, <3>2, PairsInOrder
    <3> QED BY <3>3 DEF A, B
  <2>6. p'.buf.invokes = q.waiting /\ p'.buf.starts = q.mine /\ SameEnds(p.buf, p'.buf)
    BY <1>3, <1>6
  <2> HIDE DEF q
  <2>7. Finished' = Finished
    BY <1>2, <2>3 DEF Finished
  <2>8. Ordered'
    BY <1>2, <2>1, <2>3, <2>4, <2>5, <2>6, <2>7 DEF Ordered, SameEnds
  <2> QED BY <2>5, <2>8
<1> HIDE DEF q, s
<1>7. WithId \/ Orderly' => Matched(p'.buf)
  <2>1. CASE WithId
    BY <1>3, <2>1 DEF PairInv
  <2>2. CASE ~WithId /\ Orderly' /\ p.managed
    BY <1>3, <1>5, <1>o, <2>2 DEF PairInv
  <2>3. CASE ~WithId /\ Orderly' /\ ~p.managed
    BY <1>3, <1>6, <1>o, <2>3 DEF PairInv
  <2> QED BY <1>1, <2>1, <2>2, <2>3
<1>8. WithId => p'.buf.starts = <<>> /\ p'.buf.ends = <<>>
  BY <1>3 DEF PairInv, SameEnds
<1>9. p.managed => p'.buf.invokes = <<>> /\ p'.buf.dones = <<>>
  BY <1>3 DEF PairInv, SameEnds
<1>10. ~WithId => p'.buf.starts_with_id = {} /\ p'.buf.ends_with_id = {}
  BY <1>3 DEF PairInv, SameEnds
<1>11. p'.managed = p.managed /\ DOMAIN tasks' = {"start", "end"}
  BY <1>0, <1>3 DEF SameSetting, PairInv
<1> QED BY <1>2, <1>4, <1>6, <1>7, <1>8, <1>9, <1>10, <1>11 DEF PairInv
\* The end event reaches the processor.
LEMMA EndPairStep ==
  ASSUME Inv, PairInv, universal_instrumentation_end
  PROVE  PairInv'
<1>1. Shape(p) /\ p.managed \in BOOLEAN /\ WithId \in BOOLEAN
  BY DEF Inv, LedgerInv, WithId
<1>0. PICK k \in DOMAIN tasks.end :
        /\ p' = on_universal_instrumentation_end(p, tasks.end[k], WithId)
        /\ tasks' = [tasks EXCEPT !.end = RemoveAt(@, k)]
        /\ env' = [env EXCEPT !.overtaken = @ \cup {tasks.end[j] : j \in 1 .. k - 1}]
  BY DEF universal_instrumentation_end
<1> DEFINE e == tasks.end[k]
<1>2. /\ p' = on_universal_instrumentation_end(p, e, WithId)
      /\ env'.invoked = env.invoked /\ env'.done = env.done /\ env'.started = env.started
      /\ env'.ended = env.ended /\ env'.lost = env.lost
      /\ env'.overtaken = env.overtaken \cup {tasks.end[j] : j \in 1 .. k - 1}
  BY <1>0 DEF Inv, EnvInv, EnvFields
<1>o. Orderly' => Orderly
  BY <1>2 DEF Orderly
<1> DEFINE q == PairOrQueue(p.buf.dones, p.buf.ends, e)
<1>3. /\ SameSetting(p, p') /\ SameStarts(p.buf, p'.buf)
      /\ WithId => p'.buf.ends = p.buf.ends
      /\ ~WithId => /\ p'.buf.dones = q.waiting /\ p'.buf.ends = q.mine
                    /\ p'.buf.ends_with_id = p.buf.ends_with_id
      /\ p.buf.dones = <<>> => p'.buf.dones = <<>>
      /\ Matched(p.buf) /\ (WithId \/ q.partner \in {None, e}) => Matched(p'.buf)
  BY <1>1, <1>2, EndPairs
<1>4. WithId' = WithId /\ (Matched(p.buf))' = Matched(p'.buf)
  BY <1>3 DEF WithId, SameSetting, Matched
<1>5. p.buf.dones = <<>> => q.partner = None
  BY DEF PairOrQueue
<1>6. ASSUME ~WithId, ~p.managed, Orderly' PROVE Ordered' /\ q.partner \in {None, e}
  <2>1. Ordered
    BY <1>6, <1>o DEF PairInv
  <2>2. DOMAIN tasks = {"start", "end"}
    BY DEF PairInv
  <2>0. tasks.end # <<>> /\ e = Head(tasks.end) /\ RemoveAt(tasks.end, k) = Tail(tasks.end)
    <3>1. IsSequence(tasks.end)
      BY <2>1 DEF Ordered, Line
    <3> DEFINE t == tasks.end
    <3> HIDE DEF t
    <3>2. /\ k # 1 => 1 \in 1 .. k - 1
          /\ k = 1 => t # <<>> /\ t[k] = Head(t) /\ RemoveAt(t, k) = Tail(t)
      BY <3>1, RunFact DEF t
    <3>3. k = 1
      BY <1>2, <1>6, <3>2 DEF Orderly
    <3> QED BY <3>2, <3>3 DEF t
  <2>3. tasks'.end = Tail(tasks.end) /\ tasks'.start = tasks.start
    BY <1>0, <2>0, <2>2
  <2>4. /\ e \in Requests /\ e \notin Finished /\ Before(e) \subseteq Finished
        /\ Finished' = Finished \cup {e} /\ Line(Tail(tasks.end), env.ended \ (Finished \cup {e}))
    <3> DEFINE S == env.ended
               t == tasks.end
    <3>1. Down(S) /\ Down(S \ Elems(t)) /\ Line(t, S \ (S \ Elems(t))) /\ t # <<>>
      BY <2>0, <2>1 DEF Ordered, Finished
    <3> HIDE DEF S, t
    <3>2. LET D == S \ Elems(t)
              N == S \ Elems(Tail(t))
          IN /\ Head(t) \in Requests /\ Head(t) \notin D /\ Before(Head(t)) \subseteq D
             /\ N = D \cup {Head(t)} /\ Line(Tail(t), S \ N)
      BY <3>1, TaskFact
    <3> QED BY <1>2, <2>0, <2>3, <3>2 DEF Finished, S, t
  <2> HIDE DEF e
  <2>5. /\ q.partner \in {None, e} /\ Down(Finished \cup {e})
        /\ Line(q.mine, (Finished \cup {e}) \ env.done) /\ Line(q.waiting, env.done \ (Finished \cup {e}))
    <3> DEFINE A == Finished
               B == env.done
               mine == p.buf.ends
               waiting == p.buf.dones
    <3>1. /\ Down(A) /\ Down(B) /\ Line(mine, A \ B) /\ Line(waiting, B \ A)
          /\ e \in Requests /\ e \notin A /\ Before(e) \subseteq A
      BY <2>1, <2>4 DEF Ordered
    <3>2. q = PairOrQueue(waiting, mine, e)
      OBVIOUS
    <3> HIDE DEF A, B, mine, waiting, q
    <3>3. /\ q.partner \in {None, e} /\ Down(A \cup {e})
          /\ Line(q.mine, (A \cup {e}) \ B) /\ Line(q.waiting, B \ (A \cup {e}))
      BY <3>1, <3>2, PairsInOrder
    <3> QED BY <3>3 DEF A, B
  <2>6. p'.buf.dones = q.waiting /\ p'.buf.ends = q.mine /\ SameStarts(p.buf, p'.buf)
    BY <1>3, <1>6
  <2> HIDE DEF q
  <2>7. Begun' = Begun
    BY <1>2, <2>3 DEF Begun
  <2>8. Ordered'
    BY <1>2, <2>1, <2>3, <2>4, <2>5, <2>6, <2>7 DEF Ordered, SameStarts
  <2> QED BY <2>5, <2>8
<1> HIDE DEF q, e
<1>7. WithId \/ Orderly' => Matched(p'.buf)
  <2>1. CASE WithId
    BY <1>3, <2>1 DEF PairInv
  <2>2. CASE ~WithId /\ Orderly' /\ p.managed
    BY <1>3, <1>5, <1>o, <2>2 DEF PairInv
  <2>3. CASE ~WithId /\ Orderly' /\ ~p.managed
    BY <1>3, <1>6, <1>o, <2>3 DEF PairInv
  <2> QED BY <1>1, <2>1, <2>2, <2>3
<1>8. WithId => p'.buf.ends = <<>> /\ p'.buf.starts = <<>>
  BY <1>3 DEF PairInv, SameStarts
<1>9. p.managed => p'.buf.invokes = <<>> /\ p'.buf.dones = <<>>
  BY <1>3 DEF PairInv, SameStarts
<1>10. ~WithId => p'.buf.ends_with_id = {} /\ p'.buf.starts_with_id = {}
  BY <1>3 DEF PairInv, SameStarts
<1>11. p'.managed = p.managed /\ DOMAIN tasks' = {"start", "end"}
  BY <1>0, <1>3 DEF SameSetting, PairInv
<1> QED BY <1>2, <1>4, <1>6, <1>7, <1>8, <1>9, <1>10, <1>11 DEF PairInv

\* The listener spawns a task for a start event: it is the last one.
LEMMA ListenStartStep ==
  ASSUME Inv, PairInv, NEW r \in Requests, handle_start_invocation(r)
  PROVE  PairInv'
<1>1. DOMAIN env = EnvFields /\ DOMAIN tasks = {"start", "end"} /\ env.ended \subseteq env.started
  BY DEF Inv, EnvInv, PairInv
<1>2. /\ tasks' = [tasks EXCEPT !.start = Append(tasks.start, r)] /\ p' = p
      /\ env' = [env EXCEPT !.started = @ \cup {r}] /\ r \notin env.started
      /\ ~p.managed => Before(r) \subseteq env.ended \cup env.lost
  BY DEF handle_start_invocation, InOrder
<1>3. /\ env'.invoked = env.invoked /\ env'.done = env.done /\ env'.started = env.started \cup {r}
      /\ env'.ended = env.ended /\ (Orderly' <=> Orderly)
      /\ tasks'.start = Append(tasks.start, r) /\ tasks'.end = tasks.end /\ DOMAIN tasks' = {"start", "end"}
  BY <1>1, <1>2 DEF EnvFields, Orderly
<1>4. ASSUME ~p.managed, Orderly, Ordered PROVE Ordered'
  <2>1. Before(r) \subseteq env.ended /\ Finished' = Finished
    BY <1>2, <1>3, <1>4 DEF Finished, Orderly
  <2> DEFINE S == env.started
             t == tasks.start
  <2>2. Line(t, S \ Begun) /\ Begun = S \ Elems(t) /\ Down(S) /\ \A u \in S : Before(u) \subseteq env.ended
    BY <1>4 DEF Ordered, Begun
  <2>3. \A u \in S : u < r
    <3> SUFFICES ASSUME NEW u \in S, ~(u < r) PROVE FALSE
      OBVIOUS
    <3>1. u \in Nat /\ r \in Nat /\ u # r
      BY <1>2, <2>2, BufferAssumption DEF Down
    <3>2. r \in Before(u)
      BY <3>1 DEF Before
    <3> QED BY <1>1, <1>2, <2>2, <3>2
  <2> HIDE DEF S, t
  <2>4. Line(Append(t, r), (S \ Begun) \cup {r})
    BY <2>2, <2>3, LineAppend
  <2>5. Elems(Append(t, r)) = (S \ Begun) \cup {r}
    BY <2>4 DEF Line
  <2>6. (S \cup {r}) \ Elems(Append(t, r)) = Begun /\ (S \ Begun) \cup {r} = (S \cup {r}) \ Begun
    BY <1>2, <2>2, <2>5 DEF S
  <2>7. Begun' = Begun /\ Line(tasks'.start, env'.started \ Begun)
    BY <1>3, <2>4, <2>6 DEF Begun, S, t
  <2>8. Down(env'.started) /\ \A u \in env'.started : Before(u) \subseteq env.ended
    BY <1>1, <1>3, <2>1, <2>2 DEF Down, S
  <2> QED BY <1>2, <1>3, <1>4, <2>1, <2>7, <2>8 DEF Ordered
<1>5. WithId' = WithId /\ (Matched(p.buf))' = Matched(p.buf)
  BY <1>2 DEF WithId, Matched
<1> QED BY <1>1, <1>2, <1>3, <1>4, <1>5 DEF PairInv

\* And for an end event.
LEMMA ListenEndStep ==
  ASSUME Inv, PairInv, NEW r \in Requests, handle_end_invocation(r)
  PROVE  PairInv'
<1>1. DOMAIN env = EnvFields /\ DOMAIN tasks = {"start", "end"} /\ env.ended \subseteq env.started
  BY DEF Inv, EnvInv, PairInv
<1>2. /\ tasks' = [tasks EXCEPT !.end = Append(tasks.end, r)] /\ p' = p
      /\ env' = [env EXCEPT !.ended = @ \cup {r}] /\ r \in env.started /\ r \notin env.ended
  BY DEF handle_end_invocation
<1>3. /\ env'.invoked = env.invoked /\ env'.done = env.done /\ env'.started = env.started
      /\ env'.ended = env.ended \cup {r} /\ (Orderly' <=> Orderly)
      /\ tasks'.end = Append(tasks.end, r) /\ tasks'.start = tasks.start /\ DOMAIN tasks' = {"start", "end"}
  BY <1>1, <1>2 DEF EnvFields, Orderly
<1>4. ASSUME Ordered PROVE Ordered'
  <2>1. Before(r) \subseteq env.ended /\ Begun' = Begun
    BY <1>2, <1>3, <1>4 DEF Begun, Ordered
  <2> DEFINE S == env.ended
             t == tasks.end
  <2>2. /\ Line(t, S \ Finished) /\ Finished = S \ Elems(t) /\ Down(S)
        /\ \A u \in env.started : Before(u) \subseteq S
    BY <1>4 DEF Ordered, Finished
  <2>3. \A u \in S : u < r
    <3> SUFFICES ASSUME NEW u \in S, ~(u < r) PROVE FALSE
      OBVIOUS
    <3>1. u \in Nat /\ r \in Nat /\ u # r
      BY <1>2, <2>2, BufferAssumption DEF Down
    <3>2. r \in Before(u)
      BY <3>1 DEF Before
    <3> QED BY <1>1, <1>2, <2>2, <3>2
  <2> HIDE DEF S, t
  <2>4. Line(Append(t, r), (S \ Finished) \cup {r})
    BY <2>2, <2>3, LineAppend
  <2>5. Elems(Append(t, r)) = (S \ Finished) \cup {r}
    BY <2>4 DEF Line
  <2>6. (S \cup {r}) \ Elems(Append(t, r)) = Finished /\ (S \ Finished) \cup {r} = (S \cup {r}) \ Finished
    BY <1>2, <2>2, <2>5 DEF S
  <2>7. Finished' = Finished /\ Line(tasks'.end, env'.ended \ Finished)
    BY <1>3, <2>4, <2>6 DEF Finished, S, t
  <2>8. Down(env'.ended) /\ \A u \in env'.started : Before(u) \subseteq env'.ended
    BY <1>3, <2>1, <2>2 DEF Down, S
  <2> QED BY <1>2, <1>3, <1>4, <2>1, <2>7, <2>8 DEF Ordered
<1>5. WithId' = WithId /\ (Matched(p.buf))' = Matched(p.buf)
  BY <1>2 DEF WithId, Matched
<1>6. env'.ended \subseteq env'.started
  BY <1>1, <1>2, <1>3
<1> QED BY <1>2, <1>3, <1>4, <1>5, <1>6 DEF PairInv

\* Once an event is lost the order is void, and ids alone count.
LEMMA LostPairStep ==
  ASSUME Inv, PairInv, NEW r \in Requests, TracerLosesEvent(r)
  PROVE  PairInv'
<1>1. DOMAIN env = EnvFields
  BY DEF Inv, EnvInv
<1>2. p' = p /\ tasks' = tasks /\ env' = [env EXCEPT !.lost = @ \cup {r}, !.extra = @ + 1]
  BY DEF TracerLosesEvent
<1>3. env'.started = env.started /\ env'.ended = env.ended /\ ~Orderly'
  BY <1>1, <1>2 DEF EnvFields, Orderly
<1>4. WithId' = WithId /\ (Matched(p.buf))' = Matched(p.buf)
  BY <1>2 DEF WithId, Matched
<1> QED BY <1>2, <1>3, <1>4 DEF PairInv

\* The initial states.
LEMMA PairInit == Init => PairInv
<1> SUFFICES ASSUME Init PROVE PairInv
  OBVIOUS
<1>1. PICK s \in Setups : p = new(s.managed, s.tracer)
  BY DEF Init
<1>2. p.buf = EmptyBuffer
  BY <1>1 DEF new
<1>3. /\ env.invoked = {} /\ env.done = {} /\ env.started = {} /\ env.ended = {}
      /\ tasks = [start |-> <<>>, end |-> <<>>]
  BY DEF Init
<1>4. IsSequence(<<>>) /\ DOMAIN <<>> = {} /\ Elems(<<>>) = {}
  <2>1. <<>> \in Seq({}) /\ DOMAIN <<>> = {}
    OBVIOUS
  <2> QED BY <2>1, SequenceFact DEF Elems
<1>5. Line(<<>>, {}) /\ Down({}) /\ Begun = {} /\ Finished = {}
  BY <1>3, <1>4 DEF Line, Down, Begun, Finished
<1>6. /\ p.buf.buffer = <<>> /\ p.buf.invokes = <<>> /\ p.buf.dones = <<>> /\ p.buf.starts = <<>>
      /\ p.buf.ends = <<>> /\ p.buf.starts_with_id = {} /\ p.buf.ends_with_id = {}
  BY <1>2 DEF EmptyBuffer
<1>7. Ordered
  BY <1>3, <1>5, <1>6 DEF Ordered
<1>8. Matched(p.buf)
  BY <1>4, <1>6 DEF Matched
<1> QED BY <1>3, <1>6, <1>7, <1>8 DEF PairInv

\* Steps that pair nothing.
Unpaired ==
  \/ \E r \in Requests : RecordDsmConsumeFromPayload(r) \/ AddReparenting(r) \/ AddTracerSpan(r)
  \/ \E id \in Requests \cup {None} : OutOfMemory(id)
  \/ ShutdownEvent \/ PlatformInitStart \/ PlatformInitReport \/ PlatformRestoreStart
  \/ GetReparentingInfo \/ UpdateReparenting \/ SendCtxSpans \/ SetColdStartSpanTraceId
  \/ UsageTick \/ UsageSample \/ UsageUpdate \/ \E r \in Requests \cup {None} : ReadUsage(r)
  \/ UNCHANGED vars

\* They leave the flow of events as it is.
LEMMA UnpairedFlow ==
  ASSUME Inv, Unpaired
  PROVE  SameFlow
<1>1. DOMAIN env = EnvFields
  BY DEF Inv, EnvInv
<1>2. /\ tasks' = tasks
      /\ \/ env' = env
         \/ env' = [env EXCEPT !.extra = @ + 1]
         \/ env' = [env EXCEPT !.stopped = TRUE]
         \/ env' = [env EXCEPT !.init = "started"]
         \/ env' = [env EXCEPT !.init = "reported"]
         \/ \E seen : env' = [env EXCEPT !.sampled = seen]
  BY DEF Unpaired, RecordDsmConsumeFromPayload, AddReparenting, AddTracerSpan, OutOfMemory, ShutdownEvent,
         PlatformInitStart, PlatformInitReport, PlatformRestoreStart, GetReparentingInfo, UpdateReparenting,
         SendCtxSpans, SetColdStartSpanTraceId, UsageTick, UsageSample, UsageUpdate, ReadUsage, vars
<1> QED BY <1>1, <1>2 DEF SameFlow, EnvFields, Orderly

\* And the pairing.
LEMMA UnpairedPairs ==
  ASSUME Inv, Unpaired
  PROVE  Pairs(p, p')
<1>0. /\ Shape(p) /\ OneEach(p.buf) /\ p.managed \in BOOLEAN /\ BufferShape(p.buf) /\ Pairs(p, p)
      /\ IsSequence(agent.infos)
  BY PairsAside DEF Inv, LedgerInv, Shape
<1>1. ASSUME NEW r \in Requests, RecordDsmConsumeFromPayload(r) PROVE Pairs(p, p')
  BY <1>0, <1>1, CountersPair DEF RecordDsmConsumeFromPayload
<1>2. ASSUME NEW r \in Requests, AddReparenting(r) PROVE Pairs(p, p')
  BY <1>0, <1>2, AddReparentingPairs DEF AddReparenting
<1>3. ASSUME NEW r \in Requests, AddTracerSpan(r) PROVE Pairs(p, p')
  BY <1>0, <1>3, NotesMatch, PairsBuffer DEF AddTracerSpan
<1>4. ASSUME NEW id \in Requests \cup {None}, OutOfMemory(id) PROVE Pairs(p, p')
  BY <1>0, <1>4, OomPairs DEF OutOfMemory
<1>5. ASSUME ShutdownEvent PROVE Pairs(p, p')
  <2> DEFINE x1 == flush_pending_first_invocation_metric(p)
             y == [x1 EXCEPT !.unused_inits = IF x1.invoked_received THEN @ ELSE @ + 1]
  <2>1. p' = IF y.managed THEN set_usage_enhanced_metrics(y, None) ELSE y
    BY <1>5 DEF ShutdownEvent, on_shutdown_event
  <2>2. Pairs(p, x1) /\ Shape(x1)
    BY <1>0, CountersKeep, CountersPair DEF Keeps
  <2> HIDE DEF x1
  <2>3. DOMAIN y = ProcessorFields /\ y.tracer = x1.tracer /\ y.managed = x1.managed /\ y.buf = x1.buf
    BY <2>2 DEF Shape, ProcessorFields
  <2> HIDE DEF y
  <2>4. Pairs(p, y) /\ Shape(y)
    BY <2>2, <2>3, PairsAside, PairsTwice DEF Shape
  <2> QED BY <2>1, <2>4, CountersPair, PairsTwice
<1>6. ASSUME PlatformInitStart PROVE Pairs(p, p')
  <2>1. PICK late : p' = on_platform_init_start(p, 0, late)
    BY <1>6 DEF PlatformInitStart
  <2>2. \A i \in DOMAIN p.buf.buffer : p.buf.buffer[i].id # EmptyId
    BY <1>6 DEF PlatformInitStart, Inv, LedgerInv
  <2> QED BY <1>0, <2>1, <2>2, InitStartPairs
<1>7. ASSUME PlatformInitReport PROVE Pairs(p, p')
  BY <1>0, <1>7, CountersPair DEF PlatformInitReport, on_platform_init_report
<1>8. ASSUME PlatformRestoreStart PROVE Pairs(p, p')
  BY <1>0, <1>8, SpansPair DEF PlatformRestoreStart
<1>9. ASSUME GetReparentingInfo PROVE Pairs(p, p')
  BY <1>0, <1>9 DEF GetReparentingInfo
<1>10. ASSUME UpdateReparenting PROVE Pairs(p, p')
  <2>1. PICK spans \in BOOLEAN :
          LET guessed == [i \in DOMAIN agent.infos |->
                           [agent.infos[i] EXCEPT !.needs_trace_id = @ /\ ~spans]]
          IN p' = [p EXCEPT !.buf = update_reparenting(p.buf, guessed).b]
    BY <1>10 DEF UpdateReparenting
  <2> DEFINE guessed == [i \in DOMAIN agent.infos |->
                          [agent.infos[i] EXCEPT !.needs_trace_id = @ /\ ~spans]]
             n == update_reparenting(p.buf, guessed).b
  <2>2. IsSequence(guessed)
    BY <1>0, GuessedFact
  <2> HIDE DEF guessed
  <2>3. Matches(p.buf, n)
    BY <1>0, <2>2, UpdateReparentingMatches
  <2>4. p' = [p EXCEPT !.buf = n]
    BY <2>1 DEF guessed
  <2> HIDE DEF n
  <2> QED BY <1>0, <2>3, <2>4, PairsBuffer
<1>11. ASSUME SendCtxSpans PROVE Pairs(p, p')
  <2>1. p'.tracer = p.tracer /\ p'.managed = p.managed /\ p'.buf = p.buf
    BY <1>0, <1>11 DEF SendCtxSpans, send_ctx_spans, Shape, ProcessorFields
  <2> QED BY <2>1, PairsAside
<1>12. ASSUME SetColdStartSpanTraceId PROVE Pairs(p, p')
  BY <1>0, <1>12, SpansPair DEF SetColdStartSpanTraceId
<1>13. ASSUME UsageTick \/ UsageSample \/ UsageUpdate \/ \E r \in Requests \cup {None} : ReadUsage(r) PROVE Pairs(p, p')
  <2>1. p'.tracer = p.tracer /\ p'.managed = p.managed /\ p'.buf = p.buf
    BY <1>0, <1>13 DEF UsageTick, UsageSample, UsageUpdate, ReadUsage, Shape, ProcessorFields
  <2> QED BY <2>1, PairsAside
<1>14. ASSUME UNCHANGED vars PROVE Pairs(p, p')
  BY <1>0, <1>14 DEF vars
<1> QED BY <1>1, <1>2, <1>3, <1>4, <1>5, <1>6, <1>7, <1>8, <1>9, <1>10, <1>11, <1>12, <1>13, <1>14 DEF Unpaired

\* The queues of context.rs hold what waits for its partner: by its id, or, on
\* demand and as long as no event was lost and no listener task overtook another
\* of its kind, in the order of the invocations.  Starts, ends and the platform's
\* events may interleave in any way.
THEOREM PairInvariant == Spec => []PairInv
<1>1. Inv /\ PairInv /\ [Next]_vars => PairInv'
  <2> SUFFICES ASSUME Inv, PairInv, [Next]_vars PROVE PairInv'
    OBVIOUS
  <2>1. CASE Unpaired
    BY <2>1, UnpairedFlow, UnpairedPairs, UnpairedStep
  <2>2. ASSUME NEW r \in Requests, InvokeEvent(r) \/ PlatformStart(r) PROVE PairInv'
    BY <2>2, InvokePairStep
  <2>3. ASSUME NEW r \in Requests, PlatformRuntimeDone(r) PROVE PairInv'
    BY <2>3, RuntimeDonePairStep
  <2>4. ASSUME NEW r \in Requests, PlatformReport(r) PROVE PairInv'
    BY <2>4, ReportPairStep
  <2>5. CASE universal_instrumentation_start
    BY <2>5, StartPairStep
  <2>6. CASE universal_instrumentation_end
    BY <2>6, EndPairStep
  <2>7. ASSUME NEW r \in Requests, handle_start_invocation(r) PROVE PairInv'
    BY <2>7, ListenStartStep
  <2>8. ASSUME NEW r \in Requests, handle_end_invocation(r) PROVE PairInv'
    BY <2>8, ListenEndStep
  <2>9. ASSUME NEW r \in Requests, TracerLosesEvent(r) PROVE PairInv'
    BY <2>9, LostPairStep
  <2> QED BY <2>1, <2>2, <2>3, <2>4, <2>5, <2>6, <2>7, <2>8, <2>9, Zenon DEF Next, run, Unpaired
<1> QED BY <1>1, PairInit, InvocationInvariant, PTL DEF Spec

\* A context only ever carries the start and the end of its own invocation, if
\* the tracer sends the request id, or has lost no event so far and the
\* listener's tasks reached the processor in the order of their requests: the
\* pairing in order of arrival of context.rs is then right however the starts,
\* the ends and the platform's events interleave.
THEOREM PairedWithOwn == Spec => []PairedWithOwnRequest
<1>1. PairInv => PairedWithOwnRequest
  BY DEF PairInv, PairedWithOwnRequest, Matched, Match
<1> QED BY <1>1, PairInvariant, PTL

-----------------------------------------------------------------------------
(* The span of a complete invocation is sent *)

\* No context is ever evicted.
Fits == IsFiniteSet(Requests) /\ Cardinality(Requests) <= Capacity

\* Contexts of all requests but one leave room for it.
LEMMA RoomLeft ==
  ASSUME NEW b, BufferShape(b), OneEach(b), NEW r \in Requests, Fits, Ids(b.buffer) \subseteq Requests \ {r}
  PROVE  Len(b.buffer) # Capacity
<1> DEFINE S == 1 .. Len(b.buffer)
           T == Requests \ {r}
           f == [i \in S |-> b.buffer[i].id]
<1>1. Len(b.buffer) \in Nat /\ DOMAIN b.buffer = S
  BY SequenceFact DEF BufferShape, IsSequence
<1>2. IsFiniteSet(T) /\ Cardinality(T) = Cardinality(Requests) - 1 /\ Cardinality(Requests) \in Nat
  BY FS_RemoveElement, FS_CardinalityType DEF Fits
<1>3. IsFiniteSet(S) /\ Cardinality(S) = Len(b.buffer)
  BY <1>1, FS_Interval
<1>4. f \in [S -> T]
  <2>1. \A i \in S : b.buffer[i].id \in T
    BY <1>1 DEF Ids
  <2> HIDE DEF S, T
  <2> QED BY <2>1
<1>5. \A i, j \in S : f[i] = f[j] => i = j
  BY <1>1 DEF OneEach
<1> SUFFICES ASSUME Len(b.buffer) = Capacity PROVE FALSE
  OBVIOUS
<1>6. Cardinality(T) < Cardinality(S)
  BY <1>2, <1>3, BufferAssumption DEF Fits
<1> HIDE DEF S, T, f
<1> QED BY <1>2, <1>3, <1>4, <1>5, <1>6, FS_PigeonHole

\* insert keeps what it has room for.
LEMMA InsertIds ==
  ASSUME NEW b, BufferShape(b), OneEach(b), NEW c, c.id \notin Ids(b.buffer), Len(b.buffer) # Capacity
  PROVE  Ids(insert(b, c).buffer) = Ids(b.buffer) \cup {c.id}
<1>1. remove(b, c.id) = b
  BY RemoveFact, PositionFact DEF Ids
<1>2. insert(b, c).buffer = Append(b.buffer, c)
  BY <1>1 DEF insert, BufferShape, BufferFields
<1> DEFINE q == b.buffer
           a == Append(q, c)
<1>3. /\ DOMAIN a = 1 .. Len(q) + 1 /\ Len(q) \in Nat /\ DOMAIN q = 1 .. Len(q)
      /\ \A i \in DOMAIN q : a[i] = q[i]
      /\ a[Len(q) + 1] = c
  BY AppendFact DEF BufferShape
<1> HIDE DEF q, a
<1>4. ASSUME NEW id \in Ids(a) PROVE id \in Ids(q) \cup {c.id}
  <2>1. PICK i \in DOMAIN a : id = a[i].id
    BY <1>4 DEF Ids
  <2>2. i \in DOMAIN q \/ i = Len(q) + 1
    BY <1>3, <2>1
  <2> QED BY <1>3, <2>1, <2>2 DEF Ids
<1>5. Len(q) + 1 \in DOMAIN a /\ \A i \in DOMAIN q : i \in DOMAIN a
  BY <1>3
<1>6. Ids(q) \cup {c.id} \subseteq Ids(a)
  BY <1>3, <1>5 DEF Ids
<1> QED BY <1>2, <1>4, <1>6 DEF q, a

\* OpenContext gives the request the context created at init, or a new one; the
\* others stay while there is room.
LEMMA OpenContextIds ==
  ASSUME NEW x, Shape(x), OneEach(x.buf), NEW r, r \notin Ids(x.buf.buffer), r # EmptyId, NEW late,
         EmptyId \in Ids(x.buf.buffer) => x.managed /\ x.awaiting_first_invocation = TRUE
  PROVE  LET n == Ids(OpenContext(x, r, late).buf.buffer)
         IN /\ EmptyId \notin n
            /\ EmptyId \in Ids(x.buf.buffer) \/ Len(x.buf.buffer) # Capacity =>
                 (Ids(x.buf.buffer) \ {EmptyId}) \cup {r} \subseteq n
<1> DEFINE y == OpenContext(x, r, late)
           b1 == update_empty_context_request_id(x.buf, r)
           t == set_init_tags(x, late)
           b2 == start_context(x.buf, r, x.clock)
<1>0. Has(x.buf, EmptyId) <=> EmptyId \in Ids(x.buf.buffer)
  BY PositionFact DEF Ids, Shape
<1>1. CASE EmptyId \in Ids(x.buf.buffer)
  <2> DEFINE k == Position(x.buf, EmptyId)
             c == [get(x.buf, EmptyId) EXCEPT !.id = r]
             q == [x.buf.buffer EXCEPT ![k] = c]
  <2>1. y = [x EXCEPT !.buf = b1]
    BY <1>0, <1>1, Zenon DEF OpenContext
  <2>2. k \in DOMAIN x.buf.buffer /\ get(x.buf, EmptyId) = x.buf.buffer[k] /\ x.buf.buffer[k].id = EmptyId
    BY <1>0, <1>1, PositionFact DEF Shape
  <2>3. c.id = r
    BY <2>2 DEF Shape, BufferShape, ContextFields
  <2>4. b1 = [x.buf EXCEPT !.buffer = q]
    BY <1>0, <1>1 DEF update_empty_context_request_id, get_mut, write
  <2>5. y.buf.buffer = q
    <3> HIDE DEF q
    <3> QED BY <2>1, <2>4 DEF Shape, BufferShape, ProcessorFields, BufferFields
  <2>6. /\ DOMAIN q = DOMAIN x.buf.buffer
        /\ \A i \in DOMAIN x.buf.buffer : q[i] = IF i = k THEN c ELSE x.buf.buffer[i]
    <3> HIDE DEF k, c
    <3> QED BY WriteFact DEF Shape, BufferShape
  <2> HIDE DEF k, c, q, y
  <2>7. EmptyId \notin Ids(q)
    BY <2>2, <2>3, <2>6 DEF Ids, OneEach
  <2>8. (Ids(x.buf.buffer) \ {EmptyId}) \cup {r} \subseteq Ids(q)
    BY <2>2, <2>3, <2>6 DEF Ids
  <2> QED BY <2>5, <2>7, <2>8 DEF y
<1>2. CASE EmptyId \notin Ids(x.buf.buffer)
  <2>1. DOMAIN t = ProcessorFields /\ t.buf = x.buf
    BY DEF set_init_tags, Shape, ProcessorFields
  <2> HIDE DEF t
  <2>2. y = [t EXCEPT !.buf = b2, !.clock = t.clock + 1]
    BY <1>0, <1>2, <2>1, Zenon DEF OpenContext, t
  <2>3. y.buf = b2
    <3> HIDE DEF b2, y
    <3> QED BY <2>1, <2>2 DEF ProcessorFields
  <2> HIDE DEF y
  <2>4. Opened(x.buf, b2, r)
    BY StartContextOpens DEF Shape, Ids
  <2>5. EmptyId \notin Ids(b2.buffer)
    BY <1>2, <2>4 DEF Opened, Grows, Ids
  <2>6. Len(x.buf.buffer) # Capacity => Ids(b2.buffer) = Ids(x.buf.buffer) \cup {r}
    <3> DEFINE c == from_request_id(r, x.clock)
    <3>1. c.id = r /\ b2 = insert(x.buf, c)
      BY DEF from_request_id, start_context
    <3> HIDE DEF c, b2
    <3> QED BY <3>1, InsertIds DEF Shape
  <2> QED BY <1>2, <2>3, <2>5, <2>6 DEF y
<1> QED BY <1>1, <1>2

\* An end event that carries ids gives the context both.
LEMMA EndGivesIds ==
  ASSUME NEW x, Shape(x), NEW r, NEW e, x.tracer # "lwa", r \in Ids(x.buf.buffer)
  PROVE  LET y == process_on_universal_instrumentation_end(x, r, e)
         IN \E i \in DOMAIN y.buf.buffer : y.buf.buffer[i].id = r /\ Sendable(y.buf.buffer[i])
<1> DEFINE ids == x.tracer # "lwa"
           End(c) ==
             [c EXCEPT !.end = e,
                       !.error = @ \/ e \in Failing,
                       !.trace = CASE c.extracted -> "extracted"
                                   [] ~c.extracted /\ ids -> "header"
                                   [] OTHER -> @,
                       !.span = IF ids THEN "header" ELSE @,
                       !.parent = CASE c.inferred -> @
                                    [] ~c.inferred /\ c.extracted -> "extracted"
                                    [] ~c.inferred /\ ~c.extracted /\ ids -> "header"
                                    [] OTHER -> "unset"]
           g == get(x.buf, r)
           c == End(g)
           k == Position(x.buf, r)
           q == [x.buf.buffer EXCEPT ![k] = c]
           y == process_on_universal_instrumentation_end(x, r, e)
<1>1. Has(x.buf, r) /\ k \in DOMAIN x.buf.buffer /\ g = x.buf.buffer[k] /\ g.id = r
  BY PositionFact DEF Shape, Ids
<1>2. y = [x EXCEPT !.buf = write(x.buf, k, c)]
  BY <1>1, Zenon DEF process_on_universal_instrumentation_end, get_mut
<1>3. DOMAIN g = ContextFields
  BY <1>1 DEF Shape, BufferShape
<1> HIDE DEF g, k
<1>4. c.id = r /\ c.span = "header"
  BY <1>1, <1>3 DEF ContextFields
<1>5. c.trace \in {"extracted", "header"}
  <2>1. c.trace = CASE g.extracted -> "extracted" [] ~g.extracted /\ ids -> "header" [] OTHER -> g.trace
    BY <1>3 DEF ContextFields
  <2> QED BY <2>1
<1> HIDE DEF c, y
<1>6. y.buf.buffer = q
  <2> HIDE DEF q
  <2>1. write(x.buf, k, c) = [x.buf EXCEPT !.buffer = q]
    BY DEF write, q
  <2> QED BY <1>2, <2>1 DEF Shape, BufferShape, ProcessorFields, BufferFields
<1>7. DOMAIN q = DOMAIN x.buf.buffer /\ q[k] = c
  BY <1>1, WriteFact DEF Shape, BufferShape
<1> HIDE DEF q
<1>8. Sendable(c)
  BY <1>4, <1>5 DEF Sendable
<1>9. k \in DOMAIN y.buf.buffer /\ y.buf.buffer[k].id = r /\ Sendable(y.buf.buffer[k])
  BY <1>1, <1>4, <1>6, <1>7, <1>8
<1> QED BY <1>9 DEF y

\* The end event of r waits for the end of its runtime, and its context is there.
Answered(x, r) ==
  /\ x.tracer # "lwa" /\ x.tracer_detected = TRUE /\ r \in Ids(x.buf.buffer)
  /\ r \in x.buf.ends_with_id \/ (~x.managed /\ x.buf.ends # <<>> /\ Head(x.buf.ends) # None)

\* Then platform.runtimeDone sends its span.
LEMMA RuntimeDoneSends ==
  ASSUME NEW x, Shape(x), OneEach(x.buf), x.managed \in BOOLEAN, NEW r, NEW status, Answered(x, r)
  PROVE  Sends(x, on_platform_runtime_done(x, r, status), r)
<1> DEFINE x1 == IF status = "OutOfMemory" THEN try_increment_oom_metric(x, r) ELSE x
           x2 == IF x1.managed THEN x1 ELSE set_usage_enhanced_metrics(x1, r)
           d == add_runtime_duration(x2.buf, r)
           y == [x2 EXCEPT !.buf = d]
           f == pair_platform_runtime_done_event(y.buf, r)
           bt == take_universal_instrumentation_end_for_request_id(y.buf, r)
           yt == [y EXCEPT !.buf = bt]
           yf == [y EXCEPT !.buf = f.b]
           paired == CASE r \in y.buf.ends_with_id ->
                            process_on_universal_instrumentation_end(yt, r, r)
                       [] r \notin y.buf.ends_with_id /\ ~y.managed ->
                            IF f.end # None THEN process_on_universal_instrumentation_end(yf, r, f.end)
                                            ELSE yf
                       [] OTHER -> y
           z == on_platform_runtime_done(x, r, status)
<1>1. z = process_on_platform_runtime_done(paired, r, status)
  BY Zenon DEF on_platform_runtime_done
<1>2. /\ r \in y.buf.ends_with_id => paired = process_on_universal_instrumentation_end(yt, r, r)
      /\ r \notin y.buf.ends_with_id /\ ~y.managed /\ f.end # None =>
           paired = process_on_universal_instrumentation_end(yf, r, f.end)
  <2>1. CASE r \in y.buf.ends_with_id
    BY <2>1, Zenon
  <2>2. CASE r \notin y.buf.ends_with_id /\ ~y.managed /\ f.end # None
    BY <2>2, Zenon
  <2> QED BY <2>1, <2>2
<1> HIDE DEF z, paired
<1>3. Keeps(x, x1) /\ Pairs(x, x1)
  BY OomKeeps, KeepsSelf, OomPairs, PairsAside
<1> HIDE DEF x1
<1>4. /\ Shape(x2) /\ x2.sent = x.sent /\ x2.buf = x1.buf /\ x2.tracer_detected = TRUE
      /\ x2.tracer = x.tracer /\ x2.managed = x.managed
  <2>1. /\ Shape(x1) /\ x1.sent = x.sent /\ x1.tracer_detected = TRUE
        /\ x1.tracer = x.tracer /\ x1.managed = x.managed
    BY <1>3 DEF Keeps, SameUsage, Calm, Alert, Pairs, Answered
  <2> QED BY <2>1 DEF Shape, ProcessorFields, set_usage_enhanced_metrics
<1> HIDE DEF x2
<1>5. Advances(x2.buf, d) /\ SameQueues(x2.buf, d)
  <2> DEFINE c == [get(x2.buf, r) EXCEPT !.runtime_duration = TRUE]
  <2>1. Has(x2.buf, r) => Grows(get(x2.buf, r), c)
    <3>1. Has(x2.buf, r) => DOMAIN get(x2.buf, r) = ContextFields
      BY <1>4, PositionFact DEF Shape, BufferShape
    <3> QED BY <3>1 DEF Grows, ContextFields, Sendable
  <2>2. d = IF Has(x2.buf, r) THEN write(x2.buf, Position(x2.buf, r), c) ELSE x2.buf
    BY DEF add_runtime_duration, get_mut
  <2> HIDE DEF c, d
  <2>3. Advances(x2.buf, d)
    BY <1>4, <2>1, <2>2, GetMutAdvances DEF Shape
  <2>4. SameQueues(x2.buf, d)
    BY <1>4, <2>2 DEF write, SameQueues, Shape, BufferShape, BufferFields
  <2> QED BY <2>3, <2>4
<1> HIDE DEF d
<1>6. /\ Shape(y) /\ y.sent = x.sent /\ y.tracer_detected = TRUE /\ y.tracer = x.tracer
      /\ y.managed = x.managed /\ y.buf = d
  BY <1>4, <1>5 DEF Advances, Shape, ProcessorFields
<1> HIDE DEF y
<1>7. Advances(x.buf, y.buf) /\ SameQueues(x.buf, y.buf)
  <2>1. Advances(x.buf, x2.buf) /\ SameQueues(x.buf, x2.buf)
    BY <1>3, <1>4 DEF Keeps, Pairs, Matches
  <2> QED BY <1>5, <1>6, <2>1, AdvancesTwice DEF SameQueues
<1>8. Keeps(y, yt) /\ Keeps(y, yf) /\ yt.tracer = y.tracer /\ yf.tracer = y.tracer
  <2>1. Keeps(y, yt) /\ Keeps(y, yf)
    BY <1>6, PairingAdvances, KeepsBuffer DEF Shape
  <2>2. yt.tracer = y.tracer /\ yf.tracer = y.tracer
    BY <1>6 DEF Shape, ProcessorFields
  <2> QED BY <2>1, <2>2
<1>9. x.buf.ends # <<>> => f.end = Head(x.buf.ends)
  BY <1>6, <1>7 DEF pair_platform_runtime_done_event, PairOrQueue, SameQueues, Shape, BufferShape, BufferFields
<1> HIDE DEF yt, yf, f
<1>10. PICK w, e : /\ paired = process_on_universal_instrumentation_end(w, r, e)
                   /\ Keeps(y, w) /\ w.tracer = y.tracer
  <2>1. CASE r \in x.buf.ends_with_id
    <3>1. paired = process_on_universal_instrumentation_end(yt, r, r)
      BY <1>2, <1>7, <2>1 DEF SameQueues
    <3> QED BY <1>8, <3>1
  <2>2. CASE r \notin x.buf.ends_with_id
    <3>1. paired = process_on_universal_instrumentation_end(yf, r, f.end)
      BY <1>2, <1>6, <1>7, <1>9, <2>2 DEF SameQueues, Answered
    <3> QED BY <1>8, <3>1
  <2> QED BY <2>1, <2>2
<1>11. Keeps(w, paired) /\ Shape(w)
  BY <1>10, ProcessEndKeeps DEF Keeps
<1>12. Keeps(y, paired)
  BY <1>10, <1>11, KeepsTwice
<1>13. r \in Ids(w.buf.buffer)
  BY <1>7, <1>10, AdvancesIds DEF Keeps, Answered
<1>14. \E i \in DOMAIN paired.buf.buffer : paired.buf.buffer[i].id = r /\ Sendable(paired.buf.buffer[i])
  BY <1>6, <1>10, <1>11, <1>13, EndGivesIds DEF Answered
<1>15. Ready(paired, r) /\ paired.sent = x.sent /\ Shape(paired)
  BY <1>6, <1>12, <1>14 DEF Ready, Keeps, SameUsage, Calm, Alert
<1>16. OneEach(paired.buf)
  <2>1. Advances(x.buf, paired.buf)
    BY <1>7, <1>12, AdvancesTwice DEF Keeps
  <2> QED BY <2>1 DEF Advances, Grows, OneEach
<1>17. Sends(paired, z, r)
  BY <1>1, <1>15, <1>16, ProcessDoneEffect
<1> QED BY <1>15, <1>17 DEF Sends, z

\* And so does the report of a Managed Instance's invocation.
LEMMA ReportSends ==
  ASSUME NEW x, Shape(x), OneEach(x.buf), x.managed = TRUE, NEW r, NEW status, NEW at_limit, NEW with_init,
         Answered(x, r)
  PROVE  Sends(x, on_platform_report(x, r, status, at_limit, with_init), r)
<1> DEFINE x1 == [x EXCEPT !.active_invocations = IF @ > 0 THEN @ - 1 ELSE @]
           x2 == IF x1.active_invocations = 0 THEN pause_usage_metrics_monitoring(x1) ELSE x1
           h == IF Has(x2.buf, r) THEN on_platform_runtime_done(x2, r, status) ELSE x2
           z == on_platform_report(x, r, status, at_limit, with_init)
<1>1. z = release_invocation_context(h, r)
  BY Zenon DEF on_platform_report, handle_managed_instance_report
<1> HIDE DEF z
<1>2. /\ DOMAIN x1 = ProcessorFields /\ x1.tracer = x.tracer /\ x1.managed = x.managed /\ x1.buf = x.buf
      /\ x1.sent = x.sent /\ x1.tracer_detected = x.tracer_detected
  BY DEF Shape, ProcessorFields
<1> HIDE DEF x1
<1>3. /\ DOMAIN x2 = ProcessorFields /\ x2.tracer = x.tracer /\ x2.managed = x.managed /\ x2.buf = x.buf
      /\ x2.sent = x.sent /\ x2.tracer_detected = x.tracer_detected
  BY <1>2 DEF ProcessorFields, pause_usage_metrics_monitoring
<1> HIDE DEF x2
<1>4. Shape(x2) /\ OneEach(x2.buf) /\ Answered(x2, r) /\ x2.managed \in BOOLEAN
  BY <1>3 DEF Shape, Answered
<1>5. Has(x2.buf, r)
  BY <1>4, PositionFact DEF Shape, Answered, Ids
<1>6. h = on_platform_runtime_done(x2, r, status)
  BY <1>5
<1> HIDE DEF h
<1>7. Sends(x2, h, r) /\ Shape(h) /\ Ended(x2.buf, h.buf, r)
  BY <1>4, <1>6, RuntimeDoneSends, RuntimeDoneEffect
<1>8. OneEach(h.buf)
  BY <1>4, <1>7 DEF Ended, OneEach
<1>9. z.sent = h.sent
  BY <1>1, <1>7, <1>8, ReleaseEffect
<1> QED BY <1>3, <1>7, <1>9 DEF Sends, z

\* What a queue of ids holds.
LEMMA ContainsFact ==
  ASSUME NEW q, IsSequence(q), NEW e
  PROVE  Contains(q, e) <=> e \in Elems(q)
<1>1. DOMAIN q = 1 .. Len(q)
  BY SequenceFact DEF IsSequence
<1> QED BY <1>1 DEF Contains, Elems

\* RemoveFirst takes an id out.
LEMMA RemoveFirstFact ==
  ASSUME NEW q, IsSequence(q), NEW e
  PROVE  IsSequence(RemoveFirst(q, e)) /\ Elems(RemoveFirst(q, e)) \subseteq Elems(q)
<1> DEFINE I == {i \in 1 .. Len(q) : q[i] = e}
           k == SelectInSeq(q, LAMBDA v : v = e)
           n == RemoveAt(q, k)
<1>1. Len(q) \in Nat /\ DOMAIN q = 1 .. Len(q)
  BY SequenceFact DEF IsSequence
<1>2. CASE I = {}
  <2>1. RemoveFirst(q, e) = q
    BY <1>2 DEF RemoveFirst
  <2> QED BY <2>1
<1>3. CASE I # {}
  <2>1. RemoveFirst(q, e) = n
    BY <1>3, Zenon DEF RemoveFirst
  <2>2. k = Min(I)
    BY <1>3, Zenon DEF SelectInSeq
  <2>3. I \in SUBSET Nat /\ I \subseteq DOMAIN q
    BY <1>1
  <2> HIDE DEF I, k, n
  <2>4. \E i \in I : \A j \in I : i <= j
    BY <1>3, <2>3, LeastNumber
  <2>5. k \in DOMAIN q
    BY <2>2, <2>3, <2>4 DEF Min
  <2>6. /\ IsSequence(n) /\ DOMAIN n = 1 .. Len(q) - 1
        /\ \A i \in 1 .. Len(q) - 1 : n[i] = IF i < k THEN q[i] ELSE q[i + 1]
    BY <2>5, RemoveAtFact DEF n
  <2>7. \A i \in 1 .. Len(q) - 1 : i \in DOMAIN q /\ i + 1 \in DOMAIN q
    BY <1>1
  <2>8. Elems(n) \subseteq Elems(q)
    BY <2>6, <2>7 DEF Elems
  <2> QED BY <2>1, <2>6, <2>8
<1> QED BY <1>2, <1>3

-----------------------------------------------------------------------------
(* The invariant *)

\* Only the context created at init has no request; every open invocation has one.
Placed ==
  /\ EmptyId \in Ids(p.buf.buffer) => p.managed /\ p.awaiting_first_invocation = TRUE /\ env.invoked = {}
  /\ Fits => env.invoked \ env.reported \subseteq Ids(p.buf.buffer)

\* A tracer whose start event arrived is detected; an end event that carries
\* the request id is kept until its runtime is done.
Heard ==
  /\ IsSequence(tasks.start) /\ IsSequence(tasks.end)
  /\ Begun # {} => p.tracer_detected = TRUE
  /\ WithId => /\ IsSequence(p.buf.dones) /\ Elems(p.buf.dones) \subseteq env.done
               /\ Finished \ env.done \subseteq p.buf.ends_with_id

\* Complete invocations are paid for, where the events can be paired.
Trusted == p.tracer \in {"fifo", "id"} /\ (WithId \/ (Orderly /\ ~p.managed)) /\ Fits
Delivered == Trusted => env.complete \subseteq Paid

SendInv == Placed /\ Heard /\ Delivered

\* The contexts stay where they are.
LEMMA PlacedKept ==
  ASSUME Placed, Ids(p'.buf.buffer) = Ids(p.buf.buffer), p'.managed = p.managed,
         p'.awaiting_first_invocation = p.awaiting_first_invocation,
         env'.invoked = env.invoked, env'.reported = env.reported
  PROVE  Placed'
BY DEF Placed, Fits

\* No event of the tracer arrives.
LEMMA HeardKept ==
  ASSUME Heard, Alert(p, p'), p'.tracer = p.tracer, p'.buf.dones = p.buf.dones,
         p'.buf.ends_with_id = p.buf.ends_with_id, tasks' = tasks, env'.started = env.started,
         env'.ended = env.ended, env'.done = env.done
  PROVE  Heard'
<1>1. WithId' = WithId /\ Begun' = Begun /\ Finished' = Finished
  BY DEF WithId, Begun, Finished
<1> QED BY <1>1 DEF Heard, Alert

\* No invocation becomes complete.
LEMMA DeliveredKept ==
  ASSUME Delivered, Lawful, p'.tracer = p.tracer, p'.managed = p.managed, (Orderly' => Orderly),
         env'.complete = env.complete
  PROVE  Delivered'
<1>1. Trusted' => Trusted
  BY DEF Trusted, WithId, Fits
<1>2. Paid \subseteq Paid'
  BY DEF Lawful
<1> QED BY <1>1, <1>2 DEF Delivered

\* The initial states.
LEMMA SendInit == Init => SendInv
<1> SUFFICES ASSUME Init PROVE SendInv
  OBVIOUS
<1>1. PICK s \in Setups : p = new(s.managed, s.tracer)
  BY DEF Init
<1>2. p.buf = EmptyBuffer
  BY <1>1 DEF new
<1>3. /\ env.invoked = {} /\ env.done = {} /\ env.started = {} /\ env.ended = {} /\ env.complete = {}
      /\ tasks.start = <<>> /\ tasks.end = <<>>
  BY DEF Init
<1>4. IsSequence(<<>>) /\ DOMAIN <<>> = {} /\ Elems(<<>>) = {} /\ Ids(<<>>) = {}
  <2>1. <<>> \in Seq({}) /\ DOMAIN <<>> = {}
    OBVIOUS
  <2> QED BY <2>1, SequenceFact DEF Elems, Ids
<1>5. p.buf.buffer = <<>> /\ p.buf.dones = <<>> /\ p.buf.ends_with_id = {} /\ Begun = {} /\ Finished = {}
  BY <1>2, <1>3 DEF EmptyBuffer, Begun, Finished
<1> QED BY <1>3, <1>4, <1>5 DEF SendInv, Placed, Heard, Delivered

\* Steps that pair nothing.
LEMMA UnpairedSends ==
  ASSUME Inv, SendInv, Lawful, Unpaired
  PROVE  SendInv'
<1>1. SameFlow /\ Pairs(p, p')
  BY UnpairedFlow, UnpairedPairs
<1>2. /\ p'.tracer = p.tracer /\ p'.managed = p.managed /\ p'.buf.dones = p.buf.dones
      /\ p'.buf.ends_with_id = p.buf.ends_with_id
  BY <1>1 DEF Pairs, Matches, SameQueues
<1>3. \/ /\ Ids(p'.buf.buffer) = Ids(p.buf.buffer) /\ Alert(p, p')
         /\ p'.awaiting_first_invocation = p.awaiting_first_invocation
      \/ Awaits(p, p') /\ PlatformInitStart
  <2>0. Shape(p) /\ p.managed \in BOOLEAN
    BY DEF Inv, LedgerInv
  <2>1. CASE Keeps(p, p')
    BY <2>1, AdvancesIds DEF Keeps, SameUsage, Calm
  <2>2. CASE Quiet
    BY <2>1, <2>2, QuietSteps
  <2>3. CASE ShutdownEvent
    <3>1. /\ Advances(p.buf, p'.buf) /\ Alert(p, p')
          /\ p'.awaiting_first_invocation = p.awaiting_first_invocation
      BY <2>0, <2>3, ShutdownEffect DEF ShutdownEvent
    <3> QED BY <3>1, AdvancesIds
  <2>4. CASE PlatformInitStart
    BY <2>1, <2>4, InitStartStep
  <2>5. CASE UpdateReparenting
    BY <2>1, <2>5, ReparentingStep
  <2>6. CASE SendCtxSpans \/ UsageTick \/ UsageSample \/ UsageUpdate \/ \E r \in Requests \cup {None} : ReadUsage(r)
    <3>1. /\ p'.buf = p.buf /\ p'.tracer_detected = p.tracer_detected
          /\ p'.awaiting_first_invocation = p.awaiting_first_invocation
      BY <2>0, <2>6 DEF SendCtxSpans, send_ctx_spans, UsageTick, UsageSample, UsageUpdate, ReadUsage, Shape, ProcessorFields
    <3> QED BY <3>1 DEF Alert
  <2> QED BY <2>2, <2>3, <2>4, <2>5, <2>6, Zenon DEF Unpaired, Quiet
<1>4. Alert(p, p')
  BY <1>3 DEF Awaits, Calm
<1>5. Heard'
  BY <1>1, <1>2, <1>4, HeardKept DEF SendInv, SameFlow
<1>6. Delivered'
  BY <1>1, <1>2, DeliveredKept DEF SendInv, SameFlow
<1>7. Placed'
  <2>1. CASE /\ Ids(p'.buf.buffer) = Ids(p.buf.buffer)
             /\ p'.awaiting_first_invocation = p.awaiting_first_invocation
    BY <1>1, <1>2, <2>1, PlacedKept DEF SendInv, SameFlow
  <2>2. CASE Awaits(p, p') /\ PlatformInitStart
    <3>1. p.managed /\ env.invoked = {} /\ env'.invoked = {} /\ p'.managed = p.managed
      BY <1>1, <1>2, <2>2 DEF Awaits, PlatformInitStart, SameFlow
    <3> QED BY <2>2, <3>1 DEF Placed, Awaits
  <2> QED BY <1>3, <2>1, <2>2
<1> QED BY <1>5, <1>6, <1>7 DEF SendInv

\* The listener and the tracer: nothing reaches the processor.
LEMMA ListenSends ==
  ASSUME Inv, PairInv, SendInv, Lawful, NEW r \in Requests,
         handle_start_invocation(r) \/ handle_end_invocation(r) \/ TracerLosesEvent(r)
  PROVE  SendInv'
<1>1. DOMAIN env = EnvFields /\ DOMAIN tasks = {"start", "end"} /\ p' = p
  BY DEF Inv, EnvInv, PairInv, handle_start_invocation, handle_end_invocation, TracerLosesEvent
<1>2. /\ env'.invoked = env.invoked /\ env'.reported = env.reported /\ env'.done = env.done
      /\ env'.complete = env.complete /\ (Orderly' => Orderly)
      /\ \/ /\ env'.started = env.started \cup {r} /\ env'.ended = env.ended
            /\ tasks'.start = Append(tasks.start, r) /\ tasks'.end = tasks.end
         \/ /\ env'.started = env.started /\ env'.ended = env.ended \cup {r}
            /\ tasks'.start = tasks.start /\ tasks'.end = Append(tasks.end, r)
         \/ env'.started = env.started /\ env'.ended = env.ended /\ tasks' = tasks
  BY <1>1 DEF handle_start_invocation, handle_end_invocation, TracerLosesEvent, EnvFields, Orderly
<1>3. IsSequence(tasks.start) /\ IsSequence(tasks.end)
  BY DEF SendInv, Heard
<1>4. /\ IsSequence(Append(tasks.start, r)) /\ Elems(Append(tasks.start, r)) = Elems(tasks.start) \cup {r}
      /\ IsSequence(Append(tasks.end, r)) /\ Elems(Append(tasks.end, r)) = Elems(tasks.end) \cup {r}
  BY <1>3, AppendFact
<1>5. IsSequence(tasks'.start) /\ IsSequence(tasks'.end) /\ Begun' \subseteq Begun /\ Finished' \subseteq Finished
  BY <1>2, <1>3, <1>4 DEF Begun, Finished
<1>6. Heard'
  <2>1. WithId' = WithId
    BY <1>1 DEF WithId
  <2> QED BY <1>1, <1>2, <1>5, <2>1 DEF SendInv, Heard
<1>7. Placed'
  BY <1>1, <1>2, PlacedKept DEF SendInv
<1>8. Delivered'
  BY <1>1, <1>2, DeliveredKept DEF SendInv
<1> QED BY <1>6, <1>7, <1>8 DEF SendInv

\* A start event reaches the processor: the tracer is detected.
LEMMA StartSends ==
  ASSUME Inv, PairInv, SendInv, Lawful, universal_instrumentation_start
  PROVE  SendInv'
<1>1. Shape(p) /\ WithId \in BOOLEAN /\ DOMAIN tasks = {"start", "end"}
  BY DEF Inv, LedgerInv, WithId, PairInv
<1>0. PICK k \in DOMAIN tasks.start :
        /\ p' = on_universal_instrumentation_start(p, tasks.start[k], WithId)
        /\ tasks' = [tasks EXCEPT !.start = RemoveAt(@, k)]
        /\ env' = [env EXCEPT !.overtaken = @ \cup {tasks.start[j] : j \in 1 .. k - 1}]
  BY DEF universal_instrumentation_start
<1> DEFINE s == tasks.start[k]
<1>2. /\ p' = on_universal_instrumentation_start(p, s, WithId)
      /\ env'.invoked = env.invoked /\ env'.done = env.done /\ env'.started = env.started
      /\ env'.ended = env.ended /\ env'.reported = env.reported /\ env'.complete = env.complete
      /\ (Orderly' => Orderly)
  BY <1>0 DEF Inv, EnvInv, EnvFields, Orderly
<1>3. tasks'.start = RemoveAt(tasks.start, k) /\ tasks'.end = tasks.end
  BY <1>0, <1>1
<1>4. SameSetting(p, p') /\ SameEnds(p.buf, p'.buf)
  BY <1>1, <1>2, StartPairs
<1>5. Keeps(p, p') /\ p'.tracer_detected = TRUE
  BY <1>1, <1>2, StartKeeps
<1> HIDE DEF s
<1>6. IsSequence(tasks'.start) /\ IsSequence(tasks'.end)
  BY <1>3, RunFact DEF SendInv, Heard
<1>7. Finished' = Finished /\ WithId' = WithId
  BY <1>2, <1>3, <1>4 DEF Finished, WithId, SameSetting
<1>8. Heard'
  BY <1>2, <1>4, <1>5, <1>6, <1>7 DEF SendInv, Heard, SameEnds
<1>9. Placed'
  BY <1>2, <1>5, AdvancesIds, PlacedKept DEF SendInv, Keeps, SameUsage, Calm
<1>10. Delivered'
  BY <1>2, <1>4, DeliveredKept DEF SendInv, SameSetting
<1> QED BY <1>8, <1>9, <1>10 DEF SendInv

\* An end event reaches the processor: it finds the end of its runtime, or waits.
LEMMA EndSends ==
  ASSUME Inv, PairInv, SendInv, Lawful, universal_instrumentation_end
  PROVE  SendInv'
<1>1. Shape(p) /\ WithId \in BOOLEAN /\ DOMAIN tasks = {"start", "end"} /\ IsSequence(tasks.end)
  BY DEF Inv, LedgerInv, WithId, PairInv, SendInv, Heard
<1>0. PICK k \in DOMAIN tasks.end :
        /\ p' = on_universal_instrumentation_end(p, tasks.end[k], WithId)
        /\ tasks' = [tasks EXCEPT !.end = RemoveAt(@, k)]
        /\ env' = [env EXCEPT !.overtaken = @ \cup {tasks.end[j] : j \in 1 .. k - 1}]
  BY DEF universal_instrumentation_end
<1> DEFINE e == tasks.end[k]
<1>2. /\ p' = on_universal_instrumentation_end(p, e, WithId)
      /\ env'.invoked = env.invoked /\ env'.done = env.done /\ env'.started = env.started
      /\ env'.ended = env.ended /\ env'.reported = env.reported /\ env'.complete = env.complete
      /\ (Orderly' => Orderly)
  BY <1>0 DEF Inv, EnvInv, EnvFields, Orderly
<1>3. tasks'.end = RemoveAt(tasks.end, k) /\ tasks'.start = tasks.start
  BY <1>0, <1>1
<1>4. SameSetting(p, p') /\ (WithId => EndQueued(p.buf, p'.buf, e))
  BY <1>1, <1>2, EndPairs
<1>5. Keeps(p, p')
  BY <1>1, <1>2, EndKeeps
<1>6. IsSequence(tasks'.start) /\ IsSequence(tasks'.end)
  BY <1>3, RunFact DEF SendInv, Heard
<1>7. Begun' = Begun /\ WithId' = WithId /\ Finished' \subseteq Finished \cup {e}
  <2>1. Elems(tasks.end) \subseteq Elems(tasks'.end) \cup {e}
    BY <1>1, <1>3, RunFact
  <2> HIDE DEF e
  <2> QED BY <1>2, <1>3, <1>4, <2>1 DEF Begun, Finished, WithId, SameSetting
<1> HIDE DEF e
<1>8. WithId => /\ IsSequence(p'.buf.dones) /\ Elems(p'.buf.dones) \subseteq env.done
                /\ Finished' \ env.done \subseteq p'.buf.ends_with_id
  <2> SUFFICES ASSUME WithId
               PROVE  /\ IsSequence(p'.buf.dones) /\ Elems(p'.buf.dones) \subseteq env.done
                      /\ Finished' \ env.done \subseteq p'.buf.ends_with_id
    OBVIOUS
  <2>1. /\ IsSequence(p.buf.dones) /\ Elems(p.buf.dones) \subseteq env.done
        /\ Finished \ env.done \subseteq p.buf.ends_with_id
    BY DEF SendInv, Heard
  <2>2. CASE /\ Contains(p.buf.dones, e) /\ p'.buf.dones = RemoveFirst(p.buf.dones, e)
             /\ p'.buf.ends_with_id = p.buf.ends_with_id
    <3>1. e \in env.done
      BY <2>1, <2>2, ContainsFact
    <3>2. IsSequence(p'.buf.dones) /\ Elems(p'.buf.dones) \subseteq Elems(p.buf.dones)
      BY <2>1, <2>2, RemoveFirstFact
    <3> QED BY <1>7, <2>1, <2>2, <3>1, <3>2
  <2>3. CASE p'.buf.dones = p.buf.dones /\ p'.buf.ends_with_id = p.buf.ends_with_id \cup {e}
    BY <1>7, <2>1, <2>3
  <2> QED BY <1>4, <2>2, <2>3 DEF EndQueued
<1>9. Begun # {} => p'.tracer_detected = TRUE
  BY <1>5 DEF SendInv, Heard, Keeps, SameUsage, Calm, Alert
<1>10. Heard'
  BY <1>2, <1>6, <1>7, <1>8, <1>9 DEF Heard
<1>11. Placed'
  BY <1>2, <1>5, AdvancesIds, PlacedKept DEF SendInv, Keeps, SameUsage, Calm
<1>12. Delivered'
  BY <1>2, <1>4, DeliveredKept DEF SendInv, SameSetting
<1> QED BY <1>10, <1>11, <1>12 DEF SendInv

\* An invocation begins: it gets a context, and while there is room no other
\* loses its own.
LEMMA InvokeSends ==
  ASSUME Inv, PairInv, SendInv, Lawful, NEW r \in Requests, InvokeEvent(r) \/ PlatformStart(r)
  PROVE  SendInv'
<1>1. /\ Shape(p) /\ OneEach(p.buf) /\ p.monitoring \in BOOLEAN /\ p.managed \in BOOLEAN
      /\ DOMAIN env = EnvFields /\ BufferShape(p.buf)
  BY DEF Inv, EnvInv, LedgerInv, UsageInv, Shape
<1>2. p' = on_invoke_event(p, r, FALSE)
  BY <1>1 DEF InvokeEvent, PlatformStart, on_platform_start
<1>3. r \notin env.invoked /\ tasks' = tasks
  BY DEF InvokeEvent, PlatformStart
<1>4. /\ env'.invoked = env.invoked \cup {r} /\ env'.done = env.done /\ env'.started = env.started
      /\ env'.ended = env.ended /\ (Orderly' <=> Orderly) /\ env'.reported = env.reported
      /\ env'.complete = env.complete
  BY <1>1 DEF InvokeEvent, PlatformStart, EnvFields, Orderly
<1>5. \A i \in DOMAIN p.buf.buffer :
        /\ p.buf.buffer[i].id # r
        /\ p.buf.buffer[i].id = EmptyId => ~p.buf.buffer[i].runtime_done_received
  BY <1>3, EmptyIdFact DEF Inv, LedgerInv, ContextInv
<1>6. SameSetting(p, p') /\ SameEnds(p.buf, p'.buf)
  BY <1>1, <1>2, <1>5, InvokePairs
<1> DEFINE old == Ids(p.buf.buffer)
           new_ids == Ids(OpenContext(p, r, FALSE).buf.buffer)
<1>7. Invokes(p, p', r) /\ Ids(p'.buf.buffer) = new_ids
  BY <1>1, <1>2, <1>5, InvokeEffect
<1>8. Alert(p, p')
  BY <1>7 DEF Invokes, Monitored
<1>9. r \notin old /\ r # EmptyId /\ old \subseteq (env.invoked \ env.reported) \cup {EmptyId}
  BY <1>5, EmptyIdFact DEF Ids, Inv, LedgerInv, ContextInv
<1>10. EmptyId \in old => p.managed /\ p.awaiting_first_invocation = TRUE
  BY DEF SendInv, Placed
<1>11. /\ EmptyId \notin new_ids
       /\ EmptyId \in old \/ Len(p.buf.buffer) # Capacity => (old \ {EmptyId}) \cup {r} \subseteq new_ids
  BY <1>1, <1>9, <1>10, OpenContextIds
<1>12. Fits => EmptyId \in old \/ Len(p.buf.buffer) # Capacity
  <2> SUFFICES ASSUME Fits, EmptyId \notin old PROVE Len(p.buf.buffer) # Capacity
    OBVIOUS
  <2>1. Ids(p.buf.buffer) \subseteq Requests \ {r}
    BY <1>9 DEF Inv, EnvInv
  <2> QED BY <1>1, <2>1, RoomLeft
<1> HIDE DEF old, new_ids
<1>13. Placed'
  <2>1. Fits => (env.invoked \cup {r}) \ env.reported \subseteq new_ids
    <3> SUFFICES ASSUME Fits PROVE (env.invoked \cup {r}) \ env.reported \subseteq new_ids
      OBVIOUS
    <3>1. env.invoked \ env.reported \subseteq old
      BY DEF SendInv, Placed, old
    <3>2. EmptyId \notin env.invoked
      BY EmptyIdFact DEF Inv, EnvInv
    <3> QED BY <1>11, <1>12, <3>1, <3>2
  <2> QED BY <1>4, <1>7, <1>11, <2>1 DEF Placed, Fits
<1>14. Heard'
  BY <1>3, <1>4, <1>6, <1>8, HeardKept DEF SendInv, SameSetting, SameEnds
<1>15. Delivered'
  BY <1>4, <1>6, DeliveredKept DEF SendInv, SameSetting
<1> QED BY <1>13, <1>14, <1>15 DEF SendInv

\* A span that was sent is paid for.
LEMMA SentIsPaid ==
  ASSUME Inv, NEW r \in Requests, Sends(p, p', r)
  PROVE  r \in Paid'
<1>1. PICK trace : p'.sent = [p.sent EXCEPT ![r] = Append(p.sent[r], trace)]
  BY DEF Sends
<1>2. DOMAIN p.sent = Requests /\ (p.sent[r] = <<>> \/ \E t : p.sent[r] = <<t>>)
  BY DEF Inv, LedgerInv
<1>3. p'.sent[r] = Append(p.sent[r], trace)
  BY <1>1, <1>2
<1>4. Append(<<>>, trace) # <<>>
  OBVIOUS
<1>5. ASSUME NEW t PROVE Append(<<t>>, trace) # <<>>
  OBVIOUS
<1>6. p'.sent[r] # <<>>
  BY <1>2, <1>3, <1>4, <1>5
<1> QED BY <1>6 DEF Paid

\* When both events of an open invocation have arrived, its end waits, by id or
\* at the head of its queue, and its context is there.
LEMMA CompleteIsAnswered ==
  ASSUME Inv, PairInv, SendInv, Trusted, NEW r \in Through, r \in env.invoked, r \notin env.done
  PROVE  Answered(p, r)
<1>1. r \in Finished /\ r \in Begun
  <2>1. ~Contains(tasks.start, r) /\ ~Contains(tasks.end, r) /\ r \in env.ended /\ r \in env.started
    BY DEF Through, PairInv
  <2>2. r \notin Elems(tasks.start) /\ r \notin Elems(tasks.end)
    BY <2>1, ContainsFact DEF SendInv, Heard
  <2> QED BY <2>1, <2>2 DEF Finished, Begun
<1>2. p.tracer # "lwa" /\ p.tracer_detected = TRUE
  BY <1>1 DEF Trusted, SendInv, Heard
<1>3. r \in Ids(p.buf.buffer)
  BY DEF Trusted, SendInv, Placed, Inv, EnvInv
<1>4. CASE WithId
  BY <1>1, <1>2, <1>3, <1>4 DEF Answered, SendInv, Heard
<1>5. CASE ~WithId
  <2> DEFINE T == Finished \ env.done
             q == p.buf.ends
  <2>1. ~p.managed /\ Ordered
    BY <1>5 DEF Trusted, PairInv
  <2>2. Line(q, T) /\ T \subseteq Requests /\ r \in T
    BY <1>1, <2>1 DEF Ordered, Down
  <2> HIDE DEF T, q
  <2>3. q # <<>>
    <3>1. Elems(<<>>) = {}
      BY DEF Elems
    <3> QED BY <2>2, <3>1 DEF Line
  <2>4. Head(q) \in Requests
    BY <2>2, <2>3, LineTail
  <2>5. Head(q) # None
    BY <2>4, BufferAssumption DEF None
  <2> QED BY <1>2, <1>3, <2>1, <2>3, <2>5 DEF Answered, q
<1> QED BY <1>4, <1>5

\* platform.runtimeDone sends the span of a complete invocation.
LEMMA RuntimeDoneSendStep ==
  ASSUME Inv, PairInv, SendInv, Lawful, NEW r \in Requests, PlatformRuntimeDone(r)
  PROVE  SendInv'
<1>1. Shape(p) /\ OneEach(p.buf) /\ ~p.managed /\ p.managed \in BOOLEAN /\ DOMAIN env = EnvFields
  BY DEF Inv, EnvInv, LedgerInv, PlatformRuntimeDone
<1>2. PICK status : p' = on_platform_runtime_done(p, r, status)
  BY DEF PlatformRuntimeDone
<1>3. /\ env' = [env EXCEPT !.done = @ \cup {r}, !.complete = @ \cup ({r} \cap Through)] /\ tasks' = tasks
      /\ r \in env.invoked /\ r \notin env.done
  BY DEF PlatformRuntimeDone
<1>4. /\ env'.invoked = env.invoked /\ env'.done = env.done \cup {r} /\ env'.started = env.started
      /\ env'.ended = env.ended /\ (Orderly' <=> Orderly) /\ env'.reported = env.reported
      /\ env'.complete = env.complete \cup ({r} \cap Through)
  BY <1>1, <1>3 DEF EnvFields, Orderly
<1>5. Paused(p, p', r) /\ Ended(p.buf, p'.buf, r)
  BY <1>1, <1>2, RuntimeDoneEffect
<1> DEFINE q == PairOrQueue(p.buf.ends, p.buf.dones, r)
<1>6. /\ SameSetting(p, p')
      /\ r \in p.buf.ends_with_id => p'.buf.dones = p.buf.dones
      /\ r \notin p.buf.ends_with_id => p'.buf.dones = q.mine
      /\ p.buf.ends_with_id \ {r} \subseteq p'.buf.ends_with_id
  BY <1>1, <1>2, RuntimeDonePairs
<1>7. WithId' = WithId /\ Begun' = Begun /\ Finished' = Finished
  BY <1>3, <1>4, <1>6 DEF WithId, Begun, Finished, SameSetting
<1>8. Placed'
  <2>1. Ids(p'.buf.buffer) = Ids(p.buf.buffer)
    BY <1>5 DEF Ended, Ids
  <2> QED BY <1>4, <1>5, <2>1, PlacedKept DEF SendInv, Paused
<1>9. Heard'
  <2>1. WithId => /\ IsSequence(p'.buf.dones) /\ Elems(p'.buf.dones) \subseteq env'.done
                  /\ Finished \ env'.done \subseteq p'.buf.ends_with_id
    <3> SUFFICES ASSUME WithId
                 PROVE  /\ IsSequence(p'.buf.dones) /\ Elems(p'.buf.dones) \subseteq env'.done
                        /\ Finished \ env'.done \subseteq p'.buf.ends_with_id
      OBVIOUS
    <3>1. /\ IsSequence(p.buf.dones) /\ Elems(p.buf.dones) \subseteq env.done
          /\ Finished \ env.done \subseteq p.buf.ends_with_id /\ p.buf.ends = <<>>
      BY DEF SendInv, Heard, PairInv
    <3>2. q.mine = Append(p.buf.dones, r)
      BY <3>1 DEF PairOrQueue
    <3>3. IsSequence(Append(p.buf.dones, r)) /\ Elems(Append(p.buf.dones, r)) = Elems(p.buf.dones) \cup {r}
      BY <3>1, AppendFact
    <3> HIDE DEF q
    <3> QED BY <1>4, <1>6, <3>1, <3>2, <3>3
  <2>2. Begun # {} => p'.tracer_detected = TRUE
    BY <1>5 DEF SendInv, Heard, Paused, Alert
  <2> QED BY <1>3, <1>7, <2>1, <2>2 DEF SendInv, Heard
<1>10. Delivered'
  <2> SUFFICES ASSUME Trusted' PROVE env'.complete \subseteq Paid'
    BY DEF Delivered
  <2>1. Trusted
    BY <1>4, <1>6, <1>7 DEF Trusted, SameSetting, Fits
  <2>2. env.complete \subseteq Paid'
    BY <2>1 DEF SendInv, Delivered, Lawful
  <2>3. r \in Through => r \in Paid'
    <3> SUFFICES ASSUME r \in Through PROVE r \in Paid'
      OBVIOUS
    <3>1. Answered(p, r)
      BY <1>3, <2>1, CompleteIsAnswered
    <3>2. Sends(p, p', r)
      BY <1>1, <1>2, <3>1, RuntimeDoneSends
    <3> QED BY <3>2, SentIsPaid
  <2> QED BY <1>4, <2>2, <2>3
<1> QED BY <1>8, <1>9, <1>10 DEF SendInv

\* platform.report takes the context away; with Managed Instances it sends first.
LEMMA ReportSendStep ==
  ASSUME Inv, PairInv, SendInv, Lawful, NEW r \in Requests, PlatformReport(r)
  PROVE  SendInv'
<1>1. /\ Shape(p) /\ OneEach(p.buf) /\ p.managed \in BOOLEAN /\ DOMAIN env = EnvFields
      /\ p.monitoring \in BOOLEAN /\ p.active_invocations \in Nat
  BY DEF Inv, EnvInv, LedgerInv, UsageInv
<1>2. PICK status, at_limit : p' = on_platform_report(p, r, status, at_limit, r = 1)
  BY DEF PlatformReport
<1>3. /\ env' = [env EXCEPT !.reported = @ \cup {r}, !.done = @ \cup {r},
                            !.complete = @ \cup ({r} \cap (Through \ env.done))]
      /\ tasks' = tasks /\ r \in (IF p.managed THEN env.invoked ELSE env.done) \ env.reported
  BY DEF PlatformReport
<1>4. /\ env'.invoked = env.invoked /\ env'.done = env.done \cup {r} /\ env'.started = env.started
      /\ env'.ended = env.ended /\ (Orderly' <=> Orderly) /\ env'.reported = env.reported \cup {r}
      /\ env'.complete = env.complete \cup ({r} \cap (Through \ env.done))
  BY <1>1, <1>3 DEF EnvFields, Orderly
<1>5. Discounted(p, p') /\ Closed(p.buf, p'.buf, r)
  BY <1>1, <1>2, ReportEffect
<1>6. /\ SameSetting(p, p') /\ p'.buf.dones = p.buf.dones
      /\ p.buf.ends_with_id \ {r} \subseteq p'.buf.ends_with_id
  BY <1>1, <1>2, ReportPairs
<1>7. WithId' = WithId /\ Begun' = Begun /\ Finished' = Finished
  BY <1>3, <1>4, <1>6 DEF WithId, Begun, Finished, SameSetting
<1>8. Placed'
  <2>1. Ids(p'.buf.buffer) \subseteq Ids(p.buf.buffer) /\ Ids(p.buf.buffer) \ {r} \subseteq Ids(p'.buf.buffer)
    BY <1>5 DEF Closed, Ids
  <2>2. p'.managed = p.managed /\ p'.awaiting_first_invocation = p.awaiting_first_invocation
    BY <1>5 DEF Discounted
  <2> QED BY <1>4, <2>1, <2>2 DEF SendInv, Placed, Fits
<1>9. Heard'
  <2>1. WithId => /\ IsSequence(p'.buf.dones) /\ Elems(p'.buf.dones) \subseteq env'.done
                  /\ Finished \ env'.done \subseteq p'.buf.ends_with_id
    BY <1>4, <1>6 DEF SendInv, Heard
  <2>2. Begun # {} => p'.tracer_detected = TRUE
    BY <1>5 DEF SendInv, Heard, Discounted, Alert
  <2> QED BY <1>3, <1>7, <2>1, <2>2 DEF SendInv, Heard
<1>10. Delivered'
  <2> SUFFICES ASSUME Trusted' PROVE env'.complete \subseteq Paid'
    BY DEF Delivered
  <2>1. Trusted
    BY <1>4, <1>6, <1>7 DEF Trusted, SameSetting, Fits
  <2>2. env.complete \subseteq Paid'
    BY <2>1 DEF SendInv, Delivered, Lawful
  <2>3. r \in Through \ env.done => r \in Paid'
    <3> SUFFICES ASSUME r \in Through, r \notin env.done PROVE r \in Paid'
      OBVIOUS
    <3>1. p.managed = TRUE /\ r \in env.invoked
      BY <1>1, <1>3
    <3>2. Answered(p, r)
      BY <2>1, <3>1, CompleteIsAnswered
    <3>3. Sends(p, p', r)
      BY <1>1, <1>2, <3>1, <3>2, ReportSends
    <3> QED BY <3>3, SentIsPaid
  <2> QED BY <1>4, <2>2, <2>3
<1> QED BY <1>8, <1>9, <1>10 DEF SendInv

\* An invocation whose start and end reached the processor before the end of
\* its runtime (its report, with Managed Instances) has had its span sent once by
\* the time of its report, as long as the context buffer holds all requests and the
\* events can be paired: on_platform_runtime_done finds the end event, by request
\* id or at the head of its queue, and the context, and sends.
THEOREM CompleteIsSent == Spec => []CompleteInvocationIsSent
<1>1. Inv /\ PairInv /\ SendInv /\ [Next]_vars => SendInv'
  <2> SUFFICES ASSUME Inv, PairInv, SendInv, [Next]_vars PROVE SendInv'
    OBVIOUS
  <2>0. Lawful
    BY StepHolds
  <2>1. CASE Unpaired
    BY <2>0, <2>1, UnpairedSends
  <2>2. ASSUME NEW r \in Requests, InvokeEvent(r) \/ PlatformStart(r) PROVE SendInv'
    BY <2>0, <2>2, InvokeSends
  <2>3. ASSUME NEW r \in Requests, PlatformRuntimeDone(r) PROVE SendInv'
    BY <2>0, <2>3, RuntimeDoneSendStep
  <2>4. ASSUME NEW r \in Requests, PlatformReport(r) PROVE SendInv'
    BY <2>0, <2>4, ReportSendStep
  <2>5. CASE universal_instrumentation_start
    BY <2>0, <2>5, StartSends
  <2>6. CASE universal_instrumentation_end
    BY <2>0, <2>6, EndSends
  <2>7. ASSUME NEW r \in Requests,
               handle_start_invocation(r) \/ handle_end_invocation(r) \/ TracerLosesEvent(r)
        PROVE  SendInv'
    BY <2>0, <2>7, ListenSends
  <2> QED BY <2>1, <2>2, <2>3, <2>4, <2>5, <2>6, <2>7, Zenon DEF Next, run, Unpaired
<1>2. Inv /\ SendInv => CompleteInvocationIsSent
  <2> SUFFICES ASSUME Inv, SendInv, NEW r \in env.reported \cap env.complete, Trusted
               PROVE  Len(p.sent[r]) = 1
    BY DEF CompleteInvocationIsSent, Trusted, Fits
  <2>1. r \in Paid
    BY DEF SendInv, Delivered
  <2>2. PICK t : p.sent[r] = <<t>>
    BY <2>1 DEF Paid, Inv, LedgerInv
  <2> QED BY <2>2
<1> QED BY <1>1, <1>2, SendInit, InvocationInvariant, PairInvariant, PTL DEF Spec
=============================================================================
