---------------------------- MODULE DataStreams ----------------------------
(***************************************************************************)
(* traces/data_streams: the checkpoints of the messages a function         *)
(* consumes, the buckets they are counted in and the sketches that hold    *)
(* their latencies.  A value goes into a sketch under a key (its           *)
(* logarithm); the mapping of values to keys is not modelled.              *)
(*                                                                         *)
(* Definitions whose name starts with Mut are plausible wrong versions of  *)
(* the definition that follows them; the runs' properties are shown to     *)
(* reject them.                                                            *)
(***************************************************************************)
EXTENDS Triggers, FiniteSetsExt

CONSTANTS CHUNK_SIZE, BIN_LIMIT, BUCKET_SIZE,    \* BUCKET_SIZE_NS
          VARINT_BASE                              \* 128

i32_MAX == 1000000
Below(a, b) == IF a < b THEN a ELSE b
Above(a, b) == IF a < b THEN b ELSE a
Ceil(n, d) == (n + d - 1) \div d
-----------------------------------------------------------------------------
\* CollapsingLowestDenseStore.  bins[i] counts key offset + i - 1.
EmptyStore == [bins |-> <<>>, count |-> 0, min_key |-> i32_MAX, max_key |-> -i32_MAX, offset |-> 0,
               is_collapsed |-> FALSE, panicked |-> FALSE]
Zeros(n) == [i \in 1 .. n |-> 0]

get_new_length(new_min, new_max) == Below(CHUNK_SIZE * Ceil(new_max - new_min + 1, CHUNK_SIZE), BIN_LIMIT)

\* Bins that leave the vector are gone; a shift beyond it is an index out of range.
shift_bins(s, shift) ==
  [s EXCEPT !.bins = [i \in DOMAIN @ |-> IF i - shift \in DOMAIN @ THEN @[i - shift] ELSE 0],
            !.offset = @ - shift, !.panicked = @ \/ shift > Len(s.bins) \/ -shift > Len(s.bins)]

center_bins(s, new_min, new_max) ==
  shift_bins(s, s.offset + (Len(s.bins) \div 2) - (new_min + ((new_max - new_min + 1) \div 2)))

\* What lies below collapse_min is added to its bin.  The sum includes that bin, so
\* what it held counts twice.
MutCollapseDrops(s, collapse_min) == s
Collapsed(s, collapse_min) ==
  LET n == s.min_key - s.offset + 1
      r == collapse_min - s.offset + 1
      sum == FoldLeft(+, 0, SubSeq(s.bins, n, r))
  IN [s EXCEPT !.bins = [i \in DOMAIN @ |-> CASE i \in n .. r - 1 -> 0 [] i = r -> @[i] + sum [] OTHER -> @[i]]]

adjust(s, new_min, new_max) ==
  LET collapse_min == new_max - Len(s.bins) + 1
      shift == s.offset - collapse_min
      fitted ==
        CASE collapse_min >= s.max_key ->
               [s EXCEPT !.offset = collapse_min, !.bins = [Zeros(Len(@)) EXCEPT ![1] = s.count]]
          [] collapse_min < s.max_key /\ shift < 0 -> shift_bins(Collapsed(s, collapse_min), shift)
          [] OTHER -> shift_bins(s, shift)
  IN IF new_max - new_min + 1 > Len(s.bins)
       THEN [fitted EXCEPT !.min_key = collapse_min, !.max_key = new_max, !.is_collapsed = TRUE]
       ELSE [center_bins(s, new_min, new_max) EXCEPT !.min_key = new_min, !.max_key = new_max]

extend_range(s, key) ==
  LET new_min == Below(key, s.min_key)
      new_max == Above(key, s.max_key)
      length == Above(get_new_length(new_min, new_max), Len(s.bins))
  IN CASE s.bins = <<>> ->
            adjust([s EXCEPT !.bins = Zeros(length), !.offset = new_min], new_min, new_max)
       [] s.bins # <<>> /\ new_min >= s.min_key /\ new_max < s.offset + Len(s.bins) ->
            [s EXCEPT !.min_key = new_min, !.max_key = new_max]
       [] OTHER -> adjust([s EXCEPT !.bins = @ \o Zeros(length - Len(@))], new_min, new_max)

\* get_index and the addition to the bin it names.
add(s, key) ==
  LET low == key < s.min_key
      t == IF (low /\ ~s.is_collapsed) \/ (~low /\ key > s.max_key) THEN extend_range(s, key) ELSE s
      idx == IF low /\ t.is_collapsed THEN 1 ELSE key - t.offset + 1
  IN IF idx \in DOMAIN t.bins THEN [t EXCEPT !.bins[idx] = @ + 1, !.count = @ + 1]
                              ELSE [t EXCEPT !.panicked = TRUE]

\* DdSketch::accept.  A value is [sign, key].
NewSketch == [store |-> EmptyStore, negative_store |-> EmptyStore, zero_count |-> 0]
accept(k, value) ==
  CASE value.sign = 1 -> [k EXCEPT !.store = add(@, value.key)]
    [] value.sign = -1 -> [k EXCEPT !.negative_store = add(@, value.key)]
    [] OTHER -> [k EXCEPT !.zero_count = @ + 1]

\* The protobuf form.  write_uvarint: digits to the base VARINT_BASE, the lowest
\* first, each but the last marked by the bit above it; the sign goes into bit 0.
write_uvarint(value) ==
  LET length == CHOOSE n \in 1 .. value + 1 : value < VARINT_BASE^n /\ \A m \in 1 .. n - 1 : value >= VARINT_BASE^m
  IN [i \in 1 .. length |-> ((value \div VARINT_BASE^(i - 1)) % VARINT_BASE) + (IF i < length THEN VARINT_BASE ELSE 0)]
write_zigzag32(value) == write_uvarint(IF value < 0 THEN -2 * value - 1 ELSE 2 * value)
encode_store(s) ==
  (IF s.bins = <<>> THEN <<>> ELSE <<[field |-> 2, value |-> s.bins]>>) \o <<[field |-> 3, value |-> write_zigzag32(s.offset)]>>
to_proto_bytes(k) == <<encode_store(k.store), encode_store(k.negative_store), k.zero_count>>

\* What protobuf reads of it.
ReadUvarint(bytes) == FoldRight(LAMBDA b, sum : sum * VARINT_BASE + (b % VARINT_BASE), bytes, 0)
ReadZigzag(bytes) == LET z == ReadUvarint(bytes) IN IF z % 2 = 1 THEN -((z + 1) \div 2) ELSE z \div 2
ReadStore(s, fields) ==
  [s EXCEPT !.offset = ReadZigzag(Last(fields).value), !.bins = IF Len(fields) = 2 THEN fields[1].value ELSE <<>>]

\* A store holds the keys it was given, each in its bin; those it has collapsed are
\* in the lowest, some of them counted more than once.
Counts(s, keys) ==
  LET Count(P(_)) == Cardinality({i \in DOMAIN keys : P(keys[i])})
      In(key) == IF key - s.offset + 1 \in DOMAIN s.bins THEN s.bins[key - s.offset + 1] ELSE 0
      lowest == IF s.is_collapsed THEN s.min_key ELSE -i32_MAX
      Lowest(k) == k <= lowest
      Exact(key) == LET Same(k) == k = key IN In(key) = Count(Same)
  IN /\ ~s.panicked /\ Len(s.bins) <= BIN_LIMIT /\ s.count = Len(keys)
     /\ \A i \in DOMAIN s.bins : s.offset + i - 1 > lowest => Exact(s.offset + i - 1)
     /\ \A i \in DOMAIN keys : keys[i] > lowest => Exact(keys[i])
     /\ s.is_collapsed => In(lowest) >= Count(Lowest) /\ lowest = Max(Range(keys)) - BIN_LIMIT + 1
-----------------------------------------------------------------------------
\* Pathway contexts: [hash, pathway_start, edge_start], in milliseconds since the
\* epoch.  A negative time, or one too large for nanoseconds, is no context.
CONSTANT MaxMillis
from_bytes(c) == IF c.pathway_start \in 0 .. MaxMillis /\ c.edge_start \in 0 .. MaxMillis THEN <<c>> ELSE <<>>

\* The base64 entry of the carrier, else the raw one.
extract_pathway_context(entries) ==
  LET base64 == IF entries.base64 = <<>> THEN <<>> ELSE from_bytes(Head(entries.base64))
      raw == IF entries.raw = <<>> THEN <<>> ELSE from_bytes(Head(entries.raw))
  IN IF base64 # <<>> THEN base64 ELSE raw

ENTRY_PARENT_HASH == <<>>
\* A hash is the edge and the hash it follows.
compute_pathway_hash(edge, parent) == <<edge, parent>>

compute_consume_checkpoint(edge, ctx, now) ==
  LET parent == IF ctx = <<>> THEN ENTRY_PARENT_HASH ELSE ctx[1].hash
      Since(start) == IF ctx = <<>> THEN 0 ELSE Above(0, now - start)
  IN [hash |-> compute_pathway_hash(edge, parent), parent_hash |-> parent, edge |-> edge, now |-> now,
      edge_latency |-> Since(ctx[1].edge_start), pathway_latency |-> Since(ctx[1].pathway_start)]

\* Aggregator: buckets of points, one per hash.
AddCheckpoint(buckets, checkpoint) ==
  LET start == checkpoint.now - (checkpoint.now % BUCKET_SIZE)
      place == <<start, checkpoint.hash>>
      point == IF place \in DOMAIN buckets THEN buckets[place]
               ELSE [parent_hash |-> checkpoint.parent_hash, edge |-> checkpoint.edge, latencies |-> <<>>]
  IN [p \in DOMAIN buckets \cup {place} |->
        IF p = place THEN [point EXCEPT !.latencies = Append(@, <<checkpoint.edge_latency, checkpoint.pathway_latency>>)]
                     ELSE buckets[p]]

\* The buckets as one payload, or none.
take_payload(buckets) ==
  IF DOMAIN buckets = {} THEN <<>>
  ELSE <<{[start |-> s, duration |-> BUCKET_SIZE, stats |-> {buckets[p] : p \in {q \in DOMAIN buckets : q[1] = s}}] : s \in {p[1] : p \in DOMAIN buckets}}>>
drain_into_proxy(buckets, proxy) == [buckets |-> <<>>, proxy |-> proxy \o take_payload(buckets)]

\* DsmProcessor::record_consume
record_consume(buckets, edge, entries, now) ==
  AddCheckpoint(buckets, compute_consume_checkpoint(edge, extract_pathway_context(entries), now))

\* Processor: the bus of the configuration, of the event or "default"; the consumer
\* group of the configuration.  "" is none.
resolve_dsm_eventbridge_exchange(edge, configured) ==
  LET named == {t[2] : t \in {u \in edge : u[1] = "exchange"}}
      exchange == IF configured # "" THEN configured ELSE IF named # {} THEN CHOOSE n \in named : TRUE ELSE "default"
  IN IF <<"type", "eventbridge">> \notin edge THEN edge
     ELSE {t \in edge : t[1] # "exchange"} \cup {<<"exchange", exchange>>}
apply_dsm_kafka_group_fallback(edge, group) ==
  IF group # "" /\ <<"type", "kafka">> \in edge /\ ~\E t \in edge : t[1] = "group"
    THEN edge \cup {<<"group", group>>} ELSE edge

\* record_dsm_consume_from_payload.  dsm: the buckets and the requests processed;
\* entries: the pathway contexts in the carriers, by name.
Consumed(dsm, request, e, entries, cfg, now) ==
  LET Record(buckets, c) ==
        record_consume(buckets,
          apply_dsm_kafka_group_fallback(resolve_dsm_eventbridge_exchange(c.edge, cfg.exchange), cfg.group),
          entries[c.carrier], now)
      checkpoints == IF from_value(e) = "Unknown" THEN <<>> ELSE get_dsm_checkpoints(e)
  IN IF request \in dsm.processed THEN dsm
     ELSE [buckets |-> FoldLeft(Record, dsm.buckets, checkpoints), processed |-> dsm.processed \cup {request}]
=============================================================================
