-------------------------- MODULE StatsConcentrator --------------------------
(***************************************************************************)
(* traces/stats_concentrator_service.rs: the service that aggregates spans *)
(* into stats and warns, once per sandbox, of each limit on distinct       *)
(* values that made it aggregate under the blocked value.                  *)
(*                                                                         *)
(* A span is a function from Dimensions to values.  The concentrator       *)
(* itself is libdatadog's: in each bucket of 10 s, here a number, the      *)
(* values of a dimension beyond its limit become TRACER_BLOCKED_VALUE, and *)
(* the keys beyond the whole-key limit become so altogether.               *)
(*                                                                         *)
(* Definitions whose name starts with Mut are plausible wrong versions of  *)
(* the definition that follows them; the runs' properties are shown to     *)
(* reject them.                                                            *)
(***************************************************************************)
EXTENDS Integers, Sequences, SequencesExt, FiniteSets, TLC

CONSTANTS WHOLE_KEY_LIMIT, FIELD_LIMIT    \* CardinalityLimitConfig::default

CORE_FIELDS == {"resource", "http_endpoint", "peer_tags"}
Fields == CORE_FIELDS \cup {"additional_tags"}
Dimensions == Fields \cup {"service"}
TRACER_BLOCKED_VALUE == "tracer_blocked_value"

\* A limit in DD_TRACE_STATS_ADDITIONAL_TAGS_CARDINALITY_LIMIT: <<>> or <<n>>.
resolve_cardinality_limits(configured) ==
  LET limit == CASE configured \in {<<>>, <<0>>} -> FIELD_LIMIT
                 [] configured \notin {<<>>, <<0>>} /\ configured[1] > WHOLE_KEY_LIMIT - 1 -> WHOLE_KEY_LIMIT - 1
                 [] OTHER -> configured[1]
  IN [f \in Fields |-> IF f = "additional_tags" THEN limit ELSE FIELD_LIMIT]

possible(additional_tags_enabled) == IF additional_tags_enabled THEN Fields ELSE CORE_FIELDS

\* StatsConcentratorService::new.  tags: is DD_TRACE_STATS_ADDITIONAL_TAGS set?
\* buckets: per bucket not yet flushed, the spans with the entry each is counted in.
NewService(configured, tags) ==
  [limits |-> resolve_cardinality_limits(configured), buckets |-> <<>>, tracer_metadata |-> "",
   whole_key_collapse_reported |-> FALSE, reported_collapsed_fields |-> {}, possible_collapsed_fields |-> possible(tags),
   warnings |-> <<>>, flushed |-> <<>>]

\* SpanConcentrator::add_span.  A span without additional tags has none to limit.
Aggregated(s, stats, span) ==
  LET Seen(f) == {stats[i].entry[f] : i \in DOMAIN stats} \ {TRACER_BLOCKED_VALUE}
      Limited(f) == f \in s.possible_collapsed_fields /\ span[f] \notin Seen(f) /\ Cardinality(Seen(f)) >= s.limits[f]
  IN [f \in Dimensions |-> IF f # "service" /\ Limited(f) THEN TRACER_BLOCKED_VALUE
                           ELSE IF f = "additional_tags" /\ f \notin s.possible_collapsed_fields THEN "" ELSE span[f]]
Overflow == [f \in Dimensions |-> TRACER_BLOCKED_VALUE]
add_span(s, span, at) ==
  LET stats == IF at \in DOMAIN s.buckets THEN s.buckets[at] ELSE <<>>
      entry == Aggregated(s, stats, span)
      keys == {stats[i].entry : i \in DOMAIN stats} \ {Overflow}
      over == entry \notin keys /\ Cardinality(keys) >= WHOLE_KEY_LIMIT
  IN [s EXCEPT !.buckets = (at :> Append(stats, [span |-> span, entry |-> IF over THEN Overflow ELSE entry])) @@ @]
InOverflow(buckets, b) == \E i \in DOMAIN buckets[b] : buckets[b][i].entry = Overflow

\* The overflow entry has its service blocked, which no limit on a field does.
MutScansOverflow(buckets) ==
  {f \in Fields : \E b \in DOMAIN buckets : \E i \in DOMAIN buckets[b] : buckets[b][i].entry[f] = TRACER_BLOCKED_VALUE}
observe_collapsed_fields(buckets) ==
  {f \in Fields : \E b \in DOMAIN buckets : \E i \in DOMAIN buckets[b] :
                    /\ buckets[b][i].entry["service"] # TRACER_BLOCKED_VALUE
                    /\ buckets[b][i].entry[f] = TRACER_BLOCKED_VALUE}

\* The fields in the order of CollapsedFields::reportable.
reportable == <<"resource", "http_endpoint", "peer_tags", "additional_tags">>
report_collapse(s, buckets) ==
  LET whole == ~s.whole_key_collapse_reported /\ \E b \in DOMAIN buckets : InOverflow(buckets, b)
      t == IF whole THEN [s EXCEPT !.whole_key_collapse_reported = TRUE, !.warnings = Append(@, "whole_key")] ELSE s
      Unreported(f) == f \in observe_collapsed_fields(buckets) \ s.reported_collapsed_fields
      now == SelectSeq(reportable, Unreported)
  IN IF s.possible_collapsed_fields \subseteq s.reported_collapsed_fields THEN t
     ELSE [t EXCEPT !.reported_collapsed_fields = @ \cup Range(now), !.warnings = @ \o now]

\* The buckets that have ended, or all if forced, go out in one payload: who it says
\* is tracing, and what it counts.  The others are kept back.
handle_flush(s, force, ended) ==
  LET due == {b \in DOMAIN s.buckets : force \/ b <= ended}
      Only(set) == [b \in set |-> s.buckets[b]]
      t == report_collapse(s, Only(due))
  IN IF due = {} THEN t
     ELSE [t EXCEPT !.buckets = Only(DOMAIN s.buckets \ due),
                    !.flushed = Append(@, [metadata |-> t.tracer_metadata, buckets |-> Only(due)])]

\* The commands of the queue: a span of a bucket, and a flush that is forced or comes
\* when the buckets up to one have ended.
run(s, command) ==
  CASE command.op = "SetTracerMetadata" -> [s EXCEPT !.tracer_metadata = command.metadata]
    [] command.op = "Add" -> add_span(s, command.span, command.at)
    [] OTHER -> handle_flush(s, command.force_flush, command.ended)

\* The handle of a trace: it names the tracer the first time.
set_tracer_metadata(h, metadata) ==
  IF h.is_tracer_metadata_set THEN h
  ELSE [h EXCEPT !.is_tracer_metadata_set = TRUE, !.sent = Append(@, [op |-> "SetTracerMetadata", metadata |-> metadata])]
HandleAdd(h, c) == [h EXCEPT !.sent = Append(@, [op |-> "Add", span |-> c.span, at |-> c.at])]
HandleFlush(h, force, ended) == [h EXCEPT !.sent = Append(@, [op |-> "Flush", force_flush |-> force, ended |-> ended])]

\* A sequence of spans and flushes sent through one handle, and what the service
\* makes of it.
Call(h, c) ==
  IF c.op = "flush" THEN HandleFlush(h, c.force, c.ended) ELSE HandleAdd(set_tracer_metadata(h, "tracer"), c)
Served(calls, configured, tags) ==
  FoldLeft(run, NewService(configured, tags), FoldLeft(Call, [is_tracer_metadata_set |-> FALSE, sent |-> <<>>], calls).sent)
=============================================================================
