--------------------------- MODULE TraceProcessor ---------------------------
(***************************************************************************)
(* traces/trace_processor.rs: what happens to the spans of one request, as *)
(* operators on chunks.                                                    *)
(*                                                                         *)
(* A span is a record [n, key, kind, error, meta, props, dm]: n tells it   *)
(* from the other spans of its request, key is its trace and span id, kind *)
(* is what the code recognises it as (see Kinds), meta its tags, props its *)
(* name, service, resource and type, dm the decision maker it carries.     *)
(* A chunk is [spans, priority, dm].                                       *)
(***************************************************************************)
EXTENDS Integers, Sequences, SequencesExt, FiniteSets

\* A configuration is a record of compute_stats (lambda_extension_compute_stats),
\* error_sampler (serverless_error_sampler_enabled), tracer_drop (apm_features has
\* error_rare_sample_tracer_drop) and the tag filters require, require_regex,
\* reject and reject_regex.

\* aws.lambda.load; the tracer's placeholder of the invocation span; a call of
\* the runtime, extension or statsd endpoints, or a DNS lookup; anything else.
Kinds == {"load", "placeholder", "library", "plain"}

NoPriority == -128    \* SamplerPriority::None

-----------------------------------------------------------------------------
\* StatsComputedBy::resolve
resolve(compute_on_extension, client_computed_stats) ==
  CASE client_computed_stats -> "Tracer"
    [] ~client_computed_stats /\ compute_on_extension -> "Extension"
    [] OTHER -> "Backend"

-----------------------------------------------------------------------------
\* Tag filters.  A filter is [key, any, values]: the key alone, or with the one
\* value (exact) or all the values (regular expression) it accepts; a regular
\* expression that does not compile accepts none.
Properties == {"name", "service", "resource", "type"}

span_has_key(span, key) ==
  key \in DOMAIN span.meta \/ (key \in Properties /\ span.props[key] # "")

span_matches_tag_exact(span, key, value) ==
  \/ key \in DOMAIN span.meta /\ span.meta[key] = value
  \/ key \in Properties /\ span.props[key] = value

span_matches_tag_regex(span, key, values) ==
  \/ key \in DOMAIN span.meta /\ span.meta[key] \in values
  \/ key \in Properties /\ span.props[key] \in values

span_matches_tag_exact_filter(span, f) ==
  IF f.any THEN span_has_key(span, f.key)
           ELSE \E v \in f.values : span_matches_tag_exact(span, f.key, v)

span_matches_tag_regex_filter(span, f) ==
  IF f.any THEN span_has_key(span, f.key) ELSE span_matches_tag_regex(span, f.key, f.values)

\* TRUE: the span, the root of its trace, has the trace filtered out.
filter_span_by_tags(span, config) ==
  \/ \E f \in config.require : ~span_matches_tag_exact_filter(span, f)
  \/ \E f \in config.require_regex : ~span_matches_tag_regex_filter(span, f)
  \/ \E f \in config.reject : span_matches_tag_exact_filter(span, f)
  \/ \E f \in config.reject_regex : span_matches_tag_regex_filter(span, f)

filter_span_from_lambda_library_or_runtime(span) == span.kind \in {"library", "placeholder"}

-----------------------------------------------------------------------------
\* Vec::retain: what of s is in T, in its order.  It does what SelectSeq does, but
\* by a set: the prover cannot instantiate operators.
retain(s, T) ==
  LET f[i \in 0 .. Len(s)] == IF i = 0 THEN <<>> ELSE IF s[i] \in T THEN Append(f[i - 1], s[i]) ELSE f[i - 1]
  IN f[Len(s)]

\* trace_utils::get_root_span_index (external): only an empty trace has none,
\* and collect_pb_trace_chunks skips it.
HasRoot(spans) == spans # <<>>
Root(spans) == Last(spans)

\* ChunkProcessor::process.  The decision maker is promoted to the chunk before
\* the span that carries it can be filtered out.
process(chunk, config) ==
  LET carriers == retain(chunk.spans, {s \in Range(chunk.spans) : s.dm # "none"})
      dm == IF chunk.dm = "none" /\ carriers # <<>> THEN Head(carriers).dm ELSE chunk.dm
      stay == {s \in Range(chunk.spans) : ~filter_span_from_lambda_library_or_runtime(s)}
  IN [chunk EXCEPT !.dm = dm,
                   !.spans = IF HasRoot(@) /\ filter_span_by_tags(Root(@), config) THEN <<>> ELSE retain(@, stay)]

is_manual_tracer_drop(chunk) == chunk.priority = -1 /\ chunk.dm = "-4"

\* Any errored span rescues the chunk; the sampler keeps every candidate.
rescue_error_chunk(chunk) == HasRoot(chunk.spans) /\ \E i \in DOMAIN chunk.spans : chunk.spans[i].error

\* The chunks that stay, by their positions.
drop_sampled_out_chunks(chunks, config) ==
  LET Keep(c) ==
        \/ c.priority > 0 \/ c.priority = NoPriority
        \/ /\ c.priority < 0 => config.tracer_drop /\ ~is_manual_tracer_drop(c)
           /\ config.error_sampler /\ rescue_error_chunk(c)
  IN {i \in DOMAIN chunks : Keep(chunks[i])}

\* The spans of the chunks at the given positions.
SpansOf(chunks, at) == FlattenSeq([i \in DOMAIN chunks |-> IF i \in at THEN chunks[i].spans ELSE <<>>])

\* What is sent (as the spans in it), or nothing, and what stats are computed
\* from: everything that was not filtered, sampled out or not.
process_traces(config, chunks, client_computed_stats) ==
  LET by == resolve(config.compute_stats, client_computed_stats)
      rooted == {i \in DOMAIN chunks : HasRoot(chunks[i].spans)}
      outcome == [c \in Range(chunks) |-> process(c, config)]
      processed == [i \in DOMAIN chunks |-> outcome[chunks[i]]]
      kept == IF by = "Backend" THEN rooted ELSE rooted \cap drop_sampled_out_chunks(processed, config)
  IN [send |-> by = "Backend" \/ kept # {},
      payload |-> [spans |-> SpansOf(processed, kept), stamped |-> by = "Backend"],
      for_stats |-> SpansOf(processed, rooted)]
=============================================================================
