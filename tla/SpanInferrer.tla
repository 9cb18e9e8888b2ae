---------------------------- MODULE SpanInferrer ----------------------------
(***************************************************************************)
(* lifecycle/invocation/span_inferrer.rs and the parts of processor.rs     *)
(* that use it: the spans that stand for the event source of an invocation *)
(* and for the message that source had received from another, and the      *)
(* trace they continue.                                                    *)
(*                                                                         *)
(* cfg: [mapping, represented, remove, service, lower]: the service        *)
(* mapping, DD_TRACE_AWS_SERVICE_REPRESENTATION_ENABLED,                   *)
(* DD_TRACE_REMOVE_INTEGRATION_SERVICE_NAMES_ENABLED, DD_SERVICE, its      *)
(* lower-case form, and serverless_appsec_enabled.                         *)
(*                                                                         *)
(* Definitions whose name starts with Mut are plausible wrong versions of  *)
(* the definition that follows them; the runs' properties are shown to     *)
(* reject them.                                                            *)
(***************************************************************************)
EXTENDS Triggers

Span(id) == [id |-> id, parent |-> <<>>, trace |-> "", start |-> 0, duration |-> 0, service |-> "",
             name |-> "", error |-> FALSE, tags |-> {}]
Skipped == {"alb", "states", "Unknown"}

apply_base_service_override(span, t, cfg) ==
  IF cfg.remove /\ cfg.service # "" /\ ~has_service_mapping_entry(t, cfg.mapping)
    THEN [span EXCEPT !.service = cfg.lower] ELSE span

\* Trigger::enrich_span, then the override.
Enriched(span, t, cfg) ==
  apply_base_service_override(
    [span EXCEPT !.name = t.name, !.start = t.start,
                 !.service = resolve_service_name(t, cfg.mapping, cfg.represented)], t, cfg)

should_enrich_span(type) == type \notin Skipped

\* The event of which the message was made, if the source passed one on.
Wrapped(type, e) ==
  CASE type = "sqs" /\ Wraps(e, "sns") -> <<SnsRecord(Head(e.body))>>
    [] type = "sqs" /\ Wraps(e, "eventbridge") -> <<EventBridgeEvent(Head(e.body))>>
    [] type = "sns" /\ Wraps(e, "eventbridge") -> <<EventBridgeEvent(Head(e.body))>>
    [] OTHER -> <<>>
\* Its duration is taken before the inferred span gets its start.
get_wrapped_inferred_span(type, e, inferred, cfg) ==
  [i \in DOMAIN Wrapped(type, e) |->
     LET span == Enriched(Span("wrapped"), Wrapped(type, e)[i], cfg)
     IN [span EXCEPT !.duration = inferred.start - span.start, !.tags = {"async"}]]

get_span_pointers(type, e) ==
  CASE type = "dynamodb" -> DynamoDbPointers(e) [] type = "s3" -> S3Pointers(e) [] OTHER -> <<>>

extract_generated_span_context(type, e) ==
  CASE type = "states" -> get_span_context(e.step)
    [] type = "sqs" -> extract_trace_context_from_aws_trace_header(e.header)
    [] OTHER -> NoSpanContext

should_skip_inferred_span(type, e) ==
  type = "alb" \/ (type = "states" /\ Found(extract_generated_span_context(type, e)))

NoData == [inferred |-> <<>>, wrapped |-> <<>>, async |-> FALSE, tags |-> {}, pointers |-> <<>>]
\* The span of the event source.  t: the trigger of the event.
InferredSpan(type, t, e, cfg) ==
  LET wrapped == Wrapped(type, e)
      bare == [Span("inferred") EXCEPT !.tags = {wrapped[i].source : i \in DOMAIN wrapped}]
      span == IF should_enrich_span(type) THEN Enriched(bare, t, cfg) ELSE bare
  IN [span EXCEPT !.tags = @ \cup (IF t.keyed THEN {"dd_resource_key"} ELSE {})
                             \cup {IF t.async THEN "async" ELSE "sync"}]
InferredData(type, t, e, cfg) ==
  [inferred |-> IF should_skip_inferred_span(type, e) THEN <<>> ELSE <<InferredSpan(type, t, e, cfg)>>,
   wrapped |-> get_wrapped_inferred_span(type, e, Span("inferred"), cfg),
   async |-> t.async, tags |-> {t.source}, pointers |-> get_span_pointers(type, e)]
InferSpanOf(type, e, cfg) == IF type = "Unknown" THEN NoData ELSE InferredData(type, Trigger(type, e), e, cfg)
infer_span(e, cfg) == InferSpanOf(from_value(e), e, cfg)
-----------------------------------------------------------------------------
\* span_inferrer::extract_span_context: what the event carries, else what it implies.
CarriedOrImplied(carrier, type, e) ==
  IF carrier # NoContext THEN Carried(carrier) ELSE extract_generated_span_context(type, e)
ContextOf(type, e) == IF type = "Unknown" THEN NoSpanContext ELSE CarriedOrImplied(Trigger(type, e).carrier, type, e)
InferredSpanContext(e) == ContextOf(from_value(e), e)

\* Processor::extract_span_context.  headers: those of the tracer's request.
FirstContext(inferred, headers, e) ==
  CASE Found(inferred) -> inferred
    [] ~Found(inferred) /\ e.request # NoContext -> Carried(e.request)
    [] ~Found(inferred) /\ e.request = NoContext /\ e.headers # NoContext -> Carried(e.headers)
    [] OTHER -> Carried(headers)
extract_span_context(headers, e) == FirstContext(InferredSpanContext(e), headers, e)

\* The invocation's spans when universal instrumentation starts.
\* sc: the context continued; data: what infer_span found.
StartedSpans(invocation, sc, data) ==
  LET traced == Found(sc)
      parent == IF traced THEN sc.parent ELSE <<>>
  IN [invocation |-> [invocation EXCEPT !.trace = IF traced THEN sc.trace ELSE @,
                                        !.parent = IF data.inferred # <<>> THEN <<"inferred">> ELSE IF traced THEN parent ELSE @],
      data |-> [data EXCEPT !.inferred = [i \in DOMAIN @ |-> [@[i] EXCEPT !.parent = parent]]]]
StartSpans(invocation, headers, e, cfg) == StartedSpans(invocation, extract_span_context(headers, e), infer_span(e, cfg))

\* propagate_appsec and the fields every span of the invocation shares.
propagate_appsec(cfg, invocation) ==
  (invocation.tags \cap {"_dd.appsec.enabled", "_dd.appsec.json"})
    \cup (IF cfg.serverless_appsec_enabled THEN {"_dd.appsec.enabled"} ELSE {})
Shared(span, invocation, cfg) ==
  [span EXCEPT !.trace = invocation.trace, !.error = invocation.error, !.tags = @ \cup propagate_appsec(cfg, invocation)]

\* The parents of the wrapped span and of the inferred one: ws.parent_id =
\* s.parent_id, then s.parent_id = ws.span_id.
MutLinkedInWrongOrder(s, ws) == [wrapped |-> <<ws.id>>, inferred |-> <<ws.id>>]
Linked(s, ws) == [wrapped |-> s.parent, inferred |-> <<ws.id>>]

complete_inferred_spans(data, invocation, cfg) ==
  IF data.inferred = <<>> THEN data
  ELSE LET s == Head(data.inferred)
           WrappedDuration(ws) == IF data.async /\ ws.duration # 0 THEN ws.duration ELSE s.start - ws.start
           duration == CASE data.async /\ s.duration # 0 -> s.duration
                         [] data.async /\ s.duration = 0 -> invocation.start - s.start
                         [] OTHER -> invocation.start + invocation.duration - s.start
       IN [data EXCEPT
             !.wrapped = [i \in DOMAIN @ |->
               [Shared(@[i], invocation, cfg) EXCEPT !.parent = Linked(s, data.wrapped[i]).wrapped,
                                                !.duration = WrappedDuration(data.wrapped[i])]],
             !.inferred = <<[Shared(s, invocation, cfg) EXCEPT
                               !.parent = IF data.wrapped # <<>> THEN Linked(s, data.wrapped[1]).inferred ELSE @,
                               !.duration = duration]>>]
=============================================================================
