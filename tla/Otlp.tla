-------------------------------- MODULE Otlp --------------------------------
(***************************************************************************)
(* otlp/transform.rs and otlp/processor.rs: OpenTelemetry spans made into  *)
(* Datadog spans, grouped into traces.                                     *)
(*                                                                         *)
(* A text is a sequence of parts, <<>> the empty one.  Attributes are a    *)
(* sequence of [key, value]; a value is [kind, text, items], of kind       *)
(* "none" when the attribute has no value.  The items of an array have no  *)
(* items.  A trace id is <<high, low>>, both halves there: one of fewer    *)
(* than 16 bytes, on which otel_trace_id_to_dd_id panics, is left out.     *)
(* cfg: [ignore_missing_datadog_fields, span_name_as_resource_name,        *)
(* span_name_remappings, apm_features].                                    *)
(*                                                                         *)
(* Definitions whose name starts with Mut are plausible wrong versions of  *)
(* the definition that follows them; the runs' properties are shown to     *)
(* reject them.                                                            *)
(***************************************************************************)
EXTENDS Integers, Sequences, SequencesExt, FiniteSets, TLC

CONSTANTS LOW_BITS,    \* 32: the bits of the low half of a time
          MaxTime      \* u64::MAX

\* libdd's normalize_tag, normalize_service and normalize_name.
Normal == "Env" :> "env" @@ "Service" :> "service"
normalize_tag(text) == [i \in DOMAIN text |-> IF text[i] \in DOMAIN Normal THEN Normal[text[i]] ELSE text[i]]

FirstValue(found) == IF found = <<>> THEN <<>> ELSE SelectSeq(<<Head(found).value>>, LAMBDA v : v.kind # "none")
get_otel_attribute_value(attributes, key) == FirstValue(SelectSeq(attributes, LAMBDA a : a.key = key))

Scalar(value) == IF value.kind \in {"none", "index"} THEN <<>> ELSE value.text
Listed(items) == <<"[">> \o FlattenSeq([i \in DOMAIN items |-> Scalar(items[i]) \o <<",">>]) \o <<"]">>
otel_value_to_string(value) ==
  IF value.kind = "array" THEN Listed(SelectSeq(value.items, LAMBDA v : v.kind # "none")) ELSE Scalar(value)

\* Attributes without a value are passed over.
TextOf(found) == IF found = <<>> THEN <<>> ELSE otel_value_to_string(Head(found).value)
Normalized(text, normalize) == IF normalize THEN normalize_tag(text) ELSE text
get_otel_attribute_value_as_string(attributes, key, normalize) ==
  Normalized(TextOf(SelectSeq(attributes, LAMBDA a : a.key = key /\ a.value.kind # "none")), normalize)

FirstOf(texts) ==
  LET given == SelectSeq(texts, LAMBDA t : t # <<>>) IN IF given = <<>> THEN <<>> ELSE Head(given)
When(condition, text) == IF condition THEN text ELSE <<>>

get_otel_attribute_value_as_string_from_resource_or_span(res, span, key, normalize) ==
  FirstOf(<<get_otel_attribute_value_as_string(res.attributes, key, normalize),
            get_otel_attribute_value_as_string(span.attributes, key, normalize)>>)
-----------------------------------------------------------------------------
otel_operation_and_resource_v2_enabled(cfg) ==
  /\ ~cfg.span_name_as_resource_name
  /\ DOMAIN cfg.span_name_remappings = {}
  /\ "disable_operation_and_resource_name_logic_v2" \notin cfg.apm_features

get_otel_service(res) ==
  FirstOf(<<get_otel_attribute_value_as_string(res.attributes, "service.name", TRUE),
            <<"otlpresourcenoservicename">>>>)

get_dd_span_kind_from_otel_kind(span) == <<span.kind>>

get_otel_operation_name_v1(span, lib, cfg) ==
  LET operation == FirstOf(<<get_otel_attribute_value_as_string(span.attributes, "operation.name", FALSE),
                             When(cfg.span_name_as_resource_name, span.name)>>)
      scoped == FirstOf(<<lib.name, <<"opentelemetry">>>>) \o <<".">> \o get_dd_span_kind_from_otel_kind(span)
      named == IF cfg.span_name_as_resource_name \/ operation # <<>> THEN operation ELSE scoped
  IN normalize_tag(IF named \in DOMAIN cfg.span_name_remappings THEN cfg.span_name_remappings[named] ELSE named)

SpanAttribute(span, key) == get_otel_attribute_value_as_string(span.attributes, key, TRUE)
DatabaseName(span) ==
  LET Attr(key) == SpanAttribute(span, key)
      target == FirstOf(<<Attr("db.collection.name"), Attr("db.stored_procedure.name"), Attr("db.namespace"),
                          When(Attr("server.address") # <<>> /\ Attr("server.port") # <<>>,
                               Attr("server.address") \o <<":">> \o Attr("server.port"))>>)
      operation == Attr("db.operation.name")
  IN FirstOf(<<Attr("db.query.summary"),
               When(target # <<>>, IF operation = <<>> THEN target ELSE operation \o target),
               Attr("db.system.name")>>)
RpcName(span) ==
  LET Attr(key) == SpanAttribute(span, key)
      client == span.kind = "client"
      server == span.kind = "server"
      system == Attr("rpc.system")
      service == Attr("rpc.service")
  IN FirstOf(<<When(system = <<"aws-api">> /\ client /\ service # <<>>, <<"aws.">> \o service \o <<".request">>),
               When(system = <<"aws-api">> /\ client, <<"aws.client.request">>),
               When(system # <<>> /\ client, system \o <<".client.request">>),
               When(system # <<>> /\ server, system \o <<".server.request">>)>>)
FaasName(span) ==
  LET Attr(key) == SpanAttribute(span, key)
      provider == Attr("faas.invoked_provider")
      name == Attr("faas.invoked_name")
  IN FirstOf(<<When(provider # <<>> /\ name # <<>> /\ span.kind = "client", provider \o <<".">> \o name \o <<".invoke">>),
               When(Attr("faas.trigger") # <<>> /\ span.kind = "server", Attr("faas.trigger") \o <<".invoke">>)>>)
GenericName(span) ==
  LET protocol == SpanAttribute(span, "network.protocol.name")
      suffix == IF span.kind = "server" THEN <<"server.request">> ELSE <<"client.request">>
  IN CASE span.kind \in {"server", "client"} -> When(protocol # <<>>, protocol \o <<".">>) \o suffix
       [] span.kind = "unspecified" -> <<"SPAN_KIND_", "internal">>
       [] OTHER -> <<"SPAN_KIND_", span.kind>>

get_otel_operation_name_v2(span, lib) ==
  LET Raw(key) == get_otel_attribute_value_as_string(span.attributes, key, FALSE)
      Attr(key) == SpanAttribute(span, key)
      client == span.kind = "client"
      server == span.kind = "server"
      messaging == Attr("messaging.system") # <<>> /\ Attr("messaging.operation.type") # <<>>
  IN FirstOf(<<Raw("operation.name"),
               When(server /\ lib.name = <<"opentelemetry.instrumentation.aws_lambda">>, <<"aws.lambda">>),
               When(Raw("http.request.method") # <<>> /\ server, <<"http.server.request">>),
               When(Raw("http.request.method") # <<>> /\ client, <<"http.client.request">>),
               DatabaseName(span),
               When(messaging /\ span.kind \in {"client", "server", "consumer", "producer"},
                    Attr("messaging.system") \o <<".">> \o Attr("messaging.operation.type")),
               RpcName(span),
               FaasName(span),
               When(Attr("graphql.operation.type") # <<>>, <<"graphql.server.request">>),
               GenericName(span)>>)

get_otel_resource(span, res) ==
  LET Attr(key) == get_otel_attribute_value_as_string_from_resource_or_span(res, span, key, FALSE)
      method == IF Attr("http.request.method") = <<"_OTHER">> THEN <<"HTTP">> ELSE Attr("http.request.method")
      And(text, more) == When(text # <<>>, text \o more)
  IN FirstOf(<<Attr("resource.name"),
               And(method, When(span.kind = "server", Attr("http.route"))),
               And(Attr("messaging.operation.type"), Attr("messaging.destination.name")),
               When(Attr("rpc.method") # <<>>, Attr("rpc.service") \o Attr("rpc.method")),
               And(Attr("graphql.operation.type"), Attr("graphql.operation.name")),
               When(Attr("db.system.name") # <<>>, FirstOf(<<Attr("db.query.text"), Attr("db.system.name")>>)),
               span.name>>)

get_dd_span_type_from_otel_kind(span, res) ==
  LET system == get_otel_attribute_value_as_string_from_resource_or_span(res, span, "db.system.name", TRUE)
  IN CASE span.kind = "server" -> <<"web">>
       [] span.kind = "client" /\ system = <<>> -> <<"http">>
       [] span.kind = "client" /\ system # <<>> -> IF system \in {<<"redis">>, <<"memcached">>} THEN <<"cache">> ELSE <<"db">>
       [] OTHER -> <<"custom">>

\* 0 is none.  Only digits parse as u32.
Parsed(text) == CASE text = <<"200">> -> 200 [] text = <<"404">> -> 404 [] OTHER -> 0
\* Looks twice under the same key.
get_otel_status_code(span) ==
  Parsed(get_otel_attribute_value_as_string(span.attributes, "http.response.status_code", FALSE))
-----------------------------------------------------------------------------
Tag(dd, key, text) == [dd EXCEPT !.meta = (key :> text) @@ @]
Measure(dd, key, text) == [dd EXCEPT !.metrics = (key :> text) @@ @]
TagUnless(dd, key, text) == IF text = <<>> \/ key \in DOMAIN dd.meta THEN dd ELSE Tag(dd, key, text)

\* The keys in the datadog namespace that have a tag of their own, and the tags.
DD_SEMANTIC_KEYS_TO_META_KEYS ==
  <<<<"datadog.env", "env">>, <<"datadog.version", "version">>, <<"datadog.http_status_code", "http.status_code">>,
    <<"datadog.error.msg", "error.msg">>, <<"datadog.error.type", "error.type">>, <<"datadog.error.stack", "error.stack">>>>
META_KEYS_TO_DD_SEMANTIC_KEYS == {DD_SEMANTIC_KEYS_TO_META_KEYS[i][2] : i \in DOMAIN DD_SEMANTIC_KEYS_TO_META_KEYS}
InDatadogNamespace(key) ==
  key \in {DD_SEMANTIC_KEYS_TO_META_KEYS[i][1] : i \in DOMAIN DD_SEMANTIC_KEYS_TO_META_KEYS}
            \cup {"datadog.service", "datadog.name", "datadog.resource", "datadog.type", "datadog.span.kind", "datadog.error"}
is_datadog_apm_convention_key(key) ==
  key \in {"service.name", "operation.name", "resource.name", "span.type"} \/ InDatadogNamespace(key)

\* The keys that name a field of the span never get here.
set_otlp_meta(dd, key, text) ==
  IF key = "analytics.event"
    THEN IF text \in {<<"true">>, <<"false">>} THEN Measure(dd, "_dd1.sr.eausr", text) ELSE dd
    ELSE Tag(dd, key, text)
set_otlp_metrics(dd, key, text) ==
  Measure(dd, IF key = "sampling.priority" THEN "_sampling_priority_v1" ELSE key, text)

\* Neither replaces what the datadog namespace has set.
MutMetaReplaces(dd, key, text, cfg) ==
  IF is_datadog_apm_convention_key(key) \/ (key \in META_KEYS_TO_DD_SEMANTIC_KEYS /\ cfg.ignore_missing_datadog_fields)
    THEN dd ELSE set_otlp_meta(dd, key, text)
set_otlp_meta_with_semantic_convention_mappings(dd, key, text, cfg) ==
  IF \/ is_datadog_apm_convention_key(key)
     \/ key \in META_KEYS_TO_DD_SEMANTIC_KEYS /\ (key \in DOMAIN dd.meta \/ cfg.ignore_missing_datadog_fields)
    THEN dd ELSE set_otlp_meta(dd, key, text)
set_otlp_metrics_with_semantic_convention_mappings(dd, key, text, cfg) ==
  IF \/ is_datadog_apm_convention_key(key)
     \/ key \in META_KEYS_TO_DD_SEMANTIC_KEYS /\ (key \in DOMAIN dd.metrics \/ cfg.ignore_missing_datadog_fields)
    THEN dd ELSE set_otlp_metrics(dd, key, text)

IsException(event) == event.name = "exception"
set_span_events_has_exception(dd, span) ==
  IF \E i \in DOMAIN span.events : IsException(span.events[i]) THEN Tag(dd, "_dd.span_events.has_exception", <<"true">>) ELSE dd

TagIfAny(dd, key, text) == IF text = <<>> THEN dd ELSE Tag(dd, key, text)
DescribeException(dd, event) ==
  LET Attr(key) == get_otel_attribute_value_as_string(event.attributes, key, FALSE)
  IN TagIfAny(TagIfAny(TagIfAny(dd, "error.msg", Attr("exception.message")), "error.type", Attr("exception.type")),
              "error.stack", Attr("exception.stacktrace"))

\* status: <<>> or <<[code, message]>>.
set_span_error_from_otel_span(dd, span) ==
  LET told == FoldLeft(DescribeException, dd, SelectSeq(span.events, IsException))
  IN CASE span.status # <<>> /\ span.status[1].code # "error" -> dd
       [] "error.msg" \in DOMAIN told.meta -> told
       [] "error.msg" \notin DOMAIN told.meta /\ span.status # <<>> -> Tag(told, "error.msg", span.status[1].message)
       [] OTHER -> IF "http.response.status_code" \in DOMAIN told.meta
                     THEN Tag(told, "error.msg", told.meta["http.response.status_code"]) ELSE told
-----------------------------------------------------------------------------
\* `as i64` of a u64, and the difference of two, which wraps around when the end is
\* before the start: what is above i64::MAX comes out negative.
AsI64(n) == IF n > MaxTime \div 2 THEN n - (MaxTime + 1) ELSE n
Elapsed(span) == AsI64((span.end - span.start) % (MaxTime + 1))

\* otel_span_to_dd_span: what the span and the datadog namespace say.  A
\* datadog.error is encoded as an object, which is no number: it is 0 whatever it says.
DatadogFields(span, res) ==
  LET Attr(key) == get_otel_attribute_value_as_string(span.attributes, key, TRUE)
      error == IF get_otel_attribute_value(span.attributes, "datadog.error") = <<>> /\ span.status # <<>>
                    /\ span.status[1].code = "error" THEN 1 ELSE 0
      dd == [service |-> Attr("datadog.service"), name |-> Attr("datadog.name"),
             resource |-> get_otel_attribute_value_as_string(res.attributes, "datadog.resource", TRUE),
             type |-> Attr("datadog.type"), trace_id |-> span.trace_id[2], span_id |-> span.id,
             parent_id |-> span.parent, start |-> AsI64(span.start), duration |-> Elapsed(span),
             error |-> error, metrics |-> <<>>, meta |-> ("_dd.p.tid" :> <<span.trace_id[1]>>)]
  IN TagUnless(dd, "span.kind", Attr("datadog.span.kind"))

\* The rest of the fields from the conventions.  datadog.name is not kept.
NamedFields(dd, span, res, lib, cfg) ==
  [dd EXCEPT
    !.service = FirstOf(<<@, get_otel_service(res)>>),
    !.name = IF otel_operation_and_resource_v2_enabled(cfg) THEN get_otel_operation_name_v2(span, lib)
                                                             ELSE get_otel_operation_name_v1(span, lib, cfg),
    !.resource = FirstOf(<<@, get_otel_resource(span, res)>>),
    !.type = FirstOf(<<@, get_otel_attribute_value_as_string_from_resource_or_span(res, span, "span.type", TRUE),
                       get_dd_span_type_from_otel_kind(span, res)>>)]
StatusCode(span, given) == IF given = <<>> THEN get_otel_status_code(span) ELSE Parsed(given)
WithStatus(dd, status) == IF status # 0 THEN Measure(dd, "http.status_code", <<ToString(status)>>) ELSE dd
MissingFields(dd, span, res, lib, cfg) ==
  LET status == StatusCode(span, get_otel_attribute_value_as_string(span.attributes, "datadog.http_status_code", FALSE))
  IN TagUnless(WithStatus(TagUnless(NamedFields(dd, span, res, lib, cfg), "span.type", get_dd_span_kind_from_otel_kind(span)),
                          status),
               "env", get_otel_attribute_value_as_string(res.attributes, "deployment.environment.name", TRUE))

\* A span that is to be measured has the mark taken off, which it does not have yet.
TopLevel(dd, span, cfg) ==
  IF /\ "enable_otlp_compute_top_level_by_span_kind" \in cfg.apm_features
     /\ span.parent = 0 \/ span.kind \in {"server", "consumer"}
    THEN Measure(dd, "_top_level", <<"1">>) ELSE dd

DatadogTags(dd, span) ==
  LET Set(d, pair) == TagIfAny(d, pair[2], get_otel_attribute_value_as_string(span.attributes, pair[1], FALSE))
  IN FoldLeft(Set, dd, DD_SEMANTIC_KEYS_TO_META_KEYS)

\* The attributes of the resource and of the scope; service.version goes before a
\* version, and no version gets it.
Versioned(dd, version) == IF "version" \in DOMAIN dd.meta THEN TagIfAny(dd, "version", version) ELSE dd
ResourceTags(dd, span, res, lib, cfg) ==
  LET Valued(a) == a.value.kind # "none" /\ otel_value_to_string(a.value) # <<>>
      OfResource(d, a) == set_otlp_meta_with_semantic_convention_mappings(d, a.key, otel_value_to_string(a.value), cfg)
      OfScope(d, a) == Tag(d, a.key, otel_value_to_string(a.value))
  IN Versioned(Tag(FoldLeft(OfScope, FoldLeft(OfResource, dd, SelectSeq(res.attributes, Valued)),
                            SelectSeq(lib.attributes, Valued)), "otel.trace_id", span.trace_id),
               get_otel_attribute_value_as_string(res.attributes, "service.version", FALSE))

\* Numbers become metrics, all else tags; empty texts too.
SpanTags(dd, span, cfg) ==
  LET Own(a) == a.value.kind # "none" /\ ~InDatadogNamespace(a.key)
      Set(d, a) ==
        IF a.value.kind \in {"int", "double"}
          THEN set_otlp_metrics_with_semantic_convention_mappings(d, a.key, a.value.text, cfg)
          ELSE set_otlp_meta_with_semantic_convention_mappings(d, a.key, otel_value_to_string(a.value), cfg)
  IN FoldLeft(Set, dd, SelectSeq(span.attributes, Own))

OriginTags(dd, span, lib) ==
  LET scoped == TagIfAny(TagIfAny(TagIfAny(dd, "w3c.trace_state", span.trace_state), "otel.scope.name", lib.name),
                         "otel.scope.version", lib.version)
  IN IF span.status = <<>> THEN scoped
     ELSE Tag(Tag(scoped, "otel.status_code", <<span.status[1].code>>), "otel.status_description", span.status[1].message)

marshal_events(dd, span) == IF span.events = <<>> THEN dd ELSE Tag(dd, "events", [i \in DOMAIN span.events |-> span.events[i].name])
marshal_links(dd, span) == IF span.links = <<>> THEN dd ELSE Tag(dd, "_dd.span_links", span.links)

\* One stage of the function after the other.
Completed(dd, span, res, lib, cfg) ==
  IF cfg.ignore_missing_datadog_fields THEN dd ELSE MissingFields(dd, span, res, lib, cfg)
EventTags(dd, span) == marshal_links(marshal_events(set_span_events_has_exception(dd, span), span), span)
Errored(dd, span, cfg) ==
  IF cfg.ignore_missing_datadog_fields /\ ~({"error.msg", "error.type", "error.stack"} \subseteq DOMAIN dd.meta)
    THEN set_span_error_from_otel_span(dd, span) ELSE dd
otel_span_to_dd_span(span, res, lib, cfg) ==
  LET Tagged(dd) == ResourceTags(DatadogTags(TopLevel(dd, span, cfg), span), span, res, lib, cfg)
      Finished(dd) == Errored(OriginTags(SpanTags(EventTags(dd, span), span, cfg), span, lib), span, cfg)
  IN Finished(Tagged(Completed(DatadogFields(span, res), span, res, lib, cfg)))
-----------------------------------------------------------------------------
\* resource_spans: [resource, scope_spans], a scope's: [scope, spans], where the
\* resource and the scope are <<>> or <<it>>.  The traces come in any order.
otel_resource_spans_to_dd_spans(rs, cfg) ==
  LET scoped == SelectSeq(rs.scope_spans, LAMBDA s : s.scope # <<>>)
      pairs == FlattenSeq([i \in DOMAIN scoped |-> [j \in DOMAIN scoped[i].spans |-> <<scoped[i].spans[j], scoped[i].scope[1]>>]])
      Of(id) == SelectSeq(pairs, LAMBDA p : p[1].trace_id[2] = id)
  IN IF rs.resource = <<>> THEN {}
     ELSE {[k \in DOMAIN Of(id) |-> otel_span_to_dd_span(Of(id)[k][1], rs.resource[1], Of(id)[k][2], cfg)] :
             id \in {pairs[k][1].trace_id[2] : k \in DOMAIN pairs}}

process_request(request, cfg) == UNION {otel_resource_spans_to_dd_spans(request[i], cfg) : i \in DOMAIN request}

\* A time in JSON: a string or a number, or an object with a high and a low half,
\* of which a negative one is no u64.  <<>>: no u64 to be had from it.
normalize_timestamp_value(value) ==
  IF value.form = "object" /\ value.low >= 0 /\ value.high >= 0
    THEN [form |-> "string", n |-> ((value.high * 2^LOW_BITS) % (MaxTime + 1)) + (value.low % 2^LOW_BITS)]
  ELSE IF value.form = "number" THEN [form |-> "string", n |-> value.n] ELSE value
from_value_u64(value) ==
  LET v == normalize_timestamp_value(value) IN IF v.form = "string" /\ v.n \in 0 .. MaxTime THEN <<v.n>> ELSE <<>>

\* Processor::process of a body in JSON, where the spans of each resource and scope
\* have times as above: one that is none refuses the whole request.
TimesOf(request) ==
  UNION {UNION {{span.start, span.end} : span \in Range(s.spans)} : s \in UNION {Range(rs.scope_spans) : rs \in Range(request)}}
from_value_request(request) ==
  LET Read(span) == [span EXCEPT !.start = Head(from_value_u64(@)), !.end = Head(from_value_u64(@))]
      InScope(s) == [s EXCEPT !.spans = [i \in DOMAIN @ |-> Read(@[i])]]
  IN [i \in DOMAIN request |-> [request[i] EXCEPT !.scope_spans = [j \in DOMAIN @ |-> InScope(@[j])]]]
process(request, cfg) ==
  IF \E t \in TimesOf(request) : from_value_u64(t) = <<>> THEN <<>> ELSE <<process_request(from_value_request(request), cfg)>>
=============================================================================
