--------------------------- MODULE AppSecPayload ---------------------------
(***************************************************************************)
(* appsec/processor: what of an HTTP request and its response the rule     *)
(* engine is given, what of its results ends up on the span, and for which *)
(* endpoints the schemas are sampled.  When this happens is AppSec's.      *)
(*                                                                         *)
(* A request is [type, domain, path, stage, method, resource, ip, headers, *)
(* multi, cookies, query, multi_query, params, body]; a response [json,    *)
(* status, headers, multi, body].  headers has one value under a name,     *)
(* multi a sequence of them; that of "cookie" is a sequence of pairs.  An  *)
(* option is <<>> or <<value>>.  A body is [is, holds]: "none", "empty",   *)
(* "garbled" when it cannot be decoded from base64, or "text".  A result   *)
(* of the engine is [ok, duration, timeout, keep, attributes, events].     *)
(*                                                                         *)
(* Definitions whose name starts with Mut are plausible wrong versions of  *)
(* the definition that follows them; the runs' properties are shown to     *)
(* reject them.                                                            *)
(***************************************************************************)
EXTENDS Integers, Sequences, SequencesExt, FiniteSetsExt, TLC

CONSTANTS WafTimeout,         \* time the engine has for one request
          SampleDelay,        \* time between two samples of an endpoint
          SamplerCapacity     \* endpoints remembered (4096)
ASSUME AppSecAssumption == WafTimeout \in Nat /\ SampleDelay \in Nat /\ SamplerCapacity \in Nat \ {0}

HttpLike == {"http", "rest", "websocket", "alb", "url"}
Without(fields, name) == [k \in DOMAIN fields \ {name} |-> fields[k]]
AsMulti(fields) == [k \in DOMAIN fields |-> <<fields[k]>>]

corresponding_response_format(t) ==
  CASE t.type \in {"http", "rest", "alb", "url"} -> "ApiGatewayResponse"
    [] t.type = "websocket" -> "Raw"
    [] OTHER -> "Unknown"

raw_uri(t) ==
  CASE t.type = "websocket" /\ t.stage \notin {"", "$default"} -> <<<<t.domain, "/$", t.stage, t.path>>>>
    [] t.type \in {"http", "rest", "url"} \/ (t.type = "websocket" /\ t.stage \in {"", "$default"}) -> <<<<t.domain, t.path>>>>
    [] OTHER -> <<>>

method(t) == IF t.type \in HttpLike THEN t.method ELSE <<>>

route(t) ==
  CASE t.type \in {"http", "websocket"} -> <<<<t.resource>>>>
    [] t.type = "rest" -> <<<<t.method[1], t.resource>>>>
    [] t.type \in {"alb", "url"} -> <<<<t.method[1], t.path>>>>
    [] OTHER -> <<>>

client_ip(t) == IF t.type \in HttpLike \ {"alb"} THEN t.ip ELSE <<>>

\* Version 2 events have their cookies in a list of their own.
request_headers_no_cookies(t) ==
  CASE t.type \in {"http", "url"} -> AsMulti(t.headers)
    [] t.type \in {"rest", "websocket"} \/ (t.type = "alb" /\ DOMAIN t.multi # {}) -> Without(t.multi, "cookie")
    [] t.type = "alb" /\ DOMAIN t.multi = {} -> AsMulti(Without(t.headers, "cookie"))
    [] OTHER -> <<>>

\* chunk_by and collect: values of one name that follow each other are kept
\* together, a later group takes the place of an earlier one.
Grouped(pairs) ==
  LET Add(m, i) == LET name == pairs[i][1] value == pairs[i][2]
                   IN IF i > 1 /\ pairs[i - 1][1] = name THEN [m EXCEPT ![name] = Append(@, value)]
                      ELSE (name :> <<value>>) @@ m
  IN FoldLeft(Add, <<>>, [i \in DOMAIN pairs |-> i])
request_cookies(t) ==
  CASE t.type \in {"http", "url"} -> Grouped(t.cookies)
    [] t.type \in {"rest", "alb", "websocket"} /\ "cookie" \in DOMAIN t.multi -> Grouped(FlattenSeq(t.multi["cookie"]))
    [] t.type \in {"rest", "alb"} /\ "cookie" \notin DOMAIN t.multi /\ "cookie" \in DOMAIN t.headers -> Grouped(t.headers["cookie"])
    [] OTHER -> <<>>

\* Only HTTP APIs join the values of one parameter with commas.
query_params(t) ==
  CASE t.type = "http" -> t.query
    [] t.type \in {"rest", "websocket"} \/ (t.type = "alb" /\ DOMAIN t.multi_query # {}) -> t.multi_query
    [] t.type = "url" \/ (t.type = "alb" /\ DOMAIN t.multi_query = {}) -> AsMulti(t.query)
    [] OTHER -> <<>>
path_params(t) == IF t.type \in {"http", "rest", "websocket"} THEN t.params ELSE <<>>

\* Body::reader: no body, an empty one and one that is no base64 are all none.
reader(body) == IF body.is = "text" THEN <<body.holds>> ELSE <<>>

\* The payload of a request, and that of a response as its format says.
Payload(t) ==
  [format |-> corresponding_response_format(t), raw_uri |-> raw_uri(t), method |-> method(t), route |-> route(t), client_ip |-> client_ip(t),
   headers |-> request_headers_no_cookies(t), cookies |-> request_cookies(t), query |-> query_params(t), params |-> path_params(t),
   body |-> IF t.type \in HttpLike THEN reader(t.body) ELSE <<>>, status |-> <<>>, response_headers |-> <<>>, response_body |-> <<>>]
NoPayload == Payload([type |-> "Unknown"])
ApiGatewayResponse(r) ==
  [NoPayload EXCEPT !.format = "ApiGatewayResponse", !.status = <<r.status>>, !.response_body = reader(r.body),
                    !.response_headers = IF DOMAIN r.multi = {} THEN AsMulti(Without(r.headers, "set-cookie")) ELSE r.multi]
RawPayload(r) == [NoPayload EXCEPT !.format = "Raw", !.response_body = IF r.body.is = "empty" THEN <<>> ELSE <<r.body.holds>>]
parse(format, r) ==
  CASE format = "ApiGatewayResponse" /\ r.json -> <<ApiGatewayResponse(r)>>
    [] format = "Raw" -> <<RawPayload(r)>>
    [] OTHER -> <<>>
-----------------------------------------------------------------------------
\* A body holds JSON, a form, entries of a multipart form or plain text, and is
\* read as its type says; an entry that cannot be is left empty.
try_parse_body_with_mime(holds, mime) ==
  CASE mime \in {"text/json", "application/json", "application/vnd.api+json"} -> IF holds.json THEN <<<<"json">>>> ELSE <<>>
    [] mime = "application/x-www-form-urlencoded" -> IF holds.form THEN <<<<"form">>>> ELSE <<>>
    [] mime = "text/plain" -> <<<<"text">>>>
    [] OTHER -> <<>>
Multipart(holds) ==
  [i \in DOMAIN holds.entries |->
     LET e == holds.entries[i]
         value == try_parse_body_with_mime(e, IF e.mime = "" THEN "text/plain" ELSE e.mime)
     IN IF value = <<>> THEN <<>> ELSE value[1]]
try_parse_body(holds, mime) ==
  CASE mime = "multipart/form-data; boundary" -> <<Multipart(holds)>>
    [] mime = "multipart/form-data" -> <<>>
    [] OTHER -> try_parse_body_with_mime(holds, mime)

ContentType(headers) == IF "content-type" \in DOMAIN headers THEN Last(headers["content-type"]) ELSE "application/json"
Address(name, option) == IF option = <<>> THEN <<>> ELSE name :> option[1]
AddressMap(name, fields) == IF DOMAIN fields = {} THEN <<>> ELSE name :> fields
Body(name, body, headers) == IF body = <<>> THEN <<>> ELSE Address(name, try_parse_body(body[1], ContentType(headers)))
to_address_data(p) ==
  Address("server.request.uri.raw", p.raw_uri) @@ Address("http.client_ip", p.client_ip)
    @@ AddressMap("server.request.headers.no_cookies", p.headers) @@ AddressMap("server.request.cookies", p.cookies)
    @@ AddressMap("server.request.query", p.query) @@ AddressMap("server.request.path_params", p.params)
    @@ Body("server.request.body", p.body, p.headers) @@ Address("server.response.status", p.status)
    @@ AddressMap("server.response.headers.no_cookies", p.response_headers) @@ Body("server.response.body", p.response_body, p.response_headers)
-----------------------------------------------------------------------------
\* A tag is [when, value]; TagValue::Metric counts as always.
Always(value) == [when |-> "always", value |-> value]
OnEvent(value) == [when |-> "on event", value |-> value]
Tagged(tags, more) == more @@ tags

\* Context::new; asked keeps what the engine was given and what it made of it.
NewContext ==
  [format |-> "Unknown", waf_timeout |-> WafTimeout, waf_duration |-> 0, timeouts |-> 0, has_events |-> FALSE, triggers |-> <<>>,
   asked |-> <<>>, headers |-> <<>>,
   tags |-> "_dd.appsec.enabled" :> Always(1) @@ "_dd.appsec.waf.version" :> Always("waf") @@ "_dd.appsec.event_rules.version" :> Always("rules")]

REQUEST_HEADERS_ALWAYS == {"content-type"}
REQUEST_HEADERS_ON_EVENT == {"host"}
RESPONSE_HEADERS_ALWAYS == {"content-type"}
collect_span_tags(ctx, p) ==
  LET Optional(name, option, Kind(_)) == IF option = <<>> THEN <<>> ELSE name :> Kind(option[1])
      Copied(prefix, fields, names, Kind(_)) ==
        LET found == DOMAIN fields \cap names IN [k \in {<<prefix, n>> : n \in found} |-> Kind(fields[k[2]])]
  IN [ctx EXCEPT
       !.tags = Tagged(@, Optional("http.url", p.raw_uri, Always) @@ Optional("http.method", p.method, Always)
                            @@ Optional("http.route", p.route, OnEvent) @@ Optional("network.client.ip", p.client_ip, OnEvent)
                            @@ Optional("http.status_code", p.status, Always)),
       !.headers = Tagged(@, Copied("request", p.headers, REQUEST_HEADERS_ALWAYS, Always)
                               @@ Copied("request", p.headers, REQUEST_HEADERS_ON_EVENT, OnEvent)
                               @@ Copied("response", p.response_headers, RESPONSE_HEADERS_ALWAYS, Always))]

\* Attributes become tags, events are appended to the triggers.
MutLatestEventsOnly(ctx, result) ==
  [ctx EXCEPT !.waf_timeout = Max({0, @ - result.duration}), !.waf_duration = @ + result.duration,
              !.timeouts = IF result.timeout THEN @ + 1 ELSE @,
              !.has_events = result.events # <<>>, !.triggers = IF result.events # <<>> THEN result.events ELSE @,
              !.tags = Tagged(@, result.attributes @@ (IF result.keep THEN "_sampling_priority_v1" :> Always(2) ELSE <<>>)
                                   @@ (IF result.events # <<>> THEN "appsec.event" :> Always("true") ELSE <<>>))]
process_result(ctx, result) ==
  [ctx EXCEPT !.waf_timeout = Max({0, @ - result.duration}), !.waf_duration = @ + result.duration,
              !.timeouts = IF result.timeout THEN @ + 1 ELSE @,
              !.has_events = @ \/ result.events # <<>>, !.triggers = @ \o result.events,
              !.tags = Tagged(@, result.attributes @@ (IF result.keep THEN "_sampling_priority_v1" :> Always(2) ELSE <<>>)
                                   @@ (IF result.events # <<>> THEN "appsec.event" :> Always("true") ELSE <<>>))]

Ask(ctx, data, result) ==
  LET asked == [ctx EXCEPT !.asked = Append(@, [data |-> data, result |-> result])]
  IN IF result.ok THEN process_result(asked, result) ELSE asked

\* Context::run: the engine is not asked without time or without anything to ask
\* about; the former counts as a timeout.
RunRules(ctx, p, result) ==
  LET known == collect_span_tags([ctx EXCEPT !.format = IF @ = "Unknown" THEN p.format ELSE @], p)
      data == to_address_data(p)
  IN CASE ctx.waf_timeout = 0 -> [ctx EXCEPT !.timeouts = @ + 1]
       [] ctx.waf_timeout # 0 /\ DOMAIN data = {} -> known
       [] OTHER -> Ask(known, data, result)

endpoint_info(ctx) ==
  [n \in {"http.method", "http.route", "http.status_code"} |-> IF n \in DOMAIN ctx.tags THEN <<ctx.tags[n].value>> ELSE <<>>]

\* Asked for whatever time is left.
ExtractSchemas(ctx, result) == Ask(ctx, "waf.context.processor" :> <<"extract-schema">>, result)

\* Context::process_span, on a span without tags of its own but its origin.
AppSecTags(ctx, origin) ==
  LET Due(tags) == [n \in {k \in DOMAIN tags : tags[k].when = "always" \/ ctx.has_events} |-> tags[n].value]
  IN [tags |-> Due(ctx.tags), headers |-> Due(ctx.headers), triggers |-> ctx.triggers, duration |-> ctx.waf_duration,
      timeouts |-> ctx.timeouts, origin |-> IF origin = "" THEN "appsec" ELSE origin]
-----------------------------------------------------------------------------
\* The sampler: endpoints with the time of their last sample, the one asked about
\* most recently last.
decision_for(sampler, endpoint, now) ==
  LET known == SelectInSeq(sampler, LAMBDA s : s.endpoint = endpoint)
      sample == known = 0 \/ now - sampler[known].last >= SampleDelay
      rest == IF known # 0 THEN RemoveAt(sampler, known) ELSE IF Len(sampler) >= SamplerCapacity THEN Tail(sampler) ELSE sampler
  IN [sampler |-> Append(rest, [endpoint |-> endpoint, last |-> IF sample THEN now ELSE sampler[known].last]), sample |-> sample]

\* One invocation: process_invocation_next and _result, with what the engine makes
\* of the request, the response and the schemas.
Requested(x) == RunRules(NewContext, Payload(x.request), x.results[1])
Responded(ctx, payload, x) == IF payload = <<>> THEN ctx ELSE RunRules(ctx, payload[1], x.results[2])
Answered(ctx, x) == Responded(ctx, parse(ctx.format, x.response), x)
SampledWith(d, ctx, x) ==
  [sampler |-> d.sampler, ctx |-> <<IF d.sample THEN ExtractSchemas(ctx, x.results[3]) ELSE ctx>>]
Finished(sampler, ctx, x) == SampledWith(decision_for(sampler, endpoint_info(ctx), x.now), ctx, x)
Invoked(sampler, x) ==
  IF x.request.type = "Unknown" THEN [sampler |-> sampler, ctx |-> <<>>]
  ELSE Finished(sampler, Answered(Requested(x), x), x)
InvokedInTurn(xs) ==
  LET After(acc, i) == [sampler |-> i.sampler, ctxs |-> Append(acc.ctxs, i.ctx)]
  IN FoldLeft(LAMBDA acc, x : After(acc, Invoked(acc.sampler, x)), [sampler |-> <<>>, ctxs |-> <<>>], xs)
=============================================================================
