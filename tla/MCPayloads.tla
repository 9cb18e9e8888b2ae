----------------------------- MODULE MCPayloads -----------------------------
(***************************************************************************)
(* The inputs over which the pure parts of the extension are checked.  A   *)
(* behaviour is two steps: an input comes, and the code handles it; the    *)
(* properties say how what comes out relates to what came in.              *)
(***************************************************************************)
EXTENDS Stitch, SpanInferrer, DataStreams, Otlp, StatsConcentrator, Secrets,
        AppSecPayload, EnhancedMetrics

CONSTANT MaxValues

VARIABLES input, output

Nothing == [of |-> "nothing"]
Init == input = Nothing /\ output = Nothing
Fresh == input = Nothing
Take(of, x) == input' = [of |-> of, x |-> x] /\ UNCHANGED output
Arrived(of) == input.of = of /\ output = Nothing
Made(y) == output' = [of |-> input.of, y |-> y] /\ UNCHANGED input
-----------------------------------------------------------------------------
\* Streams of up to five events, cut after any of them, each POST in time or
\* late.  Records of one type do not interleave.  One POST may be lost, or overtake
\* the one before it.
Record(r, type, n) == {[type |-> type, value |-> <<<<r, i, n>>>>] : i \in 1 .. n}
RecordSets ==
  {Record("a", "function", 3) \cup Record("b", "extension", 2),
   Record("a", "function", 2) \cup Record("b", "function", 2) \cup Record("c", "platform", 1),
   Record("a", "function", 2) \cup Record("b", "extension", 1) \cup Record("c", "platform", 1),
   Record("a", "function", 2) \cup Record("x", "foreign", 1) \cup Record("c", "function", 1)}
InOrder(s) ==
  \A i, j \in DOMAIN s : LET p == s[i].value[1] q == s[j].value[1]
    IN /\ (i < j /\ p[1] = q[1]) => p[2] < q[2]
       /\ (i < j /\ p[1] # q[1] /\ s[i].type = s[j].type) =>
            ~\E k \in j + 1 .. Len(s) : s[k].value[1][1] = p[1]
Orders(n) ==
  LET sent == [i \in 1 .. n |-> i]
  IN {sent} \cup {RemoveAt(sent, i) : i \in 1 .. n} \cup {[sent EXCEPT ![i] = i + 1, ![i + 1] = i] : i \in 1 .. n - 1}
Cut(s) == UNION {{[events |-> s, cuts |-> c, late |-> l, order |-> o] : l \in SUBSET c, o \in Orders(Cardinality(c) + 1)} :
                  c \in SUBSET (1 .. Len(s) - 1)}
Streams == UNION {Cut(s) : s \in {t \in UNION {SetToSeqs(R) : R \in RecordSets} : InOrder(t)}}
ReceiveStream == Fresh /\ \E s \in Streams : Take("stream", s)
-----------------------------------------------------------------------------
\* Events: one of each source, and messages that wrap others, with a _datadog entry
\* that can be read or not and a trace header of X-Ray or Datadog.
Attrs(name) == {Absent, [type |-> "String", value |-> name], [type |-> "Binary", value |-> "undecodable"],
                [type |-> "String", value |-> "garbage"], [type |-> "Number", value |-> name]}
Headers == {NoHeader, [root |-> "xray", planted |-> FALSE, parent |-> "p", sampled |-> "0"],
            [root |-> "xray", planted |-> TRUE, parent |-> "p", sampled |-> "0"],
            [root |-> "xray", planted |-> FALSE, parent |-> NoContext, sampled |-> "1"]}
EventBridges == {[Blank EXCEPT !.type = "eventbridge", !.fields = {"detail-type", "source"}, !.id = "shop.order", !.time = 1,
                               !.attr = a, !.stamp = s, !.resource = "bus"] : a \in Attrs("eb"), s \in {0, 2}}
Snses == {[Blank EXCEPT !.type = "sns", !.fields = {"Records.Sns"}, !.id = "topic", !.time = 3, !.attr = a, !.body = b] :
            a \in Attrs("sns"), b \in {<<>>} \cup {<<e>> : e \in EventBridges}}
Sqses == {[Blank EXCEPT !.type = "sqs", !.fields = {"Records.eventSource=aws:sqs"}, !.id = "queue", !.time = 4,
                        !.attr = a, !.body = b, !.header = h] :
            a \in Attrs("sqs"), b \in {<<>>} \cup {<<e>> : e \in EventBridges \cup Snses}, h \in Headers}
Step(retry, redrive) == [NoStep EXCEPT !.execution = "x", !.state = "s", !.entered = 1, !.retry = retry, !.redrive = redrive]
Api(type, fields) == {[Blank EXCEPT !.type = type, !.fields = fields, !.id = i, !.domain = "host", !.time = 4,
                                    !.headers = h, !.event = v, !.whole = w] :
                        i \in {"", "api"}, h \in {NoContext, "http"}, v \in BOOLEAN, w \in BOOLEAN}
Plain(type, fields) == {[Blank EXCEPT !.type = type, !.fields = fields, !.id = "name", !.time = 4, !.keys = k] :
                          k \in {<<>>, <<"", "tag">>, <<"key", "tag">>}}
Stages == {"requestContext.stage", "domainName"}
OtherEvents ==
  Api("http", Stages \cup {"version 2.0", "rawQueryString"})
    \cup Api("url", Stages \cup {"version 2.0", "rawQueryString", "lambda-url"})
    \cup Api("rest", Stages \cup {"httpMethod", "resource"})
    \cup Api("websocket", Stages \cup {"requestContext.messageDirection"})
    \cup {[e EXCEPT !.flat = f, !.multi = "multi"] :
            e \in Api("alb", {"requestContext.elb.targetGroupArn", "httpMethod"}), f \in BOOLEAN}
    \cup Plain("s3", {"Records.s3"}) \cup Plain("kinesis", {"Records.kinesis"})
    \cup {[e EXCEPT !.keys = k] : e \in Plain("dynamodb", {"Records.dynamodb"}),
                                  k \in {<<>>, <<<<2, "b">>, <<1, "a">>>>, <<<<1, "">>>>}}
    \cup {[Blank EXCEPT !.type = "states", !.fields = {"Execution.Id", "State.Name", "State.EnteredTime"}, !.step = Step(r, d)] :
            r \in 0 .. 1, d \in 0 .. 1}
    \cup {[e EXCEPT !.fields = @ \cup {"source=aws.events"}] : e \in EventBridges}
    \cup {[Blank EXCEPT !.type = "custom", !.request = r, !.headers = h] : r \in {NoContext, "request"}, h \in {NoContext, "http"}}
Configs == {[mapping |-> m, represented |-> r, remove |-> v, service |-> "Shop", lower |-> "shop", serverless_appsec_enabled |-> a] :
              m \in {<<>>, [queue |-> "mine"], [lambda_sqs |-> "all"]}, r \in BOOLEAN, v \in BOOLEAN, a \in BOOLEAN}
InvokedBy ==
  \/ Fresh /\ \E e \in Sqses \cup Snses \cup EventBridges : Take("event", [e |-> e, headers |-> NoContext, cfg |-> CHOOSE c \in Configs : TRUE])
  \/ Fresh /\ \E e \in OtherEvents, h \in {NoContext, "tracer"} : Take("event", [e |-> e, headers |-> h, cfg |-> CHOOSE c \in Configs : TRUE])
  \/ Fresh /\ \E c \in Configs, e \in {s \in Sqses : s.attr = Absent /\ s.header = NoHeader} :
       Take("event", [e |-> e, headers |-> NoContext, cfg |-> c])
-----------------------------------------------------------------------------
\* Batches of messages, each with a pathway context that can be read or not.  A Kafka
\* batch is known by the topic of its first record, and a record without one is not
\* whole.
Batch(type, fields, Rs) ==
  {[Blank EXCEPT !.type = type, !.id = Head(r).id, !.attr = Head(r).attr, !.records = r,
                 !.fields = IF type = "msk" /\ Head(r).id = "" THEN {} ELSE fields,
                 !.whole = type = "msk" \/ Head(r).whole] :
     r \in UNION {[1 .. n -> Rs] : n \in 1 .. 2}}
Entry(value) == [type |-> "String", value |-> value]
Messages(type) == {[Blank EXCEPT !.type = type, !.id = i, !.whole = w, !.attr = a, !.headers = a.value] :
                     i \in {"", "t1", "t2"}, w \in BOOLEAN, a \in {Absent, Entry("good"), Entry("bad")}}
KafkaMessages == {r \in Messages("msk") : r.whole => r.id # ""}
Batches ==
  Batch("sqs", {"Records.eventSource=aws:sqs"}, Messages("sqs")) \cup Batch("sns", {"Records.Sns"}, Messages("sns"))
    \cup Batch("kinesis", {"Records.kinesis"}, Messages("kinesis")) \cup Batch("msk", {"records.topic"}, KafkaMessages)
    \cup {[e EXCEPT !.exchange = x] : e \in EventBridges, x \in {"", "bus"}} \cup OtherEvents
Pathway(start, edge) == [hash |-> <<"up">>, pathway_start |-> start, edge_start |-> edge]
Entries(carrier) ==
  CASE carrier = "good" -> [base64 |-> <<Pathway(-1, 0)>>, raw |-> <<Pathway(2, 9)>>]
    [] carrier = "bad" -> [base64 |-> <<>>, raw |-> <<Pathway(1, MaxMillis + 1)>>]
    [] OTHER -> [base64 |-> <<>>, raw |-> <<>>]
\* A payload is seen by the proxy's hook, by that of the universal instrumentation or
\* by both.
ConsumeBatch ==
  Fresh /\ \E e \in Batches, g \in {"", "group"}, x \in {"", "mine"}, hooks \in {<<"r1">>, <<"r1", "r1">>} :
    Take("batch", [e |-> e, cfg |-> [group |-> g, exchange |-> x], hooks |-> hooks])

\* Up to MaxValues values in a sketch, of one sign or, if few, of any.
FillSketch ==
  \/ Fresh /\ \E n \in 1 .. MaxValues : \E keys \in [1 .. n -> {-9, -2, 0, 1, 4}], g \in {-1, 1} :
       Take("values", [i \in DOMAIN keys |-> [sign |-> g, key |-> keys[i]]])
  \/ Fresh /\ \E values \in [1 .. 3 -> [sign : {-1, 0, 1}, key : {-9, 0, 4}]] : Take("values", values)
-----------------------------------------------------------------------------
\* OTLP requests: one span with attributes of every kind, three spans over two
\* resources, and the forms a time has in JSON.
Text(t) == [kind |-> "string", text |-> <<t>>, items |-> <<>>]
Number(t) == [kind |-> "int", text |-> <<t>>, items |-> <<>>]
NoValue == [kind |-> "none", text |-> <<>>, items |-> <<>>]
List == [kind |-> "array", text |-> <<>>, items |-> <<Text("x"), NoValue>>]
Attribute(k, v) == [key |-> k, value |-> v]
At(n) == [form |-> "string", n |-> n, low |-> 0, high |-> 0]
OtelSpan(id, trace) ==
  [id |-> id, parent |-> 0, trace_id |-> trace, name |-> <<"span">>, kind |-> "server", start |-> At(3), end |-> At(5),
   attributes |-> <<>>, status |-> <<>>, events |-> <<>>, links |-> <<>>, trace_state |-> <<>>]
OtelScope(name) == [name |-> name, version |-> <<>>, attributes |-> <<>>]
Resource(attributes) == [attributes |-> attributes]
Request(resource, scope, spans) == <<[resource |-> resource, scope_spans |-> <<[scope |-> scope, spans |-> spans]>>]>>
SpanAttributes ==
  {Attribute(k, Text("Env")) : k \in {"datadog.env", "env", "datadog.service", "datadog.type", "datadog.span.kind", "span.type", "http.route",
      "operation.name", "resource.name", "http.request.method", "db.system.name", "db.query.text", "db.collection.name", "server.address",
      "server.port", "messaging.system", "messaging.operation.type", "rpc.system", "rpc.service", "rpc.method", "faas.invoked_provider",
      "faas.invoked_name", "faas.trigger", "graphql.operation.type", "network.protocol.name", "datadog.error.msg", "datadog.version"}}
    \cup {Attribute("datadog.http_status_code", Text("404")), Attribute("http.response.status_code", Number("200")),
          Attribute("http.status_code", Number("200")), Attribute("http.response.status_code", Text("many")),
          Attribute("datadog.error", Number("1")), Attribute("error.msg", List), Attribute("env", NoValue),
          Attribute("datadog.env", NoValue), Attribute("analytics.event", Text("true")), Attribute("sampling.priority", Number("2"))}
ResourceAttributes ==
  {Attribute(k, Text("Service")) : k \in {"service.name", "env", "deployment.environment.name", "version", "service.version",
                                          "datadog.resource", "http.request.method", "http.status_code", "error.msg"}}
OtlpConfigs ==
  {[ignore_missing_datadog_fields |-> i, span_name_as_resource_name |-> n, span_name_remappings |-> r, apm_features |-> f] :
     i \in BOOLEAN, n \in BOOLEAN, r \in {<<>>, <<"span">> :> <<"remapped">>},
     f \in {{"enable_otlp_compute_top_level_by_span_kind", "disable_operation_and_resource_name_logic_v2"}}}
DefaultOtlp == [ignore_missing_datadog_fields |-> FALSE, span_name_as_resource_name |-> FALSE, span_name_remappings |-> <<>>, apm_features |-> {}]
Exception == [name |-> "exception", attributes |-> <<Attribute("exception.message", Text("m"))>>]
Lambda == OtelScope(<<"opentelemetry.instrumentation.aws_lambda">>)
OneSpan(attributes, kind) == [OtelSpan(1, <<"h1", "l1">>) EXCEPT !.attributes = attributes, !.kind = kind]
Times ==
  {At(n) : n \in {0, 7, MaxTime}} \cup {[At(n) EXCEPT !.form = f] : n \in {-1, 6, MaxTime + 1}, f \in {"number", "string", "float"}}
    \cup {[At(0) EXCEPT !.form = "object", !.low = l, !.high = h] : l \in {-1, 1, 3}, h \in {0, 2}}
ReceiveOtlp ==
  \/ Fresh /\ \E a \in SpanAttributes, b \in {s \in SpanAttributes : s.key \in {"env", "operation.name", "http.request.method", "server.port"}},
        c \in ResourceAttributes, k \in {"server", "client"} :
       Take("otlp", [cfg |-> DefaultOtlp, request |-> Request(<<Resource(<<c>>)>>, <<OtelScope(<<>>)>>, <<OneSpan(<<a, b>>, k)>>)])
  \/ Fresh /\ \E a \in SpanAttributes, cfg \in OtlpConfigs \cup {DefaultOtlp}, k \in {"client", "internal"}, s \in {<<>>, <<"error">>, <<"ok">>},
        e \in {<<>>, <<Exception>>} : LET l == IF e = <<>> THEN OtelScope(<<>>) ELSE Lambda IN
       Take("otlp", [cfg |-> cfg, request |-> Request(<<Resource(<<>>)>>, <<l>>,
         <<[OneSpan(<<a>>, k) EXCEPT !.events = e, !.links = e, !.status = [i \in DOMAIN s |-> [code |-> s[i], message |-> <<>>]]]>>)])
  \/ Fresh /\ \E t \in [1 .. 3 -> {<<"h1", "l1">>, <<"h2", "l1">>, <<"h1", "l2">>}], res \in SUBSET (1 .. 2), lib \in SUBSET (1 .. 2) :
       Take("otlp", [cfg |-> DefaultOtlp, request |->
         [r \in 1 .. 2 |-> [resource |-> IF r \in res THEN <<Resource(<<>>)>> ELSE <<>>,
            scope_spans |-> [i \in 1 .. 2 |-> [scope |-> IF i \in lib THEN <<Lambda>> ELSE <<>>,
              spans |-> [j \in 1 .. 3 |->
                [OtelSpan(100 * r + 10 * i + j, t[j]) EXCEPT !.kind = <<"server", "consumer", "unspecified">>[j]]]]]]]])
  \/ Fresh /\ \E s, e \in Times :
       Take("otlp", [cfg |-> DefaultOtlp, request |-> Request(<<Resource(<<>>)>>, <<Lambda>>, <<[OtelSpan(1, <<"h1", "l1">>) EXCEPT !.start = s, !.end = e]>>)])
-----------------------------------------------------------------------------
\* Spans of two buckets of which each names one thing anew, and flushes.
StatsSpan(new) == [f \in Dimensions |-> IF f \in new THEN "other" ELSE "usual"]
StatsCalls ==
  {[op |-> "add", span |-> StatsSpan(new), at |-> 1] :
     new \in {{}, {"service"}, {"resource"}, {"peer_tags", "http_endpoint"}, {"resource", "additional_tags"}}}
    \cup {[op |-> "add", span |-> StatsSpan(new), at |-> 2] : new \in {{}, {"resource"}}}
    \cup {[op |-> "flush", force |-> TRUE, ended |-> 0]} \cup {[op |-> "flush", force |-> FALSE, ended |-> b] : b \in 0 .. 1}
ComputeStats ==
  Fresh /\ \E n \in 1 .. MaxValues - 1 : \E calls \in [1 .. n -> StatsCalls], limit \in {<<>>, <<0>>, <<9>>}, tags \in BOOLEAN :
    /\ n > 2 => limit = <<>> /\ tags
    /\ Take("stats", [calls |-> Append(calls, [op |-> "flush", force |-> FALSE, ended |-> 2]), limit |-> limit, tags |-> tags])
-----------------------------------------------------------------------------
\* Settings of which every source of the key may be set, and answers that come, are
\* of another form than expected, or do not come.
Arns == {<<>>, <<[region |-> ""]>>, <<[region |-> "eu"]>>}
SecretsConfigs ==
  {[region |-> r, dd_org_uuid |-> o, kms_api_key |-> k, api_key_secret_arn |-> a, api_key_ssm_arn |-> b, api_key |-> y,
    arns |-> ("metrics" :> m @@ "apm" :> <<>> @@ "logs" :> l), endpoints |-> [p \in Pipelines |-> <<"plain", p>>]] :
     r \in {"us", "cn"}, o \in {"", "org"}, k \in {"", "blob"}, a, b \in {<<>>, <<[region |-> "eu"]>>}, y \in {"", " key\n"},
     m \in {<<>>, <<[region |-> "eu"]>>}, l \in {<<>>, <<[region |-> ""]>>}}
SecretString(string, plain, dd, api) == Ok([string |-> string, plain |-> plain, dd_api_key |-> dd, apiKey |-> api])
KeySecrets == {Err, Hang, SecretString("absent", "", <<>>, <<>>), SecretString("text", "text key", <<>>, <<>>)}
                \cup {SecretString("json", "{}", d, <<"rotated">>) : d \in {<<>>, <<"">>, <<"own">>}}
AnyWorld ==
  [env |-> "static", container |-> Err, kms |-> Err, ssm |-> Err, datadog |-> Err,
   secrets |-> ("api_key" :> Err @@ "metrics" :> Err @@ "apm" :> Err @@ "logs" :> SecretString("json", "endpoints", <<>>, <<>>))]
Worlds ==
  LET some == {[AnyWorld EXCEPT !.kms = k] : k \in {Hang, [is |-> "ok", value |-> " \n", context |-> "function name"],
                                                    [is |-> "ok", value |-> "key", context |-> "none"], [is |-> "ok", value |-> "key", context |-> "other"]}}
                \cup {[AnyWorld EXCEPT !.ssm = b] : b \in {Hang, Ok("no parameter"), Ok("no value"), Ok(" key\n")}}
                \cup {[AnyWorld EXCEPT !.datadog = d] : d \in {Err, Ok(""), Ok("delegated")}}
                \cup {[AnyWorld EXCEPT !.secrets["api_key"] = a] : a \in KeySecrets}
  IN {[w EXCEPT !.secrets["metrics"] = m] :
        w \in some, m \in {Hang, SecretString("text", "no JSON", <<>>, <<>>), SecretString("json", "endpoints", <<>>, <<>>)}}
ResolveSecrets ==
  \/ Fresh /\ \E c \in {k \in SecretsConfigs : k.region = "us" /\ k.api_key = "" /\ k.arns["logs"] # <<>> /\ k.arns["metrics"] # <<>>}, w \in Worlds :
       Take("secrets", [cfg |-> c, world |-> w])
  \/ Fresh /\ \E c \in SecretsConfigs, e \in {"snapstart", "none"}, k \in {Err, Hang, Ok(NoCredentials), Ok([id |-> "id", secret |-> "s", token |-> ""])} :
       Take("secrets", [cfg |-> c, world |-> [AnyWorld EXCEPT !.env = e, !.container = k]])
-----------------------------------------------------------------------------
\* HTTP requests of every kind with their headers, cookies and bodies, one at a
\* time; and a few in turn, of two endpoints, with every result of the engine.
Holds == [json |-> TRUE, form |-> TRUE, entries |-> <<>>]
HttpBodies ==
  {[is |-> i, holds |-> Holds] : i \in {"none", "empty", "garbled", "text"}}
    \cup {[is |-> "text", holds |-> [json |-> FALSE, form |-> TRUE,
             entries |-> <<[mime |-> "", json |-> FALSE, form |-> TRUE], [mime |-> "application/json", json |-> FALSE, form |-> TRUE]>>]]}
Mimes == {"application/json", "application/x-www-form-urlencoded", "multipart/form-data", "multipart/form-data; boundary", "text/plain", "image/png"}
CookieLists == {<<>>, <<<<"a", 1>>>>, <<<<"a", 1>>, <<"a", 2>>, <<"b", 3>>>>, <<<<"a", 1>>, <<"b", 3>>, <<"a", 2>>>>}
HttpRequest(type) ==
  [type |-> type, domain |-> "host", path |-> "/p", stage |-> "", method |-> <<"GET">>, resource |-> "/{p}", ip |-> <<"ip">>,
   headers |-> <<>>, multi |-> <<>>, cookies |-> <<>>, query |-> <<>>, multi_query |-> <<>>, params |-> <<>>,
   body |-> [is |-> "none", holds |-> Holds]]
HttpRequests ==
  {[HttpRequest(type) EXCEPT !.stage = s, !.headers = ("content-type" :> m @@ (IF type \in {"http", "url"} THEN <<>> ELSE "cookie" :> c)),
       !.multi = IF several THEN "content-type" :> <<"image/png", m>> @@ "cookie" :> <<c, c>> ELSE <<>>,
       !.cookies = c, !.query = "q" :> <<"1", "2">>, !.multi_query = IF several THEN "q" :> <<"1", "2">> ELSE <<>>, !.params = "p" :> "v", !.body = b] :
     type \in HttpLike \cup {"sqs", "Unknown"}, s \in {"", "dev"}, m \in Mimes, c \in CookieLists, several \in BOOLEAN, b \in HttpBodies}
HttpResponse(status) ==
  [json |-> TRUE, status |-> status, headers |-> <<>>, multi |-> <<>>, body |-> [is |-> "empty", holds |-> Holds]]
HttpResponses ==
  {[HttpResponse(200) EXCEPT !.headers = h, !.multi = m, !.json = j, !.body.is = b] :
     h \in {<<>>, "set-cookie" :> "s" @@ "content-type" :> "text/plain"}, m \in {<<>>, "content-type" :> <<"text/json">>},
     j \in BOOLEAN, b \in {"empty", "text"}}
Result(duration, timeout, events) ==
  [ok |-> TRUE, duration |-> duration, timeout |-> timeout, keep |-> events # <<>>, events |-> events,
   attributes |-> IF timeout THEN <<>> ELSE "_dd.appsec.s.req" :> Always("schema")]
Quiet == Result(0, FALSE, <<>>)
EngineResults == {Quiet, [Quiet EXCEPT !.ok = FALSE], Result(1, FALSE, <<"e1">>), Result(WafTimeout, FALSE, <<"e2", "e3">>), Result(WafTimeout + 1, TRUE, <<>>)}
AnalyseRequests ==
  \/ Fresh /\ \E r \in HttpRequests, p \in {HttpResponse(200)} : Take("http", <<[request |-> r, response |-> p, results |-> <<Quiet, Quiet, Quiet>>, now |-> 0]>>)
  \/ Fresh /\ \E t \in HttpLike \cup {"sqs"}, p \in HttpResponses, e \in [1 .. 3 -> EngineResults] :
       /\ e[3] \in {Quiet, Result(1, FALSE, <<"e1">>)}
       /\ Take("http", <<[request |-> [HttpRequest(t) EXCEPT !.headers = "host" :> "h"], response |-> p, results |-> e, now |-> 0]>>)
  \/ Fresh /\ \E n \in 2 .. MaxValues : \E s \in [1 .. n -> {200, 404, 500}], late \in 0 .. n :
       Take("http", [i \in 1 .. n |-> [request |-> HttpRequest("rest"), response |-> HttpResponse(s[i]), results |-> <<Quiet, Quiet, Quiet>>,
                                       now |-> IF i > late THEN i + SampleDelay ELSE i]])
-----------------------------------------------------------------------------
\* Machines on which one thing is different at the start, at a tick or at the end.
Process(fd, tasks, limit) == [fd |-> fd, tasks |-> tasks, files |-> limit, procs |-> limit]
CpuLine(label, idle) == [label |-> label, user |-> <<3>>, system |-> <<2>>, idle |-> idle]
Machine(i0, i1, up) ==
  [net |-> <<[interface |-> "lo", rx |-> <<9>>, tx |-> <<9>>], [interface |-> "vinternal_1", rx |-> <<up>>, tx |-> <<2 * up>>]>>,
   stat |-> <<CpuLine("cpu", <<i0 + i1>>), CpuLine("cpu0", <<i0>>), CpuLine("cpu1", <<i1>>), CpuLine("intr", <<>>)>>,
   ticks |-> <<100>>, uptime |-> <<up>>, pids |-> <<Process(<<2>>, <<3>>, <<8>>), Process(<<1>>, <<1>>, <<5>>)>>,
   tmp |-> <<[bsize |-> 4, blocks |-> 8, available |-> 8 - Min({8, up})]>>]
Faulty(machine) ==
  {[machine EXCEPT !.net = Tail(@)], [machine EXCEPT !.net = SubSeq(@, 1, 1)], [machine EXCEPT !.net[2].tx = <<>>],
   [machine EXCEPT !.stat = SubSeq(@, 1, 1)], [machine EXCEPT !.stat = SubSeq(@, 1, 2)],
   [machine EXCEPT !.stat[1].user = <<>>], [machine EXCEPT !.stat[3].idle = <<>>], [machine EXCEPT !.ticks = <<>>], [machine EXCEPT !.uptime = <<>>],
   [machine EXCEPT !.pids = <<>>], [machine EXCEPT !.pids[1].fd = <<>>], [machine EXCEPT !.pids[2] = Process(<<>>, <<>>, <<>>)],
   [machine EXCEPT !.pids[2].files = <<>>], [machine EXCEPT !.tmp = <<>>]}
Report(managed, billed, size) == [managed |-> managed, duration |-> 2, billed |-> billed, used |-> 1, size |-> size]
Measured(start, samples, end, report) == [enabled |-> TRUE, start |-> start, samples |-> samples, end |-> end, report |-> report]
MeasureInvocation ==
  \/ Fresh /\ \E i0, i1 \in 0 .. MaxValues, up \in 0 .. MaxValues, managed \in BOOLEAN, enabled \in BOOLEAN :
       Take("usage", [Measured(Machine(1, 0, 1), <<>>, Machine(1 + i0, i1, 1 + up), Report(managed, 3, up)) EXCEPT !.enabled = enabled])
  \/ Fresh /\ LET usual == Machine(4, 3, 6) faulty == Faulty(usual) \cup {usual, Machine(4, 3, 7)} IN
       \E s \in Faulty(Machine(2, 1, 3)) \cup {Machine(2, 1, 3)}, a, b \in faulty, e \in Faulty(Machine(5, 3, 8)) \cup {Machine(5, 3, 8)} :
         (s = Machine(2, 1, 3) \/ (a = usual /\ b = usual)) /\ Take("usage", Measured(s, <<a, b>>, e, Report(FALSE, 2, 3)))
-----------------------------------------------------------------------------
HandleStream == Arrived("stream") /\ Made(Values(Received(PostsOf(input.x)).out))
HandleValues == Arrived("values") /\ Made(FoldLeft(accept, NewSketch, input.x))
HandleOtlp == Arrived("otlp") /\ Made(process(input.x.request, input.x.cfg))
HandleStats == Arrived("stats") /\ Made(Served(input.x.calls, input.x.limit, input.x.tags))
HandleHttp == Arrived("http") /\ Made(InvokedInTurn(input.x).ctxs)
HandleUsage == Arrived("usage") /\ Made(MetricsOf(input.x))

\* The spans at the start of an invocation that lasts from 6 to 8, completed at its end.
Invocation == [Span("invocation") EXCEPT !.trace = "new", !.start = 6, !.duration = 2, !.error = TRUE, !.tags = {"_dd.appsec.json"}]
AtItsEnd(spans, cfg) == [spans EXCEPT !.data = complete_inferred_spans(@, spans.invocation, cfg)]
HandleEvent ==
  /\ Arrived("event")
  /\ Made([source |-> from_value(input.x.e), sc |-> extract_span_context(input.x.headers, input.x.e),
           spans |-> AtItsEnd(StartSpans(Invocation, input.x.headers, input.x.e, input.x.cfg), input.x.cfg)])

HandleBatch ==
  LET names == [c \in {NoContext, "good", "bad", "eb", "http", "multi"} |-> Entries(c)]
      Hook(dsm, request) == Consumed(dsm, request, input.x.e, names, input.x.cfg, 5)
      dsm == FoldLeft(Hook, [buckets |-> <<>>, processed |-> {}], input.x.hooks)
  IN /\ Arrived("batch")
     /\ Made([source |-> from_value(input.x.e), drained |-> drain_into_proxy(dsm.buckets, <<>>)])

HandleSecrets ==
  /\ Arrived("secrets")
  /\ Made([key |-> resolve_secrets(input.x.cfg, input.x.world), held |-> get_aws_credentials(input.x.world),
           endpoints |-> resolve_additional_endpoints_secrets(input.x.cfg, input.x.world)])
-----------------------------------------------------------------------------
Next ==
  \/ MeasureInvocation \/ AnalyseRequests \/ ResolveSecrets \/ ComputeStats \/ ReceiveOtlp
  \/ ReceiveStream \/ InvokedBy \/ ConsumeBatch \/ FillSketch
  \/ HandleStream \/ HandleValues \/ HandleOtlp \/ HandleStats \/ HandleHttp \/ HandleUsage
  \/ HandleEvent \/ HandleBatch \/ HandleSecrets
Spec == Init /\ [][Next]_<<input, output>>

Given(of) == output.of = of

\* stitch.rs: of a record the platform cut, no piece comes out twice, lost and
\* overtaking POSTs or not; as long as each POST goes on with the record the last
\* one left cut, it comes out whole or not at all; and it comes out if all its POSTs
\* follow each other as the platform sends them.  Out of turn, the halves of two
\* records may be joined: no type and no timestamp pairs them.
SplitRecordsRecovered == Given("stream") => RecordsRecovered(input.x, output.y)

\* The contexts of the hops of a message, the last first, if all can be read.
Hops(e) == <<e.attr>> \o (IF e.body = <<>> THEN <<>> ELSE <<e.body[1].attr>> \o
             (IF e.body[1].body = <<>> THEN <<>> ELSE <<e.body[1].body[1].attr>>))
Legible(a) == a.type = "absent" \/ (a.type = "String" /\ a.value # "garbage")
Nearest(e) ==
  LET Set(a) == a.type # "absent"
      i == SelectInSeq(Hops(e), Set)
  IN IF i = 0 THEN NoContext ELSE Hops(e)[i].value

\* span_inferrer.rs: the trace goes on from the hop nearest to the function that
\* left a context, and only else from the X-Ray header, which may not drop a trace
\* that Datadog did not plant; every attempt of a state has a parent of its own.
TraceContextContinues ==
  Given("event") =>
    LET e == input.x.e
        sc == output.y.sc
    IN /\ (e.type \in {"sqs", "sns", "eventbridge"} /\ output.y.source # "Unknown" /\ \A i \in DOMAIN Hops(e) : Legible(Hops(e)[i])) =>
            /\ Nearest(e) # NoContext => sc = Carried(Nearest(e))
            /\ Nearest(e) = NoContext => (Found(sc) <=> (e.header.root # NoContext /\ e.header.parent # NoContext))
            /\ sc.priority = "0" => e.header.planted
       /\ e.type = "states" =>
            \A r, d \in 0 .. 1 : get_span_context(Step(r, d)).parent = sc.parent <=> Step(r, d) = e.step

\* span_inferrer.rs: the spans of an invocation form one chain, from the invocation
\* through the event source and the event it wrapped to the context continued, all
\* in one trace; the source's span ends where the invocation starts, or with it;
\* and a service mapping is preferred to DD_SERVICE, that to the source's own name.
InferredSpansChain ==
  Given("event") =>
    LET e == input.x.e
        cfg == input.x.cfg
        sc == output.y.sc
        inv == output.y.spans.invocation
        data == output.y.spans.data
        chain == <<inv>> \o data.inferred \o data.wrapped
        source == output.y.source
        Named(span, t) ==
          CASE t.specific \in DOMAIN cfg.mapping -> span.service = cfg.mapping[t.specific]
            [] t.specific \notin DOMAIN cfg.mapping /\ t.generic \in DOMAIN cfg.mapping -> span.service = cfg.mapping[t.generic]
            [] OTHER -> IF cfg.remove THEN span.service = "shop" ELSE span.service \in {t.instance, t.fallback}
    IN /\ \A i \in 1 .. Len(chain) - 1 : chain[i].parent = <<chain[i + 1].id>>
       /\ Last(chain).parent = (IF Found(sc) THEN sc.parent ELSE <<>>)
       /\ \A i \in DOMAIN chain : chain[i].trace = inv.trace /\ chain[i].error
       /\ inv.trace = (IF Found(sc) THEN sc.trace ELSE "new")
       /\ (data.inferred # <<>>) <=> (e.whole /\ e.type = source /\ source \notin Skipped)
       /\ data.wrapped # <<>> => data.inferred # <<>>
       /\ \A i \in DOMAIN data.inferred :
            /\ data.inferred[i].start + data.inferred[i].duration = (IF data.async THEN 6 ELSE 8)
            /\ Named(data.inferred[i], Trigger(source, e))

\* data_streams: every message that names its edge of a batch that is recognised is
\* counted once, also if two hooks see the payload, in the payload that goes to the
\* proxy and in none after it, under the pathway of its own carrier, with a latency
\* that is not negative; an EventBridge edge names one bus and a Kafka edge at most
\* one group.  A batch is recognised by one record: if the first of it (of Kafka the
\* one chosen for its trace context) does not deserialise, none of its messages is
\* counted, whatever the others are.
MessagesCountedOnce ==
  Given("batch") =>
    LET e == input.x.e
        cfg == input.x.cfg
        drained == output.y.drained
        points == UNION {b.stats : b \in UNION Range(drained.proxy)}
        Upstream(r) == IF r.attr.value = "good" THEN <<"up">> ELSE ENTRY_PARENT_HASH
        eligible ==
          CASE e.type = "msk" -> {i \in DOMAIN e.records : e.records[i].id # ""}
            [] e.type \in {"sqs", "sns", "kinesis"} -> {i \in DOMAIN e.records : e.records[i].whole}
            [] OTHER -> {i \in {0} : e.type = "eventbridge"}
        Named(p, tag) == {u[2] : u \in {v \in p.edge : v[1] = tag}}
        Like(i) == {j \in eligible : /\ e.records[j].id = e.records[i].id
                                     /\ Upstream(e.records[j]) = Upstream(e.records[i])}
        Counted(i) == {p \in points : /\ p.parent_hash = Upstream(e.records[i])
                                       /\ Named(p, "topic") \subseteq {e.records[i].id} /\ (e.records[i].id # "" => Named(p, "topic") # {})}
        first == Head(e.records)
        contexts == {i \in DOMAIN e.records : e.records[i].headers # NoContext}
        recognised ==
          CASE e.type = "msk" /\ e.records # <<>> ->
                 first.id # "" /\ e.records[IF contexts = {} THEN 1 ELSE Min(contexts)].whole
            [] e.type \in {"sqs", "sns", "kinesis"} /\ e.records # <<>> -> first.whole
            [] OTHER -> output.y.source # "Unknown"
    IN IF ~recognised THEN points = {}
       ELSE /\ MapThenSumSet(LAMBDA p : Len(p.latencies), points) = Cardinality(eligible)
            /\ drain_into_proxy(drained.buckets, drained.proxy) = drained
            /\ \A i \in eligible \ {0} : \E p \in Counted(i) : Counted(i) = {p} /\ Len(p.latencies) = Cardinality(Like(i))
            /\ \A p \in points :
                 /\ \A i \in DOMAIN p.latencies : p.latencies[i][1] >= 0 /\ p.latencies[i][2] >= 0
                 /\ Named(p, "exchange") = (CASE e.type # "eventbridge" -> {}
                      [] e.type = "eventbridge" /\ cfg.exchange # "" -> {cfg.exchange}
                      [] OTHER -> {IF e.exchange # "" THEN e.exchange ELSE "default"})
                 /\ Named(p, "group") = {g \in {cfg.group} : g # "" /\ e.type = "msk"}

\* sketch.rs: the dense store never leaves its vector, and whatever keys come in
\* whatever order, those within BIN_LIMIT of the largest keep their exact count and
\* none of the others gets lost; what is read of its encoded form says the same.
SketchCounts ==
  Given("values") =>
    LET k == output.y
        Keys(g) == LET of == SelectSeq(input.x, LAMBDA v : v.sign = g) IN [i \in DOMAIN of |-> of[i].key]
        sent == to_proto_bytes(k)
    IN /\ Counts(ReadStore(k.store, sent[1]), Keys(1)) /\ Counts(ReadStore(k.negative_store, sent[2]), Keys(-1))
       /\ sent[3] = Len(Keys(0))

\* otlp: of a request that is not refused every span with a resource and a scope
\* comes out once, in the trace of its id.  Its start is the one it was sent with and
\* its duration the time to its end, both exact within an i64 and modulo 2^64 always: a
\* start above i64::MAX, and a longer span, come out negative.  What the datadog
\* namespace says of the service, the type, the env and the HTTP status stands whatever
\* the conventions say; its version only without a service.version of the resource,
\* its error message only if the other fields are filled in.  Its name and error are
\* not kept, and its resource is read from the OTLP resource.
OtlpSpansKept ==
  Given("otlp") =>
    LET request == input.x.request
        cfg == input.x.cfg
        out == output.y
        Scope(p) == request[p[1]].scope_spans[p[2]]
        Sent(p) == Scope(p).spans[p[3]]
        places == {p \in (1 .. 2) \X (1 .. 2) \X (1 .. 3) :
                     /\ p[1] \in DOMAIN request /\ request[p[1]].resource # <<>>
                     /\ p[2] \in DOMAIN request[p[1]].scope_spans /\ Scope(p).scope # <<>> /\ p[3] \in DOMAIN Scope(p).spans}
        Whole(t) == IF t.form = "object" THEN t.high * 2^LOW_BITS + t.low ELSE t.n
        half == MaxTime \div 2
        Exact(i, n) == i \in -(half + 1) .. half /\ (i - n) % (MaxTime + 1) = 0 /\ (n \in -half .. half => i = n)
        Own(p, key) == get_otel_attribute_value_as_string(Sent(p).attributes, key, FALSE)
        OfResource(p, key) == get_otel_attribute_value_as_string(request[p[1]].resource[1].attributes, key, FALSE)
        Kept(p, dd) ==
          /\ Exact(dd.start, Whole(Sent(p).start))
          /\ Exact(dd.duration, Whole(Sent(p).end) - Whole(Sent(p).start))
          /\ \A d \in {"env", "version", "http.status_code", "error.msg"} :
               LET given == Own(p, CHOOSE k \in {"datadog.env", "datadog.version", "datadog.http_status_code", "datadog.error.msg"} :
                                     <<k, d>> \in Range(DD_SEMANTIC_KEYS_TO_META_KEYS))
               IN /\ (given # <<>> /\ (d = "version" => OfResource(p, "service.version") = <<>>)
                        /\ (d = "error.msg" => ~cfg.ignore_missing_datadog_fields)) => dd.meta[d] = given
                  /\ (given = <<>> /\ d = "env" /\ Own(p, d) # <<>> /\ ~cfg.ignore_missing_datadog_fields) =>
                       dd.meta[d] \in {<<"env">>, <<"service">>, Own(p, d), OfResource(p, d)}
          /\ Own(p, "datadog.service") # <<>> => dd.service = normalize_tag(Own(p, "datadog.service"))
          /\ Own(p, "datadog.type") # <<>> => dd.type = normalize_tag(Own(p, "datadog.type"))
          /\ ~cfg.ignore_missing_datadog_fields =>
               /\ <<>> \notin {dd.service, dd.name, dd.resource, dd.type}
               /\ dd.name = <<"aws.lambda">> =>
                    Sent(p).kind = "server" /\ Scope(p).scope[1].name = <<"opentelemetry.instrumentation.aws_lambda">>
          /\ dd.error = 1 => Sent(p).status # <<>> /\ Sent(p).status[1].code = "error"
    IN IF out = <<>> THEN \E t \in TimesOf(request) : t.form = "float" \/ Whole(t) \notin 0 .. MaxTime \/ t.low < 0
       ELSE /\ \A p \in places : \E t \in out[1] :
                 /\ \E k \in DOMAIN t : t[k].span_id = Sent(p).id /\ Kept(p, t[k])
                 /\ Cardinality({k \in DOMAIN t : t[k].span_id = Sent(p).id}) = 1
                 /\ {t[k].span_id : k \in DOMAIN t} =
                      {Sent(q).id : q \in {r \in places : r[1] = p[1] /\ Sent(r).trace_id[2] = Sent(p).trace_id[2]}}
            /\ MapThenSumSet(Len, out[1]) = Cardinality(places)

\* stats_concentrator_service.rs: after the last flush every span has been counted once,
\* in its own bucket, whatever was kept back before; a payload names the tracer; and
\* each signal is warned of once, a field only if a bucket saw more of its values than
\* its limit allows, and always then unless the whole keys of that bucket ran over
\* too.  A configured limit neither blocks all nor is above the limit on keys.
CollapseReported ==
  Given("stats") =>
    LET x == input.x
        s == output.y
        sent == {<<i, b>> \in (DOMAIN s.flushed) \X (1 .. 2) : b \in DOMAIN s.flushed[i].buckets}
        Stats(p) == s.flushed[p[1]].buckets[p[2]]
        Added(span, b) == {i \in DOMAIN x.calls : x.calls[i].op = "add" /\ x.calls[i].span = span /\ x.calls[i].at = b}
        Counted(span, b) == {<<p, k>> \in sent \X (1 .. Len(x.calls)) : p[2] = b /\ k \in DOMAIN Stats(p) /\ Stats(p)[k].span = span}
        Over(f) == {p \in sent : Cardinality({Stats(p)[k].span[f] : k \in DOMAIN Stats(p)}) > s.limits[f]}
        Overflown == {p \in sent : InOverflow(s.flushed[p[1]].buckets, p[2])}
    IN /\ \A c \in Range(x.calls) : c.op = "add" => Cardinality(Added(c.span, c.at)) = Cardinality(Counted(c.span, c.at))
       /\ DOMAIN s.buckets = {}
       /\ \A i \in DOMAIN s.flushed : s.flushed[i].metadata = "tracer"
       /\ IsInjective(s.warnings)
       /\ "whole_key" \in Range(s.warnings) <=> Overflown # {}
       /\ \A f \in Fields \cap s.possible_collapsed_fields :
            /\ f \in Range(s.warnings) => Over(f) # {}
            /\ Over(f) \ Overflown # {} => f \in Range(s.warnings)
       /\ s.limits["additional_tags"] \in 1 .. WHOLE_KEY_LIMIT - 1

\* secrets: the key is that of the first source that is set, or none: a source that
\* fails does not fall back to another, nor an empty dd_api_key to the rotated key.
\* The endpoints of a pipeline are those of its secret or stay as they were, whatever
\* becomes of the others; only the key can make startup wait for ever.  AWS accepts
\* the signature of every request.
SecretsResolved ==
  Given("secrets") =>
    LET cfg == input.x.cfg
        world == input.x.world
        key == output.y.key
        endpoints == output.y.endpoints
        held == output.y.held
        sources == <<cfg.dd_org_uuid # "", cfg.kms_api_key # "", cfg.api_key_secret_arn # <<>>, cfg.api_key_ssm_arn # <<>>>>
        Of == <<{"delegated"}, {"key"}, {"text key", "rotated", "own"}, {"key"}>>
        first == SelectInSeq(sources, LAMBDA set : set)
    IN /\ key.is = "ok" => key.value \in (IF first = 0 THEN {"key"} ELSE Of[first])
       /\ (first = 0 /\ cfg.api_key # "") => key = Ok("key")
       /\ first = 3 /\ held.is = "ok" => \A d \in {"", "own"} :
            world.secrets["api_key"] = SecretString("json", "{}", <<d>>, <<"rotated">>) => key = IF d = "" THEN Err ELSE Ok(d)
       /\ \A p \in Pipelines :
            endpoints[p] = IF held.is = "ok" /\ cfg.arns[p] # <<>> /\ world.secrets[p] = SecretString("json", "endpoints", <<>>, <<>>)
                             THEN <<"secret", p>> ELSE cfg.endpoints[p]
       /\ held.is = "ok" => \A r \in Requests(cfg, held.value) : Verifies(r, held.value.secret)

\* appsec: the engine never gets the cookies among the headers, and gets all of a
\* cookie's values that follow each other; the time it takes comes off the request's
\* budget over both phases; the span has the events of both in order, and the route,
\* address and headers that are for events only if one came, whenever it came; an
\* endpoint is sampled again only when due, or after as many others as are remembered.
RequestsAnalysed ==
  Given("http") =>
    LET xs == input.x
        ctxs == output.y
        Endpoint(i) == endpoint_info(ctxs[i][1])
        Asked(i) == ctxs[i][1].asked
        Results(i) == SelectSeq([k \in DOMAIN Asked(i) |-> Asked(i)[k].result], LAMBDA r : r.ok)
        Sampled(i) == \E k \in DOMAIN Asked(i) : "waf.context.processor" \in DOMAIN Asked(i)[k].data
        Analysed(i) ==
          LET ctx == ctxs[i][1]
              span == AppSecTags(ctx, "")
              spent == FoldLeft(LAMBDA sum, r : sum + r.duration, 0, Results(i))
              cookies == request_cookies(xs[i].request)
              Adjacent(n) == \A j, k, l \in DOMAIN xs[i].request.cookies :
                               (j < k /\ k < l /\ xs[i].request.cookies[j][1] = n /\ xs[i].request.cookies[l][1] = n) => xs[i].request.cookies[k][1] = n
          IN /\ \A k \in DOMAIN Asked(i) : LET data == Asked(i)[k].data IN
                  "server.request.headers.no_cookies" \in DOMAIN data => "cookie" \notin DOMAIN data["server.request.headers.no_cookies"]
             /\ xs[i].request.type \in {"http", "url"} =>
                  \A n \in DOMAIN cookies : Adjacent(n) => \A p \in Range(xs[i].request.cookies) : p[1] = n => p[2] \in Range(cookies[n])
             /\ ctx.waf_duration = spent /\ ctx.waf_timeout = Max({0, WafTimeout - spent})
             /\ span.triggers = FlattenSeq([k \in DOMAIN Results(i) |-> Results(i)[k].events])
             /\ (\E n \in {"http.route", "network.client.ip"} : n \in DOMAIN span.tags) \/ <<"request", "host">> \in DOMAIN span.headers
                  => span.triggers # <<>>
             /\ (span.triggers # <<>> /\ xs[i].request.type \in HttpLike) => "http.route" \in DOMAIN span.tags
             /\ ("appsec.event" \in DOMAIN span.tags) <=> span.triggers # <<>>
        Other(i, j) == {Endpoint(k) : k \in i + 1 .. j - 1} \ {Endpoint(i)}
    IN /\ \A i \in DOMAIN xs : ctxs[i] # <<>> => Analysed(i)
       /\ \A i, j \in DOMAIN xs :
            (/\ i < j /\ ctxs[i] # <<>> /\ ctxs[j] # <<>> /\ Endpoint(i) = Endpoint(j)
             /\ Sampled(i) /\ Sampled(j) /\ xs[j].now - xs[i].now < SampleDelay) => Cardinality(Other(i, j)) >= SamplerCapacity
       /\ \A j \in DOMAIN xs : (ctxs[j] # <<>> /\ \A i \in 1 .. j - 1 : ctxs[i] = <<>> \/ Endpoint(i) # Endpoint(j)) => Sampled(j)

\* metrics/enhanced: as the counters of the machine only grow, no metric is negative;
\* the utilization of all cores lies between that of the least and of the most used
\* one, if the same cores were seen at both times; what cannot be read is left out
\* with all that depends on it, and nothing else; what is used of /tmp and what is
\* free add up; a process that ends between listing and reading makes the count of
\* descriptors smaller, never that of threads; and more is never cheaper.
UsageReported ==
  Given("usage") =>
    LET x == input.x
        metrics == output.y
        There(name) == name \in DOMAIN metrics
        AtMost(s, t) == s.n * t.d <= t.n * s.d
        Whole(c) == {l.label : l \in Range(c.stat)} = {"cpu", "cpu0", "cpu1", "intr"}
        cpu == Some(get_cpu_data(x.start)) /\ Some(get_cpu_data(x.end))
        shares == {"cpu_max_utilization", "cpu_min_utilization", "cpu_total_utilization_pct"}
        Total(machine, f(_)) == SumOf([i \in DOMAIN machine.pids |-> IF f(machine.pids[i]) = <<>> THEN 0 ELSE f(machine.pids[i])[1]])
    IN IF ~x.enabled THEN metrics = <<>>
       ELSE /\ \A n \in DOMAIN metrics \ shares : metrics[n] >= 0
            /\ There("total_network") <=> (Some(get_network_data(x.start)) /\ Some(get_network_data(x.end)))
            /\ There("total_network") => metrics["total_network"] = metrics["rx_bytes"] + metrics["tx_bytes"]
            /\ There("cpu_total_time") <=> cpu
            /\ There("num_cores") <=> (cpu /\ Some(x.start.uptime) /\ Some(x.end.uptime) /\ x.end.uptime[1] > x.start.uptime[1])
            /\ (There("num_cores") /\ Whole(x.start) /\ Whole(x.end)) =>
                 /\ AtMost(metrics["cpu_min_utilization"], metrics["cpu_total_utilization_pct"])
                 /\ AtMost(metrics["cpu_total_utilization_pct"], metrics["cpu_max_utilization"])
            /\ There("tmp_free") => metrics["tmp_free"] + metrics["tmp_used"] = metrics["tmp_max"]
            /\ \A s \in Range(x.samples) :
                 /\ Total(s, LAMBDA p : p.fd) > 0 => There("fd_use") /\ metrics["fd_use"] >= Total(s, LAMBDA p : p.fd)
                 /\ (s.pids # <<>> /\ \A p \in Range(s.pids) : Some(p.tasks)) => There("threads_use") /\ metrics["threads_use"] >= Total(s, LAMBDA p : p.tasks)
            /\ There("threads_use") => \E s \in Range(x.samples) : metrics["threads_use"] = Total(s, LAMBDA p : p.tasks) /\ \A p \in Range(s.pids) : Some(p.tasks)
            /\ \A p \in Range(x.end.pids) : Some(p.files) => metrics["fd_max"] <= p.files[1]
            /\ There("estimated_cost") <=> ~x.report.managed
            /\ There("estimated_cost") =>
                 \A more \in {Report(FALSE, x.report.billed + 1, x.report.size), Report(FALSE, x.report.billed, x.report.size + 1)} :
                   set_report_log_metrics(more)["estimated_cost"] >= metrics["estimated_cost"]
=============================================================================
