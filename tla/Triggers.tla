------------------------------ MODULE Triggers ------------------------------
(***************************************************************************)
(* lifecycle/invocation/triggers: which event source invoked the function, *)
(* and what its event says: where the trace continues from, when and as    *)
(* which service the source acted, and which messages were consumed.       *)
(*                                                                         *)
(* A payload is a record with a field for everything the sources read; a   *)
(* source leaves those of the others at Blank's values.  "fields" are the  *)
(* JSON paths that are present.  A carrier is the name of the context it   *)
(* holds, or NoContext.                                                    *)
(*                                                                         *)
(* Definitions whose name starts with Mut are plausible wrong versions of  *)
(* the definition that follows them; the runs' properties are shown to     *)
(* reject them.                                                            *)
(***************************************************************************)
EXTENDS Integers, Sequences, SequencesExt, FiniteSets

NoContext == "none"
Absent == [type |-> "absent", value |-> NoContext]
NoHeader == [root |-> NoContext, planted |-> FALSE, parent |-> NoContext, sampled |-> ""]
NoStep == [execution |-> "", root |-> "", trace |-> "", state |-> "", entered |-> 0, retry |-> 0, redrive |-> 0]

\* id: the queue, topic, table... (or API id); domain: its domain name; attr: the
\* _datadog entry; body: an event wrapped in the message; records: the batch;
\* whole: does it deserialise; event: x-amz-invocation-type: Event; request: the
\* headers under "request"; flat: are there plain headers, not only multi-value ones.
Blank ==
  [type |-> "", fields |-> {}, whole |-> TRUE, id |-> "", domain |-> "", time |-> 0, event |-> FALSE,
   headers |-> NoContext, flat |-> TRUE, multi |-> NoContext, request |-> NoContext,
   attr |-> Absent, stamp |-> 0, resource |-> "", exchange |-> "",
   header |-> NoHeader, body |-> <<>>, records |-> <<>>, keys |-> <<>>, step |-> NoStep]

\* serde_json::from_str of a carrier; text that is no carrier gives the empty map.
Decoded(value) == IF value \in {"garbage", "undecodable"} THEN NoContext ELSE value
\* ... of a wrapped message.
Wraps(e, type) == e.body # <<>> /\ Head(e.body).type = type /\ Head(e.body).whole
-----------------------------------------------------------------------------
\* get_carrier of the sources that carry more than headers.
EventBridgeCarrier(e) == IF e.attr.type = "absent" THEN NoContext ELSE Decoded(e.attr.value)

SnsCarrier(e) ==
  CASE e.attr.type = "absent" -> IF Wraps(e, "eventbridge") THEN EventBridgeCarrier(Head(e.body)) ELSE NoContext
    [] e.attr.type = "String" -> Decoded(e.attr.value)
    [] e.attr.type = "Binary" /\ e.attr.value # "undecodable" -> Decoded(e.attr.value)
    [] OTHER -> NoContext

\* An attribute that cannot be read (another type, no value) leaves it to the body.
MutSqsIgnoresBody(e) ==
  IF e.attr.type \in {"String", "Binary"} /\ e.attr.value # "undecodable" THEN Decoded(e.attr.value) ELSE NoContext
SqsCarrier(e) ==
  CASE e.attr.type \in {"String", "Binary"} /\ e.attr.value # "undecodable" -> Decoded(e.attr.value)
    [] OTHER -> IF Wraps(e, "sns") THEN SnsCarrier(Head(e.body))
                ELSE IF Wraps(e, "eventbridge") THEN EventBridgeCarrier(Head(e.body)) ELSE NoContext

KinesisCarrier(e) == IF e.attr.type = "absent" \/ e.attr.value = "undecodable" THEN NoContext ELSE Decoded(e.attr.value)

\* The first record whose headers name a trace context, readable or not; else the first.
find_record_with_trace_context(records) ==
  LET Names(r) == r.headers # NoContext
      i == SelectInSeq(records, Names)
  IN records[IF i = 0 THEN 1 ELSE i]

\* The plain headers if there are any, else the first value of each multi-value one.
ALBCarrier(e) == IF e.flat THEN e.headers ELSE e.multi
-----------------------------------------------------------------------------
\* The event sources: when a payload is theirs, the span they are shown as, and
\* what get_carrier, is_async, get_dd_resource_key and get_dsm_edge_tags return.
APIGatewayHttpEvent(e) ==
  [match |-> {"version 2.0", "rawQueryString", "domainName"} \subseteq e.fields /\ "lambda-url" \notin e.fields,
   name |-> "aws.httpapi", source |-> "api-gateway", generic |-> "lambda_api_gateway",
   specific |-> e.id, instance |-> e.domain, fallback |-> e.domain, start |-> e.time,
   async |-> e.event, keyed |-> e.id # "", carrier |-> e.headers, edge |-> {}]

APIGatewayRestEvent(e) ==
  [match |-> {"requestContext.stage", "httpMethod", "resource"} \subseteq e.fields,
   name |-> "aws.apigateway", source |-> "api-gateway", generic |-> "lambda_api_gateway",
   specific |-> e.id, instance |-> e.domain, fallback |-> e.domain, start |-> e.time,
   async |-> e.event, keyed |-> e.id # "", carrier |-> e.headers, edge |-> {}]

APIGatewayWebSocketEvent(e) ==
  [match |-> "requestContext.messageDirection" \in e.fields,
   name |-> "aws.apigateway", source |-> "api-gateway", generic |-> "lambda_api_gateway",
   specific |-> e.id, instance |-> e.domain, fallback |-> "api_gateway_websocket", start |-> e.time,
   async |-> TRUE, keyed |-> FALSE, carrier |-> e.headers, edge |-> {}]

\* enrich_span leaves the span as it is.
ALBEvent(e) ==
  [match |-> "requestContext.elb.targetGroupArn" \in e.fields,
   name |-> "", source |-> "application-load-balancer", generic |-> "lambda_application_load_balancer",
   specific |-> e.id, instance |-> "", fallback |-> "", start |-> 0,
   async |-> TRUE, keyed |-> FALSE, carrier |-> ALBCarrier(e), edge |-> {}]

LambdaFunctionUrlEvent(e) ==
  [match |-> "lambda-url" \in e.fields,
   name |-> "aws.lambda.url", source |-> "lambda-function-url", generic |-> "lambda_url",
   specific |-> e.id, instance |-> e.domain, fallback |-> e.domain, start |-> e.time,
   async |-> e.event, keyed |-> FALSE, carrier |-> e.headers, edge |-> {}]

\* MSKEvent::new keeps one record.
MSKEvent(e) ==
  LET r == find_record_with_trace_context(e.records)
      some == e.records # <<>>
  IN [match |-> "records.topic" \in e.fields,
      name |-> "aws.msk", source |-> "msk", generic |-> "lambda_msk",
      specific |-> e.id, instance |-> e.id, fallback |-> "msk", start |-> IF some THEN r.time ELSE 0,
      async |-> TRUE, keyed |-> FALSE, carrier |-> IF some THEN Decoded(r.headers) ELSE NoContext, edge |-> {}]

SqsRecord(e) ==
  [match |-> "Records.eventSource=aws:sqs" \in e.fields,
   name |-> "aws.sqs", source |-> "sqs", generic |-> "lambda_sqs",
   specific |-> e.id, instance |-> e.id, fallback |-> "sqs", start |-> e.time,
   async |-> TRUE, keyed |-> FALSE, carrier |-> SqsCarrier(e), edge |-> {<<"type", "sqs">>, <<"topic", e.id>>}]

SnsRecord(e) ==
  [match |-> "Records.Sns" \in e.fields,
   name |-> "aws.sns", source |-> "sns", generic |-> "lambda_sns",
   specific |-> e.id, instance |-> e.id, fallback |-> "sns", start |-> e.time,
   async |-> TRUE, keyed |-> FALSE, carrier |-> SnsCarrier(e), edge |-> {<<"type", "sns">>, <<"topic", e.id>>}]

DynamoDbRecord(e) ==
  [match |-> "Records.dynamodb" \in e.fields,
   name |-> "aws.dynamodb", source |-> "dynamodb", generic |-> "lambda_dynamodb",
   specific |-> e.id, instance |-> e.id, fallback |-> "dynamodb", start |-> e.time,
   async |-> TRUE, keyed |-> FALSE, carrier |-> NoContext, edge |-> {}]

S3Record(e) ==
  [match |-> "Records.s3" \in e.fields,
   name |-> "aws.s3", source |-> "s3", generic |-> "lambda_s3",
   specific |-> e.id, instance |-> e.id, fallback |-> "s3", start |-> e.time,
   async |-> TRUE, keyed |-> FALSE, carrier |-> NoContext, edge |-> {}]

\* event_bus_name: the bus in the rule's ARN, if the event names one.
event_bus_name(e) == IF e.exchange = "" THEN {} ELSE {<<"exchange", e.exchange>>}

\* The carrier may bring the time at which, and the resource with which, it was sent.
EventBridgeEvent(e) ==
  LET carried == EventBridgeCarrier(e) # NoContext
      specific == IF carried /\ e.resource # "" THEN e.resource ELSE e.id
  IN [match |-> "detail-type" \in e.fields /\ "source" \in e.fields /\ "source=aws.events" \notin e.fields,
      name |-> "aws.eventbridge", source |-> "eventbridge", generic |-> "lambda_eventbridge",
      specific |-> specific, instance |-> specific, fallback |-> "eventbridge",
      start |-> IF carried /\ e.stamp # 0 THEN e.stamp ELSE e.time,
      async |-> TRUE, keyed |-> FALSE, carrier |-> EventBridgeCarrier(e),
      edge |-> {<<"type", "eventbridge">>, <<"topic", e.id>>} \cup event_bus_name(e)]

KinesisRecord(e) ==
  [match |-> "Records.kinesis" \in e.fields,
   name |-> "aws.kinesis", source |-> "kinesis", generic |-> "lambda_kinesis",
   specific |-> e.id, instance |-> e.id, fallback |-> "kinesis", start |-> e.time,
   async |-> TRUE, keyed |-> FALSE, carrier |-> KinesisCarrier(e),
   edge |-> {<<"type", "kinesis">>} \cup (IF e.id = "" THEN {} ELSE {<<"topic", e.id>>})]

\* In the payload, in its "_datadog", or in those of a legacy "Payload".
StepFunctionEvent(e) ==
  [match |-> {"Execution.Id", "State.Name", "State.EnteredTime"} \subseteq e.fields,
   name |-> "", source |-> "states", generic |-> "lambda_stepfunction",
   specific |-> "", instance |-> "", fallback |-> "", start |-> 0,
   async |-> TRUE, keyed |-> FALSE, carrier |-> NoContext, edge |-> {}]
-----------------------------------------------------------------------------
\* identified_triggers!: the sources, in the order in which they are tried.
Sources == <<"http", "rest", "websocket", "alb", "url", "msk", "sqs", "sns", "dynamodb", "s3",
             "eventbridge", "kinesis", "states">>
Trigger(type, e) ==
  CASE type = "http" -> APIGatewayHttpEvent(e) [] type = "rest" -> APIGatewayRestEvent(e)
    [] type = "websocket" -> APIGatewayWebSocketEvent(e) [] type = "alb" -> ALBEvent(e)
    [] type = "url" -> LambdaFunctionUrlEvent(e) [] type = "msk" -> MSKEvent(e)
    [] type = "sqs" -> SqsRecord(e) [] type = "sns" -> SnsRecord(e)
    [] type = "dynamodb" -> DynamoDbRecord(e) [] type = "s3" -> S3Record(e)
    [] type = "eventbridge" -> EventBridgeEvent(e) [] type = "kinesis" -> KinesisRecord(e)
    [] type = "states" -> StepFunctionEvent(e)

\* Trigger::new: the event, or the first record of a batch, deserialises; of Kafka
\* it is the record chosen.
Deserialises(e) == e.whole /\ (e.type = "msk" /\ e.records # <<>> => find_record_with_trace_context(e.records).whole)

\* The first that matches decides; if the payload is not what it took it for, no
\* other is tried.
from_value(e) ==
  LET Matches(type) == Trigger(type, e).match
      i == SelectInSeq(Sources, Matches)
  IN IF i # 0 /\ Sources[i] = e.type /\ Deserialises(e) THEN e.type ELSE "Unknown"

\* A service mapping is a function from identifiers to names.
has_service_mapping_entry(t, mapping) == t.specific \in DOMAIN mapping \/ t.generic \in DOMAIN mapping
get_default_service_name(t, represented) == IF represented THEN t.instance ELSE t.fallback
resolve_service_name(t, mapping, represented) ==
  CASE t.specific \in DOMAIN mapping -> mapping[t.specific]
    [] t.specific \notin DOMAIN mapping /\ t.generic \in DOMAIN mapping -> mapping[t.generic]
    [] OTHER -> get_default_service_name(t, represented)
-----------------------------------------------------------------------------
\* A span context: the trace, the span in it to continue from, what to sample.
NoSpanContext == [trace |-> NoContext, parent |-> <<>>, priority |-> ""]
Carried(name) == IF name = NoContext THEN NoSpanContext ELSE [trace |-> name, parent |-> <<name>>, priority |-> "carried"]
Found(context) == context.trace # NoContext

\* extract_trace_context_from_aws_trace_header.  A header that was not planted by
\* Datadog does not say that the trace is to be dropped.
extract_trace_context_from_aws_trace_header(h) ==
  IF h.root = NoContext \/ h.parent = NoContext THEN NoSpanContext
  ELSE [trace |-> h.root, parent |-> <<h.parent>>,
        priority |-> CASE h.sampled = "1" -> "1" [] h.sampled = "0" /\ h.planted -> "0" [] OTHER -> "unset"]

\* StepFunctionEvent::generate_parent_id: what is hashed.
generate_parent_id(s) ==
  <<s.execution, s.state, s.entered>> \o (IF s.retry # 0 \/ s.redrive # 0 THEN <<s.retry, s.redrive>> ELSE <<>>)

\* generate_trace_id: of the given trace, the root execution or this execution.
get_span_context(s) ==
  [trace |-> IF s.trace # "" THEN s.trace ELSE IF s.root # "" THEN s.root ELSE s.execution,
   parent |-> generate_parent_id(s), priority |-> "1"]

\* DynamoDbRecord::get_span_pointers: table and at most two keys, sorted by name.
\* A value is readable text or nothing.  keys: <<name, value>> in any order.
DynamoDbPointers(e) ==
  LET names == SetToSortSeq({k[1] : k \in Range(e.keys)}, <)
      Of(n) == CHOOSE k \in Range(e.keys) : k[1] = n
      used == SubSeq(names, 1, IF Len(names) = 1 THEN 1 ELSE 2)
  IN IF names = <<>> \/ \E i \in DOMAIN used : Of(used[i])[2] = "" THEN <<>>
     ELSE <<<<"aws.dynamodb.item", e.id>> \o FlattenSeq([i \in DOMAIN used |-> Of(used[i])])>>
\* S3Record::get_span_pointers: bucket, key and e-tag, none of them empty.
S3Pointers(e) ==
  IF e.id = "" \/ \E i \in DOMAIN e.keys : e.keys[i] = "" THEN <<>> ELSE <<<<"aws.s3.object", e.id>> \o e.keys>>
-----------------------------------------------------------------------------
\* get_dsm_checkpoints: one per message of the payload that names its edge.
dsm_checkpoints_from_records(e) ==
  LET Kept(r) == r.whole
      kept == SelectSeq(e.records, Kept)
  IN [i \in DOMAIN kept |-> [edge |-> Trigger(e.type, kept[i]).edge, carrier |-> Trigger(e.type, kept[i]).carrier]]
\* MSKEvent::get_dsm_checkpoints: of all records, not of the one new kept.
MutKafkaChosenOnly(e) ==
  LET r == find_record_with_trace_context(e.records)
  IN <<[edge |-> {<<"type", "kafka">>, <<"topic", r.id>>}, carrier |-> Decoded(r.headers)]>>
MskCheckpoints(e) ==
  LET Kept(r) == r.id # ""
      kept == SelectSeq(e.records, Kept)
  IN [i \in DOMAIN kept |-> [edge |-> {<<"type", "kafka">>, <<"topic", kept[i].id>>}, carrier |-> Decoded(kept[i].headers)]]
get_dsm_checkpoints(e) ==
  CASE e.type \in {"sqs", "sns", "kinesis"} -> dsm_checkpoints_from_records(e)
    [] e.type = "msk" -> MskCheckpoints(e)
    [] OTHER -> IF Trigger(e.type, e).edge = {} THEN <<>>
                ELSE <<[edge |-> Trigger(e.type, e).edge, carrier |-> Trigger(e.type, e).carrier]>>
=============================================================================
