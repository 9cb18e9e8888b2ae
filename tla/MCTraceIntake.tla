--------------------------- MODULE MCTraceIntake ---------------------------
(* Values for model checking module TraceIntake. *)
EXTENDS TraceIntake

Span(n, key, kind, error, tags) ==
  [n |-> n, key |-> key, kind |-> kind, error |-> error, meta |-> tags, dm |-> "none",
   props |-> [name |-> "handler", service |-> "", resource |-> "get", type |-> "web"]]
NoTags == [k \in {} |-> ""]
Chunk(spans, priority) == [spans |-> spans, priority |-> priority, dm |-> "none"]
Request(kind, client_stats, chunks) == [kind |-> kind, client_stats |-> client_stats, chunks |-> chunks]

\* a carries a kept and a sampled-out trace, b resends the first and the
\* placeholder of an invocation span, o an errored trace that is sampled out,
\* g (whose metadata is ignored) a trace of another environment, h the same without
\* that metadata, m a trace the user dropped by hand.
MCCalls == {"a", "b", "o", "g", "h", "m", "s", "p"}
MCBody == [c \in MCCalls |->
  CASE c = "a" -> Request("v04", FALSE, <<Chunk(<<Span(1, 1, "plain", FALSE, NoTags)>>, 1),
                                          Chunk(<<Span(2, 2, "plain", FALSE, NoTags)>>, 0)>>)
    [] c = "b" -> Request("v05", FALSE, <<Chunk(<<Span(1, 1, "plain", FALSE, NoTags),
                                                 Span(2, 3, "placeholder", FALSE, NoTags)>>, 1)>>)
    [] c = "o" -> Request("otlp", FALSE, <<Chunk(<<Span(1, 4, "plain", TRUE, NoTags)>>, 0)>>)
    [] c = "g" -> Request("otlp_grpc", TRUE, <<Chunk(<<Span(1, 5, "plain", FALSE, [env |-> "prod"])>>, 1),
                                               Chunk(<<Span(2, 6, "plain", FALSE, [env |-> "dev"])>>, 1)>>)
    [] c = "h" -> Request("otlp_grpc", FALSE, <<Chunk(<<Span(1, 5, "plain", FALSE, NoTags)>>, 1)>>)
    [] c = "m" -> Request("v04", TRUE,
                    <<Chunk(<<[Span(1, 7, "plain", TRUE, NoTags) EXCEPT !.dm = "-4"]>>, -1),
                      Chunk(<<Span(2, 8, "plain", TRUE, NoTags)>>, -1)>>)
    [] c = "s" -> Request("stats", FALSE, <<Chunk(<<>>, 0)>>)
    [] c = "p" -> Request("proxy", FALSE, <<>>)]

Config(compute, sampler, drop, reject, timeout, calls) ==
  [dedup_timeout |-> timeout, compute_stats |-> compute, error_sampler |-> sampler, tracer_drop |-> drop,
   require |-> {}, require_regex |-> {}, reject |-> reject, reject_regex |-> {}, calls |-> calls]
NotDev == [key |-> "env", any |-> FALSE, values |-> {"dev"}]
MCConfigs == {
  Config(TRUE, TRUE, FALSE, {}, TRUE, {"a", "b", "s"}), Config(FALSE, FALSE, FALSE, {}, FALSE, {"a", "b", "h"}),
  Config(TRUE, TRUE, FALSE, {NotDev}, FALSE, {"a", "o", "g"}), Config(TRUE, TRUE, TRUE, {}, TRUE, {"m", "s", "p"}),
  Config(FALSE, FALSE, FALSE, {}, FALSE, {"g", "o", "m"})}
=============================================================================
