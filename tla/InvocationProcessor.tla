------------------------ MODULE InvocationProcessor ------------------------
(***************************************************************************)
(* lifecycle/invocation/processor.rs: the handlers of the invocation       *)
(* processor, with the enhanced metrics they emit.  One task runs them, so *)
(* each is a function from a processor record p to a processor record;     *)
(* what a handler calls is applied to the record in the code's order.      *)
(*                                                                         *)
(* Kept of a metric: how often it was emitted, where an event may cause it *)
(* twice or not at all (not for errors, timeouts, durations and reports).  *)
(* Kept of an invocation span that was sent: the origin of its trace id.   *)
(* Usage metrics (peaks of /tmp, descriptors, threads) are the set of      *)
(* invocations during which a sample was taken.                            *)
(*                                                                         *)
(* Definitions whose name starts with Mut are plausible wrong versions of  *)
(* the definition that follows them; the runs' properties are shown to     *)
(* reject them.                                                            *)
(***************************************************************************)
EXTENDS ContextBuffer

CONSTANTS
  Distributed,    \* requests whose event carries a trace context
  Inferred,       \* requests whose event yields an inferred span
  Failing,        \* requests whose end event reports an error
  PROC_METRICS    \* config.lambda_proc_enhanced_metrics

\* What a tracer does: nothing; start and end events without the request id;
\* with it; or the Lambda Web Adapter, whose end event carries no ids.
Tracers == {"none", "fifo", "id", "lwa"}

\* Processor::new.  managed is aws_config.is_managed_instance_mode(); tracer
\* is the environment's and never read as such by the code.
new(managed, tracer) ==
  [managed |-> managed, tracer |-> tracer, buf |-> EmptyBuffer, clock |-> 1,
   tracer_detected |-> FALSE, active_invocations |-> 0,
   awaiting_first_invocation |-> FALSE, restored |-> FALSE,
   init_duration_metric_emitted |-> FALSE, first_invocation |-> "Pending",
   dsm_processed |-> {}, init_tag |-> "unset",
   invoked_received |-> FALSE, monitoring |-> FALSE, usage |-> {}, usage_reads |-> {},
   invocations |-> 0, init_durations |-> 0, unused_inits |-> 0,
   oom |-> [r \in Requests \cup {None} |-> 0],
   dsm |-> [r \in Requests |-> 0],
   sent |-> [r \in Requests |-> <<>>], cold_sent |-> 0,
   usage_reports |-> [r \in Requests \cup {None} |-> <<>>]]

-----------------------------------------------------------------------------
\* The first invocation after init: cold, or proactively initialised when it
\* comes late.  "First" is: no context in the buffer.
set_init_tags(p, late) ==
  IF p.buf.buffer = <<>>
    THEN [p EXCEPT !.init_tag = IF late THEN "proactive" ELSE "cold"]
    ELSE [p EXCEPT !.init_tag = "warm"]

\* The usage-metrics switches.  restart also resets the peaks.
restart_usage_metrics_monitoring(p) == [p EXCEPT !.usage = {}, !.monitoring = TRUE]
resume_usage_metrics_monitoring(p) == [p EXCEPT !.monitoring = TRUE]
pause_usage_metrics_monitoring(p) == [p EXCEPT !.monitoring = FALSE]

\* Pauses and spawns the task that reads the peaks and emits them.
set_usage_enhanced_metrics(p, r) == [p EXCEPT !.monitoring = FALSE, !.usage_reads = @ \cup {r}]

try_increment_oom_metric(p, id) ==
  IF id # None /\ Has(p.buf, id)
    THEN IF get(p.buf, id).oom_emitted
           THEN p
           ELSE [p EXCEPT !.buf = get_mut(@, id, LAMBDA c : [c EXCEPT !.oom_emitted = TRUE]),
                          !.oom[id] = @ + 1]
    ELSE [p EXCEPT !.oom[id] = @ + 1]

\* A consume checkpoint once per request, whoever saw its payload first.
record_dsm_consume_from_payload(p, r) ==
  IF r \in p.dsm_processed
    THEN p
    ELSE [p EXCEPT !.dsm_processed = @ \cup {r}, !.dsm[r] = @ + 1]

-----------------------------------------------------------------------------
\* Universal instrumentation.  s and e are the requests the payloads are of.
process_on_universal_instrumentation_start(p, r, s) ==
  IF ~Has(p.buf, r)
    THEN p
    ELSE LET Start(c) ==
               [c EXCEPT !.start = s,
                         !.inferred = s \in Inferred,
                         !.extracted = s \in Distributed,
                         !.trace = IF s \in Distributed THEN "extracted" ELSE @,
                         !.parent = CASE s \in Inferred -> "inferred"
                                      [] s \in Distributed -> "extracted"
                                      [] OTHER -> @]
         IN record_dsm_consume_from_payload([p EXCEPT !.buf = get_mut(@, r, Start)], r)

on_universal_instrumentation_start(p0, s, with_id) ==
  LET p == [p0 EXCEPT !.tracer_detected = TRUE]
      q == pair_universal_instrumentation_start_with_request_id(p.buf, s)
      f == pair_universal_instrumentation_start_event(p.buf, s)
  IN CASE with_id /\ p.managed /\ Has(p.buf, s) -> process_on_universal_instrumentation_start(p, s, s)
       [] with_id /\ ~(p.managed /\ Has(p.buf, s)) ->
            IF q.paired THEN process_on_universal_instrumentation_start([p EXCEPT !.buf = q.b], s, s)
                        ELSE [p EXCEPT !.buf = q.b]
       [] ~with_id ->
            IF f.id # None THEN process_on_universal_instrumentation_start([p EXCEPT !.buf = f.b], f.id, s)
                           ELSE [p EXCEPT !.buf = f.b]

\* The trace id is the extracted one, else the header's, else the span's own.
MutEndForgetsHeaderTrace(p, r, e) ==
  LET End(c) == [c EXCEPT !.end = e, !.error = @ \/ e \in Failing, !.span = "header"]
  IN [p EXCEPT !.buf = get_mut(@, r, End)]
process_on_universal_instrumentation_end(p, r, e) ==
  IF ~Has(p.buf, r)
    THEN p
    ELSE LET ids == p.tracer # "lwa"
             End(c) ==
               [c EXCEPT !.end = e,
                         !.error = @ \/ e \in Failing,
                         !.trace = CASE c.extracted -> "extracted"
                                     [] ~c.extracted /\ ids -> "header"
                                     [] OTHER -> @,
                         !.span = IF ids THEN "header" ELSE @,
                         !.parent = CASE c.inferred -> @
                                      [] ~c.inferred /\ c.extracted -> "extracted"
                                      [] ~c.inferred /\ ~c.extracted /\ ids -> "header"
                                      [] OTHER -> "unset"]
         IN [p EXCEPT !.buf = get_mut(@, r, End)]

on_universal_instrumentation_end(p, e, with_id) ==
  LET q == pair_universal_instrumentation_end_with_request_id(p.buf, e)
      f == pair_universal_instrumentation_end_event(p.buf, e)
  IN IF with_id
       THEN IF q.paired THEN process_on_universal_instrumentation_end([p EXCEPT !.buf = q.b], e, e)
                        ELSE [p EXCEPT !.buf = q.b]
       ELSE IF f.id # None THEN process_on_universal_instrumentation_end([p EXCEPT !.buf = f.b], f.id, e)
                           ELSE [p EXCEPT !.buf = f.b]

-----------------------------------------------------------------------------
\* The context of an invocation: the one created at init if it still waits for
\* its request id (Managed Instances), else a new one.
OpenContext(p, r, late) ==
  IF p.managed /\ p.awaiting_first_invocation /\ Has(p.buf, EmptyId)
    THEN [p EXCEPT !.buf = update_empty_context_request_id(@, r)]
    ELSE LET p1 == set_init_tags(p, late)
         IN [p1 EXCEPT !.buf = start_context(@, r, p.clock), !.clock = @ + 1]

\* Managed: resumed by the first of the active invocations.
MonitorInvocation(p) ==
  CASE PROC_METRICS /\ p.managed ->
         LET p1 == [p EXCEPT !.active_invocations = @ + 1]
         IN IF p1.active_invocations = 1 THEN resume_usage_metrics_monitoring(p1) ELSE p1
    [] PROC_METRICS /\ ~p.managed -> restart_usage_metrics_monitoring(p)
    [] OTHER -> p

\* The invocation metric of a cold start is held back until
\* platform.initStart has said whether this is a durable function.
CountInvocation(p) ==
  IF ~p.managed /\ p.first_invocation = "Pending"
    THEN [p EXCEPT !.first_invocation = "HeldBack"]
    ELSE [p EXCEPT !.invocations = @ + 1,
                   !.first_invocation = IF ~p.managed /\ @ = "InitStartSeen" THEN "Resolved" ELSE @]

on_invoke_event(p0, r, late) ==
  LET p1 == [OpenContext(p0, r, late) EXCEPT !.awaiting_first_invocation = FALSE]
      p2 == CountInvocation(MonitorInvocation(p1))
      p == [p2 EXCEPT !.invoked_received = TRUE]
      f == pair_invoke_event(p.buf, r)
  IN CASE r \in p.buf.starts_with_id ->
            process_on_universal_instrumentation_start(
              [p EXCEPT !.buf = take_universal_instrumentation_start_for_request_id(@, r)], r, r)
       [] r \notin p.buf.starts_with_id /\ ~p.managed ->
            IF f.start # None THEN process_on_universal_instrumentation_start([p EXCEPT !.buf = f.b], r, f.start)
                              ELSE [p EXCEPT !.buf = f.b]
       [] OTHER -> p

flush_pending_first_invocation_metric(p) ==
  IF p.first_invocation = "HeldBack"
    THEN [p EXCEPT !.invocations = @ + 1, !.first_invocation = "Resolved"]
    ELSE p

\* platform.initStart has no request id: on demand the closest context in time
\* gets the cold start span, with Managed Instances a context is opened for it.
on_platform_init_start(p0, time, late) ==
  LET p == flush_pending_first_invocation_metric(
             [p0 EXCEPT !.first_invocation = IF @ = "Pending" THEN "InitStartSeen" ELSE @])
      i == get_closest(p.buf, time)
      tagged == set_init_tags(p, late)
  IN CASE p.managed ->
            [tagged EXCEPT !.buf = start_context(@, EmptyId, p.clock), !.clock = @ + 1,
                           !.awaiting_first_invocation = TRUE]
       [] ~p.managed /\ i # 0 -> [p EXCEPT !.buf = write(@, i, [@.buffer[i] EXCEPT !.cold_start_span = "idle"])]
       [] ~p.managed /\ i = 0 -> p

\* The init duration is emitted by whichever of initReport and report is first.
EmitInitDuration(p) ==
  IF p.init_duration_metric_emitted
    THEN p
    ELSE [p EXCEPT !.init_durations = @ + 1, !.init_duration_metric_emitted = TRUE]

\* The duration it also writes into a cold start span is not kept.
on_platform_init_report(p) == EmitInitDuration(p)

on_platform_restore_start(p, time) ==
  LET i == get_closest(p.buf, time)
      p1 == [p EXCEPT !.restored = TRUE]
  IN IF i = 0 THEN p1 ELSE [p1 EXCEPT !.buf = write(@, i, [@.buffer[i] EXCEPT !.restore_span = TRUE])]

\* With Managed Instances platform.start is the invoke event.
on_platform_start(p, r, late) == IF p.managed THEN on_invoke_event(p, r, late) ELSE p

-----------------------------------------------------------------------------
\* Sending.  A restore span takes the place of the cold start span.
get_ctx_spans(c) ==
  {"invocation"} \cup (IF c.inferred THEN {"inferred"} ELSE {})
                 \cup (CASE c.restore_span -> {"restore"}
                         [] ~c.restore_span /\ c.cold_start_span # "none" -> {"cold_start"}
                         [] OTHER -> {})
send_ctx_spans(p, c) ==
  [p EXCEPT !.sent[c.id] = Append(@, c.trace),
            !.cold_sent = IF "cold_start" \in get_ctx_spans(c) THEN @ + 1 ELSE @]

send_cold_start_span(p) ==
  LET i == get_context_with_cold_start(p.buf)
  IN IF i # 0 /\ p.buf.buffer[i].cold_start_span = "traced" THEN [p EXCEPT !.cold_sent = @ + 1] ELSE p

set_cold_start_span_trace_id(p) ==
  LET i == get_context_with_cold_start(p.buf)
  IN IF i = 0 THEN p ELSE [p EXCEPT !.buf = write(@, i, [@.buffer[i] EXCEPT !.cold_start_span = "traced"])]

\* A timed-out invocation never sent ids, so they are made up.
enrich_ctx_at_platform_done(p, r, status) ==
  LET Enrich(c) ==
        LET timeout == status = "Timeout"
            trace == IF timeout /\ c.trace = "unset" THEN "generated" ELSE c.trace
        IN [c EXCEPT !.runtime_done_received = TRUE,
                     !.trace = trace,
                     !.span = IF timeout /\ @ = "unset" THEN "generated" ELSE @,
                     !.error = @ \/ timeout,
                     !.cold_start_span =
                        IF @ # "none" /\ trace # "unset" /\ p.tracer_detected THEN "traced" ELSE @]
  IN [p EXCEPT !.buf = get_mut(@, r, Enrich)]

\* Both ids are needed for the span to be sent.
Sendable(c) == c.trace # "unset" /\ c.span # "unset"

MutSendEvenWithoutIds(p0, r, status) ==
  LET p == enrich_ctx_at_platform_done(p0, r, status)
  IN IF p.tracer_detected
       THEN IF Has(p.buf, r) THEN send_ctx_spans(p, get(p.buf, r)) ELSE p
       ELSE send_cold_start_span(p)
process_on_platform_runtime_done(p0, r, status) ==
  LET p == enrich_ctx_at_platform_done(p0, r, status)
  IN IF p.tracer_detected
       THEN IF Has(p.buf, r) /\ Sendable(get(p.buf, r)) THEN send_ctx_spans(p, get(p.buf, r)) ELSE p
       ELSE send_cold_start_span(p)

on_platform_runtime_done(p0, r, status) ==
  LET p1 == IF status = "OutOfMemory" THEN try_increment_oom_metric(p0, r) ELSE p0
      p2 == IF p1.managed THEN p1 ELSE set_usage_enhanced_metrics(p1, r)
      p == [p2 EXCEPT !.buf = add_runtime_duration(@, r)]
      f == pair_platform_runtime_done_event(p.buf, r)
      paired ==
        CASE r \in p.buf.ends_with_id ->
               process_on_universal_instrumentation_end(
                 [p EXCEPT !.buf = take_universal_instrumentation_end_for_request_id(@, r)], r, r)
          [] r \notin p.buf.ends_with_id /\ ~p.managed ->
               IF f.end # None THEN process_on_universal_instrumentation_end([p EXCEPT !.buf = f.b], r, f.end)
                               ELSE [p EXCEPT !.buf = f.b]
          [] OTHER -> p
  IN process_on_platform_runtime_done(paired, r, status)

-----------------------------------------------------------------------------
\* The decrement is guarded; monitoring stops with the last active invocation.
MutPauseEachReport(p, r, status) ==
  LET p1 == pause_usage_metrics_monitoring(
              [p EXCEPT !.active_invocations = IF @ > 0 THEN @ - 1 ELSE @])
  IN IF Has(p1.buf, r) THEN on_platform_runtime_done(p1, r, status) ELSE p1
handle_managed_instance_report(p, r, status) ==
  LET p1 == [p EXCEPT !.active_invocations = IF @ > 0 THEN @ - 1 ELSE @]
      p2 == IF p1.active_invocations = 0 THEN pause_usage_metrics_monitoring(p1) ELSE p1
  IN IF Has(p2.buf, r) THEN on_platform_runtime_done(p2, r, status) ELSE p2

\* at_limit: the report's peak memory is the memory size; with_init: it carries
\* an init duration.
handle_ondemand_report(p, r, at_limit, with_init) ==
  LET p1 == IF at_limit THEN try_increment_oom_metric(p, r) ELSE p
  IN IF with_init THEN EmitInitDuration(p1) ELSE p1

\* At most one entry is of the request (add_reparenting).
forget_reparenting(infos, r) == RemoveFirstMatch(infos, LAMBDA i : i.id = r)

release_invocation_context(p, r) ==
  LET b == remove(p.buf, r)
  IN [p EXCEPT !.buf = [b EXCEPT !.reparenting = forget_reparenting(b.reparenting, r)],
               !.dsm_processed = @ \ {r}]

on_platform_report(p, r, status, at_limit, with_init) ==
  release_invocation_context(
    IF p.managed THEN handle_managed_instance_report(p, r, status)
                 ELSE handle_ondemand_report(p, r, at_limit, with_init), r)

on_shutdown_event(p0) ==
  LET p1 == flush_pending_first_invocation_metric(p0)
      p == [p1 EXCEPT !.unused_inits = IF p1.invoked_received THEN @ ELSE @ + 1]
  IN IF p.managed THEN set_usage_enhanced_metrics(p, None) ELSE p

-----------------------------------------------------------------------------
\* Reparenting (Lambda Web Adapter): the proxy announces the span id of an
\* invocation, the trace agent guesses its trace id from the spans it sees.
add_reparenting(p, r) ==
  IF \E i \in DOMAIN p.buf.reparenting : p.buf.reparenting[i].id = r
    THEN p
    ELSE [p EXCEPT !.buf.reparenting =
            Append(IF Len(@) = Capacity THEN Tail(@) ELSE @, [id |-> r, needs_trace_id |-> TRUE])]

\* What the trace agent's copy says of one request, written back.  A context
\* that lacked an id, now has both, and whose runtime is done is due now.
UpdateOne(acc, info) ==
  LET Give(c) == [c EXCEPT !.span = IF @ = "unset" THEN "reparented" ELSE @,
                           !.trace = IF @ = "unset" /\ ~info.needs_trace_id THEN "guessed" ELSE @]
      b == get_mut(acc.b, info.id, Give)
      Keep(i) == IF i.id = info.id THEN info ELSE i
      span_updated == Has(acc.b, info.id) /\ ~Sendable(get(acc.b, info.id))
      due == span_updated /\ Sendable(get(b, info.id)) /\ get(b, info.id).runtime_done_received
  IN [b |-> [b EXCEPT !.reparenting = [i \in DOMAIN @ |-> Keep(@[i])]],
      due |-> IF due THEN Append(acc.due, get(b, info.id)) ELSE acc.due]

update_reparenting(buf, infos) ==
  LET loop[n \in 0 .. Len(infos)] ==
        IF n = 0 THEN [b |-> buf, due |-> <<>>] ELSE UpdateOne(loop[n - 1], infos[n])
  IN loop[Len(infos)]
=============================================================================
