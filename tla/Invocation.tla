----------------------------- MODULE Invocation -----------------------------
(***************************************************************************)
(* The invocation processor among its senders: the main loop (Extensions   *)
(* API and platform telemetry), the lifecycle listener (universal          *)
(* instrumentation), the runtime proxy and the trace agent.  The commands  *)
(* reach InvocationProcessorService in one channel; an action is the       *)
(* arrival of a command together with its handler, and the interleaving of *)
(* the actions is the order of arrival.                                    *)
(***************************************************************************)
EXTENDS InvocationProcessor

CONSTANTS
  Setups,      \* what to explore: records [managed, tracer, with], the last the
               \* kinds of events that need not happen but may
  MaxExtra     \* bound on how many of these happen

Kinds == {"init", "restore", "usage", "trace", "dsm", "loss", "Timeout", "OutOfMemory"}

ASSUME SetupAssumption ==
  /\ Setups \subseteq [managed : BOOLEAN, tracer : Tracers, with : SUBSET Kinds]
  /\ PROC_METRICS \in BOOLEAN

VARIABLES
  p,           \* the processor
  tasks,       \* listener tasks spawned and not yet run: start and end events
  with,        \* the optional events of this behaviour
  env,         \* what the platform and the tracer have done so far
  sampler,     \* the task that samples usage: where it is, and its sample
  agent,       \* a trace request's copy of the reparenting info, or <<>>
  due          \* contexts the trace agent got back and has not sent yet

vars == <<p, tasks, with, env, sampler, agent, due>>

Init ==
  /\ \E s \in Setups :
       /\ p = new(s.managed, s.tracer)
       /\ with = s.with
  /\ tasks = [start |-> <<>>, end |-> <<>>]
  /\ env = [invoked |-> {}, started |-> {}, ended |-> {}, lost |-> {}, overtaken |-> {},
            done |-> {}, reported |-> {}, complete |-> {}, sampled |-> {}, straddled |-> {},
            init |-> "none", extra |-> 0, stopped |-> FALSE]
  /\ sampler = [phase |-> "idle", seen |-> {}]
  /\ agent = [busy |-> FALSE, infos |-> <<>>]
  /\ due = <<>>

\* On demand there is one invocation at a time; with Managed Instances many.
Before(r) == {q \in Requests : q < r}
InOrder(r, s) == p.managed \/ Before(r) \subseteq s

Live == ~env.stopped
WithId == p.tracer \in {"id", "lwa"}
May(kind) == kind \in with /\ env.extra < MaxExtra
Statuses == {"Success"} \cup (with \cap {"Timeout", "OutOfMemory"})

\* Requests whose start and end events have both reached the processor.
Through == {r \in env.ended : ~Contains(tasks.start, r) /\ ~Contains(tasks.end, r)}

-----------------------------------------------------------------------------
\* Main loop: Extensions API.  A sample may be under way when the peaks are
\* reset for the new invocation.
InvokeEvent(r) ==
  /\ Live /\ ~p.managed /\ r \notin env.invoked /\ InOrder(r, env.invoked)
  /\ p' = on_invoke_event(p, r, FALSE)
  /\ env' = [env EXCEPT !.invoked = @ \cup {r},
                        !.straddled = IF sampler.phase = "idle" THEN @ ELSE @ \cup {r}]
  /\ UNCHANGED <<with, tasks, sampler, agent, due>>

ShutdownEvent ==
  /\ Live
  /\ p' = on_shutdown_event(p)
  /\ env' = [env EXCEPT !.stopped = TRUE]
  /\ UNCHANGED <<with, tasks, sampler, agent, due>>

\* Main loop: telemetry.  Init records come once, and before the first
\* platform.start; on demand they may come after the invocation.
PlatformInitStart ==
  /\ Live /\ "init" \in with /\ env.init = "none" /\ (p.managed => env.invoked = {})
  /\ \E late \in (IF p.managed THEN BOOLEAN ELSE {FALSE}) : p' = on_platform_init_start(p, 0, late)
  /\ env' = [env EXCEPT !.init = "started"]
  /\ UNCHANGED <<with, tasks, sampler, agent, due>>

PlatformInitReport ==
  /\ Live /\ env.init = "started"
  /\ p' = on_platform_init_report(p)
  /\ env' = [env EXCEPT !.init = "reported"]
  /\ UNCHANGED <<with, tasks, sampler, agent, due>>

PlatformRestoreStart ==
  /\ Live /\ May("restore") /\ ~p.managed /\ ~p.restored
  /\ p' = on_platform_restore_start(p, 0)
  /\ env' = [env EXCEPT !.extra = @ + 1]
  /\ UNCHANGED <<with, tasks, sampler, agent, due>>

PlatformStart(r) ==
  /\ Live /\ p.managed /\ r \notin env.invoked
  /\ p' = on_platform_start(p, r, FALSE)
  /\ env' = [env EXCEPT !.invoked = @ \cup {r}]
  /\ UNCHANGED <<with, tasks, sampler, agent, due>>

PlatformRuntimeDone(r) ==
  /\ Live /\ ~p.managed /\ r \in env.invoked \ env.done /\ InOrder(r, env.reported)
  /\ \E status \in Statuses : p' = on_platform_runtime_done(p, r, status)
  /\ env' = [env EXCEPT !.done = @ \cup {r}, !.complete = @ \cup ({r} \cap Through)]
  /\ UNCHANGED <<with, tasks, sampler, agent, due>>

PlatformReport(r) ==
  /\ Live /\ r \in (IF p.managed THEN env.invoked ELSE env.done) \ env.reported
  /\ \E status \in (IF p.managed THEN Statuses ELSE {"Success"}), at_limit \in {FALSE, "OutOfMemory" \in with} :
       p' = on_platform_report(p, r, status, at_limit, r = 1)
  /\ env' = [env EXCEPT !.reported = @ \cup {r}, !.done = @ \cup {r},
                        !.complete = @ \cup ({r} \cap (Through \ env.done))]
  /\ UNCHANGED <<with, tasks, sampler, agent, due>>

\* The logs processor saw an out-of-memory line, with or without a request id.
OutOfMemory(id) ==
  /\ Live /\ May("OutOfMemory") /\ id \in env.invoked \cup {None}
  /\ p' = try_increment_oom_metric(p, id)
  /\ env' = [env EXCEPT !.extra = @ + 1]
  /\ UNCHANGED <<with, tasks, sampler, agent, due>>

-----------------------------------------------------------------------------
\* Lifecycle listener.  A request is answered once its event is in a spawned
\* task; the runtime gets the invocation no earlier than the platform sends
\* it.  A tracer may also lose an event (a timeout kills it before the end).
Reached(r) == p.managed \/ Before(r) \subseteq env.invoked

handle_start_invocation(r) ==
  /\ Live /\ p.tracer # "none" /\ r \notin env.started \cup env.lost
  /\ Reached(r) /\ InOrder(r, env.ended \cup env.lost)
  /\ tasks' = [tasks EXCEPT !.start = Append(@, r)]
  /\ env' = [env EXCEPT !.started = @ \cup {r}]
  /\ UNCHANGED <<p, with, sampler, agent, due>>

handle_end_invocation(r) ==
  /\ Live /\ r \in env.started \ (env.ended \cup env.lost)
  /\ tasks' = [tasks EXCEPT !.end = Append(@, r)]
  /\ env' = [env EXCEPT !.ended = @ \cup {r}]
  /\ UNCHANGED <<p, with, sampler, agent, due>>

TracerLosesEvent(r) ==
  /\ Live /\ May("loss") /\ p.tracer # "none" /\ r \notin env.ended \cup env.lost
  /\ Reached(r) /\ InOrder(r, env.ended \cup env.lost)
  /\ env' = [env EXCEPT !.lost = @ \cup {r}, !.extra = @ + 1]
  /\ UNCHANGED <<p, with, tasks, sampler, agent, due>>

\* Every event has a task of its own in the listener's JoinSet; they run on
\* several threads, so a later one may reach the processor first.
universal_instrumentation_start ==
  /\ Live
  /\ \E i \in DOMAIN tasks.start :
       /\ p' = on_universal_instrumentation_start(p, tasks.start[i], WithId)
       /\ tasks' = [tasks EXCEPT !.start = RemoveAt(@, i)]
       /\ env' = [env EXCEPT !.overtaken = @ \cup {tasks.start[j] : j \in 1 .. i - 1}]
  /\ UNCHANGED <<with, sampler, agent, due>>

universal_instrumentation_end ==
  /\ Live
  /\ \E i \in DOMAIN tasks.end :
       /\ p' = on_universal_instrumentation_end(p, tasks.end[i], WithId)
       /\ tasks' = [tasks EXCEPT !.end = RemoveAt(@, i)]
       /\ env' = [env EXCEPT !.overtaken = @ \cup {tasks.end[j] : j \in 1 .. i - 1}]
  /\ UNCHANGED <<with, sampler, agent, due>>

-----------------------------------------------------------------------------
\* Runtime proxy: it has the payload before the runtime has it.
RecordDsmConsumeFromPayload(r) ==
  /\ Live /\ "dsm" \in with /\ Reached(r) /\ r \notin env.started \cup env.done \cup p.dsm_processed
  /\ InOrder(r, env.reported)
  /\ p' = record_dsm_consume_from_payload(p, r)
  /\ UNCHANGED <<with, tasks, env, sampler, agent, due>>

AddReparenting(r) ==
  /\ Live /\ p.tracer = "lwa" /\ Reached(r) /\ r \notin env.done
  /\ p' = add_reparenting(p, r)
  /\ p' # p
  /\ UNCHANGED <<with, tasks, env, sampler, agent, due>>

\* Trace agent: a request reads the reparenting info, guesses, writes it back
\* and then sends the contexts it was given.
GetReparentingInfo ==
  /\ Live /\ May("trace") /\ ~agent.busy /\ p.buf.reparenting # <<>>
  /\ agent' = [busy |-> TRUE, infos |-> p.buf.reparenting]
  /\ env' = [env EXCEPT !.extra = @ + 1]
  /\ UNCHANGED <<p, with, tasks, sampler, due>>

\* handle_reparenting: the first span seen gives every entry that needs one
\* its trace id; a request without spans guesses nothing.
UpdateReparenting ==
  /\ Live /\ agent.busy
  /\ \E spans \in BOOLEAN :
       LET guessed == [i \in DOMAIN agent.infos |->
                        [agent.infos[i] EXCEPT !.needs_trace_id = @ /\ ~spans]]
           result == update_reparenting(p.buf, guessed)
       IN p' = [p EXCEPT !.buf = result.b] /\ due' = due \o result.due
  /\ agent' = [busy |-> FALSE, infos |-> <<>>]
  /\ UNCHANGED <<with, tasks, env, sampler>>

SendCtxSpans ==
  /\ due # <<>>
  /\ p' = send_ctx_spans(p, Head(due))
  /\ due' = Tail(due)
  /\ UNCHANGED <<with, tasks, env, sampler, agent>>

\* The aws.lambda.load span of Node and Python.
SetColdStartSpanTraceId ==
  /\ Live /\ May("trace") /\ p.tracer = "none"
  /\ p' = set_cold_start_span_trace_id(p)
  /\ p' # p
  /\ env' = [env EXCEPT !.extra = @ + 1]
  /\ UNCHANGED <<with, tasks, sampler, agent, due>>

AddTracerSpan(r) ==
  /\ Live /\ May("trace") /\ r \in env.started
  /\ p' = [p EXCEPT !.buf = add_tracer_span(@, r)]
  /\ p' # p
  /\ env' = [env EXCEPT !.extra = @ + 1]
  /\ UNCHANGED <<with, tasks, sampler, agent, due>>

-----------------------------------------------------------------------------
\* Usage metrics.  EnhancedMetricsService takes Update, Reset and Get from one
\* unbounded channel and answers only Get: a command is applied when it is sent.
Running == IF p.managed THEN env.invoked \ env.reported
           ELSE {r \in env.invoked : \A q \in env.invoked : q <= r}

\* The sampling task.  Its select! is biased to the changes of the monitoring
\* state, so at a tick its is_active is the current state; it then reads /proc,
\* and then sends the sample, whatever happened in between.
UsageTick ==
  /\ May("usage") /\ p.monitoring /\ sampler.phase = "idle"
  /\ sampler' = [phase |-> "ticked", seen |-> {}]
  /\ env' = [env EXCEPT !.extra = @ + 1]
  /\ UNCHANGED <<p, with, tasks, agent, due>>

UsageSample ==
  /\ sampler.phase = "ticked"
  /\ sampler' = [phase |-> "sampled", seen |-> Running]
  /\ UNCHANGED <<p, with, tasks, env, agent, due>>

UsageUpdate ==
  /\ sampler.phase = "sampled"
  /\ p' = [p EXCEPT !.usage = @ \cup sampler.seen]
  /\ env' = [env EXCEPT !.sampled = IF env.stopped THEN @ ELSE @ \cup sampler.seen]
  /\ sampler' = [phase |-> "idle", seen |-> {}]
  /\ UNCHANGED <<with, tasks, agent, due>>

\* The task that reads the peaks for a report.
ReadUsage(r) ==
  /\ r \in p.usage_reads
  /\ p' = [p EXCEPT !.usage_reads = @ \ {r}, !.usage_reports[r] = Append(@, p.usage)]
  /\ UNCHANGED <<with, tasks, env, sampler, agent, due>>

-----------------------------------------------------------------------------
\* InvocationProcessorService::run
run ==
  \/ \E r \in Requests :
       \/ InvokeEvent(r) \/ PlatformStart(r) \/ PlatformRuntimeDone(r) \/ PlatformReport(r)
       \/ RecordDsmConsumeFromPayload(r) \/ AddReparenting(r) \/ AddTracerSpan(r)
  \/ \E id \in Requests \cup {None} : OutOfMemory(id)
  \/ ShutdownEvent \/ PlatformInitStart \/ PlatformInitReport \/ PlatformRestoreStart
  \/ universal_instrumentation_start \/ universal_instrumentation_end
  \/ GetReparentingInfo \/ UpdateReparenting \/ SendCtxSpans \/ SetColdStartSpanTraceId

Next ==
  \/ run
  \/ \E r \in Requests :
       handle_start_invocation(r) \/ handle_end_invocation(r) \/ TracerLosesEvent(r)
  \/ UsageTick \/ UsageSample \/ UsageUpdate
  \/ \E r \in Requests \cup {None} : ReadUsage(r)

Spec == Init /\ [][Next]_vars

-----------------------------------------------------------------------------
\* The tracer's events come in order: none was lost, and no listener task
\* overtook an earlier one of its kind.
Orderly == env.lost \cup env.overtaken = {}

\* context.rs pairs events in order of arrival when the tracer sends no
\* request id.  A context only ever carries the start and end of its own
\* invocation, provided the tracer sends the id, or has lost no event so far and
\* the listener's tasks (listener.rs) reached the processor in the order of
\* their requests.
PairedWithOwnRequest ==
  (WithId \/ Orderly) =>
    \A i \in DOMAIN p.buf.buffer :
      LET c == p.buf.buffer[i] IN c.start \in {None, c.id} /\ c.end \in {None, c.id}

\* An invocation whose start and end reached the processor before its
\* runtimeDone (its report, with Managed Instances) has its span sent by then,
\* unless its context was evicted or order-based pairing is void.
CompleteInvocationIsSent ==
  \A r \in env.reported \cap env.complete :
    (p.tracer \in {"fifo", "id"} /\ (WithId \/ (Orderly /\ ~p.managed))
       /\ IsFiniteSet(Requests) /\ Cardinality(Requests) <= Capacity)
      => Len(p.sent[r]) = 1

\* The usage peaks emitted for an invocation hold no sample of an earlier one,
\* unless one was under way when the peaks were reset for it.  Until the next
\* invocation they hold every sample of the current one, and the peaks of a
\* Managed Instance hold every sample sent before its shutdown.  Sampling, if it
\* is configured, is on exactly while some invocation of it is active.
UsageCoversItsPeriod ==
  /\ \A r \in Requests \ env.straddled :
       \A i \in DOMAIN p.usage_reports[r] : p.usage_reports[r][i] \cap Before(r) = {}
  /\ ~p.managed => Running \cap env.sampled \subseteq p.usage
  /\ \A i \in DOMAIN p.usage_reports[None] : env.sampled \subseteq p.usage_reports[None][i]
  /\ (PROC_METRICS /\ p.managed /\ ~env.stopped) => (p.monitoring <=> env.invoked # env.reported)

\* The promise of InvocationLedger: a span is due at most once, only while its
\* invocation is open, and is sent at most once.
Ledger == INSTANCE InvocationLedger WITH
  account <- [r \in Requests |->
    [phase |-> CASE r \in env.reported -> "closed"
                 [] r \in env.invoked \ env.reported -> "open"
                 [] OTHER -> "unseen",
     span |-> CASE Len(p.sent[r]) = 1 -> "sent"
                [] p.sent[r] = <<>> /\ \E i \in DOMAIN due : due[i].id = r -> "due"
                [] p.sent[r] = <<>> /\ ~\E i \in DOMAIN due : due[i].id = r -> "none"
                [] OTHER -> "overpaid"]]
KeepsLedger == Ledger!Spec
=============================================================================
