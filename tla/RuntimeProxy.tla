---------------------------- MODULE RuntimeProxy ----------------------------
(***************************************************************************)
(* proxy/interceptor.rs, proxy/tee_body.rs, lwa/mod.rs and the part of     *)
(* SendingTraceProcessor that waits for App & API Protection: the calls of *)
(* the function's runtime pass through the extension, each leaves a task   *)
(* behind that analyses the copied body, and traces of a request are held  *)
(* until its response was analysed.                                        *)
(*                                                                         *)
(* lock and mutex are tokio mutexes: a sequence, the head holds it and the *)
(* others wait in order.                                                   *)
(*                                                                         *)
(* Definitions whose name starts with Mut are plausible wrong versions of  *)
(* the definition that follows them; the runs' properties are shown to     *)
(* reject them.                                                            *)
(***************************************************************************)
EXTENDS AppSec

CONSTANTS
  Setups,        \* records [aap, lwa, experimental, dsm, budget, known], and what comes:
                 \* [traces, workers, stops]
  Requests,      \* an interval 1..n; requests come in this order
  Traces, RidOf, \* the traces a tracer posts and the request of each (0: none)
  ChannelSize,   \* trace channel (10)
  MaxFaults      \* bound on failed and dropped calls, lost bodies and time-outs

ASSUME ProxyAssumption ==
  /\ NoTrace \notin Traces /\ Requests \subseteq Nat \ {0}
  /\ RidOf \in [Traces -> Requests \cup {0}]

VARIABLES
  setup,
  runtime,     \* per request: where the runtime is with it
  lock,        \* on the JoinSet of tasks
  tasks,       \* spawned and not joined: [kind, r, stage, body]
  mutex,       \* on the AppSec processor
  contexts,
  posted,      \* per trace: "new", "waiting" for mutex, "send", "accepted", "dropped"
  outbox,      \* per trace: what send_processed_traces has to send
  channel,
  store,       \* per trace: as what it reached the aggregator
  told,        \* what the invocation processor was told: <<what, request>>
  shutdown,    \* "no", "cancelled", "joining", "joined"
  evicted,     \* requests whose context was dropped before the response
  learned,     \* per request: the tags of its context when the response was seen
  faults

vars == <<setup, runtime, lock, tasks, mutex, contexts, posted, outbox, channel, store, told,
          shutdown, evicted, learned, faults>>

\* get_invocation_next_processing_mode
get_invocation_next_processing_mode(s) ==
  CASE s.lwa \/ s.experimental -> "UniversalInstrumentation"
    [] ~(s.lwa \/ s.experimental) /\ s.dsm -> "DsmOnly"
    [] OTHER -> "None"

Init ==
  /\ setup \in Setups
  /\ runtime = [r \in Requests |-> "idle"]
  /\ lock = <<>> /\ tasks = {} /\ mutex = <<>> /\ contexts = <<>>
  /\ posted = [t \in Traces |-> "new"]
  /\ outbox = [t \in Traces |-> <<>>]
  /\ channel = <<>> /\ store = [t \in Traces |-> <<>>]
  /\ told = {}
  /\ shutdown = "no"
  /\ evicted = {}
  /\ learned = [r \in Requests |-> {}]
  /\ faults = 0

Fault == faults < MaxFaults /\ faults' = faults + 1
Go(r, where) == runtime' = [runtime EXCEPT ![r] = where]
Holds(queue, who) == queue # <<>> /\ Head(queue) = who
Task(kind, r, stage, body) == [kind |-> kind, r |-> r, stage |-> stage, body |-> body]

Ended == {"done", "failed"}
InFlight == {r \in Requests : runtime[r] \notin Ended \cup {"idle"}}

proxyState == <<lock, tasks, shutdown>>
aapState == <<mutex, contexts, evicted, learned>>
traceState == <<posted, outbox, channel, store>>

-----------------------------------------------------------------------------
\* GET /next: the runtime's call is forwarded as it is; the answer waits for
\* the lock, leaves a task behind and goes on to the runtime.
CallNext(r) ==
  /\ runtime[r] = "idle" /\ \A q \in Requests : q < r => runtime[q] # "idle"
  /\ Cardinality(InFlight) < setup.workers
  /\ Go(r, "next_lock")
  /\ lock' = Append(lock, <<"next", r>>)
  /\ UNCHANGED <<setup, tasks, aapState, traceState, told, shutdown, faults>>

NextFails(r) ==
  /\ runtime[r] = "idle" /\ \A q \in Requests : q < r => runtime[q] # "idle"
  /\ Cardinality(InFlight) < setup.workers /\ Fault
  /\ Go(r, "failed")
  /\ UNCHANGED <<setup, proxyState, aapState, traceState, told>>

Spawn(kind, r) ==
  tasks' = tasks \cup {Task(kind, r, "body", "none")}

invocation_next_proxy(r) ==
  /\ Holds(lock, <<"next", r>>) /\ runtime[r] = "next_lock"
  /\ Spawn("next", r)
  /\ lock' = Tail(lock)
  /\ Go(r, "next_body")
  /\ UNCHANGED <<setup, aapState, traceState, told, shutdown, faults>>

\* TeeBodyWithCompletion: the copy is handed over once, when the body ended or
\* failed half way; a body that is dropped unread ends the task.
send_completion(kind, r, body) ==
  LET t == Task(kind, r, "body", "none")
      analysed == setup.aap /\ (kind = "next" => body = "whole")
  IN /\ t \in tasks
     /\ tasks' = (tasks \ {t}) \cup {Task(kind, r, IF analysed THEN "mutex" ELSE "tell", body)}
     /\ mutex' = IF analysed THEN Append(mutex, <<kind, r>>) ELSE mutex

NextBodyRead(r) ==
  /\ runtime[r] = "next_body"
  /\ send_completion("next", r, "whole")
  /\ Go(r, "running")
  /\ UNCHANGED <<setup, lock, contexts, evicted, learned, traceState, told, shutdown, faults>>

NextBodyBreaks(r) ==
  /\ runtime[r] = "next_body" /\ Fault
  /\ \/ send_completion("next", r, "partial")
     \/ /\ tasks' = {t \in tasks : ~(t.kind = "next" /\ t.r = r)}
        /\ UNCHANGED mutex
  /\ Go(r, "failed")
  /\ UNCHANGED <<setup, lock, contexts, evicted, learned, traceState, told, shutdown>>

\* POST /response: the lock is held until the Runtime API has answered.
CallResponse(r) ==
  /\ runtime[r] = "running"
  /\ Go(r, "response_lock")
  /\ lock' = Append(lock, <<"response", r>>)
  /\ UNCHANGED <<setup, tasks, aapState, traceState, told, shutdown, faults>>

invocation_response_proxy(r) ==
  /\ Holds(lock, <<"response", r>>) /\ runtime[r] = "response_lock"
  /\ Spawn("response", r)
  /\ Go(r, "response_body")
  /\ UNCHANGED <<setup, lock, aapState, traceState, told, shutdown, faults>>

ResponseBodySent(r) ==
  /\ runtime[r] = "response_body"
  /\ send_completion("response", r, "whole")
  /\ Go(r, "response_sent")
  /\ UNCHANGED <<setup, lock, contexts, evicted, learned, traceState, told, shutdown, faults>>

\* An empty body is never polled, and a failed call drops it.
ResponseBodyDropped(r) ==
  /\ runtime[r] = "response_body" /\ Fault
  /\ tasks' = tasks \ {Task("response", r, "body", "none")}
  /\ Go(r, "response_sent")
  /\ UNCHANGED <<setup, lock, aapState, traceState, told, shutdown>>

MutLockNotReleased(r) ==
  /\ runtime[r] = "response_sent"
  /\ Go(r, "done")
  /\ UNCHANGED <<setup, proxyState, aapState, traceState, told, faults>>
ResponseAnswered(r) ==
  /\ runtime[r] = "response_sent"
  /\ lock' = Tail(lock)
  /\ Go(r, "done")
  /\ UNCHANGED <<setup, tasks, aapState, traceState, told, shutdown, faults>>

\* POST /error: the context is finished with a blank response, then the call
\* is passed through.
CallError(r) ==
  /\ runtime[r] = "running"
  /\ Go(r, IF setup.aap THEN "error_mutex" ELSE "error_sent")
  /\ mutex' = IF setup.aap THEN Append(mutex, <<"error", r>>) ELSE mutex
  /\ UNCHANGED <<setup, proxyState, contexts, evicted, learned, traceState, told, faults>>

passthrough_proxy(r) ==
  /\ runtime[r] = "error_sent"
  /\ Go(r, "done")
  /\ UNCHANGED <<setup, proxyState, aapState, traceState, told, faults>>

\* The invocation times out: the runtime never answers it.
RuntimeStops(r) ==
  /\ runtime[r] = "running" /\ Fault
  /\ Go(r, "failed")
  /\ UNCHANGED <<setup, proxyState, aapState, traceState, told>>

-----------------------------------------------------------------------------
\* The tasks.  A held trace goes out while mutex is held, and waits for room.
Room(out) == Len(channel) + Len(out) <= ChannelSize
Pushed(after) ==
  {contexts[i].rid : i \in {j \in DOMAIN contexts : ~contexts[j].seen /\ ~Has(after, contexts[j].rid)}}

Stage(kind, r, from, to) ==
  {IF t.kind = kind /\ t.r = r /\ t.stage = from THEN [t EXCEPT !.stage = to] ELSE t : t \in tasks}

AnalyseNext(r) ==
  /\ Holds(mutex, <<"next", r>>)
  /\ \E spent \in BOOLEAN :
       LET a == process_invocation_next(contexts, r, r \in setup.known, setup.budget, spent)
       IN /\ setup.budget = 0 => ~spent
          /\ Room(a.out)
          /\ contexts' = a.ctxs
          /\ channel' = channel \o a.out
          /\ evicted' = evicted \cup Pushed(a.ctxs)
  /\ mutex' = Tail(mutex)
  /\ tasks' = Stage("next", r, "mutex", "tell")
  /\ UNCHANGED <<setup, runtime, lock, learned, posted, outbox, store, told, shutdown, faults>>

Result(r, parses) ==
  \E sample \in BOOLEAN, spent \in BOOLEAN :
    LET a == process_invocation_result(contexts, r, parses, sample, spent)
    IN /\ Room(a.out)
       /\ contexts' = a.ctxs
       /\ channel' = channel \o a.out
       /\ learned' = IF Has(contexts, r) THEN [learned EXCEPT ![r] = get_context(a.ctxs, r).tags] ELSE learned

AnalyseResponse(r) ==
  /\ Holds(mutex, <<"response", r>>)
  /\ \E parses \in BOOLEAN : Result(r, parses)
  /\ mutex' = Tail(mutex)
  /\ tasks' = Stage("response", r, "mutex", "tell")
  /\ UNCHANGED <<setup, runtime, lock, evicted, posted, outbox, store, told, shutdown, faults>>

invocation_error_proxy(r) ==
  /\ Holds(mutex, <<"error", r>>)
  /\ Result(r, TRUE)
  /\ mutex' = Tail(mutex)
  /\ Go(r, "error_sent")
  /\ UNCHANGED <<setup, proxyState, evicted, posted, outbox, store, told, faults>>

\* The client of a waiting call closes its connection and the handler is dropped
\* where it waits: for the lock, for the mutex, or for room on the channel with the
\* trace already taken from its context, whose response is then never seen.
LockCallDropped(r) ==
  /\ runtime[r] \in {"next_lock", "response_lock"} /\ Fault
  /\ lock' = RemoveFirst(lock, <<IF runtime[r] = "next_lock" THEN "next" ELSE "response", r>>)
  /\ Go(r, "failed")
  /\ UNCHANGED <<setup, tasks, aapState, traceState, told, shutdown>>

ErrorCallDropped(r) ==
  /\ runtime[r] = "error_mutex" /\ Fault
  /\ mutex' = RemoveFirst(mutex, <<"error", r>>)
  /\ Go(r, "failed")
  /\ UNCHANGED <<setup, proxyState, contexts, evicted, learned, traceState, told>>

HandOverDropped(r) ==
  /\ Holds(mutex, <<"error", r>>) /\ Has(contexts, r) /\ Fault
  /\ \E sample \in BOOLEAN, spent \in BOOLEAN :
       LET ctx == Analysed(get_context(contexts, r), TRUE, sample, spent)
       IN /\ ctx.held # NoTrace /\ ~Room(<<ctx.held>>)
          /\ contexts' = Update(contexts, [ctx EXCEPT !.held = NoTrace])
          /\ posted' = [posted EXCEPT ![ctx.held] = "dropped"]
  /\ mutex' = Tail(mutex)
  /\ Go(r, "failed")
  /\ UNCHANGED <<setup, proxyState, evicted, learned, outbox, channel, store, told>>

\* lwa::process_invocation_next, record_dsm_consume_from_invocation_next and
\* lwa::process_invocation_response.
Tell(t) ==
  /\ t \in tasks /\ t.stage = "tell"
  /\ LET mode == get_invocation_next_processing_mode(setup)
         what == IF t.kind = "response" THEN IF setup.lwa THEN {"end"} ELSE {}
                 ELSE IF mode = "UniversalInstrumentation" THEN {"start"}
                 ELSE IF mode = "DsmOnly" THEN {"dsm"} ELSE {}
     IN told' = told \cup {<<w, t.r>> : w \in what}
  /\ tasks' = tasks \ {t}
  /\ UNCHANGED <<setup, runtime, lock, aapState, traceState, shutdown, faults>>

-----------------------------------------------------------------------------
\* SendingTraceProcessor::send_processed_traces.
PostTrace(t) ==
  /\ t \in setup.traces /\ posted[t] = "new"
  /\ RidOf[t] # 0 => runtime[RidOf[t]] \notin {"idle", "next_lock", "next_body"}
  /\ IF setup.aap
       THEN /\ mutex' = Append(mutex, <<"trace", t>>)
            /\ posted' = [posted EXCEPT ![t] = "waiting"]
            /\ UNCHANGED outbox
       ELSE /\ posted' = [posted EXCEPT ![t] = "send"]
            /\ outbox' = [outbox EXCEPT ![t] = <<Sent(t, {}, FALSE)>>]
            /\ UNCHANGED mutex
  /\ UNCHANGED <<setup, runtime, proxyState, contexts, evicted, learned, channel, store, told, faults>>

ProcessTrace(t) ==
  /\ Holds(mutex, <<"trace", t>>)
  /\ LET a == process_span(contexts, t, RidOf[t])
     IN /\ contexts' = a.ctxs
        /\ outbox' = [outbox EXCEPT ![t] = a.out]
        /\ posted' = [posted EXCEPT ![t] = IF a.out = <<>> THEN "accepted" ELSE "send"]
  /\ mutex' = Tail(mutex)
  /\ UNCHANGED <<setup, runtime, proxyState, evicted, learned, channel, store, told, faults>>

SendTrace(t) ==
  /\ posted[t] = "send" /\ Room(outbox[t])
  /\ channel' = channel \o outbox[t]
  /\ outbox' = [outbox EXCEPT ![t] = <<>>]
  /\ posted' = [posted EXCEPT ![t] = "accepted"]
  /\ UNCHANGED <<setup, runtime, proxyState, aapState, store, told, faults>>

\* The tracer's call is dropped like those of the runtime, with what it has to send.
TraceCallDropped(t) ==
  /\ posted[t] \in {"waiting", "send"} /\ Fault
  /\ mutex' = RemoveFirst(mutex, <<"trace", t>>)
  /\ outbox' = [outbox EXCEPT ![t] = <<>>]
  /\ posted' = [posted EXCEPT ![t] = "dropped"]
  /\ UNCHANGED <<setup, runtime, proxyState, contexts, evicted, learned, channel, store, told>>

\* The forwarder to the trace aggregator.  It ends when the aggregator is gone, and
\* only then does a send fail: see AggregatorStops of module TraceIntake.
Forward ==
  /\ channel # <<>>
  /\ store' = [store EXCEPT ![Head(channel).trace] = Append(@, Head(channel))]
  /\ channel' = Tail(channel)
  /\ UNCHANGED <<setup, runtime, proxyState, aapState, posted, outbox, told, faults>>

-----------------------------------------------------------------------------
\* graceful_shutdown
Cancel ==
  /\ setup.stops /\ shutdown = "no"
  /\ shutdown' = "cancelled"
  /\ lock' = Append(lock, <<"shutdown", 0>>)
  /\ UNCHANGED <<setup, runtime, tasks, aapState, traceState, told, faults>>

graceful_shutdown ==
  /\ Holds(lock, <<"shutdown", 0>>)
  /\ IF shutdown = "cancelled"
       THEN shutdown' = "joining" /\ UNCHANGED lock
       ELSE tasks = {} /\ shutdown' = "joined" /\ lock' = Tail(lock)
  /\ UNCHANGED <<setup, runtime, tasks, aapState, traceState, told, faults>>

-----------------------------------------------------------------------------
\* What goes on by itself: the runtime reads what it asked for and the Runtime
\* API answers; the function may run for ever.
Work ==
  \/ Forward \/ graceful_shutdown
  \/ \E t \in tasks : Tell(t)
  \/ \E t \in Traces : SendTrace(t) \/ ProcessTrace(t)
  \/ \E r \in Requests :
       \/ AnalyseNext(r) \/ AnalyseResponse(r) \/ invocation_error_proxy(r)
       \/ invocation_next_proxy(r) \/ NextBodyRead(r)
       \/ invocation_response_proxy(r) \/ ResponseBodySent(r) \/ ResponseAnswered(r)
       \/ passthrough_proxy(r)

Next ==
  \/ Work
  \/ Cancel
  \/ \E t \in Traces : PostTrace(t) \/ TraceCallDropped(t)
  \/ \E r \in Requests :
       \/ LockCallDropped(r) \/ ErrorCallDropped(r) \/ HandOverDropped(r)
       \/ CallNext(r) \/ NextFails(r) \/ NextBodyBreaks(r)
       \/ CallResponse(r) \/ ResponseBodyDropped(r) \/ CallError(r) \/ RuntimeStops(r)

\* The runtime of the extension never idles while one of its tasks can run.
Spec == Init /\ [][Next]_vars /\ WF_vars(Work)

-----------------------------------------------------------------------------
Emitted(t) ==
  {store[t][i] : i \in DOMAIN store[t]} \cup {channel[i] : i \in {j \in DOMAIN channel : channel[j].trace = t}}
Places(t) ==
  ({"stored"} \X DOMAIN store[t])
    \cup ({"sent"} \X {i \in DOMAIN channel : channel[i].trace = t})
    \cup ({"held"} \X {i \in DOMAIN contexts : contexts[i].held = t})
SameRequest(t) == {u \in Traces \ {t} : RidOf[u] = RidOf[t] /\ RidOf[u] # 0}

\* A trace that was accepted is on its way or held for its request, and in one
\* place only, whatever happens to the request: only a second trace of the same
\* request can take its place in Context::held_trace.  A trace is dropped with the
\* call that posted it or, once accepted and held, only with the error call of its
\* own request, and is then in no place.
NoTraceVanishes ==
  \A t \in Traces :
    /\ posted[t] = "accepted" =>
         /\ \A p, q \in Places(t) : p = q
         /\ Places(t) = {} => \E u \in SameRequest(t) : posted[u] \in {"accepted", "dropped"}
    /\ posted[t] = "dropped" => Places(t) = {}

\* A trace that met the context of its request leaves with everything that was
\* learned from request and response, unless the context was pushed out first.
SentFullyTagged ==
  \A t \in Traces : \A e \in Emitted(t) :
    (e.context /\ RidOf[t] \notin evicted) => e.tags = learned[RidOf[t]]

\* No wait cycle between the lock on the tasks, the AppSec mutex and the trace
\* channel: whatever is held up goes on, and shutdown completes.  A held trace
\* then belongs to a request whose response was not seen since its context exists,
\* and no copied body is left unprocessed: with universal instrumentation the
\* invocation processor was told of every invocation the runtime has read.
Settled ==
  /\ lock = <<>> /\ mutex = <<>> /\ tasks = {} /\ channel = <<>>
  /\ InFlight \subseteq {r \in Requests : runtime[r] = "running"}
  /\ \A t \in Traces : posted[t] \in {"new", "accepted", "dropped"}
  /\ shutdown \in {"no", "joined"}
  /\ \A i \in DOMAIN contexts : contexts[i].held # NoTrace => ~contexts[i].seen
  /\ get_invocation_next_processing_mode(setup) = "UniversalInstrumentation" =>
       \A r \in Requests : runtime[r] \notin {"idle", "failed"} => <<"start", r>> \in told
ProxySettles == []<>Settled
=============================================================================
