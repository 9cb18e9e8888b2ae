------------------------- MODULE TelemetryPipeline -------------------------
(***************************************************************************)
(* The way of a telemetry event through four tasks and three bounded       *)
(* channels, the channel that leads back, and how they are shut down:      *)
(*   POST -> TelemetryListener::handle -> logs channel -> LogsAgent::spin  *)
(*        -> event bus -> main loop -> commands -> invocation processor    *)
(*        -> durable contexts -> LogsAgent::spin                           *)
(* extension/telemetry/listener.rs, logs/agent.rs, event_bus/mod.rs,       *)
(* lifecycle/invocation/processor_service.rs and the shutdown sequence of  *)
(* bin/bottlecap/main.rs (on-demand mode).                                 *)
(*                                                                         *)
(* What the logs processor does with an event is module LambdaLogs; here   *)
(* an event is forwarded to the bus or only goes to the logs aggregator.   *)
(* What the invocation processor does with a command is Invocation; here   *)
(* it answers, or forwards a durable context to the logs agent.            *)
(***************************************************************************)
EXTENDS Integers, Sequences

CONSTANTS
  Posts,       \* the POSTs of the Telemetry API
  EventCount,  \* [Posts -> number of events in the body, once parsed]
  Forwarded,   \* the events that also go to the event bus
  LogsCap,     \* capacity of the logs channel (1000)
  BusCap,      \* capacity of the event bus (100)
  Answered,    \* the forwarded events whose command is answered
  CommandCap,  \* capacity of the processor's command channel (1000)
  DurableCap,  \* capacity of the durable context channel (500)
  MaxUpdates   \* durable contexts the trace agent forwards

Events == UNION {{p} \X (1 .. EventCount[p]) : p \in Posts}
Nothing == <<>>
Tombstone == <<"Tombstone">>
Update == <<"ForwardDurableContext">>
Notice == <<"InvokeEvent or OnShutdownEvent">>   \* commands of the main loop's own

ASSUME PostAssumption == EventCount \in [Posts -> Nat] /\ Forwarded \subseteq Events
ASSUME AnsweredAssumption == Answered \subseteq Forwarded
ASSUME CapAssumption ==
  {LogsCap, BusCap, CommandCap, DurableCap} \subseteq Nat \ {0} /\ MaxUpdates \in Nat

VARIABLES
  post,        \* [Posts -> "none", "sending", "ok" (200) or "refused" (503)]
  sent,        \* [Posts -> events of it already on the logs channel]
  listener,    \* "serving" -> "stopping" -> "gone"
  logs,        \* the logs channel
  rx_open,     \* the agent has not closed its receiver
  agent,       \* "spin" -> "drain" (-> "rest") -> "tombstone" -> "gone"
  current,     \* the event the agent is processing
  processed,   \* events the processor is done with
  bus,         \* the event bus
  main_at,     \* "loop", "busy", "await", "tombstone", "final", "exit"
  handled,     \* events handle_event_bus_event is done with
  cancelled,   \* the listener's and the agent's cancel tokens
  buried,      \* the main loop received the Tombstone
  handling,    \* the event handle_event_bus_event is at
  asked,       \* its command is sent and the answer awaited
  commands,    \* the command channel of the invocation processor
  command,     \* the command it is processing
  durable,     \* number of updates on the durable context channel
  updates      \* updates the trace agent has forwarded

vars == <<post, sent, listener, logs, rx_open, agent, current, processed, bus,
          main_at, handled, cancelled, buried, handling, asked, commands, command, durable, updates>>
postVars == <<post, sent, listener>>
agentVars == <<agent, current, processed, rx_open>>
mainVars == <<main_at, handled, cancelled, buried, handling, asked>>
procVars == <<commands, command, updates>>

Init ==
  /\ post = [p \in Posts |-> "none"] /\ sent = [p \in Posts |-> 0]
  /\ listener = "serving"
  /\ logs = <<>> /\ rx_open = TRUE
  /\ agent = "spin" /\ current = Nothing /\ processed = {}
  /\ bus = <<>>
  /\ main_at = "loop" /\ handled = {} /\ cancelled = FALSE /\ buried = FALSE
  /\ handling = Nothing /\ asked = FALSE
  /\ commands = <<>> /\ command = Nothing /\ durable = 0 /\ updates = 0

Alive == main_at # "exit"

\* Definitions whose name starts with Mut are plausible wrong versions of the
\* definition that follows them; the runs' properties are shown to reject them.

-----------------------------------------------------------------------------
(* TelemetryListener *)

BeginPost(p) ==
  /\ Alive /\ listener = "serving" /\ post[p] = "none"
  /\ post' = [post EXCEPT ![p] = "sending"]
  /\ UNCHANGED <<sent, listener, logs, agentVars, bus, mainVars, procVars, durable>>

\* logs_tx.send(event).await: waits for room, fails once the receiver is closed
\* or dropped.
Closed == ~rx_open \/ agent = "gone"

SendEvent(p) ==
  /\ Alive /\ post[p] = "sending" /\ sent[p] < EventCount[p]
  /\ ~Closed /\ Len(logs) < LogsCap
  /\ sent' = [sent EXCEPT ![p] = @ + 1]
  /\ logs' = Append(logs, <<p, sent[p] + 1>>)
  /\ UNCHANGED <<post, listener, agentVars, bus, mainVars, procVars, durable>>

AnswerServiceUnavailable(p) ==
  /\ Alive /\ post[p] = "sending" /\ sent[p] < EventCount[p]
  /\ Closed
  /\ post' = [post EXCEPT ![p] = "refused"]
  /\ UNCHANGED <<sent, listener, logs, agentVars, bus, mainVars, procVars, durable>>

AnswerOk(p) ==
  /\ Alive /\ post[p] = "sending" /\ sent[p] = EventCount[p]
  /\ post' = [post EXCEPT ![p] = "ok"]
  /\ UNCHANGED <<sent, listener, logs, agentVars, bus, mainVars, procVars, durable>>

\* axum's graceful shutdown: no new connections, then wait for the handlers;
\* the last sender of the logs channel is dropped with the router.
StopListening ==
  /\ Alive /\ cancelled /\ listener = "serving"
  /\ listener' = "stopping"
  /\ UNCHANGED <<post, sent, logs, agentVars, bus, mainVars, procVars, durable>>

ListenerGone ==
  /\ Alive /\ listener = "stopping"
  /\ \A p \in Posts : post[p] # "sending"
  /\ listener' = "gone"
  /\ UNCHANGED <<post, sent, logs, agentVars, bus, mainVars, procVars, durable>>

-----------------------------------------------------------------------------
(* LogsAgent::spin *)

\* The three recv loops; the first one races an unbiased select!.
Receive ==
  /\ Alive /\ agent \in {"spin", "drain", "rest"} /\ current = Nothing
  /\ logs # <<>>
  /\ current' = Head(logs)
  /\ logs' = Tail(logs)
  /\ UNCHANGED <<agent, processed, rx_open, postVars, bus, mainVars, procVars, durable>>

\* Context updates are only received before the cancellation.
ReceiveUpdate ==
  /\ Alive /\ agent = "spin" /\ current = Nothing
  /\ durable > 0
  /\ durable' = durable - 1
  /\ UNCHANGED <<agentVars, postVars, logs, bus, mainVars, procVars>>

MutForwardIfRoom ==
  /\ Alive /\ current # Nothing
  /\ bus' = IF current \in Forwarded /\ Len(bus) < BusCap THEN Append(bus, current) ELSE bus
  /\ processed' = processed \cup {current}
  /\ current' = Nothing
  /\ UNCHANGED <<agent, rx_open, logs, postVars, mainVars, procVars, durable>>

\* LogsProcessor::process: the send on the event bus waits for room.
ProcessCurrent ==
  /\ Alive /\ current # Nothing
  /\ \/ current \notin Forwarded /\ UNCHANGED bus
     \/ current \in Forwarded /\ Len(bus) < BusCap /\ bus' = Append(bus, current)
  /\ processed' = processed \cup {current}
  /\ current' = Nothing
  /\ UNCHANGED <<agent, rx_open, logs, postVars, mainVars, procVars, durable>>

AgentCancelled ==
  /\ Alive /\ agent = "spin" /\ current = Nothing /\ cancelled
  /\ agent' = "drain"
  /\ UNCHANGED <<current, processed, rx_open, postVars, logs, bus, mainVars, procVars, durable>>

\* Both ends of the drain: the updates that are there are applied, then the held
\* logs go out (module LambdaLogs).
Disconnected ==
  /\ Alive /\ agent = "drain" /\ current = Nothing
  /\ logs = <<>> /\ listener = "gone"
  /\ agent' = "tombstone"
  /\ durable' = 0
  /\ UNCHANGED <<current, processed, rx_open, postVars, logs, bus, mainVars, procVars>>

MutTimeoutSkipsTheRest ==
  /\ Alive /\ agent = "drain" /\ current = Nothing
  /\ agent' = "tombstone"
  /\ rx_open' = FALSE
  /\ UNCHANGED <<current, processed, postVars, logs, bus, mainVars, procVars, durable>>

\* DRAIN_TIMEOUT passed: refuse later sends, keep what was accepted.
DrainTimeout ==
  /\ Alive /\ agent = "drain" /\ current = Nothing
  /\ agent' = "rest"
  /\ rx_open' = FALSE
  /\ UNCHANGED <<current, processed, postVars, logs, bus, mainVars, procVars, durable>>

RestDrained ==
  /\ Alive /\ agent = "rest" /\ current = Nothing
  /\ logs = <<>>
  /\ agent' = "tombstone"
  /\ durable' = 0
  /\ UNCHANGED <<current, processed, rx_open, postVars, logs, bus, mainVars, procVars>>

SendTombstone ==
  /\ Alive /\ agent = "tombstone"
  /\ Len(bus) < BusCap
  /\ bus' = Append(bus, Tombstone)
  /\ agent' = "gone"
  /\ UNCHANGED <<current, processed, rx_open, postVars, logs, mainVars, procVars, durable>>

-----------------------------------------------------------------------------
(* The main loop *)

MainIs(at) == main_at = at /\ handling = Nothing
otherVars == <<postVars, agentVars, logs, durable>>

\* invocation_processor_handle: the send waits for room on the command channel.
Sending(c) ==
  /\ Len(commands) < CommandCap
  /\ commands' = Append(commands, c)
  /\ UNCHANGED <<command, updates>>

\* A blocking flush, or next_event after the flush that ends an invocation:
\* nobody receives from the event bus meanwhile.
LeaveSelect ==
  /\ MainIs("loop")
  /\ main_at' = "busy"
  /\ UNCHANGED <<handled, cancelled, buried, handling, asked, bus, procVars, otherVars>>

\* next_event comes back with an invocation, which the processor is told of.
BackToSelect ==
  /\ MainIs("busy")
  /\ UNCHANGED procVars \/ Sending(Notice)
  /\ main_at' = "loop"
  /\ UNCHANGED <<handled, cancelled, buried, handling, asked, bus, otherVars>>

ReceiveEvent ==
  /\ MainIs("loop") \/ MainIs("tombstone")
  /\ bus # <<>> /\ Head(bus) # Tombstone
  /\ handling' = Head(bus)
  /\ bus' = Tail(bus)
  /\ UNCHANGED <<main_at, handled, asked, cancelled, buried, procVars, otherVars>>

\* handle_event_bus_event: one command; runtimeDone and report wait for the
\* answer.
HandleEvent ==
  /\ handling # Nothing /\ ~asked
  /\ Sending(handling)
  /\ IF handling \in Answered
     THEN asked' = TRUE /\ UNCHANGED <<handling, handled>>
     ELSE handling' = Nothing /\ handled' = handled \cup {handling} /\ UNCHANGED asked
  /\ UNCHANGED <<main_at, cancelled, buried, bus, otherVars>>

\* on_shutdown_event, unless next_event failed; cancel the listener, then the
\* agent; then await_handles.
BeginShutdown ==
  /\ MainIs("loop")
  /\ UNCHANGED procVars \/ Sending(Notice)
  /\ main_at' = "await"
  /\ cancelled' = TRUE
  /\ UNCHANGED <<handled, buried, handling, asked, bus, otherVars>>

MutAwaitTombstoneFirst ==
  /\ MainIs("await") /\ agent = "gone"
  /\ main_at' = "tombstone"
  /\ UNCHANGED <<handled, cancelled, buried, handling, asked, bus, procVars, otherVars>>

AwaitHandlesReturns ==
  /\ MainIs("await")
  /\ main_at' = "tombstone"
  /\ UNCHANGED <<handled, cancelled, buried, handling, asked, bus, procVars, otherVars>>

\* wait_for_tombstone_event: the Tombstone, or nothing for 300 ms.
ReceiveTombstone ==
  /\ MainIs("tombstone")
  /\ bus # <<>> /\ Head(bus) = Tombstone
  /\ bus' = Tail(bus)
  /\ buried' = TRUE
  /\ main_at' = "final"
  /\ UNCHANGED <<handled, cancelled, handling, asked, procVars, otherVars>>

IdleTimeout ==
  /\ MainIs("tombstone")
  /\ main_at' = "final"
  /\ UNCHANGED <<handled, cancelled, buried, handling, asked, bus, procVars, otherVars>>

FinalFlushDone ==
  /\ MainIs("final")
  /\ main_at' = "exit"
  /\ UNCHANGED <<handled, cancelled, buried, handling, asked, bus, procVars, otherVars>>

-----------------------------------------------------------------------------
(* InvocationProcessorService::run *)

\* A durable context in a trace: process_traces sends the command.
TraceAgentForwards ==
  /\ Alive /\ updates < MaxUpdates /\ Len(commands) < CommandCap
  /\ commands' = Append(commands, Update)
  /\ updates' = updates + 1
  /\ UNCHANGED <<command, postVars, agentVars, logs, bus, mainVars, durable>>

TakeCommand ==
  /\ Alive /\ command = Nothing /\ commands # <<>>
  /\ command' = Head(commands)
  /\ commands' = Tail(commands)
  /\ UNCHANGED <<updates, postVars, agentVars, logs, bus, mainVars, durable>>

MutProcessesWithoutAnswer ==
  /\ Alive /\ command \notin {Nothing, Update}
  /\ command' = Nothing
  /\ UNCHANGED <<commands, updates, postVars, agentVars, logs, bus, mainVars, durable>>

\* response.send(()) lets the main loop go on.
ProcessCommand ==
  /\ Alive /\ command \notin {Nothing, Update}
  /\ command' = Nothing
  /\ IF asked /\ command = handling
     THEN handling' = Nothing /\ asked' = FALSE /\ handled' = handled \cup {command}
     ELSE UNCHANGED <<handling, asked, handled>>
  /\ UNCHANGED <<commands, updates, postVars, agentVars, logs, bus, main_at, cancelled, buried, durable>>

\* The send waits for room on the channel, or fails once the agent is gone.
forward_durable_context ==
  /\ Alive /\ command = Update
  /\ \/ agent # "gone" /\ durable < DurableCap /\ durable' = durable + 1
     \/ agent = "gone" /\ UNCHANGED durable
  /\ command' = Nothing
  /\ UNCHANGED <<commands, updates, postVars, agentVars, logs, bus, mainVars>>

-----------------------------------------------------------------------------
Handler(p) == SendEvent(p) \/ AnswerServiceUnavailable(p) \/ AnswerOk(p)
Listener == StopListening \/ ListenerGone \/ \E p \in Posts : Handler(p)
Agent ==
  \/ Receive \/ ReceiveUpdate \/ ProcessCurrent \/ AgentCancelled \/ Disconnected \/ RestDrained \/ SendTombstone
Main ==
  \/ BackToSelect \/ ReceiveEvent \/ HandleEvent \/ AwaitHandlesReturns \/ ReceiveTombstone \/ FinalFlushDone

Processor == TakeCommand \/ ProcessCommand \/ forward_durable_context

Next ==
  \/ TraceAgentForwards \/ Processor
  \/ \E p \in Posts : BeginPost(p)
  \/ Listener
  \/ Agent \/ DrainTimeout
  \/ LeaveSelect \/ BeginShutdown \/ IdleTimeout
  \/ Main

Spec == Init /\ [][Next]_vars

\* tokio runs every ready task, flushes end, the platform answers next_event,
\* and the drain has a deadline.  The main loop may start to flush while events
\* wait, but its selects prefer the event bus to the flush tick and it waits in
\* one of them in every invocation, so it cannot put an event off for ever:
\* strong fairness of ReceiveEvent.  The idle timeout and the shutdown itself
\* need not come.
FairSpec ==
  /\ Spec
  /\ \A p \in Posts : WF_vars(Handler(p))
  /\ WF_vars(StopListening) /\ WF_vars(ListenerGone)
  /\ WF_vars(Agent)
  /\ WF_vars(DrainTimeout)
  /\ WF_vars(Processor)
  /\ WF_vars(Main) /\ SF_vars(ReceiveEvent)

-----------------------------------------------------------------------------
(* Properties *)

\* Type correctness of the tasks and channels.
TypeOK ==
  /\ post \in [Posts -> {"none", "sending", "ok", "refused"}]
  /\ sent \in [Posts -> Nat] /\ \A p \in Posts : sent[p] <= EventCount[p]
  /\ listener \in {"serving", "stopping", "gone"}
  /\ logs \in Seq(Events) /\ Len(logs) <= LogsCap
  /\ rx_open \in BOOLEAN
  /\ agent \in {"spin", "drain", "rest", "tombstone", "gone"}
  /\ current \in Events \cup {Nothing}
  /\ processed \subseteq Events
  /\ bus \in Seq(Forwarded \cup {Tombstone}) /\ Len(bus) <= BusCap
  /\ main_at \in {"loop", "busy", "await", "tombstone", "final", "exit"}
  /\ handled \subseteq Forwarded
  /\ cancelled \in BOOLEAN /\ buried \in BOOLEAN
  /\ handling \in Forwarded \cup {Nothing} /\ (asked => handling \in Answered)
  /\ commands \in Seq(Forwarded \cup {Update, Notice}) /\ Len(commands) <= CommandCap
  /\ command \in Forwarded \cup {Update, Notice, Nothing}
  /\ durable \in 0 .. DurableCap /\ updates \in 0 .. MaxUpdates

\* Every event the listener ever put on the logs channel.
Taken == {e \in Events : e[2] <= sent[e[1]]}

\* When the main loop has received the Tombstone, every event the listener took
\* (those of POSTs answered with 200 and the sent part of refused ones) has been
\* processed, and the forwarded ones have been handled ("The agent sends the
\* Tombstone only after it has forwarded every telemetry event to the event
\* bus", main.rs).
TombstoneComesLast ==
  buried => Taken \subseteq processed /\ Taken \cap Forwarded \subseteq handled

\* A taken event is never dropped on the way, at full channels or in the
\* shutdown: it is on a channel, in the agent's hands, or through.
NoEventDropped ==
  \A e \in Taken :
    \/ \E j \in DOMAIN logs : logs[j] = e
    \/ current = e
    \/ e \in processed /\ (e \in Forwarded => e \in handled \cup {handling} \/ \E j \in DOMAIN bus : bus[j] = e)

\* The channels form a ring: the agent waits for the event bus, the main loop
\* for the processor's answer, the processor for room on the durable context
\* channel, which only the agent empties, and not at all once it is cancelled.
\* The ring closes when the processor holds one context more than that channel has
\* room for and nobody makes room any more.
RingCloses == <>[](command = Update /\ durable = DurableCap)

\* Unless the ring closes, nobody waits for ever and every POST is answered or the
\* process exits first.
EveryPostAnswered ==
  RingCloses \/ \A p \in Posts : post[p] = "sending" ~> (post[p] \in {"ok", "refused"} \/ ~Alive)

\* Unless the ring closes, a shutdown completes even if the idle timeout never
\* fires: the agent, the listener, the processor and the main loop do not end up
\* waiting for one another in any other way, whatever the other channels hold when
\* it begins.
ShutdownCompletes == RingCloses \/ (cancelled ~> ~Alive)
=============================================================================
