---------------------------- MODULE OnDemandLoop ----------------------------
(***************************************************************************)
(* The on-demand main loop of bin/bottlecap/main.rs: it owns the           *)
(* FlushingService, so its steps are calls of the service (module          *)
(* Flushing) interleaved with everything the service has in flight.        *)
(*                                                                         *)
(* The Lambda platform is external: it answers next_event with an Invoke   *)
(* once the previous invocation is over, or with a Shutdown, and it emits  *)
(* platform.runtimeDone some time after an invocation is over, possibly    *)
(* after the next one has begun (the Telemetry API buffers).               *)
(***************************************************************************)
EXTENDS Flushing, Sequences

CONSTANTS
  Strategies,        \* names of the strategies the extension may be configured with
  MaxInvocations     \* bound on invocations

\* What evaluate_flush_decision can answer under a strategy.
DecisionsUnder ==
  [Default |-> {"End", "Continuous", "Periodic", "Dont"},
   End |-> {"End"},
   Periodically |-> {"Periodic", "Dont"},
   Continuously |-> {"Continuous", "Dont"},
   EndPeriodically |-> {"End", "Dont"}]

ASSUME LoopAssumption ==
  /\ Strategies \subseteq DOMAIN DecisionsUnder
  /\ MaxInvocations \in Nat

VARIABLES
  flush_strategy,  \* name of the configured strategy
  loop,      \* where the main loop is
  bus,       \* event bus: runtimeDone events not yet received
  invoked,   \* invocations begun (the current one has this number)
  over,      \* invocations whose function is over
  emitted,   \* runtimeDone events emitted
  bare,      \* the invocations whose runtimeDone came without metrics
  closing,   \* next_event was answered with a Shutdown or an error
  cut        \* payloads accepted when the background services were cancelled

loopVars == <<flush_strategy, loop, bus, invoked, over, emitted, bare, closing, cut>>
allVars == <<vars, loopVars>>

Places == {"first_next", "decide", "flush_end", "race_flush", "end_flush", "end_next",
           "spawn", "top_flush", "wait_next", "tick_flush",
           "await", "tombstone", "final", "exit"}

LoopInit ==
  /\ Init
  /\ flush_strategy \in Strategies
  /\ loop = "first_next"
  /\ bus = <<>>
  /\ invoked = 0 /\ over = 0 /\ emitted = 0 /\ bare = {}
  /\ closing = FALSE
  /\ cut = {}

Goto(from, to) == loop = from /\ loop' = to

-----------------------------------------------------------------------------
(* Environment: the platform, the telemetry pipeline, and the producers *)

InvocationOver ==
  /\ over < invoked
  /\ over' = invoked
  /\ UNCHANGED <<flush_strategy, loop, bus, invoked, emitted, bare, closing, cut, vars>>

EmitRuntimeDone ==
  /\ emitted < over /\ loop # "exit"
  /\ \E m \in BOOLEAN :
       /\ bus' = Append(bus, [inv |-> emitted + 1, metrics |-> m])
       /\ bare' = IF m THEN bare ELSE bare \cup {emitted + 1}
  /\ emitted' = emitted + 1
  /\ UNCHANGED <<flush_strategy, loop, invoked, over, closing, cut, vars>>

Produce ==
  /\ loop # "exit"
  /\ \E p \in Payload : Accept(p) \/ RecordConsume(p)
  /\ UNCHANGED loopVars

Fly ==
  /\ loop # "exit"
  /\ \E t \in TaskIds : FlusherStep(t)
  /\ UNCHANGED loopVars

-----------------------------------------------------------------------------
(* extension::next_event and handle_next_invocation *)

AwaitingNext == loop \in {"first_next", "end_next", "wait_next"}

NextInvoke ==
  /\ AwaitingNext
  /\ over = invoked /\ invoked < MaxInvocations /\ ~closing
  /\ invoked' = invoked + 1
  /\ loop' = "decide"
  /\ UNCHANGED <<flush_strategy, bus, over, emitted, bare, closing, cut, vars>>

\* Definitions whose name starts with Mut are plausible wrong versions of the
\* definition that follows them; the runs' properties are shown to reject them.

\* A Shutdown, or an error of next_event, which the loop turns into one.  The
\* first response is not examined: the loop goes on to a decision.
NextShutdown ==
  /\ AwaitingNext
  /\ loop' = IF loop = "first_next" THEN "decide" ELSE "await"
  /\ closing' = TRUE
  /\ UNCHANGED <<flush_strategy, bus, invoked, over, emitted, bare, cut, vars>>

-----------------------------------------------------------------------------
(* The loop body *)

Decide ==
  /\ loop = "decide"
  /\ \E d \in DecisionsUnder[flush_strategy] :
       loop' = [End |-> "flush_end", Continuous |-> "spawn",
                Periodic |-> "top_flush", Dont |-> "wait_next"][d]
  /\ UNCHANGED <<flush_strategy, bus, invoked, over, emitted, bare, closing, cut, vars>>

\* Continuous: flush at the top of the invocation unless one is pending.
SpawnUnlessPending ==
  /\ Goto("spawn", "wait_next")
  /\ IF HasPending \/ round = MaxRounds THEN UNCHANGED vars ELSE SpawnNonBlocking
  /\ UNCHANGED <<flush_strategy, bus, invoked, over, emitted, bare, closing, cut>>

\* The event bus hands over an event.  In 'flush_end the loop is left on a
\* runtimeDone record, which handle_event_bus_event only returns with metrics.
ReceiveEvent ==
  /\ loop \in {"flush_end", "wait_next", "tombstone"}
  /\ bus # <<>>
  /\ bus' = Tail(bus)
  /\ loop' = IF loop = "flush_end" /\ Head(bus).metrics THEN "end_flush" ELSE loop
  /\ UNCHANGED <<flush_strategy, invoked, over, emitted, bare, closing, cut, vars>>

MutTickEndsWait ==
  /\ bus = <<>>
  /\ Goto("flush_end", "end_flush")
  /\ UNCHANGED <<flush_strategy, bus, invoked, over, emitted, bare, closing, cut, vars>>

\* race_flush_interval ticks; the select is biased towards the event bus, and
\* outside 'flush_end only the Default strategy flushes on a tick.
Tick ==
  /\ bus = <<>>
  /\ \/ Goto("flush_end", "race_flush")
     \/ Goto("wait_next", "tick_flush") /\ flush_strategy = "Default"
  /\ UNCHANGED <<flush_strategy, bus, invoked, over, emitted, bare, closing, cut, vars>>

MutFlushWithoutBreak ==
  [race_flush |-> "flush_end", end_flush |-> "flush_end",
   top_flush |-> "wait_next", tick_flush |-> "wait_next"]

\* flush_blocking, at the four places that await it.
AfterFlush ==
  [race_flush |-> "flush_end", end_flush |-> "end_next",
   top_flush |-> "wait_next", tick_flush |-> "wait_next"]

CallFlushBlocking ==
  /\ loop \in DOMAIN AfterFlush
  /\ FlushBlocking("blocking")
  /\ UNCHANGED loopVars

FlushBlockingDone ==
  /\ loop \in DOMAIN AfterFlush
  /\ FlushBlockingReturns
  /\ loop' = AfterFlush[loop]
  /\ UNCHANGED <<flush_strategy, bus, invoked, over, emitted, bare, closing, cut>>

-----------------------------------------------------------------------------
(* The shutdown sequence *)

CallAwaitHandles ==
  /\ loop = "await"
  /\ AwaitHandles
  /\ UNCHANGED loopVars

JoinNextHandle ==
  /\ \E h \in handles : JoinHandle(h)
  /\ UNCHANGED loopVars

AwaitHandlesDone ==
  /\ Goto("await", "tombstone")
  /\ AwaitHandlesReturns
  /\ UNCHANGED <<flush_strategy, bus, invoked, over, emitted, bare, closing, cut>>

\* The Tombstone or the idle timeout ends the wait; then the background
\* services are cancelled.
TombstoneWaitEnds ==
  /\ Goto("tombstone", "final")
  /\ cut' = accepted
  /\ UNCHANGED <<flush_strategy, bus, invoked, over, emitted, bare, closing, vars>>

MutFinalNotForced ==
  /\ loop = "final"
  /\ FlushBlocking("blocking")
  /\ UNCHANGED loopVars

CallFlushBlockingFinal ==
  /\ loop = "final"
  /\ FlushBlocking("final")
  /\ UNCHANGED loopVars

Exit ==
  /\ Goto("final", "exit")
  /\ FlushBlockingReturns
  /\ UNCHANGED <<flush_strategy, bus, invoked, over, emitted, bare, closing, cut>>

LoopStep ==
  \/ Decide \/ SpawnUnlessPending \/ CallFlushBlocking \/ FlushBlockingDone
  \/ CallAwaitHandles \/ JoinNextHandle \/ AwaitHandlesDone
  \/ TombstoneWaitEnds \/ CallFlushBlockingFinal \/ Exit

LoopNext ==
  \/ InvocationOver \/ EmitRuntimeDone \/ Produce \/ Fly
  \/ NextInvoke \/ NextShutdown \/ ReceiveEvent \/ Tick
  \/ LoopStep

LoopSpec == LoopInit /\ [][LoopNext]_allVars

\* Every HTTP attempt has a timeout and tokio runs every ready task, an
\* invocation ends at the latest by its timeout, and the platform reports it.
Fairness ==
  /\ WF_allVars(LoopStep)
  /\ WF_allVars(ReceiveEvent)
  /\ WF_allVars(Fly)
  /\ WF_allVars(InvocationOver)
  /\ WF_allVars(EmitRuntimeDone)

FairSpec == LoopSpec /\ Fairness

-----------------------------------------------------------------------------
(* Properties *)

\* When the process exits, every shipment of every payload accepted before the
\* background services were cancelled was delivered or explicitly given up:
\* nothing is left in an aggregator (stats the concentrator kept back
\* included), in a running task, or in a handle nobody awaited.
ExitSettled ==
  loop = "exit" =>
    \A s \in ShipmentsOf(cut) : delivered[s] > 0 \/ lost[s] # "no"

\* README.md: "FlushDecision::End: Waits for platform.runtimeDone, then
\* performs blocking flush".  Under the End strategy the flush that ends an
\* invocation starts when that invocation is over.
EndFlushAfterInvocation ==
  (flush_strategy = "End" /\ loop = "end_flush") => over = invoked

\* Once a shutdown was taken up, the loop gets through the redrives, the
\* tombstone wait and the final flush, whatever the intake does.
ShutdownTerminates == loop = "await" ~> loop = "exit"

\* With the End decision ("break loop after runtime done, flush everything,
\* call next", main.rs), the extension gets back to next_event after every
\* invocation whose runtimeDone carries metrics, whatever the records of the
\* invocations before it were; otherwise the platform could not finish it.
\* Without metrics handle_event_bus_event does not return the record, and the
\* loop waits on.
EndGetsBackToNext ==
  \A n \in 1 .. MaxInvocations :
    (loop = "flush_end" /\ invoked = n) ~> (loop = "end_next" \/ invoked > n \/ n \in bare)

=============================================================================
