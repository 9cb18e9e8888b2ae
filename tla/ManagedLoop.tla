----------------------------- MODULE ManagedLoop -----------------------------
(***************************************************************************)
(* Managed Instance mode of bin/bottlecap/main.rs.  Three tasks: the       *)
(* background flusher, which owns the FlushingService (module Flushing);   *)
(* the task that waits for SHUTDOWN on next_event; and the main event      *)
(* loop, which drains the event bus and runs the shutdown sequence.        *)
(***************************************************************************)
EXTENDS Flushing

CONSTANT MaxErrors   \* bound on transient next_event errors

ASSUME ErrorAssumption == MaxErrors \in Nat

VARIABLES
  main_at,     \* "events" -> "drain" -> "join" -> "exit"
  flusher,     \* "ticking" -> "await" -> "final" -> "gone"
  waiter,      \* the shutdown task: "waiting" -> "gone"
  errors,      \* transient errors next_event returned
  shutdown,    \* shutdown_cancel_token
  cancelled,   \* telemetry_listener_cancel_token and the other services'
  notified,    \* on_shutdown_event reached the invocation processor
  promised     \* payloads accepted when the services were cancelled

taskVars == <<main_at, flusher, waiter, errors, shutdown, cancelled, notified, promised>>
managedVars == <<vars, taskVars>>

ManagedInit ==
  /\ Init
  /\ main_at = "events" /\ flusher = "ticking" /\ waiter = "waiting"
  /\ errors = 0
  /\ shutdown = FALSE /\ cancelled = FALSE /\ notified = FALSE
  /\ promised = {}

ManagedProduce ==
  main_at # "exit" /\ (\E p \in Payload : Accept(p) \/ RecordConsume(p)) /\ UNCHANGED taskVars
ManagedFly == main_at # "exit" /\ (\E t \in TaskIds : FlusherStep(t)) /\ UNCHANGED taskVars

-----------------------------------------------------------------------------
(* The background flusher task; its select! is not biased *)

FlushTick ==
  /\ flusher = "ticking"
  /\ ~HasPending /\ SpawnNonBlocking
  /\ UNCHANGED taskVars

\* Definitions whose name starts with Mut are plausible wrong versions of the
\* definition that follows them; the runs' properties are shown to reject them.

FlusherCancelled ==
  /\ flusher = "ticking" /\ cancelled
  /\ flusher' = "await"
  /\ AwaitHandles
  /\ UNCHANGED <<main_at, waiter, errors, shutdown, cancelled, notified, promised>>

FlusherJoins ==
  /\ \E h \in handles : JoinHandle(h)
  /\ UNCHANGED taskVars

FlusherAwaited ==
  /\ flusher = "await"
  /\ AwaitHandlesReturns
  /\ flusher' = "final"
  /\ UNCHANGED <<main_at, waiter, errors, shutdown, cancelled, notified, promised>>

FinalFlush ==
  /\ flusher = "final"
  /\ FlushBlocking("final")
  /\ UNCHANGED taskVars

FlusherEnds ==
  /\ flusher = "final"
  /\ FlushBlockingReturns
  /\ flusher' = "gone"
  /\ UNCHANGED <<main_at, waiter, errors, shutdown, cancelled, notified, promised>>

-----------------------------------------------------------------------------
(* The shutdown task *)

\* SHUTDOWN: the invocation processor is notified before the token is
\* cancelled.
ShutdownEvent ==
  /\ waiter = "waiting"
  /\ waiter' = "gone"
  /\ notified' = TRUE
  /\ shutdown' = TRUE
  /\ UNCHANGED <<main_at, flusher, errors, cancelled, promised, vars>>

MutErrorEndsWaiterOnly ==
  /\ waiter = "waiting"
  /\ waiter' = "gone"
  /\ UNCHANGED <<main_at, flusher, errors, shutdown, cancelled, notified, promised, vars>>

\* An unexpected INVOKE or an unrecoverable error only cancels.
EmergencyShutdown ==
  /\ waiter = "waiting"
  /\ waiter' = "gone"
  /\ shutdown' = TRUE
  /\ UNCHANGED <<main_at, flusher, errors, cancelled, notified, promised, vars>>

\* A timeout or connect error is retried.
NextTransientError ==
  /\ waiter = "waiting" /\ errors < MaxErrors
  /\ errors' = errors + 1
  /\ UNCHANGED <<main_at, flusher, waiter, shutdown, cancelled, notified, promised, vars>>

-----------------------------------------------------------------------------
(* The main event loop and the shutdown sequence *)

LeaveEventLoop ==
  /\ main_at = "events" /\ shutdown
  /\ main_at' = "drain"
  /\ UNCHANGED <<flusher, waiter, errors, shutdown, cancelled, notified, promised, vars>>

\* wait_for_tombstone_event ends on its idle timeout, then every background
\* service is cancelled (the logs agent is not among them).
CancelBackgroundServices ==
  /\ main_at = "drain"
  /\ main_at' = "join"
  /\ cancelled' = TRUE
  /\ promised' = accepted
  /\ UNCHANGED <<flusher, waiter, errors, shutdown, notified, vars>>

JoinFlusherTask ==
  /\ main_at = "join" /\ flusher = "gone"
  /\ main_at' = "exit"
  /\ UNCHANGED <<flusher, waiter, errors, shutdown, cancelled, notified, promised, vars>>

FlusherTask == FlusherCancelled \/ FlusherJoins \/ FlusherAwaited \/ FinalFlush \/ FlusherEnds
MainTask == LeaveEventLoop \/ CancelBackgroundServices \/ JoinFlusherTask

ManagedNext ==
  \/ ManagedProduce \/ ManagedFly
  \/ FlushTick \/ FlusherTask
  \/ ShutdownEvent \/ EmergencyShutdown \/ NextTransientError
  \/ MainTask

ManagedSpec == ManagedInit /\ [][ManagedNext]_managedVars

\* tokio runs every ready task; every HTTP attempt has a timeout.  A tick may
\* win the unbiased select! against the cancellation, but not for ever.
ManagedFairSpec ==
  /\ ManagedSpec
  /\ WF_managedVars(ManagedFly)
  /\ WF_managedVars(FlusherTask)
  /\ WF_managedVars(MainTask)

-----------------------------------------------------------------------------
(* Properties *)

\* At exit every shipment of every payload accepted before the services were
\* cancelled was delivered or explicitly given up.
ManagedExitSettled ==
  main_at = "exit" =>
    \A s \in ShipmentsOf(promised) : delivered[s] > 0 \/ lost[s] # "no"

\* Once the shutdown task has ended, for whatever reason, the process exits.
ManagedTerminates == waiter = "gone" ~> main_at = "exit"
=============================================================================
