---------------------------- MODULE FlushControl ----------------------------
(***************************************************************************)
(* When the extension flushes: lifecycle/flush_control.rs together with    *)
(* the ring of past invocation times of lifecycle/invocation_times.rs.     *)
(*                                                                         *)
(* The main loop calls evaluate_flush_decision once per invocation.  Time  *)
(* is SystemTime in whole seconds: nothing makes it monotone, so every     *)
(* evaluation reads an arbitrary clock value.  u64 subtraction wraps (the  *)
(* release profile has no overflow checks), hence Sub is modulo U64.       *)
(***************************************************************************)
EXTENDS Integers, Sequences

CONSTANTS
  LOOKBACK_COUNT,       \* entries of the ring of invocation times (20)
  ONE_TWENTY_SECONDS,   \* average gap below which Default adapts, seconds
  TWENTY_SECONDS,       \* interval of the adapted strategies, milliseconds
  DEFAULT_CONTINUOUS_FLUSH_INTERVAL,  \* enforced in managed mode, ms
  FlushTimeout,         \* config.flush_timeout, seconds
  Intervals,            \* configurable intervals, milliseconds
  MaxTime,              \* the clock reads 1 .. MaxTime (0 is the empty slot)
  U64,                  \* modulus of u64 arithmetic
  MaxInvocations        \* bound on the invocations explored

ASSUME LookbackAssumption == LOOKBACK_COUNT \in Nat /\ LOOKBACK_COUNT > 1
ASSUME IntervalAssumption ==
  /\ Intervals \subseteq Nat
  /\ TWENTY_SECONDS \in Nat
  /\ DEFAULT_CONTINUOUS_FLUSH_INTERVAL \in Nat
ASSUME ThresholdAssumption == ONE_TWENTY_SECONDS \in Nat /\ FlushTimeout \in Nat
ASSUME BoundAssumption == MaxTime \in Nat \ {0} /\ MaxInvocations \in Nat

\* A u64 holds any clock value, any interval and the adaptation threshold
\* with so much room that a wrapped difference exceeds all of them.
ASSUME U64Assumption ==
  /\ U64 \in Nat
  /\ \A i \in Intervals \cup {TWENTY_SECONDS, DEFAULT_CONTINUOUS_FLUSH_INTERVAL} : MaxTime + i < U64
  /\ MaxTime + ONE_TWENTY_SECONDS * (LOOKBACK_COUNT - 1) < U64

VARIABLES
  flush_strategy,   \* the configured FlushStrategy
  last_flush,       \* time of the last interval-driven flush decision
  times,            \* InvocationTimes.times
  head,             \* InvocationTimes.head
  decision,         \* the latest FlushDecision ("None" before the first)
  hist              \* history: the clock value of every evaluation

vars == <<flush_strategy, last_flush, times, head, decision, hist>>

Time == 1 .. MaxTime
Slots == 0 .. LOOKBACK_COUNT - 1

Named(name, interval) == [name |-> name, interval |-> interval]
IntervalStrategies == {"Periodically", "Continuously", "EndPeriodically"}

\* FlushStrategy: Default and End carry no interval.
FlushStrategies ==
  {Named("Default", 0), Named("End", 0)}
    \cup {Named(n, i) : n \in IntervalStrategies, i \in Intervals}

FlushDecisions == {"Continuous", "Periodic", "End", "Dont"}

\* Definitions whose name starts with Mut are plausible wrong versions of the
\* definition that follows them; the runs' properties are shown to reject them.

\* The strategy the main loop runs with, for a configured one.
get_flush_strategy_for_mode(managed, configured) ==
  IF ~managed \/ configured.name = "Continuously"
    THEN configured
    ELSE Named("Continuously", DEFAULT_CONTINUOUS_FLUSH_INTERVAL)

Sub(a, b) == (a - b) % U64

-----------------------------------------------------------------------------
\* InvocationTimes::add on the pair (times, head)
TimesAfterAdd(now) == [times EXCEPT ![head] = now]
HeadAfterAdd == (head + 1) % LOOKBACK_COUNT

\* InvocationTimes::evaluate_concrete_strategy on a ring ts with head h.
\* elapsed / (LOOKBACK_COUNT - 1) < 120.0 is stated without the division.
MutOldestIsSlotZero(ts, h, now) ==
  IF flush_strategy.name # "Default" THEN flush_strategy
  ELSE IF Sub(now, ts[0]) >= ONE_TWENTY_SECONDS * (LOOKBACK_COUNT - 1)
    THEN Named("End", 0) ELSE Named("Periodically", TWENTY_SECONDS)
evaluate_concrete_strategy(ts, h, now) ==
  IF flush_strategy.name # "Default" THEN flush_strategy
  ELSE IF \E idx \in h .. LOOKBACK_COUNT - 1 : ts[idx] = 0 THEN Named("End", 0)
  ELSE LET elapsed == Sub(now, ts[h])
       IN  IF elapsed >= ONE_TWENTY_SECONDS * (LOOKBACK_COUNT - 1)
             THEN Named("End", 0)
             ELSE Named(IF elapsed < FlushTimeout THEN "Continuously" ELSE "Periodically",
                        TWENTY_SECONDS)

MutSaturatingSub(now, interval) == now - last_flush > interval \div 1000
interval_passed(now, interval) == Sub(now, last_flush) > interval \div 1000

\* The FlushDecision of a concrete strategy whose interval has passed.
DecisionOf ==
  [Periodically |-> "Periodic", Continuously |-> "Continuous",
   EndPeriodically |-> "End", End |-> "End"]

evaluate_flush_decision(now) ==
  LET concrete == evaluate_concrete_strategy(TimesAfterAdd(now), HeadAfterAdd, now)
      passed == concrete.name = "End" \/ interval_passed(now, concrete.interval)
  IN  /\ Len(hist) < MaxInvocations
      /\ times' = TimesAfterAdd(now)
      /\ head' = HeadAfterAdd
      /\ decision' = IF passed THEN DecisionOf[concrete.name] ELSE "Dont"
      /\ last_flush' = IF passed /\ concrete.name # "End" THEN now ELSE last_flush
      /\ hist' = Append(hist, now)
      /\ UNCHANGED flush_strategy

\* FlushControl::new
Init ==
  /\ \E managed \in BOOLEAN, configured \in FlushStrategies :
        flush_strategy = get_flush_strategy_for_mode(managed, configured)
  /\ last_flush \in Time
  /\ times = [s \in Slots |-> 0]
  /\ head = 0
  /\ decision = "None"
  /\ hist = <<>>

Next == \E now \in Time : evaluate_flush_decision(now)

Spec == Init /\ [][Next]_vars

-----------------------------------------------------------------------------
Strategies ==
  FlushStrategies \cup {Named("Continuously", DEFAULT_CONTINUOUS_FLUSH_INTERVAL)}

\* Type correctness of FlushControl and InvocationTimes.
TypeOK ==
  /\ flush_strategy \in Strategies
  /\ last_flush \in Time
  /\ times \in [Slots -> 0 .. MaxTime]
  /\ head \in Slots
  /\ decision \in FlushDecisions \cup {"None"}
  /\ hist \in Seq(Time)

\* The slot written k evaluations ago.
SlotBack(k) == IF k <= head THEN head - k ELSE head - k + LOOKBACK_COUNT

\* The ring always holds exactly the last LOOKBACK_COUNT evaluation times and
\* zeroes in the slots never written, so times[head] is the oldest one once the
\* ring is full and 0 before (invocation_times.rs add and the "buffer isn't
\* full" loop, which only looks at the slots from head on).
RingHoldsLastInvocations ==
  \A k \in 1 .. LOOKBACK_COUNT :
    times[SlotBack(k)] = IF k <= Len(hist) THEN hist[Len(hist) - k + 1] ELSE 0

\* What the comments of evaluate_concrete_strategy promise for Default, stated
\* on the whole history of clock readings instead of the ring.
AdaptedName ==
  LET n == Len(hist)
      span == hist[n] - hist[n - LOOKBACK_COUNT + 1]
  IN  IF n < LOOKBACK_COUNT THEN "End"
      ELSE IF span < 0 \/ span >= ONE_TWENTY_SECONDS * (LOOKBACK_COUNT - 1) THEN "End"
      ELSE IF span < FlushTimeout THEN "Continuous" ELSE "Periodic"

\* With the Default strategy the extension flushes at the end of the invocation
\* until LOOKBACK_COUNT invocations were seen and whenever they come two minutes
\* apart or the clock went back over the window; otherwise it never waits for
\* the end: it flushes at the start in the mode the average gap calls for, or
\* not at all.
DefaultAdaptsToHistory ==
  (flush_strategy.name = "Default" /\ hist # <<>>) =>
    decision \in IF AdaptedName = "End" THEN {"End"} ELSE {AdaptedName, "Dont"}

\* Skipping a flush is only ever decided while the last one is at most the
\* interval old, whatever the wall clock did in between: a clock set back
\* makes the wrapped difference huge, so it flushes instead of going silent
\* until the old time is reached again (flush_control.rs interval_passed).
SkippedOnlyWhileFresh ==
  decision = "Dont" =>
    LET now == hist[Len(hist)]
        interval == IF flush_strategy.name = "Default"
                      THEN TWENTY_SECONDS ELSE flush_strategy.interval
    IN  now - last_flush \in 0 .. interval \div 1000
=============================================================================
