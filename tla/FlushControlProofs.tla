------------------------- MODULE FlushControlProofs -------------------------
(***************************************************************************)
(* FlushControl holds for every ring size, interval, threshold and clock   *)
(* range, and for any number of invocations.                               *)
(***************************************************************************)
EXTENDS FlushControl, TLAPS

\* The head of the ring moves to the next slot and wraps at the last one.
LEMMA HeadWraps ==
  ASSUME NEW h \in Slots
  PROVE  (h + 1) % LOOKBACK_COUNT = IF h + 1 = LOOKBACK_COUNT THEN 0 ELSE h + 1
<1>1. LOOKBACK_COUNT \in Nat /\ LOOKBACK_COUNT > 1 /\ h \in Int /\ 0 <= h /\ h < LOOKBACK_COUNT
  BY LookbackAssumption DEF Slots
<1>2. CASE h + 1 = LOOKBACK_COUNT
  BY <1>1, <1>2
<1>3. CASE h + 1 < LOOKBACK_COUNT
  BY <1>1, <1>3
<1> QED BY <1>1, <1>2, <1>3

\* Wrapping subtraction: exact when it does not underflow, and beyond every
\* bound the code compares it with when it does.
LEMMA SubWraps ==
  ASSUME NEW a \in Time, NEW b \in Time
  PROVE  Sub(a, b) = IF b <= a THEN a - b ELSE a - b + U64
<1>1. U64 \in Nat /\ MaxTime < U64
  BY U64Assumption, IntervalAssumption, BoundAssumption DEF Time
<1>2. a \in Int /\ b \in Int /\ 1 <= a /\ a <= MaxTime /\ 1 <= b /\ b <= MaxTime /\ MaxTime \in Int
  BY BoundAssumption DEF Time
<1>3. CASE b <= a
  BY <1>1, <1>2, <1>3 DEF Sub
<1>4. CASE a < b
  <2>1. a - b + U64 \in 0 .. U64 - 1
    BY <1>1, <1>2, <1>4
  <2> QED BY <2>1, <1>1, <1>2, <1>4 DEF Sub
<1> QED BY <1>2, <1>3, <1>4

\* The concrete strategy is one of the four with an interval from the code.
LEMMA ConcreteType ==
  ASSUME flush_strategy \in Strategies, NEW ts, NEW h, NEW now
  PROVE  LET c == evaluate_concrete_strategy(ts, h, now)
         IN  /\ c.name \in IntervalStrategies \cup {"End"}
             /\ flush_strategy.name = "Default" /\ c.name # "End" => c.interval = TWENTY_SECONDS
             /\ flush_strategy.name # "Default" => c = flush_strategy
BY DEF Strategies, FlushStrategies, Named, evaluate_concrete_strategy, IntervalStrategies

\* Type correctness of the flush controller.
THEOREM TypeCorrect == Spec => []TypeOK
<1>1. Init => TypeOK
  BY LookbackAssumption, BoundAssumption
  DEF Init, TypeOK, get_flush_strategy_for_mode, Strategies, Slots, Time
<1>2. TypeOK /\ [Next]_vars => TypeOK'
  <2> SUFFICES ASSUME TypeOK, [Next]_vars PROVE TypeOK'
    OBVIOUS
  <2>1. ASSUME NEW now \in Time, evaluate_flush_decision(now) PROVE TypeOK'
    <3> DEFINE c == evaluate_concrete_strategy(TimesAfterAdd(now), HeadAfterAdd, now)
    <3>1. c.name \in IntervalStrategies \cup {"End"}
      BY ConcreteType DEF TypeOK
    <3>2. decision' \in FlushDecisions
      BY <2>1, <3>1
      DEF evaluate_flush_decision, FlushDecisions, DecisionOf, IntervalStrategies
    <3>3. times' \in [Slots -> 0 .. MaxTime]
      BY <2>1, BoundAssumption DEF evaluate_flush_decision, TimesAfterAdd, TypeOK, Time
    <3>4. head' \in Slots
      BY <2>1, HeadWraps, LookbackAssumption
      DEF evaluate_flush_decision, HeadAfterAdd, TypeOK, Slots
    <3>5. last_flush' \in Time /\ hist' \in Seq(Time) /\ flush_strategy' \in Strategies
      BY <2>1 DEF evaluate_flush_decision, TypeOK
    <3> QED BY <3>2, <3>3, <3>4, <3>5 DEF TypeOK
  <2>2. CASE UNCHANGED vars
    BY <2>2 DEF vars, TypeOK
  <2> QED BY <2>1, <2>2 DEF Next
<1> QED BY <1>1, <1>2, PTL DEF Spec

\* The ring holds the last LOOKBACK_COUNT clock readings, however often it
\* wrapped: the slot the code calls oldest is the oldest one.
THEOREM RingCorrect == Spec => []RingHoldsLastInvocations
<1>1. Init => RingHoldsLastInvocations
  BY LookbackAssumption DEF Init, RingHoldsLastInvocations, SlotBack, Slots
<1>2. TypeOK /\ RingHoldsLastInvocations /\ [Next]_vars => RingHoldsLastInvocations'
  <2> SUFFICES ASSUME TypeOK, RingHoldsLastInvocations, [Next]_vars
               PROVE  RingHoldsLastInvocations'
    OBVIOUS
  <2>1. ASSUME NEW now \in Time, evaluate_flush_decision(now)
        PROVE  RingHoldsLastInvocations'
    <3> DEFINE n == Len(hist)
    <3>1. /\ n \in Nat /\ head \in Slots /\ times \in [Slots -> 0 .. MaxTime]
          /\ hist' = Append(hist, now) /\ hist \in Seq(Time)
          /\ times' = [times EXCEPT ![head] = now]
      BY <2>1 DEF evaluate_flush_decision, TimesAfterAdd, TypeOK
    <3>2. head' = IF head + 1 = LOOKBACK_COUNT THEN 0 ELSE head + 1
      BY <2>1, <3>1, HeadWraps DEF evaluate_flush_decision, HeadAfterAdd
    <3>3. Len(hist') = n + 1 /\ hist'[n + 1] = now /\ \A i \in 1 .. n : hist'[i] = hist[i]
      BY <3>1
    <3>4. SUFFICES ASSUME NEW k \in 1 .. LOOKBACK_COUNT
                   PROVE  times'[SlotBack(k)'] =
                            IF k <= n + 1 THEN hist'[n + 1 - k + 1] ELSE 0
      BY <3>3 DEF RingHoldsLastInvocations
    <3>5. CASE k = 1
      <4>1. SlotBack(k)' = head
        BY <3>1, <3>2, <3>5, LookbackAssumption DEF SlotBack, Slots
      <4> QED BY <3>1, <3>3, <3>5, <4>1
    <3>6. CASE k > 1
      <4>1. k - 1 \in 1 .. LOOKBACK_COUNT /\ k \in Int
        BY <3>4, <3>6, LookbackAssumption
      <4>2. SlotBack(k)' = SlotBack(k - 1)
        BY <3>1, <3>2, <4>1, <3>6, LookbackAssumption DEF SlotBack, Slots
      <4>3. SlotBack(k - 1) \in Slots /\ SlotBack(k - 1) # head
        BY <3>1, <3>4, <4>1, <3>6, LookbackAssumption DEF SlotBack, Slots
      <4>4. times'[SlotBack(k)'] = times[SlotBack(k - 1)]
        BY <3>1, <4>2, <4>3
      <4>5. times[SlotBack(k - 1)] = IF k - 1 <= n THEN hist[n - (k - 1) + 1] ELSE 0
        BY <4>1 DEF RingHoldsLastInvocations
      <4>6. CASE k <= n + 1
        <5>1. n - (k - 1) + 1 = n + 1 - k + 1 /\ n + 1 - k + 1 \in 1 .. n
          BY <3>1, <4>1, <4>6, <3>6
        <5> QED BY <3>1, <3>3, <4>1, <4>4, <4>5, <4>6, <5>1
      <4>7. CASE k > n + 1
        BY <3>1, <4>1, <4>4, <4>5, <4>7
      <4> QED BY <3>1, <4>1, <4>6, <4>7
    <3> QED BY <3>4, <3>5, <3>6, LookbackAssumption
  <2>2. CASE UNCHANGED vars
    BY <2>2 DEF vars, RingHoldsLastInvocations, SlotBack
  <2> QED BY <2>1, <2>2 DEF Next
<1> QED BY <1>1, <1>2, TypeCorrect, PTL DEF Spec

\* An evaluation that ends in Dont read a clock at most one interval past
\* last_flush, also when the clock was set back.
THEOREM FreshnessCorrect == Spec => []SkippedOnlyWhileFresh
<1>1. Init => SkippedOnlyWhileFresh
  BY DEF Init, SkippedOnlyWhileFresh
<1>2. TypeOK /\ SkippedOnlyWhileFresh /\ [Next]_vars => SkippedOnlyWhileFresh'
  <2> SUFFICES ASSUME TypeOK, SkippedOnlyWhileFresh, [Next]_vars
               PROVE  SkippedOnlyWhileFresh'
    OBVIOUS
  <2>1. ASSUME NEW now \in Time, evaluate_flush_decision(now), decision' = "Dont"
        PROVE  SkippedOnlyWhileFresh'
    <3> DEFINE c == evaluate_concrete_strategy(TimesAfterAdd(now), HeadAfterAdd, now)
    <3> DEFINE I == IF flush_strategy.name = "Default"
                      THEN TWENTY_SECONDS ELSE flush_strategy.interval
    <3>1. /\ c.name \in IntervalStrategies \cup {"End"}
          /\ flush_strategy.name = "Default" /\ c.name # "End" => c.interval = TWENTY_SECONDS
          /\ flush_strategy.name # "Default" => c = flush_strategy
      BY ConcreteType DEF TypeOK
    <3>2. c.name # "End" /\ ~interval_passed(now, c.interval)
      BY <2>1, <3>1 DEF evaluate_flush_decision, DecisionOf, IntervalStrategies
    <3> HIDE DEF c
    <3>3. c.interval = I /\ last_flush \in Time
      BY <3>1, <3>2 DEF TypeOK
    <3>4. ~(Sub(now, last_flush) > I \div 1000)
      BY <3>2, <3>3 DEF interval_passed
    <3>5. I \in Nat /\ MaxTime + I < U64
      BY <3>1, <3>2, IntervalAssumption, U64Assumption
      DEF TypeOK, Strategies, FlushStrategies, Named, IntervalStrategies
    <3>6. now - last_flush \in 0 .. I \div 1000
      <4>1. now \in Int /\ last_flush \in Int /\ now >= 1 /\ last_flush <= MaxTime
            /\ MaxTime \in Nat /\ U64 \in Nat /\ I \div 1000 \in Nat /\ I \div 1000 <= I
        BY <3>3, <3>5, BoundAssumption, U64Assumption DEF Time
      <4>2. Sub(now, last_flush) =
              IF last_flush <= now THEN now - last_flush ELSE now - last_flush + U64
        BY <3>3, SubWraps
      <4> HIDE DEF I
      <4> QED BY <3>4, <3>5, <4>1, <4>2
    <3>7. hist'[Len(hist')] = now
      BY <2>1 DEF evaluate_flush_decision, TypeOK
    <3>8. last_flush' = last_flush /\ flush_strategy' = flush_strategy
      BY <2>1, <3>2 DEF evaluate_flush_decision, c
    <3> QED BY <3>6, <3>7, <3>8 DEF SkippedOnlyWhileFresh
  <2>2. CASE UNCHANGED vars
    BY <2>2 DEF vars, SkippedOnlyWhileFresh
  <2>3. CASE decision' # "Dont"
    BY <2>3 DEF SkippedOnlyWhileFresh
  <2> QED BY <2>1, <2>2, <2>3 DEF Next
<1> QED BY <1>1, <1>2, TypeCorrect, PTL DEF Spec

\* Once a clock reading was added, the ring tells exactly what the history
\* tells: whether it is full, and which reading is the oldest.
RingAgrees ==
  /\ (\E idx \in head .. LOOKBACK_COUNT - 1 : times[idx] = 0) <=> Len(hist) < LOOKBACK_COUNT
  /\ Len(hist) >= LOOKBACK_COUNT => times[head] = hist[Len(hist) - LOOKBACK_COUNT + 1]

\* The ring's contents decide both questions evaluate_concrete_strategy asks.
LEMMA RingView == TypeOK /\ RingHoldsLastInvocations => RingAgrees
<1> SUFFICES ASSUME TypeOK, RingHoldsLastInvocations PROVE RingAgrees
  OBVIOUS
<1>1. head \in Slots /\ Len(hist) \in Nat /\ hist \in Seq(Time)
  BY DEF TypeOK
<1>2. SlotBack(LOOKBACK_COUNT) = head /\ LOOKBACK_COUNT \in 1 .. LOOKBACK_COUNT
  BY <1>1, LookbackAssumption DEF SlotBack, Slots
<1>3. times[head] = IF LOOKBACK_COUNT <= Len(hist)
                      THEN hist[Len(hist) - LOOKBACK_COUNT + 1] ELSE 0
  BY <1>2 DEF RingHoldsLastInvocations
<1>4. CASE Len(hist) < LOOKBACK_COUNT
  BY <1>1, <1>3, <1>4, LookbackAssumption DEF Slots, RingAgrees
<1>5. CASE Len(hist) >= LOOKBACK_COUNT
  <2>1. ASSUME NEW idx \in head .. LOOKBACK_COUNT - 1 PROVE times[idx] # 0
    <3> DEFINE k == head - idx + LOOKBACK_COUNT
    <3>1. k \in 1 .. LOOKBACK_COUNT /\ SlotBack(k) = idx
      BY <1>1, <2>1, LookbackAssumption DEF SlotBack, Slots
    <3>2. times[idx] = hist[Len(hist) - k + 1] /\ Len(hist) - k + 1 \in 1 .. Len(hist)
      BY <3>1, <1>1, <1>5, LookbackAssumption DEF RingHoldsLastInvocations
    <3> QED BY <3>2, <1>1, BoundAssumption DEF Time
  <2> QED BY <2>1, <1>1, <1>3, <1>5, LookbackAssumption DEF RingAgrees
<1> QED BY <1>1, <1>4, <1>5, LookbackAssumption

\* With the Default strategy every decision is the one the documented rule
\* gives on the history of clock readings.
THEOREM AdaptationCorrect == Spec => []DefaultAdaptsToHistory
<1>1. Init => DefaultAdaptsToHistory
  BY DEF Init, DefaultAdaptsToHistory
<1>2. TypeOK /\ TypeOK' /\ RingAgrees' /\ DefaultAdaptsToHistory /\ [Next]_vars
        => DefaultAdaptsToHistory'
  <2> SUFFICES ASSUME TypeOK, TypeOK', RingAgrees', DefaultAdaptsToHistory,
                      [Next]_vars, flush_strategy'.name = "Default"
               PROVE  DefaultAdaptsToHistory'
    BY DEF DefaultAdaptsToHistory
  <2>1. ASSUME NEW now \in Time, evaluate_flush_decision(now)
        PROVE  DefaultAdaptsToHistory'
    <3> DEFINE c == evaluate_concrete_strategy(times', head', now)
               N == LOOKBACK_COUNT
               n == Len(hist')
               oldest == hist'[n - N + 1]
    <3>1. /\ flush_strategy.name = "Default"
          /\ decision' = IF c.name = "End" \/ interval_passed(now, c.interval)
                           THEN DecisionOf[c.name] ELSE "Dont"
      BY <2>1 DEF evaluate_flush_decision
    <3>2. n \in Nat /\ hist'[n] = now /\ hist' \in Seq(Time)
      BY <2>1 DEF evaluate_flush_decision, TypeOK
    <3>3. /\ (\E idx \in head' .. N - 1 : times'[idx] = 0) <=> n < N
          /\ n >= N => times'[head'] = oldest
      BY DEF RingAgrees
    <3>4. CASE n < N
      <4>1. c.name = "End"
        BY <3>1, <3>3, <3>4 DEF evaluate_concrete_strategy, Named
      <4> QED BY <3>1, <3>2, <3>4, <4>1 DEF DefaultAdaptsToHistory, AdaptedName, DecisionOf
    <3>5. CASE n >= N
      <4>1. oldest \in Time
        BY <3>2, <3>5, LookbackAssumption
      <4>2. Sub(now, oldest) = IF oldest <= now THEN now - oldest ELSE now - oldest + U64
        BY <4>1, SubWraps
      <4> DEFINE limit == ONE_TWENTY_SECONDS * (N - 1)
      <4>3. limit \in Int /\ MaxTime + limit < U64
        BY U64Assumption, ThresholdAssumption, LookbackAssumption
      <4>4. c = IF Sub(now, oldest) >= limit THEN Named("End", 0)
                ELSE Named(IF Sub(now, oldest) < FlushTimeout
                             THEN "Continuously" ELSE "Periodically", TWENTY_SECONDS)
        BY <3>1, <3>3, <3>5, LookbackAssumption, <3>2 DEF evaluate_concrete_strategy
      <4>5. AdaptedName' = IF now - oldest < 0 \/ now - oldest >= limit THEN "End"
                           ELSE IF now - oldest < FlushTimeout THEN "Continuous"
                           ELSE "Periodic"
        BY <3>2, <3>5, LookbackAssumption DEF AdaptedName
      <4> HIDE DEF c, oldest, limit
      <4>6. /\ now \in Int /\ oldest \in Int /\ now >= 1 /\ oldest <= MaxTime
            /\ U64 \in Int /\ MaxTime \in Int /\ FlushTimeout \in Int
        BY <4>1, BoundAssumption, U64Assumption, ThresholdAssumption DEF Time
      <4>7. CASE now - oldest < 0 \/ now - oldest >= limit
        <5>1. Sub(now, oldest) >= limit
          BY <4>2, <4>3, <4>6, <4>7
        <5> QED BY <3>1, <4>4, <4>5, <4>7, <5>1 DEF Named, DecisionOf, DefaultAdaptsToHistory
      <4>8. CASE ~(now - oldest < 0 \/ now - oldest >= limit)
        <5>1. Sub(now, oldest) = now - oldest /\ ~(Sub(now, oldest) >= limit)
          BY <4>2, <4>3, <4>6, <4>8
        <5>2. c.name = IF now - oldest < FlushTimeout THEN "Continuously" ELSE "Periodically"
          BY <4>4, <5>1 DEF Named
        <5>3. decision' \in {IF now - oldest < FlushTimeout
                               THEN "Continuous" ELSE "Periodic", "Dont"}
          BY <3>1, <5>2 DEF DecisionOf
        <5> QED BY <4>5, <4>8, <5>3 DEF DefaultAdaptsToHistory
      <4> QED BY <4>7, <4>8
    <3> QED BY <3>2, <3>4, <3>5, LookbackAssumption
  <2>2. CASE UNCHANGED vars
    BY <2>2 DEF vars, DefaultAdaptsToHistory, AdaptedName
  <2> QED BY <2>1, <2>2 DEF Next
<1> QED BY <1>1, <1>2, TypeCorrect, RingCorrect, RingView, PTL DEF Spec

=============================================================================
