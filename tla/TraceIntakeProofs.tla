-------------------------- MODULE TraceIntakeProofs --------------------------
(***************************************************************************)
(* The trace and OTLP endpoints (traces/trace_agent.rs, otlp/agent.rs) for *)
(* any calls with any bodies, configurations, channel and deduper          *)
(* capacities and any number of faults: the promise of the ingest barrier, *)
(* and, by a second invariant on top of the first, that a span sent again  *)
(* goes out once and that one party computes its stats.                    *)
(*                                                                         *)
(* The first invariant leaves process_traces opaque; the second needs what *)
(* it does to a body: which spans it leaves, and none of them twice.       *)
(***************************************************************************)
EXTENDS TraceIntake, SequenceTheorems, FiniteSetTheorems, WellFoundedInduction, TLAPS

Ways == {"trace", "stats"}
Early == {"new", "asked", "spans_done", "process"}
Good == {200, 202}

-----------------------------------------------------------------------------
(* The inductive invariant *)

\* The shape of the state: records per call, a sequence per channel and store.
Fields == {"pc", "at", "kept", "blind", "out", "status"}
IsSequence(q) == q \in Seq({q[i] : i \in DOMAIN q})
CallShape ==
  /\ call = [c \in Calls |-> call[c]]
  /\ \A c \in Calls : call[c] = [f \in Fields |-> call[c][f]]
QueueShape ==
  /\ channel = [w \in Ways |-> channel[w]] /\ store = [w \in Ways |-> store[w]]
  /\ \A w \in Ways : IsSequence(channel[w]) /\ IsSequence(store[w])
BarrierShape ==
  /\ barrier = [f \in {"pc", "waits", "covers"} |-> barrier[f]]
  /\ barrier.waits \subseteq Ways /\ barrier.covers \subseteq Calls

\* A call is answered in one place and never again, it has nothing to send
\* before process_traces, and only the handler of its endpoint goes on with it.
CallInOrder(c) ==
  /\ call[c].status # 0 => call[c].pc = "answered"
  /\ call[c].pc \in Early => call[c].out.spans = <<>>
  /\ call[c].pc \in {"asked", "spans_done"} => c \in TraceCalls
  /\ call[c].pc \in {"process", "count"} => c \in OtlpCalls

\* The payload of a call has to be sent, was sent, is in its aggregator.
Due(c) ==
  \/ Kind(c) = "stats" /\ Body[c].chunks # <<>>
  \/ c \in TraceCalls \cup OtlpCalls /\ call[c].out.spans # <<>>
Passed(c) == call[c].status \in Good \/ call[c].pc = "count"
Holds(q, c) == \E i \in DOMAIN q : q[i].call = c

\* What was accepted is on its way or stored, unless its forwarder ended.
AcceptedNotLost ==
  \A c \in Calls :
    Passed(c) /\ Due(c) /\ Way(c) \in forwarding => Holds(channel[Way(c)], c) \/ Holds(store[Way(c)], c)

\* A forwarder that acknowledged has stored what the barrier covers of its kind,
\* and the barrier covers accepted calls only.
AckedIsStored ==
  /\ barrier.pc = "ok" => barrier.waits = {}
  /\ \A c \in barrier.covers :
       /\ call[c].status \in Good
       /\ Due(c) /\ barrier.pc \in {"waiting", "ok"} /\ Way(c) \notin barrier.waits => Holds(store[Way(c)], c)

IntakeInv ==
  /\ CallShape /\ QueueShape /\ BarrierShape
  /\ \A c \in Calls : CallInOrder(c)
  /\ AcceptedNotLost /\ AckedIsStored

-----------------------------------------------------------------------------
(* Channels *)

\* A send adds the payload behind the others.
LEMMA SendKeeps ==
  ASSUME NEW q, NEW m, IsSequence(q)
  PROVE  /\ IsSequence(Append(q, m))
         /\ Holds(Append(q, m), m.call)
         /\ \A c : Holds(q, c) => Holds(Append(q, m), c)
<1> DEFINE S == {q[i] : i \in DOMAIN q}
           r == Append(q, m)
<1>1. /\ Len(q) \in Nat /\ DOMAIN q = 1 .. Len(q)
      /\ DOMAIN r = 1 .. Len(q) + 1
      /\ \A i \in DOMAIN q : r[i] = q[i]
      /\ r[Len(q) + 1] = m
  BY DEF IsSequence
<1>2. r \in Seq({r[i] : i \in DOMAIN r})
  <2> DEFINE T == {r[i] : i \in DOMAIN r}
  <2>0. q \in Seq(S \cup {m})
    <3>1. q \in Seq(S)
      BY DEF IsSequence
    <3> HIDE DEF S
    <3> QED BY <3>1
  <2>1. r = [i \in 1 .. Len(q) + 1 |-> r[i]]
    <3>1. r \in Seq(S \cup {m})
      BY <2>0
    <3> HIDE DEF r
    <3> QED BY <3>1, <1>1
  <2>2. \A i \in 1 .. Len(q) + 1 : r[i] \in T
    BY <1>1
  <2> HIDE DEF r, T
  <2> QED BY <1>1, <2>1, <2>2
<1>3. Holds(r, m.call)
  BY <1>1 DEF Holds
<1>4. \A c : Holds(q, c) => Holds(r, c)
  BY <1>1 DEF Holds
<1> QED BY <1>2, <1>3, <1>4 DEF IsSequence

\* A receive takes the first payload and leaves the others.
LEMMA ReceiveKeeps ==
  ASSUME NEW q, IsSequence(q), q # <<>>
  PROVE  /\ IsSequence(Tail(q))
         /\ \A c : Holds(q, c) => Holds(Tail(q), c) \/ Head(q).call = c
<1> DEFINE r == Tail(q)
<1>1. /\ Len(q) \in Nat /\ Len(q) > 0 /\ DOMAIN q = 1 .. Len(q)
      /\ DOMAIN r = 1 .. Len(q) - 1
      /\ \A i \in DOMAIN r : r[i] = q[i + 1]
      /\ Head(q) = q[1]
  BY DEF IsSequence
<1>2. r \in Seq({r[i] : i \in DOMAIN r})
  <2> DEFINE T == {r[i] : i \in DOMAIN r}
  <2>1. r = [i \in 1 .. Len(q) - 1 |-> r[i]]
    <3>1. r \in Seq({q[i] : i \in DOMAIN q})
      BY DEF IsSequence
    <3> HIDE DEF r
    <3> QED BY <3>1, <1>1
  <2>2. \A i \in 1 .. Len(q) - 1 : r[i] \in T
    BY <1>1
  <2> HIDE DEF r, T
  <2> QED BY <1>1, <2>1, <2>2
<1>3. \A i \in DOMAIN q : i = 1 \/ (i - 1 \in DOMAIN r /\ r[i - 1] = q[i])
  BY <1>1
<1>4. \A c : Holds(q, c) => Holds(r, c) \/ Head(q).call = c
  BY <1>1, <1>3 DEF Holds
<1> QED BY <1>2, <1>4 DEF IsSequence

-----------------------------------------------------------------------------
(* A step of one call *)

Others(c) == \A d \in Calls \ {c} : call'[d] = call[d]
ChannelsGrow == \A w \in Ways, d \in Calls : Holds(channel[w], d) => Holds(channel'[w], d)

\* A handler moves on an unanswered call: nothing else it does can break the
\* invariant if what it accepts is sent, or had been before.
LEMMA CallMoves ==
  ASSUME IntakeInv, NEW c \in Calls, call[c].status = 0,
         CallShape', Others(c), CallInOrder(c)',
         QueueShape', ChannelsGrow, UNCHANGED <<store, forwarding, barrier>>,
         Passed(c)' /\ Due(c)' => (Passed(c) /\ Due(c)) \/ Holds(channel'[Way(c)], c)
  PROVE  IntakeInv'
<1>1. BarrierShape'
  BY DEF IntakeInv, BarrierShape
<1>2. \A d \in Calls : CallInOrder(d)'
  BY DEF IntakeInv, CallInOrder, Others
<1>3. \A d \in Calls \ {c} : (Passed(d)' <=> Passed(d)) /\ (Due(d)' <=> Due(d))
  BY DEF Others, Passed, Due
<1>4. \A d \in Calls : Way(d) \in Ways
  BY DEF Way, Ways
<1>5. AcceptedNotLost'
  BY <1>3, <1>4 DEF IntakeInv, AcceptedNotLost, ChannelsGrow
<1>6. c \notin barrier.covers
  BY DEF IntakeInv, AckedIsStored, Good
<1>7. AckedIsStored'
  <2>1. \A d \in barrier.covers : d \in Calls \ {c}
    BY <1>6 DEF IntakeInv, BarrierShape
  <2> QED BY <1>3, <2>1 DEF IntakeInv, AckedIsStored, Others
<1> QED BY <1>1, <1>2, <1>5, <1>7 DEF IntakeInv

\* What an assignment to fields of one call leaves alone.
LEMMA ChannelsStay == ASSUME QueueShape, UNCHANGED <<channel, store>> PROVE QueueShape' /\ ChannelsGrow
BY DEF QueueShape, ChannelsGrow

\* Move(c, pc)
LEMMA MoveEffect ==
  ASSUME CallShape, NEW c \in Calls, NEW pc, Move(c, pc)
  PROVE  /\ CallShape' /\ Others(c)
         /\ call'[c].pc = pc /\ call'[c].status = call[c].status /\ call'[c].out = call[c].out
         /\ call'[c].kept = call[c].kept /\ call'[c].blind = call[c].blind /\ call'[c].at = call[c].at
BY DEF CallShape, Fields, Others, Move

\* Answer(c, status)
LEMMA AnswerEffect ==
  ASSUME CallShape, NEW c \in Calls, NEW status, Answer(c, status)
  PROVE  /\ CallShape' /\ Others(c)
         /\ call'[c].pc = "answered" /\ call'[c].status = status /\ call'[c].out = call[c].out
         /\ call'[c].kept = call[c].kept /\ call'[c].blind = call[c].blind
BY DEF CallShape, Fields, Others, Answer

\* A call answered with an error accepts nothing.
LEMMA AnswerFails ==
  ASSUME IntakeInv, NEW c \in Calls, call[c].pc # "answered", NEW status, status \notin Good,
         Answer(c, status), UNCHANGED <<channel, store, forwarding, barrier>>
  PROVE  IntakeInv'
<1>1. CallShape /\ QueueShape /\ CallInOrder(c)
  BY DEF IntakeInv
<1>2. /\ CallShape' /\ Others(c)
      /\ call'[c].pc = "answered" /\ call'[c].status = status
  BY <1>1, AnswerEffect
<1>3. CallInOrder(c)' /\ ~Passed(c)'
  BY <1>2 DEF CallInOrder, Passed, Early
<1>4. call[c].status = 0
  BY <1>1 DEF CallInOrder
<1> QED BY <1>1, <1>2, <1>3, <1>4, ChannelsStay, CallMoves

\* NextSpan goes on with the spans of a call that asks the deduper.
LEMMA NextSpanStep ==
  ASSUME IntakeInv, NEW c \in Calls, call[c].pc = "asked", NEW keep, NEW blind,
         NextSpan(c, keep, blind), UNCHANGED <<channel, store, forwarding, barrier>>
  PROVE  IntakeInv'
<1>1. CallShape /\ QueueShape /\ CallInOrder(c)
  BY DEF IntakeInv
<1>2. /\ CallShape' /\ Others(c) /\ call'[c].status = call[c].status /\ call'[c].out = call[c].out
      /\ call'[c].pc \in {"asked", "spans_done"}
  <2>1. \E at, kept, bl : \E pc \in {"asked", "spans_done"} :
          call' = [call EXCEPT ![c].at = at, ![c].kept = kept, ![c].blind = bl, ![c].pc = pc]
    BY DEF NextSpan
  <2> QED BY <1>1, <2>1 DEF CallShape, Fields, Others
<1>3. call[c].status = 0 /\ call[c].out.spans = <<>> /\ c \in TraceCalls
  BY <1>1 DEF CallInOrder, Early
<1>4. CallInOrder(c)' /\ ~Passed(c)'
  BY <1>2, <1>3 DEF CallInOrder, Passed, Early, Good
<1> QED BY <1>1, <1>2, <1>3, <1>4, ChannelsStay, CallMoves

-----------------------------------------------------------------------------
(* Each action keeps the invariant *)

\* A call arrives.
LEMMA ReceiveStep ==
  ASSUME IntakeInv, NEW c \in Calls, Receive(c)
  PROVE  IntakeInv'
<1>1. CallShape /\ QueueShape /\ CallInOrder(c) /\ call[c].pc = "new"
  BY DEF IntakeInv, Receive
<1> DEFINE pc == CASE c \in TraceCalls -> IF SpansIn[c] = <<>> THEN "spans_done" ELSE "asked"
                   [] c \in OtlpCalls -> "process"
                   [] OTHER -> "send"
<1>2. Move(c, pc) /\ UNCHANGED <<channel, store, forwarding, barrier>>
  BY DEF Receive
<1>3. \/ pc \in {"spans_done", "asked"} /\ c \in TraceCalls
      \/ pc = "process" /\ c \in OtlpCalls
      \/ pc = "send"
  BY DEF TraceCalls, OtlpCalls
<1> HIDE DEF pc
<1>4. /\ CallShape' /\ Others(c)
      /\ call'[c].pc = pc /\ call'[c].status = call[c].status /\ call'[c].out = call[c].out
  BY <1>1, <1>2, MoveEffect
<1>5. call[c].status = 0 /\ call[c].out.spans = <<>>
  BY <1>1 DEF CallInOrder, Early
<1>6. CallInOrder(c)' /\ ~Passed(c)'
  BY <1>3, <1>4, <1>5 DEF CallInOrder, Passed, Early, Good
<1> QED BY <1>1, <1>2, <1>4, <1>5, <1>6, ChannelsStay, CallMoves

\* A handler refuses a body or fails.
LEMMA RefuseStep ==
  ASSUME IntakeInv, NEW c \in Calls, Refuse(c)
  PROVE  IntakeInv'
<1>1. PICK status \in {400, 413, 500} : Answer(c, status)
  BY DEF Refuse
<1>2. status \notin Good /\ call[c].pc # "answered" /\ UNCHANGED <<channel, store, forwarding, barrier>>
  BY DEF Refuse, Good
<1> QED BY <1>1, <1>2, AnswerFails

\* The client goes away and its handler is dropped.
LEMMA DisconnectStep ==
  ASSUME IntakeInv, NEW c \in Calls, Disconnect(c)
  PROVE  IntakeInv'
<1>1. CallShape /\ QueueShape /\ CallInOrder(c) /\ call[c].pc # "answered"
  BY DEF IntakeInv, Disconnect
<1>2. Move(c, "cut") /\ UNCHANGED <<channel, store, forwarding, barrier>>
  BY DEF Disconnect
<1>3. /\ CallShape' /\ Others(c) /\ call'[c].pc = "cut" /\ call'[c].status = call[c].status
  BY <1>1, <1>2, MoveEffect
<1>4. call[c].status = 0
  BY <1>1 DEF CallInOrder
<1>5. CallInOrder(c)' /\ ~Passed(c)'
  BY <1>3, <1>4 DEF CallInOrder, Passed, Early, Good
<1> QED BY <1>1, <1>2, <1>3, <1>4, <1>5, ChannelsStay, CallMoves

\* A step that touches neither calls nor channels nor barrier.
LEMMA NothingMoves ==
  ASSUME IntakeInv, UNCHANGED <<call, channel, store, forwarding, barrier>>
  PROVE  IntakeInv'
BY DEF IntakeInv, CallShape, QueueShape, BarrierShape, CallInOrder, AcceptedNotLost, AckedIsStored, Passed, Due

\* The deduper answers for one span, or its answer is lost.
LEMMA ServeStep ==
  ASSUME IntakeInv, NEW lost \in BOOLEAN, Serve(lost)
  PROVE  IntakeInv'
<1> DEFINE q == Head(dedup.queue)
<1>1. UNCHANGED <<channel, store, forwarding, barrier>>
  BY DEF Serve
<1>2. \/ /\ call[q.call].pc = "asked"
         /\ NextSpan(q.call, ~Contains(dedup.order, q.key), FALSE)
      \/ UNCHANGED call
  BY DEF Serve
<1>3. CASE q.call \in Calls
  BY <1>1, <1>2, <1>3, NextSpanStep, NothingMoves
<1>4. CASE q.call \notin Calls
  <2>1. UNCHANGED call
    BY <1>2, <1>4 DEF NextSpan, IntakeInv, CallShape
  <2> QED BY <1>1, <2>1, NothingMoves
<1> QED BY <1>3, <1>4

\* The deduper does not answer in time.
LEMMA DedupTimeoutStep ==
  ASSUME IntakeInv, NEW c \in Calls, DedupTimeout(c)
  PROVE  IntakeInv'
BY NextSpanStep DEF DedupTimeout

\* A call whose spans were all filtered or sampled out is accepted with nothing
\* to send.
LEMMA SendProcessedStep ==
  ASSUME IntakeInv, NEW c \in Calls, send_processed_traces(c)
  PROVE  IntakeInv'
<1>1. CallShape /\ QueueShape /\ CallInOrder(c) /\ call[c].pc = "spans_done"
  BY DEF IntakeInv, send_processed_traces
<1>2. call[c].status = 0 /\ call[c].out.spans = <<>> /\ c \in TraceCalls /\ Kind(c) # "stats"
  BY <1>1 DEF CallInOrder, Early, TraceCalls
<1>3. UNCHANGED <<channel, store, forwarding, barrier>>
  BY DEF send_processed_traces
<1>4. (\E out : call' = [call EXCEPT ![c].pc = "send", ![c].out = out]) \/ Answer(c, 200)
  BY Zenon DEF send_processed_traces
<1>5. /\ CallShape' /\ Others(c)
      /\ \/ call'[c].pc = "send" /\ call'[c].status = call[c].status
         \/ call'[c].pc = "answered" /\ call'[c].out = call[c].out
  BY <1>1, <1>4, AnswerEffect DEF CallShape, Fields, Others
<1>6. CallInOrder(c)'
  BY <1>2, <1>5 DEF CallInOrder, Early
<1>7. ~(Passed(c)' /\ Due(c)')
  BY <1>2, <1>5 DEF Passed, Due, Good
<1> QED BY <1>1, <1>2, <1>3, <1>5, <1>6, <1>7, ChannelsStay, CallMoves

\* An OTLP request is processed.
LEMMA ProcessAndSendStep ==
  ASSUME IntakeInv, NEW c \in Calls, process_and_send_traces(c)
  PROVE  IntakeInv'
<1>1. CallShape /\ QueueShape /\ CallInOrder(c) /\ call[c].pc = "process"
  BY DEF IntakeInv, process_and_send_traces
<1>2. call[c].status = 0 /\ call[c].out.spans = <<>> /\ c \in OtlpCalls /\ Kind(c) # "stats"
  BY <1>1 DEF CallInOrder, Early, OtlpCalls
<1>3. UNCHANGED <<channel, store, forwarding, barrier>>
  BY DEF process_and_send_traces
<1>4. \/ Answer(c, 500)
      \/ \E out : call' = [call EXCEPT ![c].pc = "send", ![c].out = out]
      \/ Move(c, "count")
  BY DEF process_and_send_traces
<1>5. CASE Answer(c, 500)
  BY <1>1, <1>3, <1>5, AnswerFails DEF Good
<1>6. CASE \E out : call' = [call EXCEPT ![c].pc = "send", ![c].out = out]
  <2>1. CallShape' /\ Others(c) /\ call'[c].pc = "send" /\ call'[c].status = call[c].status
    BY <1>1, <1>6 DEF CallShape, Fields, Others
  <2>2. CallInOrder(c)' /\ ~Passed(c)'
    BY <1>2, <2>1 DEF CallInOrder, Early, Passed, Good
  <2> QED BY <1>1, <1>2, <1>3, <2>1, <2>2, ChannelsStay, CallMoves
<1>7. CASE Move(c, "count")
  <2>1. /\ CallShape' /\ Others(c) /\ call'[c].pc = "count"
        /\ call'[c].status = call[c].status /\ call'[c].out = call[c].out
    BY <1>1, <1>7, MoveEffect
  <2>2. CallInOrder(c)' /\ ~Due(c)'
    BY <1>2, <2>1 DEF CallInOrder, Early, Due
  <2> QED BY <1>1, <1>2, <1>3, <2>1, <2>2, ChannelsStay, CallMoves
<1> QED BY <1>4, <1>5, <1>6, <1>7

\* An OTLP call is accepted after it was sent.
LEMMA CountOtlpStep ==
  ASSUME IntakeInv, NEW c \in Calls, CountOtlp(c)
  PROVE  IntakeInv'
<1>1. CallShape /\ QueueShape /\ CallInOrder(c) /\ call[c].pc = "count"
  BY DEF IntakeInv, CountOtlp
<1>2. Answer(c, 200) /\ UNCHANGED <<channel, store, forwarding, barrier>>
  BY DEF CountOtlp
<1>3. /\ CallShape' /\ Others(c) /\ call'[c].pc = "answered" /\ call'[c].out = call[c].out
  BY <1>1, <1>2, AnswerEffect
<1>4. call[c].status = 0
  BY <1>1 DEF CallInOrder
<1>5. CallInOrder(c)' /\ Passed(c) /\ (Due(c)' => Due(c))
  BY <1>1, <1>3 DEF CallInOrder, Early, Passed, Due
<1> QED BY <1>1, <1>2, <1>3, <1>4, <1>5, ChannelsStay, CallMoves

\* A call that is accepted with something to send has it on the channel.
LEMMA SendStep ==
  ASSUME IntakeInv, NEW c \in Calls, Send(c)
  PROVE  IntakeInv'
<1> DEFINE m == [call |-> c, out |-> call[c].out]
           w == Way(c)
<1>1. CallShape /\ QueueShape /\ CallInOrder(c) /\ call[c].pc = "send" /\ w \in Ways
  BY DEF IntakeInv, Send, Way, Ways
<1>2. call[c].status = 0
  BY <1>1 DEF CallInOrder
<1>3. UNCHANGED <<store, forwarding, barrier>>
  BY DEF Send
<1>4. /\ CallShape' /\ Others(c) /\ call'[c].out = call[c].out
      /\ call'[c].pc = "answered" \/ (call'[c].pc = "count" /\ c \in OtlpCalls /\ call'[c].status = 0)
  <2>1. Answer(c, 202) \/ (Move(c, "count") /\ c \in OtlpCalls) \/ Answer(c, 200)
    BY DEF Send
  <2> QED BY <1>1, <1>2, <2>1, AnswerEffect, MoveEffect
<1>5. CallInOrder(c)'
  BY <1>4 DEF CallInOrder, Early
<1>6. CASE Kind(c) = "stats" /\ Body[c].chunks = <<>>
  <2>1. UNCHANGED channel
    BY <1>6 DEF Send
  <2>2. ~Due(c)'
    BY <1>6 DEF Due, TraceCalls, OtlpCalls
  <2> QED BY <1>1, <1>2, <1>3, <1>4, <1>5, <2>1, <2>2, ChannelsStay, CallMoves
<1>7. CASE ~(Kind(c) = "stats" /\ Body[c].chunks = <<>>)
  <2>1. channel' = [channel EXCEPT ![w] = Append(channel[w], m)]
    BY <1>7 DEF Send
  <2> HIDE DEF w
  <2>2. channel'[w] = Append(channel[w], m) /\ \A v \in Ways \ {w} : channel'[v] = channel[v]
    BY <1>1, <2>1 DEF QueueShape
  <2>3. channel' = [v \in Ways |-> channel'[v]]
    BY <1>1, <2>1 DEF QueueShape
  <2>4. m.call = c
    OBVIOUS
  <2> HIDE DEF m
  <2>5. /\ IsSequence(channel'[w]) /\ Holds(channel'[w], c)
        /\ \A d : Holds(channel[w], d) => Holds(channel'[w], d)
    BY <1>1, <2>2, <2>4, SendKeeps DEF QueueShape
  <2>6. QueueShape' /\ ChannelsGrow
    BY <1>1, <1>3, <2>2, <2>3, <2>5 DEF QueueShape, ChannelsGrow
  <2> QED BY <1>2, <1>3, <1>4, <1>5, <2>5, <2>6, CallMoves DEF w
<1> QED BY <1>6, <1>7

\* The channel of a call is closed.
LEMMA SendFailsStep ==
  ASSUME IntakeInv, NEW c \in Calls, SendFails(c)
  PROVE  IntakeInv'
BY AnswerFails DEF SendFails, Good

\* The proxy's requests go past the barrier.
LEMMA HandleProxyStep ==
  ASSUME IntakeInv, NEW c \in Calls, HandleProxy(c)
  PROVE  IntakeInv'
<1>1. CallShape /\ QueueShape /\ CallInOrder(c) /\ call[c].pc = "new" /\ Kind(c) = "proxy"
  BY DEF IntakeInv, HandleProxy
<1>2. Answer(c, 200) /\ UNCHANGED <<channel, store, forwarding, barrier>>
  BY DEF HandleProxy
<1>3. /\ CallShape' /\ Others(c) /\ call'[c].pc = "answered"
  BY <1>1, <1>2, AnswerEffect
<1>4. call[c].status = 0
  BY <1>1 DEF CallInOrder
<1>5. CallInOrder(c)' /\ ~Due(c)'
  BY <1>1, <1>3 DEF CallInOrder, Early, Due, TraceCalls, OtlpCalls
<1> QED BY <1>1, <1>2, <1>3, <1>4, <1>5, ChannelsStay, CallMoves

-----------------------------------------------------------------------------
(* The forwarders and the barrier *)

\* A forwarder moves a payload into the aggregator, or ends and gives up what
\* its channel holds; what is stored stays stored.
LEMMA ForwardStep ==
  ASSUME IntakeInv, NEW kind \in Ways, Forward(kind)
  PROVE  IntakeInv'
<1>1. CallShape /\ QueueShape /\ kind \in forwarding /\ channel[kind] # <<>>
  BY DEF IntakeInv, Forward
<1>2. UNCHANGED <<call, barrier>>
  BY DEF Forward
<1>3. CallShape' /\ BarrierShape' /\ \A c \in Calls : CallInOrder(c)'
  BY <1>2 DEF IntakeInv, CallShape, BarrierShape, CallInOrder
<1>4. \A c \in Calls : (Passed(c)' <=> Passed(c)) /\ (Due(c)' <=> Due(c)) /\ Way(c) \in Ways
  BY <1>2 DEF Passed, Due, Way, Ways
<1>5. ASSUME \A w \in Ways, c \in Calls : Holds(store[w], c) => Holds(store'[w], c)
      PROVE  AckedIsStored'
  <2>1. barrier.covers \subseteq Calls
    BY DEF IntakeInv, BarrierShape
  <2> QED BY <1>2, <1>4, <1>5, <2>1 DEF IntakeInv, AckedIsStored
<1>6. CASE kind = "stats" \/ aggregator
  <2> DEFINE m == Head(channel[kind])
  <2>1. /\ store' = [store EXCEPT ![kind] = Append(store[kind], m)]
        /\ channel' = [channel EXCEPT ![kind] = Tail(channel[kind])]
        /\ UNCHANGED forwarding
    BY <1>6 DEF Forward
  <2>2. /\ store'[kind] = Append(store[kind], m) /\ channel'[kind] = Tail(channel[kind])
        /\ \A w \in Ways \ {kind} : store'[w] = store[w] /\ channel'[w] = channel[w]
    BY <1>1, <2>1 DEF QueueShape
  <2>3. store' = [w \in Ways |-> store'[w]] /\ channel' = [w \in Ways |-> channel'[w]]
    BY <1>1, <2>1 DEF QueueShape
  <2>4. /\ IsSequence(channel'[kind])
        /\ \A c : Holds(channel[kind], c) => Holds(channel'[kind], c) \/ m.call = c
    BY <1>1, <2>2, ReceiveKeeps DEF QueueShape
  <2> HIDE DEF m
  <2>5. /\ IsSequence(store'[kind]) /\ Holds(store'[kind], m.call)
        /\ \A c : Holds(store[kind], c) => Holds(store'[kind], c)
    BY <1>1, <2>2, SendKeeps DEF QueueShape
  <2>6. QueueShape'
    BY <1>1, <2>2, <2>3, <2>4, <2>5 DEF QueueShape
  <2>7. \A w \in Ways, c \in Calls :
          /\ Holds(store[w], c) => Holds(store'[w], c)
          /\ Holds(channel[w], c) => Holds(channel'[w], c) \/ Holds(store'[w], c)
    BY <2>2, <2>4, <2>5
  <2>8. AcceptedNotLost'
    BY <1>4, <2>1, <2>7 DEF IntakeInv, AcceptedNotLost
  <2> QED BY <1>3, <1>5, <2>6, <2>7, <2>8 DEF IntakeInv
<1>7. CASE ~(kind = "stats" \/ aggregator)
  <2>1. /\ forwarding' = forwarding \ {kind}
        /\ channel' = [channel EXCEPT ![kind] = <<>>]
        /\ UNCHANGED store
    BY <1>7 DEF Forward
  <2>2. channel'[kind] = <<>> /\ \A w \in Ways \ {kind} : channel'[w] = channel[w]
    BY <1>1, <2>1 DEF QueueShape
  <2>3. channel' = [w \in Ways |-> channel'[w]]
    BY <1>1, <2>1 DEF QueueShape
  <2>4. IsSequence(<<>>)
    BY DEF IsSequence
  <2>5. QueueShape'
    BY <1>1, <2>1, <2>2, <2>3, <2>4 DEF QueueShape
  <2>6. AcceptedNotLost'
    BY <1>4, <2>1, <2>2 DEF IntakeInv, AcceptedNotLost
  <2> QED BY <1>3, <1>5, <2>1, <2>5, <2>6 DEF IntakeInv
<1> QED BY <1>6, <1>7

\* The barrier covers what was accepted when it was called.
LEMMA BarrierWaitStep ==
  ASSUME IntakeInv, BarrierWait
  PROVE  IntakeInv'
<1>1. UNCHANGED <<call, channel, store, forwarding>>
  BY DEF BarrierWait
<1>2. CallShape' /\ QueueShape' /\ AcceptedNotLost' /\ \A c \in Calls : CallInOrder(c)'
  BY <1>1 DEF IntakeInv, CallShape, QueueShape, CallInOrder, AcceptedNotLost, Passed, Due
<1>3. barrier' = [pc |-> "waiting", waits |-> Ways, covers |-> {c \in Calls : call[c].status \in Good}]
  BY DEF BarrierWait, Ways, Good
<1>4. BarrierShape'
  BY <1>3 DEF BarrierShape
<1>5. AckedIsStored'
  BY <1>1, <1>3 DEF AckedIsStored, Way, Ways
<1> QED BY <1>2, <1>4, <1>5 DEF IntakeInv

\* With its channel empty, all that a running forwarder was given is stored.
LEMMA AcknowledgeStep ==
  ASSUME IntakeInv, NEW kind \in Ways, Acknowledge(kind)
  PROVE  IntakeInv'
<1>1. UNCHANGED <<call, channel, store, forwarding>>
  BY DEF Acknowledge
<1>2. CallShape' /\ QueueShape' /\ AcceptedNotLost' /\ \A c \in Calls : CallInOrder(c)'
  BY <1>1 DEF IntakeInv, CallShape, QueueShape, CallInOrder, AcceptedNotLost, Passed, Due
<1>3. /\ barrier.pc = "waiting" /\ kind \in forwarding /\ channel[kind] = <<>>
      /\ barrier' = [barrier EXCEPT !.waits = barrier.waits \ {kind},
                                    !.pc = IF barrier.waits = {kind} THEN "ok" ELSE barrier.pc]
  BY DEF Acknowledge
<1>4. BarrierShape
  BY DEF IntakeInv
<1>5. /\ BarrierShape' /\ barrier'.covers = barrier.covers
      /\ barrier'.waits = barrier.waits \ {kind}
      /\ barrier'.pc = IF barrier.waits = {kind} THEN "ok" ELSE "waiting"
  BY <1>3, <1>4 DEF BarrierShape
<1>6. ASSUME NEW c \in barrier.covers, Due(c), Way(c) \notin barrier.waits \ {kind}
      PROVE  Holds(store[Way(c)], c)
  <2>1. c \in Calls /\ call[c].status \in Good
    BY <1>4 DEF BarrierShape, IntakeInv, AckedIsStored
  <2>2. CASE Way(c) = kind
    <3>1. Holds(channel[kind], c) \/ Holds(store[kind], c)
      BY <1>3, <1>6, <2>1, <2>2 DEF IntakeInv, AcceptedNotLost, Passed
    <3>2. ~Holds(channel[kind], c)
      BY <1>3 DEF Holds
    <3> QED BY <2>2, <3>1, <3>2
  <2>3. CASE Way(c) # kind
    BY <1>3, <1>6, <2>3 DEF IntakeInv, AckedIsStored
  <2> QED BY <2>2, <2>3
<1>7. AckedIsStored'
  <2>1. \A c \in barrier.covers : Due(c)' <=> Due(c)
    BY <1>1 DEF Due
  <2>2. \A c \in barrier.covers : call'[c].status \in Good
    BY <1>1 DEF IntakeInv, AckedIsStored
  <2> QED BY <1>1, <1>5, <1>6, <2>1, <2>2 DEF AckedIsStored
<1> QED BY <1>2, <1>5, <1>7 DEF IntakeInv

\* A forwarder that has ended fails the barrier.
LEMMA BarrierFailsStep ==
  ASSUME IntakeInv, BarrierFails
  PROVE  IntakeInv'
<1>1. UNCHANGED <<call, channel, store, forwarding>> /\ barrier' = [barrier EXCEPT !.pc = "failed"]
  BY DEF BarrierFails
<1>2. CallShape' /\ QueueShape' /\ AcceptedNotLost' /\ \A c \in Calls : CallInOrder(c)'
  BY <1>1 DEF IntakeInv, CallShape, QueueShape, CallInOrder, AcceptedNotLost, Passed, Due
<1>3. BarrierShape' /\ barrier'.pc = "failed" /\ barrier'.covers = barrier.covers
  BY <1>1 DEF IntakeInv, BarrierShape
<1>4. AckedIsStored'
  BY <1>1, <1>3 DEF IntakeInv, AckedIsStored
<1> QED BY <1>2, <1>3, <1>4 DEF IntakeInv

-----------------------------------------------------------------------------
(* The specification keeps the invariant *)

\* The invariant holds initially.
LEMMA IntakeInit == Init => IntakeInv
<1> SUFFICES ASSUME Init PROVE IntakeInv
  OBVIOUS
<1>1. CallShape /\ \A c \in Calls : /\ call[c].pc = "new" /\ call[c].status = 0 /\ call[c].out.spans = <<>>
  BY DEF Init, CallShape, Fields
<1>2. \A c \in Calls : CallInOrder(c) /\ ~Passed(c)
  BY <1>1 DEF CallInOrder, Passed, Good
<1>3. IsSequence(<<>>)
  BY DEF IsSequence
<1>4. QueueShape
  BY <1>3 DEF Init, QueueShape, Ways
<1>5. BarrierShape /\ AckedIsStored
  BY DEF Init, BarrierShape, AckedIsStored
<1>6. AcceptedNotLost
  BY <1>2 DEF AcceptedNotLost
<1> QED BY <1>1, <1>2, <1>4, <1>5, <1>6 DEF IntakeInv

\* Every step keeps the invariant.
LEMMA IntakeStep == IntakeInv /\ [Next]_vars => IntakeInv'
<1> SUFFICES ASSUME IntakeInv, [Next]_vars PROVE IntakeInv'
  OBVIOUS
<1>1. ASSUME NEW c \in Calls, Receive(c) \/ HandleProxy(c) \/ Refuse(c) \/ Disconnect(c) \/ DedupTimeout(c)
      PROVE  IntakeInv'
  BY <1>1, ReceiveStep, HandleProxyStep, RefuseStep, DisconnectStep, DedupTimeoutStep
<1>2. ASSUME NEW c \in Calls, Step(c)
      PROVE  IntakeInv'
  BY <1>2, SendProcessedStep, ProcessAndSendStep, CountOtlpStep, SendStep, SendFailsStep, DedupTimeoutStep DEF Step
<1>3. ASSUME NEW kind \in Ways, Forward(kind) \/ Acknowledge(kind)
      PROVE  IntakeInv'
  BY <1>3, ForwardStep, AcknowledgeStep
<1>4. CASE AggregatorStops
  BY <1>4, NothingMoves DEF AggregatorStops
<1>5. CASE UNCHANGED vars
  BY <1>5, NothingMoves DEF vars
<1>6. CASE DedupServe \/ DedupLosesAnswer
  BY <1>6, ServeStep DEF DedupServe, DedupLosesAnswer
<1> QED BY <1>1, <1>2, <1>3, <1>4, <1>5, <1>6, BarrierWaitStep, BarrierFailsStep DEF Next, Work, Ways

\* The inductive invariant holds in every state the intake reaches.
THEOREM IntakeInvariant == Spec => []IntakeInv
BY IntakeInit, IntakeStep, PTL DEF Spec

\* What IngestBarrier promises to a flush, for every set of calls: once wait()
\* returned Ok, every payload of a call answered 200 or 202 before wait() is in
\* its aggregator, whatever the aggregator task, the clients and the deduper did
\* meanwhile.
THEOREM BarrierCovers == Spec => []BarrierCoversAccepted
<1>1. IntakeInv => BarrierCoversAccepted
  <2> SUFFICES ASSUME IntakeInv, barrier.pc = "ok", NEW c \in barrier.covers
               PROVE  /\ Kind(c) = "stats" /\ Body[c].chunks # <<>> => Holds(store.stats, c)
                      /\ (c \in TraceCalls \cup OtlpCalls /\ call[c].out.spans # <<>>) => Holds(store.trace, c)
    BY DEF BarrierCoversAccepted, Holds
  <2>1. Due(c) => Holds(store[Way(c)], c)
    BY DEF IntakeInv, AckedIsStored
  <2>2. CASE Kind(c) = "stats"
    BY <2>1, <2>2 DEF Due, Way, TraceCalls, OtlpCalls
  <2>3. CASE Kind(c) # "stats"
    BY <2>1, <2>3 DEF Due, Way
  <2> QED BY <2>2, <2>3
<1> QED BY <1>1, IntakeInvariant, PTL

-----------------------------------------------------------------------------
(* Sequences *)

\* A set of natural numbers has a least one.
LEMMA LeastNumber ==
  ASSUME NEW T \in SUBSET Nat, T # {}
  PROVE  \E x \in T : \A y \in T : x <= y
<1> DEFINE Below == {ss \in Nat \X Nat : ss[1] < ss[2]}
<1>1. IsWellFoundedOn(OpToRel(<, Nat), Nat)
  BY NatLessThanWellFounded
<1>2. OpToRel(<, Nat) = Below
  BY Zenon DEF OpToRel
<1> HIDE DEF Below
<1>3. IsWellFoundedOn(Below, Nat)
  BY <1>1, <1>2, Zenon
<1>4. PICK x \in T : \A y \in T : <<y, x>> \notin Below
  BY <1>3, WFMin
<1>5. ASSUME NEW y \in T, y < x PROVE FALSE
  <2>1. <<y, x>> \in Nat \X Nat /\ <<y, x>>[1] < <<y, x>>[2]
    BY <1>5
  <2>2. <<y, x>> \in Below
    BY <2>1 DEF Below
  <2> QED BY <2>2, <1>4
<1>6. \A y \in T : x <= y
  BY <1>5
<1> QED BY <1>6

\* A set that holds 0 and, with every number, the next one holds all of them.
LEMMA UpTo ==
  ASSUME NEW N \in Nat, NEW P, 0 \in P, \A n \in 1 .. N : n - 1 \in P => n \in P
  PROVE  \A n \in 0 .. N : n \in P
<1> DEFINE T == {n \in 0 .. N : n \notin P}
<1> SUFFICES ASSUME T # {} PROVE FALSE
  OBVIOUS
<1>1. T \in SUBSET Nat
  OBVIOUS
<1>2. PICK m \in T : \A y \in T : m <= y
  BY <1>1, LeastNumber
<1>3. m \in 1 .. N /\ m \notin P /\ m - 1 \in 0 .. N /\ ~(m <= m - 1)
  BY <1>2
<1>4. m - 1 \in P
  BY <1>2, <1>3
<1> QED BY <1>3, <1>4

\* Concatenation, as an operator the provers leave alone.
Cat(s, t) == s \o t

\* What concatenation does.
LEMMA CatFact ==
  ASSUME NEW S, NEW s \in Seq(S), NEW t \in Seq(S)
  PROVE  /\ Cat(s, t) \in Seq(S)
         /\ Cat(s, <<>>) = s /\ Cat(<<>>, t) = t
         /\ Len(Cat(s, t)) = Len(s) + Len(t)
         /\ \A i \in 1 .. Len(s) + Len(t) : Cat(s, t)[i] = IF i <= Len(s) THEN s[i] ELSE t[i - Len(s)]
<1>1. /\ Cat(s, t) \in Seq(S) /\ Len(Cat(s, t)) = Len(s) + Len(t)
      /\ \A i \in 1 .. Len(s) + Len(t) : Cat(s, t)[i] = IF i <= Len(s) THEN s[i] ELSE t[i - Len(s)]
  BY ConcatProperties, Zenon DEF Cat
<1>2. Cat(s, <<>>) = s /\ Cat(<<>>, t) = t
  BY ConcatEmptySeq, Zenon DEF Cat
<1> QED BY <1>1, <1>2, Zenon

IsFlat(g, s) == g = [i \in 1 .. Len(s) |-> IF i = 1 THEN s[i] ELSE g[i-1] \o s[i]]

\* The function inside FlattenSeq exists.
LEMMA FlatExists ==
  ASSUME NEW s, Len(s) \in Nat
  PROVE  \E g : IsFlat(g, s)
<1> DEFINE Built(n) == \E g : g = [i \in 1 .. n |-> IF i = 1 THEN s[i] ELSE Cat(g[i-1], s[i])]
           P == {n \in Nat : Built(n)}
<1>1. Built(0)
  <2> DEFINE g == [i \in 1 .. 0 |-> <<>>]
  <2>1. g = [i \in 1 .. 0 |-> IF i = 1 THEN s[i] ELSE Cat(g[i-1], s[i])]
    OBVIOUS
  <2> QED BY <2>1
<1>2. ASSUME NEW m \in Nat, m # 0, Built(m - 1) PROVE Built(m)
  <2> PICK g : g = [i \in 1 .. m - 1 |-> IF i = 1 THEN s[i] ELSE Cat(g[i-1], s[i])]
    BY <1>2
  <2> DEFINE h == [i \in 1 .. m |-> IF i = m THEN (IF i = 1 THEN s[i] ELSE Cat(g[i-1], s[i])) ELSE g[i]]
  <2>1. \A i \in 1 .. m : h[i] = IF i = 1 THEN s[i] ELSE Cat(h[i-1], s[i])
    <3> SUFFICES ASSUME NEW i \in 1 .. m PROVE h[i] = IF i = 1 THEN s[i] ELSE Cat(h[i-1], s[i])
      OBVIOUS
    <3>1. CASE i = m
      <4>1. (i # 1 => h[i - 1] = g[i - 1]) /\ h[i] = IF i = 1 THEN s[i] ELSE Cat(g[i-1], s[i])
        BY <3>1, <1>2
      <4> HIDE DEF h
      <4> QED BY <4>1
    <3>2. CASE i # m
      <4>1. i \in 1 .. m - 1 /\ h[i] = g[i] /\ (i # 1 => h[i - 1] = g[i - 1])
        BY <3>2, <1>2
      <4>2. g[i] = IF i = 1 THEN s[i] ELSE Cat(g[i-1], s[i])
        BY <4>1
      <4> HIDE DEF h
      <4> QED BY <4>1, <4>2
    <3> QED BY <3>1, <3>2
  <2>2. h = [i \in 1 .. m |-> h[i]]
    OBVIOUS
  <2> HIDE DEF h
  <2>3. h = [i \in 1 .. m |-> IF i = 1 THEN s[i] ELSE Cat(h[i-1], s[i])]
    BY <2>1, <2>2
  <2> QED BY <2>3
<1> HIDE DEF Built
<1>3. 0 \in P /\ \A n \in 1 .. Len(s) : n - 1 \in P => n \in P
  BY <1>1, <1>2
<1> HIDE DEF P
<1>4. \A n \in 0 .. Len(s) : n \in P
  BY <1>3, UpTo
<1>5. Built(Len(s))
  <2>1. Len(s) \in 0 .. Len(s)
    OBVIOUS
  <2> QED BY <1>4, <2>1 DEF P
<1> QED BY <1>5, Zenon DEF Built, IsFlat, Cat

\* The first n sequences of s, flattened.
Flat(s, n) == IF n = 0 THEN <<>> ELSE (CHOOSE g : IsFlat(g, s))[n]

\* FlattenSeq by one sequence after the other.
LEMMA FlatFact ==
  ASSUME NEW S, NEW s \in Seq(Seq(S))
  PROVE  /\ Flat(s, 0) = <<>>
         /\ \A i \in 1 .. Len(s) : Flat(s, i) = Cat(Flat(s, i - 1), s[i])
         /\ FlattenSeq(s) = Flat(s, Len(s))
         /\ \A i \in 0 .. Len(s) : Flat(s, i) \in Seq(S)
<1> DEFINE f == CHOOSE g : IsFlat(g, s)
<1>0. Len(s) \in Nat /\ \A i \in 1 .. Len(s) : s[i] \in Seq(S)
  OBVIOUS
<1>1. IsFlat(f, s)
  BY <1>0, FlatExists, Zenon
<1>2. FlattenSeq(s) = IF Len(s) = 0 THEN s ELSE f[Len(s)]
  BY Zenon DEF FlattenSeq, IsFlat
<1>3. Flat(s, 0) = <<>> /\ \A i \in 1 .. Len(s) : Flat(s, i) = f[i]
  BY <1>0 DEF Flat
<1> HIDE DEF f
<1>4. f = [i \in 1 .. Len(s) |-> IF i = 1 THEN s[i] ELSE Cat(f[i-1], s[i])]
  BY <1>1, Zenon DEF IsFlat, Cat
<1>5. \A i \in 1 .. Len(s) : f[i] = IF i = 1 THEN s[i] ELSE Cat(f[i-1], s[i])
  <2> SUFFICES ASSUME NEW i \in 1 .. Len(s) PROVE f[i] = IF i = 1 THEN s[i] ELSE Cat(f[i-1], s[i])
    OBVIOUS
  <2> QED BY <1>4, Zenon
<1>6. ASSUME NEW i \in 1 .. Len(s) PROVE Flat(s, i) = Cat(Flat(s, i - 1), s[i])
  <2>1. CASE i = 1
    <3>1. Cat(<<>>, s[i]) = s[i]
      BY <1>0, CatFact
    <3> QED BY <1>3, <1>5, <2>1, <3>1
  <2>2. CASE i # 1
    <3>1. i - 1 \in 1 .. Len(s)
      BY <1>0, <2>2
    <3> QED BY <1>3, <1>5, <2>2, <3>1
  <2> QED BY <2>1, <2>2
<1>7. \A i \in 0 .. Len(s) : Flat(s, i) \in Seq(S)
  <2> DEFINE P == {i \in Int : Flat(s, i) \in Seq(S)}
  <2>1. 0 \in P
    <3>1. <<>> \in Seq(S)
      OBVIOUS
    <3>2. Flat(s, 0) \in Seq(S)
      BY <1>3, <3>1, Zenon
    <3> QED BY <3>2
  <2>2. ASSUME NEW n \in 1 .. Len(s), n - 1 \in P PROVE n \in P
    <3>1. Cat(Flat(s, n - 1), s[n]) \in Seq(S)
      BY <1>0, <2>2, CatFact
    <3> QED BY <1>0, <1>6, <3>1
  <2> HIDE DEF P
  <2>3. \A n \in 0 .. Len(s) : n \in P
    BY <1>0, <2>1, <2>2, UpTo
  <2> QED BY <2>3 DEF P
<1>8. FlattenSeq(s) = Flat(s, Len(s))
  <2>1. CASE Len(s) = 0
    <3>1. s = <<>>
      BY <2>1
    <3> QED BY <1>2, <1>3, <2>1, <3>1
  <2>2. CASE Len(s) # 0
    BY <1>0, <1>2, <1>3, <2>2
  <2> QED BY <2>1, <2>2
<1> QED BY <1>3, <1>6, <1>7, <1>8

-----------------------------------------------------------------------------
(* What retain and SpansOf do with numbered spans *)

\* No number twice.
Distinct(q) == \A i, j \in DOMAIN q : q[i].n = q[j].n => i = j

\* The loop of retain.
IsRetain(g, s, T) ==
  g = [i \in 0 .. Len(s) |-> IF i = 0 THEN <<>> ELSE IF s[i] \in T THEN Append(g[i - 1], s[i]) ELSE g[i - 1]]
Add(q, x) == Append(q, x)

\* The function inside retain exists.
LEMMA RetainExists ==
  ASSUME NEW s, NEW T, Len(s) \in Nat
  PROVE  \E g : IsRetain(g, s, T)
<1> DEFINE Value(g, i) == IF i = 0 THEN <<>> ELSE IF s[i] \in T THEN Add(g[i - 1], s[i]) ELSE g[i - 1]
           Built(n) == \E g : g = [i \in 0 .. n |-> Value(g, i)]
           P == {n \in Nat : Built(n)}
<1>1. Built(0)
  <2> DEFINE g == [i \in 0 .. 0 |-> <<>>]
  <2>1. g = [i \in 0 .. 0 |-> Value(g, i)]
    OBVIOUS
  <2> QED BY <2>1
<1>2. ASSUME NEW m \in Nat, m # 0, Built(m - 1) PROVE Built(m)
  <2> PICK g : g = [i \in 0 .. m - 1 |-> Value(g, i)]
    BY <1>2
  <2> DEFINE h == [i \in 0 .. m |-> IF i = m THEN Value(g, m) ELSE g[i]]
  <2>1. \A i \in 0 .. m : h[i] = Value(h, i)
    <3> SUFFICES ASSUME NEW i \in 0 .. m PROVE h[i] = Value(h, i)
      OBVIOUS
    <3>1. CASE i = m
      <4>1. h[i - 1] = g[i - 1] /\ h[i] = Value(g, i)
        BY <3>1, <1>2
      <4> HIDE DEF h
      <4> QED BY <4>1
    <3>2. CASE i # m
      <4>1. i \in 0 .. m - 1 /\ h[i] = g[i] /\ (i # 0 => h[i - 1] = g[i - 1])
        BY <3>2, <1>2
      <4>2. g[i] = Value(g, i)
        BY <4>1
      <4> HIDE DEF h
      <4> QED BY <4>1, <4>2
    <3> QED BY <3>1, <3>2
  <2>2. h = [i \in 0 .. m |-> h[i]]
    OBVIOUS
  <2> HIDE DEF h, Value
  <2>3. h = [i \in 0 .. m |-> Value(h, i)]
    BY <2>1, <2>2
  <2> QED BY <2>3
<1> HIDE DEF Built
<1>3. 0 \in P /\ \A n \in 1 .. Len(s) : n - 1 \in P => n \in P
  BY <1>1, <1>2
<1> HIDE DEF P
<1>4. \A n \in 0 .. Len(s) : n \in P
  BY <1>3, UpTo
<1>5. Built(Len(s))
  <2>1. Len(s) \in 0 .. Len(s)
    OBVIOUS
  <2> QED BY <1>4, <2>1 DEF P
<1> QED BY <1>5, Zenon DEF Built, IsRetain, Add

\* One element more.
LEMMA AddFact ==
  ASSUME NEW S, NEW q \in Seq(S), NEW x \in S
  PROVE  /\ Add(q, x) \in Seq(S) /\ Range(Add(q, x)) = Range(q) \cup {x}
         /\ Distinct(q) /\ (\A y \in Range(q) : y.n # x.n) => Distinct(Add(q, x))
<1> DEFINE r == Add(q, x)
<1>1. /\ r \in Seq(S) /\ Len(q) \in Nat /\ DOMAIN q = 1 .. Len(q) /\ DOMAIN r = 1 .. Len(q) + 1
      /\ \A i \in 1 .. Len(q) : r[i] = q[i]
      /\ r[Len(q) + 1] = x
  BY DEF Add
<1> HIDE DEF r
<1>2. Range(r) = Range(q) \cup {x}
  <2>1. \A i \in DOMAIN r : i = Len(q) + 1 \/ i \in DOMAIN q
    BY <1>1
  <2>2. Len(q) + 1 \in DOMAIN r /\ \A i \in DOMAIN q : i \in DOMAIN r
    BY <1>1
  <2> QED BY <1>1, <2>1, <2>2 DEF Range
<1>3. ASSUME Distinct(q), \A y \in Range(q) : y.n # x.n, NEW i \in DOMAIN r, NEW j \in DOMAIN r, r[i].n = r[j].n
      PROVE  i = j
  <2>1. (i = Len(q) + 1 \/ i \in DOMAIN q) /\ (j = Len(q) + 1 \/ j \in DOMAIN q)
    BY <1>1
  <2>2. \A k \in DOMAIN q : q[k] \in Range(q)
    BY DEF Range
  <2> QED BY <1>1, <1>3, <2>1, <2>2 DEF Distinct
<1>4. Distinct(q) /\ (\A y \in Range(q) : y.n # x.n) => Distinct(r)
  BY <1>3 DEF Distinct
<1> QED BY <1>1, <1>2, <1>4 DEF r

\* retain keeps what is in T and no number twice.
LEMMA RetainFact ==
  ASSUME NEW S, NEW s \in Seq(S), NEW T
  PROVE  /\ retain(s, T) \in Seq(S) /\ Range(retain(s, T)) = Range(s) \cap T
         /\ Distinct(s) => Distinct(retain(s, T))
<1> DEFINE f == CHOOSE g : IsRetain(g, s, T)
           Sofar(n) == {s[i] : i \in {k \in 1 .. n : s[k] \in T}}
           P == {n \in Nat : f[n] \in Seq(S) /\ Range(f[n]) = Sofar(n) /\ (Distinct(s) => Distinct(f[n]))}
<1>0. Len(s) \in Nat /\ DOMAIN s = 1 .. Len(s) /\ \A i \in 1 .. Len(s) : s[i] \in S
  OBVIOUS
<1>1. IsRetain(f, s, T)
  BY <1>0, RetainExists, Zenon
<1>2. retain(s, T) = f[Len(s)]
  BY Zenon DEF retain, IsRetain
<1> HIDE DEF f
<1>3. f = [i \in 0 .. Len(s) |-> IF i = 0 THEN <<>> ELSE IF s[i] \in T THEN Add(f[i - 1], s[i]) ELSE f[i - 1]]
  BY <1>1, Zenon DEF IsRetain, Add
<1>4. f[0] = <<>> /\ \A i \in 1 .. Len(s) : f[i] = IF s[i] \in T THEN Add(f[i - 1], s[i]) ELSE f[i - 1]
  <2>1. \A i \in 0 .. Len(s) : f[i] = IF i = 0 THEN <<>> ELSE IF s[i] \in T THEN Add(f[i - 1], s[i]) ELSE f[i - 1]
    BY <1>3, Zenon
  <2>2. 0 \in 0 .. Len(s) /\ \A i \in 1 .. Len(s) : i \in 0 .. Len(s) /\ i # 0
    BY <1>0
  <2> QED BY <2>1, <2>2, Zenon
<1>5. 0 \in P
  <2>1. f[0] \in Seq(S) /\ Range(f[0]) = {} /\ Distinct(f[0])
    BY <1>4 DEF Range, Distinct
  <2>2. Sofar(0) = {}
    OBVIOUS
  <2> QED BY <2>1, <2>2
<1>6. ASSUME NEW n \in 1 .. Len(s), n - 1 \in P PROVE n \in P
  <2>1. f[n - 1] \in Seq(S) /\ Range(f[n - 1]) = Sofar(n - 1) /\ (Distinct(s) => Distinct(f[n - 1])) /\ s[n] \in S
    BY <1>0, <1>6
  <2>2. CASE s[n] \in T
    <3>1. f[n] = Add(f[n - 1], s[n])
      BY <1>4, <2>2
    <3>2. Sofar(n) = Sofar(n - 1) \cup {s[n]}
      BY <2>2
    <3>3. ASSUME Distinct(s) PROVE \A y \in Range(f[n - 1]) : y.n # s[n].n
      <4>1. \A y \in Sofar(n - 1) : \E i \in 1 .. n - 1 : y = s[i]
        OBVIOUS
      <4>2. \A i \in 1 .. n - 1 : s[i].n # s[n].n
        BY <1>0, <3>3 DEF Distinct
      <4> HIDE DEF Sofar
      <4> QED BY <2>1, <4>1, <4>2
    <3> HIDE DEF Sofar
    <3>4. /\ f[n] \in Seq(S) /\ Range(f[n]) = Range(f[n - 1]) \cup {s[n]}
          /\ Distinct(f[n - 1]) /\ (\A y \in Range(f[n - 1]) : y.n # s[n].n) => Distinct(f[n])
      <4> DEFINE q == f[n - 1]
                 x == s[n]
      <4>1. q \in Seq(S) /\ x \in S
        BY <2>1
      <4> HIDE DEF q, x
      <4>2. /\ Add(q, x) \in Seq(S) /\ Range(Add(q, x)) = Range(q) \cup {x}
            /\ Distinct(q) /\ (\A y \in Range(q) : y.n # x.n) => Distinct(Add(q, x))
        BY <4>1, AddFact
      <4> QED BY <3>1, <4>2, Zenon DEF q, x
    <3>5. Distinct(s) => Distinct(f[n])
      BY <2>1, <3>3, <3>4
    <3>6. Range(f[n]) = Sofar(n)
      BY <2>1, <3>2, <3>4
    <3> QED BY <1>0, <3>4, <3>5, <3>6
  <2>3. CASE s[n] \notin T
    <3>1. f[n] = f[n - 1]
      BY <1>4, <2>3
    <3>2. Sofar(n) = Sofar(n - 1)
      BY <2>3
    <3> HIDE DEF Sofar
    <3> QED BY <2>1, <3>1, <3>2
  <2> QED BY <2>2, <2>3
<1> HIDE DEF P
<1>7. \A n \in 0 .. Len(s) : n \in P
  BY <1>0, <1>5, <1>6, UpTo
<1>8. Len(s) \in P
  <2>1. Len(s) \in 0 .. Len(s)
    BY <1>0
  <2> QED BY <1>7, <2>1
<1>9. Sofar(Len(s)) = Range(s) \cap T
  BY <1>0 DEF Range
<1> HIDE DEF Sofar
<1> QED BY <1>2, <1>8, <1>9 DEF P

\* One sequence behind another.
LEMMA CatRange ==
  ASSUME NEW S, NEW s \in Seq(S), NEW t \in Seq(S)
  PROVE  /\ Range(Cat(s, t)) = Range(s) \cup Range(t)
         /\ Distinct(s) /\ Distinct(t) /\ (\A x \in Range(s), y \in Range(t) : x.n # y.n) => Distinct(Cat(s, t))
<1> DEFINE r == Cat(s, t)
<1>1. /\ r \in Seq(S) /\ Len(r) = Len(s) + Len(t)
      /\ \A i \in 1 .. Len(s) + Len(t) : r[i] = IF i <= Len(s) THEN s[i] ELSE t[i - Len(s)]
  BY CatFact
<1> HIDE DEF r
<1>2. /\ Len(s) \in Nat /\ Len(t) \in Nat /\ DOMAIN s = 1 .. Len(s) /\ DOMAIN t = 1 .. Len(t)
      /\ DOMAIN r = 1 .. Len(s) + Len(t)
  BY <1>1
<1>3. \A i \in DOMAIN r : \/ i \in DOMAIN s /\ r[i] = s[i]
                          \/ i - Len(s) \in DOMAIN t /\ r[i] = t[i - Len(s)] /\ i \in Int
  BY <1>1, <1>2
<1>4. /\ \A i \in DOMAIN s : i \in DOMAIN r /\ r[i] = s[i]
      /\ \A i \in DOMAIN t : i + Len(s) \in DOMAIN r /\ r[i + Len(s)] = t[i]
  BY <1>1, <1>2
<1>5. Range(r) = Range(s) \cup Range(t)
  BY <1>3, <1>4 DEF Range
<1>6. ASSUME Distinct(s), Distinct(t), \A x \in Range(s), y \in Range(t) : x.n # y.n,
             NEW i \in DOMAIN r, NEW j \in DOMAIN r, r[i].n = r[j].n
      PROVE  i = j
  <2>1. (\A k \in DOMAIN s : s[k] \in Range(s)) /\ (\A k \in DOMAIN t : t[k] \in Range(t))
    BY DEF Range
  <2>2. CASE i \in DOMAIN s /\ r[i] = s[i] /\ j \in DOMAIN s /\ r[j] = s[j]
    BY <1>6, <2>2 DEF Distinct
  <2>3. CASE i - Len(s) \in DOMAIN t /\ r[i] = t[i - Len(s)] /\ j - Len(s) \in DOMAIN t /\ r[j] = t[j - Len(s)]
    <3>1. i - Len(s) = j - Len(s)
      BY <1>6, <2>3 DEF Distinct
    <3> QED BY <1>2, <3>1
  <2>4. CASE i \in DOMAIN s /\ r[i] = s[i] /\ j - Len(s) \in DOMAIN t /\ r[j] = t[j - Len(s)]
    BY <1>6, <2>1, <2>4
  <2>5. CASE j \in DOMAIN s /\ r[j] = s[j] /\ i - Len(s) \in DOMAIN t /\ r[i] = t[i - Len(s)]
    BY <1>6, <2>1, <2>5
  <2> QED BY <1>3, <2>2, <2>3, <2>4, <2>5
<1>7. Distinct(s) /\ Distinct(t) /\ (\A x \in Range(s), y \in Range(t) : x.n # y.n) => Distinct(r)
  BY <1>6 DEF Distinct
<1> QED BY <1>5, <1>7 DEF r

\* A sequence of chunks of spans in S, no two of them with the same number.
Numbered(X, S) ==
  /\ Len(X) \in Nat /\ X = [i \in 1 .. Len(X) |-> X[i]]
  /\ \A i \in 1 .. Len(X) : X[i].spans \in Seq(S) /\ Distinct(X[i].spans)
  /\ \A i, j \in 1 .. Len(X) : \A x \in Range(X[i].spans), y \in Range(X[j].spans) : x.n = y.n => i = j
Members(X, at) == UNION {Range(X[i].spans) : i \in at}

\* SpansOf lists the spans of the chunks at the given positions, each once.
LEMMA SpansOfFact ==
  ASSUME NEW S, NEW X, Numbered(X, S), NEW at, at \subseteq 1 .. Len(X)
  PROVE  /\ SpansOf(X, at) \in Seq(S) /\ Distinct(SpansOf(X, at))
         /\ Range(SpansOf(X, at)) = Members(X, at)
<1> DEFINE s == [i \in 1 .. Len(X) |-> IF i \in at THEN X[i].spans ELSE <<>>]
           Upto(n) == Members(X, at \cap 1 .. n)
           P == {n \in Nat : Distinct(Flat(s, n)) /\ Range(Flat(s, n)) = Upto(n)}
<1>1. /\ Len(X) \in Nat /\ DOMAIN X = 1 .. Len(X)
      /\ \A i \in 1 .. Len(X) : X[i].spans \in Seq(S) /\ Distinct(X[i].spans)
  <2>1. Len(X) \in Nat /\ X = [i \in 1 .. Len(X) |-> X[i]]
    BY DEF Numbered
  <2> QED BY <2>1 DEF Numbered
<1>2. SpansOf(X, at) = FlattenSeq(s)
  BY <1>1 DEF SpansOf
<1>3. \A i \in 1 .. Len(X) : s[i] = (IF i \in at THEN X[i].spans ELSE <<>>) /\ s[i] \in Seq(S)
  BY <1>1
<1>4. s \in Seq(Seq(S)) /\ Len(s) = Len(X)
  <2>1. s = [i \in 1 .. Len(X) |-> s[i]]
    OBVIOUS
  <2> HIDE DEF s
  <2> QED BY <1>1, <1>3, <2>1
<1> HIDE DEF s
<1>5. /\ Flat(s, 0) = <<>>
      /\ \A i \in 1 .. Len(X) : Flat(s, i) = Cat(Flat(s, i - 1), s[i])
      /\ FlattenSeq(s) = Flat(s, Len(X))
      /\ \A i \in 0 .. Len(X) : Flat(s, i) \in Seq(S)
  BY <1>4, FlatFact
<1>6. 0 \in P
  <2>1. Distinct(Flat(s, 0)) /\ Range(Flat(s, 0)) = {}
    BY <1>5 DEF Distinct, Range
  <2>2. Upto(0) = {}
    BY DEF Members
  <2> QED BY <2>1, <2>2
<1>7. ASSUME NEW n \in 1 .. Len(X), n - 1 \in P PROVE n \in P
  <2> DEFINE q == Flat(s, n - 1)
             x == s[n]
  <2>1. q \in Seq(S) /\ Distinct(q) /\ Range(q) = Upto(n - 1) /\ n - 1 \in 0 .. Len(X)
    BY <1>1, <1>5, <1>7
  <2>2. x \in Seq(S) /\ Distinct(x) /\ Range(x) = IF n \in at THEN Range(X[n].spans) ELSE {}
    <3>1. <<>> \in Seq(S) /\ Distinct(<<>>) /\ Range(<<>>) = {}
      BY DEF Distinct, Range
    <3> QED BY <1>1, <1>3, <3>1
  <2>3. Flat(s, n) = Cat(q, x)
    BY <1>5
  <2>4. Upto(n) = Upto(n - 1) \cup IF n \in at THEN Range(X[n].spans) ELSE {}
    <3>1. at \cap 1 .. n = (at \cap 1 .. n - 1) \cup (at \cap {n})
      BY <1>1
    <3>2. Members(X, at \cap 1 .. n) = Members(X, at \cap 1 .. n - 1) \cup Members(X, at \cap {n})
      BY <3>1 DEF Members
    <3>3. Members(X, at \cap {n}) = IF n \in at THEN Range(X[n].spans) ELSE {}
      BY DEF Members
    <3> QED BY <3>2, <3>3
  <2>5. \A y \in Range(q), z \in Range(x) : y.n # z.n
    <3>1. \A y \in Upto(n - 1) : \E i \in 1 .. n - 1 : y \in Range(X[i].spans)
      BY DEF Members
    <3>2. \A z \in Range(x) : z \in Range(X[n].spans)
      BY <2>2
    <3>3. \A i \in 1 .. n - 1 : i \in 1 .. Len(X) /\ i # n
      BY <1>1
    <3> HIDE DEF Upto, q, x
    <3> QED BY <2>1, <3>1, <3>2, <3>3 DEF Numbered
  <2> HIDE DEF q, x, Upto
  <2>6. Range(Cat(q, x)) = Range(q) \cup Range(x) /\ Distinct(Cat(q, x))
    BY <2>1, <2>2, <2>5, CatRange
  <2>7. Distinct(Flat(s, n)) /\ Range(Flat(s, n)) = Upto(n)
    BY <2>1, <2>2, <2>3, <2>4, <2>6, Zenon
  <2>8. n \in Nat
    BY <1>1
  <2> QED BY <2>7, <2>8
<1> HIDE DEF P
<1>8. \A n \in 0 .. Len(X) : n \in P
  BY <1>1, <1>6, <1>7, UpTo
<1>9. Len(X) \in P /\ Len(X) \in 0 .. Len(X)
  BY <1>1, <1>8
<1>10. at \cap 1 .. Len(X) = at
  OBVIOUS
<1> QED BY <1>2, <1>5, <1>9, <1>10 DEF P

\* Fewer spans in each chunk are still numbered.
LEMMA Thinned ==
  ASSUME NEW S, NEW X, Numbered(X, S), NEW Y, Len(Y) = Len(X), Y = [i \in 1 .. Len(Y) |-> Y[i]],
         \A i \in 1 .. Len(X) : /\ Y[i].spans \in Seq(S) /\ Distinct(Y[i].spans)
                                /\ Range(Y[i].spans) \subseteq Range(X[i].spans)
  PROVE  Numbered(Y, S)
BY DEF Numbered

-----------------------------------------------------------------------------
(* What process_traces makes of a body *)

ChunkFields == {"spans", "priority", "dm"}
Shaped(X) == \A i \in 1 .. Len(X) : DOMAIN X[i] = ChunkFields
All(c) == Members(Body[c].chunks, 1 .. Len(Body[c].chunks))

\* The bodies of the calls are such chunks, and SpansIn lists their spans.
LEMMA BodyNumbered ==
  ASSUME NEW c \in Calls
  PROVE  /\ Numbered(Body[c].chunks, All(c)) /\ Shaped(Body[c].chunks)
         /\ SpansIn[c] \in Seq(All(c)) /\ Range(SpansIn[c]) = All(c) /\ Distinct(SpansIn[c])
<1> DEFINE X == Body[c].chunks
           S == All(c)
<1>1. /\ X \in Seq(Range(X))
      /\ \A i \in DOMAIN X :
           /\ DOMAIN X[i] = ChunkFields
           /\ X[i].spans \in Seq(Range(X[i].spans))
           /\ \A j \in DOMAIN X : \A k \in DOMAIN X[i].spans, l \in DOMAIN X[j].spans :
                X[i].spans[k].n = X[j].spans[l].n => i = j /\ k = l
  BY BodyAssumption DEF ChunkFields
<1>2. S = Members(X, 1 .. Len(X))
  BY DEF All
<1> HIDE DEF X, S
<1>3. Len(X) \in Nat /\ X = [i \in 1 .. Len(X) |-> X[i]] /\ DOMAIN X = 1 .. Len(X)
  BY <1>1
<1>4. Shaped(X)
  BY <1>1, <1>3 DEF Shaped
<1>5. ASSUME NEW i \in 1 .. Len(X) PROVE X[i].spans \in Seq(S) /\ Distinct(X[i].spans)
  <2> DEFINE q == X[i].spans
  <2>1. q \in Seq(Range(q))
    BY <1>1, <1>3
  <2>2. Range(q) \subseteq S
    BY <1>2 DEF Members
  <2>3. Distinct(q)
    BY <1>1, <1>3 DEF Distinct
  <2> HIDE DEF q
  <2>4. q \in Seq(S)
    BY <2>1, <2>2
  <2> QED BY <2>3, <2>4 DEF q
<1>6. ASSUME NEW i \in 1 .. Len(X), NEW j \in 1 .. Len(X),
             NEW x \in Range(X[i].spans), NEW y \in Range(X[j].spans), x.n = y.n
      PROVE  i = j
  <2>1. PICK k \in DOMAIN X[i].spans : x = X[i].spans[k]
    BY DEF Range
  <2>2. PICK l \in DOMAIN X[j].spans : y = X[j].spans[l]
    BY DEF Range
  <2> QED BY <1>1, <1>3, <1>6, <2>1, <2>2
<1>7. Numbered(X, S)
  BY <1>3, <1>5, <1>6 DEF Numbered
<1>8. SpansIn[c] = SpansOf(X, 1 .. Len(X))
  BY <1>3 DEF SpansIn, X
<1>9. /\ SpansOf(X, 1 .. Len(X)) \in Seq(S) /\ Distinct(SpansOf(X, 1 .. Len(X)))
      /\ Range(SpansOf(X, 1 .. Len(X))) = S
  BY <1>2, <1>7, SpansOfFact
<1> QED BY <1>4, <1>7, <1>8, <1>9 DEF X, S

\* process leaves some of the spans of a chunk.
LEMMA ProcessThins ==
  ASSUME NEW S, NEW chunk, DOMAIN chunk = ChunkFields, chunk.spans \in Seq(S), Distinct(chunk.spans), NEW cfg
  PROVE  LET q == process(chunk, cfg).spans
         IN q \in Seq(S) /\ Distinct(q) /\ Range(q) \subseteq Range(chunk.spans)
<1> DEFINE s == chunk.spans
           stay == {x \in Range(s) : ~filter_span_from_lambda_library_or_runtime(x)}
           q == process(chunk, cfg).spans
<1>1. q = <<>> \/ q = retain(s, stay)
  <2>1. \E d : process(chunk, cfg) =
          [chunk EXCEPT !.dm = d, !.spans = IF HasRoot(@) /\ filter_span_by_tags(Root(@), cfg) THEN <<>> ELSE retain(@, stay)]
    BY Zenon DEF process
  <2> HIDE DEF stay
  <2> QED BY <2>1 DEF ChunkFields
<1> HIDE DEF q, stay
<1>2. <<>> \in Seq(S) /\ Distinct(<<>>) /\ Range(<<>>) = {}
  BY DEF Distinct, Range
<1>3. retain(s, stay) \in Seq(S) /\ Range(retain(s, stay)) = Range(s) \cap stay /\ Distinct(retain(s, stay))
  BY RetainFact
<1>4. q \in Seq(S) /\ Distinct(q) /\ Range(q) \subseteq Range(s)
  <2>1. CASE q = <<>>
    BY <1>2, <2>1
  <2>2. CASE q = retain(s, stay)
    BY <1>3, <2>2
  <2> QED BY <1>1, <2>1, <2>2
<1> QED BY <1>4 DEF q

\* Each chunk processed.
Outcome(X, cfg) == [i \in DOMAIN X |-> process(X[i], cfg)]
Rooted(X) == {i \in DOMAIN X : HasRoot(X[i].spans)}

\* Processing the chunks keeps them numbered; an empty chunk stays empty.
LEMMA OutcomeNumbered ==
  ASSUME NEW S, NEW X, Numbered(X, S), Shaped(X), NEW cfg
  PROVE  LET Y == Outcome(X, cfg)
         IN /\ Numbered(Y, S) /\ Len(Y) = Len(X)
            /\ Members(Y, 1 .. Len(X)) \subseteq Members(X, 1 .. Len(X))
            /\ Members(Y, Rooted(X)) = Members(Y, 1 .. Len(X))
<1> DEFINE Y == Outcome(X, cfg)
<1>1. Len(X) \in Nat /\ DOMAIN X = 1 .. Len(X)
  <2>1. Len(X) \in Nat /\ X = [i \in 1 .. Len(X) |-> X[i]]
    BY DEF Numbered
  <2> QED BY <2>1
<1>2. Y = [i \in 1 .. Len(X) |-> process(X[i], cfg)]
  BY <1>1 DEF Outcome
<1>3. Len(Y) = Len(X) /\ Y = [i \in 1 .. Len(Y) |-> Y[i]] /\ \A i \in 1 .. Len(X) : Y[i] = process(X[i], cfg)
  BY <1>1, <1>2
<1> HIDE DEF Y
<1>4. ASSUME NEW i \in 1 .. Len(X)
      PROVE  /\ Y[i].spans \in Seq(S) /\ Distinct(Y[i].spans)
             /\ Range(Y[i].spans) \subseteq Range(X[i].spans)
  <2>1. DOMAIN X[i] = ChunkFields /\ X[i].spans \in Seq(S) /\ Distinct(X[i].spans)
    BY DEF Shaped, Numbered
  <2> QED BY <1>3, <2>1, ProcessThins
<1>5. Numbered(Y, S)
  BY <1>3, <1>4, Thinned
<1>6. Members(Y, 1 .. Len(X)) \subseteq Members(X, 1 .. Len(X))
  BY <1>4 DEF Members
<1>7. Members(Y, Rooted(X)) = Members(Y, 1 .. Len(X))
  <2>1. \A i \in 1 .. Len(X) : i \notin Rooted(X) => Range(Y[i].spans) = {}
    <3> SUFFICES ASSUME NEW i \in 1 .. Len(X), i \notin Rooted(X) PROVE Range(Y[i].spans) = {}
      OBVIOUS
    <3>1. X[i].spans = <<>>
      BY <1>1 DEF Rooted, HasRoot
    <3>2. Range(X[i].spans) = {}
      BY <3>1 DEF Range
    <3> QED BY <1>4, <3>2
  <2>2. Rooted(X) \subseteq 1 .. Len(X)
    BY <1>1 DEF Rooted
  <2> QED BY <2>1, <2>2 DEF Members
<1> QED BY <1>3, <1>5, <1>6, <1>7 DEF Y

\* Stats are of everything that was not filtered, each span once; a payload is of
\* some of that, and of all of it where the backend computes the stats.
LEMMA ProcessTracesFact ==
  ASSUME NEW S, NEW X, Numbered(X, S), Shaped(X), NEW cfg, NEW client
  PROVE  LET r == process_traces(cfg, X, client)
             left == Members(Outcome(X, cfg), 1 .. Len(X))
         IN /\ r.for_stats \in Seq(S) /\ Distinct(r.for_stats) /\ Range(r.for_stats) = left
            /\ r.payload.spans \in Seq(S) /\ Range(r.payload.spans) \subseteq left
            /\ left \subseteq Members(X, 1 .. Len(X))
            /\ r.payload.stamped <=> resolve(cfg.compute_stats, client) = "Backend"
            /\ r.payload.stamped => r.send /\ r.payload.spans = r.for_stats
<1> DEFINE by == resolve(cfg.compute_stats, client)
           Y == Outcome(X, cfg)
           left == Members(Y, 1 .. Len(X))
           kept == IF by = "Backend" THEN Rooted(X) ELSE Rooted(X) \cap drop_sampled_out_chunks(Y, cfg)
           r == process_traces(cfg, X, client)
<1>1. Y = [i \in DOMAIN X |-> [c \in Range(X) |-> process(c, cfg)][X[i]]]
  BY DEF Outcome, Range
<1>2. r = [send |-> by = "Backend" \/ kept # {},
           payload |-> [spans |-> SpansOf(Y, kept), stamped |-> by = "Backend"],
           for_stats |-> SpansOf(Y, Rooted(X))]
  <2> HIDE DEF Y
  <2> QED BY <1>1, Zenon DEF process_traces, Rooted
<1>3. kept \subseteq Rooted(X) /\ (by = "Backend" => kept = Rooted(X))
  OBVIOUS
<1>4. /\ Numbered(Y, S) /\ Len(Y) = Len(X)
      /\ left \subseteq Members(X, 1 .. Len(X))
      /\ Members(Y, Rooted(X)) = left
  BY OutcomeNumbered
<1> HIDE DEF Y, kept, by, left, r
<1>5. /\ (r.send <=> by = "Backend" \/ kept # {})
      /\ r.payload.spans = SpansOf(Y, kept) /\ (r.payload.stamped <=> by = "Backend")
      /\ r.for_stats = SpansOf(Y, Rooted(X))
  BY <1>2
<1>6. Rooted(X) \subseteq 1 .. Len(Y)
  <2>1. X = [i \in 1 .. Len(X) |-> X[i]]
    BY DEF Numbered
  <2>2. DOMAIN X = 1 .. Len(X)
    BY <2>1
  <2> QED BY <1>4, <2>2 DEF Rooted
<1>7. /\ SpansOf(Y, Rooted(X)) \in Seq(S) /\ Distinct(SpansOf(Y, Rooted(X)))
      /\ Range(SpansOf(Y, Rooted(X))) = left
  BY <1>4, <1>6, SpansOfFact
<1>8. SpansOf(Y, kept) \in Seq(S) /\ Range(SpansOf(Y, kept)) = Members(Y, kept)
  BY <1>3, <1>4, <1>6, SpansOfFact
<1>9. Members(Y, kept) \subseteq left
  BY <1>3, <1>4 DEF Members
<1> QED BY <1>3, <1>4, <1>5, <1>7, <1>8, <1>9 DEF Y, by, left, r

\* The chunks a call goes on with, OTLP without deduplication.
Taken(c) == IF c \in OtlpCalls THEN Body[c].chunks ELSE KeptChunks(c)
Result(c) == process_traces(config, Taken(c), ClientStats(c))
Left(c) == Members(Outcome(Taken(c), config), 1 .. Len(Taken(c)))
NKept(c) == {s \in All(c) : s.n \in call[c].kept}

\* Deduplication leaves the kept spans.
LEMMA KeptNumbered ==
  ASSUME NEW c \in Calls
  PROVE  LET Y == KeptChunks(c)
         IN /\ Numbered(Y, All(c)) /\ Shaped(Y)
            /\ Members(Y, 1 .. Len(Y)) = NKept(c)
<1> DEFINE X == Body[c].chunks
           S == All(c)
           K == call[c].kept
           Y == KeptChunks(c)
<1>1. Numbered(X, S) /\ Shaped(X) /\ S = Members(X, 1 .. Len(X))
  BY BodyNumbered DEF All
<1>2. Len(X) \in Nat /\ X = [i \in 1 .. Len(X) |-> X[i]]
  BY <1>1 DEF Numbered
<1>3. DOMAIN X = 1 .. Len(X)
  BY <1>2
<1>4. Y = [i \in DOMAIN X |-> [X[i] EXCEPT !.spans = retain(@, {s \in Range(@) : s.n \in K})]]
  BY DEF KeptChunks
<1> HIDE DEF X, Y, S, K
<1>5. Len(Y) = Len(X) /\ Y = [i \in 1 .. Len(Y) |-> Y[i]]
  BY <1>2, <1>3, <1>4
<1>6. ASSUME NEW i \in 1 .. Len(X)
      PROVE  /\ DOMAIN Y[i] = ChunkFields
             /\ Y[i].spans \in Seq(S) /\ Distinct(Y[i].spans)
             /\ Range(Y[i].spans) = {s \in Range(X[i].spans) : s.n \in K}
  <2> DEFINE T == {s \in Range(X[i].spans) : s.n \in K}
             q == X[i].spans
  <2>1. Y[i] = [X[i] EXCEPT !.spans = retain(@, {s \in Range(@) : s.n \in K})]
    BY <1>3, <1>4
  <2>2. DOMAIN X[i] = ChunkFields
    BY <1>1 DEF Shaped
  <2>3. DOMAIN Y[i] = ChunkFields /\ Y[i].spans = retain(q, T)
    BY <2>1, <2>2 DEF ChunkFields
  <2>4. q \in Seq(S) /\ Distinct(q)
    BY <1>1 DEF Numbered
  <2>5. T \subseteq Range(q)
    OBVIOUS
  <2> HIDE DEF q, T
  <2>6. retain(q, T) \in Seq(S) /\ Range(retain(q, T)) = Range(q) \cap T /\ Distinct(retain(q, T))
    BY <2>4, RetainFact
  <2>7. Range(q) \cap T = T
    BY <2>5
  <2> QED BY <2>3, <2>6, <2>7 DEF T
<1>7. Numbered(Y, S)
  BY <1>1, <1>5, <1>6, Thinned
<1>8. Shaped(Y)
  BY <1>5, <1>6 DEF Shaped
<1>9. Members(Y, 1 .. Len(Y)) = {s \in S : s.n \in K}
  <2> SUFFICES ASSUME NEW s PROVE s \in Members(Y, 1 .. Len(Y)) <=> s \in S /\ s.n \in K
    OBVIOUS
  <2>1. s \in Members(Y, 1 .. Len(Y)) <=> \E i \in 1 .. Len(X) : s \in Range(Y[i].spans)
    BY <1>5 DEF Members
  <2>2. s \in S <=> \E i \in 1 .. Len(X) : s \in Range(X[i].spans)
    BY <1>1 DEF Members
  <2> QED BY <1>6, <2>1, <2>2
<1> QED BY <1>7, <1>8, <1>9 DEF Y, S, K, NKept

\* What a trace or OTLP call sends and counts.
LEMMA ResultFact ==
  ASSUME NEW c \in TraceCalls \cup OtlpCalls
  PROVE  /\ Result(c).for_stats \in Seq(All(c)) /\ Distinct(Result(c).for_stats)
         /\ Range(Result(c).for_stats) = Left(c)
         /\ Result(c).payload.spans \in Seq(All(c)) /\ Range(Result(c).payload.spans) \subseteq Left(c)
         /\ c \in TraceCalls => Left(c) \subseteq NKept(c)
         /\ Result(c).payload.stamped <=> ComputedBy(c) = "Backend"
         /\ Result(c).payload.stamped => Result(c).send /\ Result(c).payload.spans = Result(c).for_stats
<1> DEFINE X == Taken(c)
           S == All(c)
<1>1. c \in Calls /\ (c \in TraceCalls => c \notin OtlpCalls)
  BY DEF TraceCalls, OtlpCalls
<1>2. Numbered(X, S) /\ Shaped(X) /\ (c \in TraceCalls => Members(X, 1 .. Len(X)) = NKept(c))
  BY <1>1, BodyNumbered, KeptNumbered DEF Taken
<1> HIDE DEF X, S
<1>3. LET r == process_traces(config, X, ClientStats(c))
          left == Members(Outcome(X, config), 1 .. Len(X))
      IN /\ r.for_stats \in Seq(S) /\ Distinct(r.for_stats) /\ Range(r.for_stats) = left
         /\ r.payload.spans \in Seq(S) /\ Range(r.payload.spans) \subseteq left
         /\ left \subseteq Members(X, 1 .. Len(X))
         /\ r.payload.stamped <=> resolve(config.compute_stats, ClientStats(c)) = "Backend"
         /\ r.payload.stamped => r.send /\ r.payload.spans = r.for_stats
  BY <1>2, ProcessTracesFact
<1> QED BY <1>2, <1>3 DEF X, S, Result, Left, ComputedBy

-----------------------------------------------------------------------------
(* The second invariant: payloads, results and the deduper *)

NoPayload == [spans |-> <<>>, stamped |-> FALSE]
Sole(q) == \A i, j \in DOMAIN q : q[i].call = q[j].call => i = j

\* A call has one payload at most, on the channel or stored, and it is what the
\* call had to send.
Carried(q) == \A i \in DOMAIN q : q[i].call \in Calls /\ q[i].out = call[q[i].call].out
OnePayload ==
  /\ Sole(channel.trace) /\ Sole(store.trace)
  /\ Carried(channel.trace) /\ Carried(store.trace)
  /\ \A c \in Calls :
       /\ ~(Holds(channel.trace, c) /\ Holds(store.trace, c))
       /\ call[c].pc \in Early \cup {"send"} => ~Holds(channel.trace, c) /\ ~Holds(store.trace, c)
  /\ aggregator = TRUE => "trace" \in forwarding

\* A call sends and counts what process_traces made of its spans.
Added(c) == IF ComputedBy(c) = "Extension" THEN [i \in DOMAIN Result(c).for_stats |-> Result(c).for_stats[i].n] ELSE <<>>
ResultInOrder(c) ==
  /\ call[c].out = NoPayload \/ (call[c].pc \notin Early /\ call[c].out = Result(c).payload)
  /\ call[c].pc \in Early \/ (c \in OtlpCalls /\ call[c].pc \in {"send", "count"}) => concentrator[c] = <<>>
  /\ ComputedBy(c) # "Extension" => concentrator[c] = <<>>
  /\ call[c].pc = "send" => call[c].out = Result(c).payload
  /\ c \in TraceCalls /\ call[c].pc = "send" => concentrator[c] = Added(c)
  /\ call[c].pc = "count" \/ call[c].status = 200 =>
       Left(c) = {} \/ (Result(c).payload.stamped => call[c].out = Result(c).payload)
  /\ call[c].status = 200 => Left(c) = {} \/ concentrator[c] = Added(c)
ResultsInOrder ==
  /\ concentrator = [c \in Calls |-> concentrator[c]]
  /\ \A c \in TraceCalls \cup OtlpCalls : ResultInOrder(c)

\* The deduper is asked about the spans of the calls, one after the other.
DedupShape ==
  /\ dedup = [f \in {"order", "queue"} |-> dedup[f]]
  /\ IsSequence(dedup.order) /\ IsSequence(dedup.queue)
  /\ \A i, j \in DOMAIN dedup.order : dedup.order[i] = dedup.order[j] => i = j
  /\ Range(dedup.order) \subseteq AllKeys
Asked(q) == q.call \in TraceCalls \cap config.calls /\ q.at \in DOMAIN SpansIn[q.call] /\ q.key = SpansIn[q.call][q.at].key
AskedInOrder ==
  /\ \A i \in DOMAIN dedup.queue : Asked(dedup.queue[i])
  /\ \A c \in TraceCalls :
       /\ call[c].pc = "new" => call[c].at = 1
       /\ call[c].pc = "asked" => c \in config.calls /\ call[c].at \in DOMAIN SpansIn[c]

\* While it forgets nothing and answers in time, it knows the keys of all spans
\* that were kept, and no two calls kept spans of the same key.
KeptKeys(c) == {s.key : s \in NKept(c)}
Fresh == FewKeys /\ NoneBlind
KeptOnce ==
  Fresh => /\ \A c \in TraceCalls : KeptKeys(c) \subseteq Range(dedup.order)
           /\ \A c, d \in TraceCalls : c # d => KeptKeys(c) \cap KeptKeys(d) = {}

PayloadInv == OnePayload /\ ResultsInOrder /\ DedupShape /\ AskedInOrder /\ KeptOnce

-----------------------------------------------------------------------------
(* What a step leaves alone *)

\* The result of a call depends on the spans it kept.
LEMMA ResultSame ==
  ASSUME NEW c \in Calls, config' = config, call'[c].kept = call[c].kept
  PROVE  /\ Result(c)' = Result(c) /\ Left(c)' = Left(c) /\ Added(c)' = Added(c)
         /\ ComputedBy(c)' = ComputedBy(c) /\ NKept(c)' = NKept(c) /\ KeptKeys(c)' = KeptKeys(c)
<1>1. Taken(c)' = Taken(c)
  BY DEF Taken, KeptChunks
<1>2. Result(c)' = Result(c)
  BY <1>1 DEF Result
<1>3. Left(c)' = Left(c)
  BY <1>1 DEF Left, Outcome
<1>4. ComputedBy(c)' = ComputedBy(c)
  BY DEF ComputedBy
<1>5. Added(c)' = Added(c)
  BY <1>2, <1>4 DEF Added
<1>6. NKept(c)' = NKept(c)
  BY DEF NKept
<1> QED BY <1>2, <1>3, <1>4, <1>5, <1>6 DEF KeptKeys

\* A call goes on and the others are where they were.
LEMMA ResultsMove ==
  ASSUME ResultsInOrder, NEW c \in Calls, config' = config, Others(c),
         concentrator' = [d \in Calls |-> concentrator'[d]],
         \A d \in Calls \ {c} : concentrator'[d] = concentrator[d],
         c \in TraceCalls \cup OtlpCalls => ResultInOrder(c)'
  PROVE  ResultsInOrder'
<1>1. ASSUME NEW d \in TraceCalls \cup OtlpCalls, d # c PROVE ResultInOrder(d)'
  <2>1. d \in Calls \ {c}
    BY <1>1 DEF TraceCalls, OtlpCalls
  <2>2. call'[d] = call[d] /\ concentrator'[d] = concentrator[d]
    BY <2>1 DEF Others
  <2>3. /\ Result(d)' = Result(d) /\ Left(d)' = Left(d) /\ Added(d)' = Added(d)
        /\ ComputedBy(d)' = ComputedBy(d)
    BY <2>1, <2>2, ResultSame
  <2>4. ResultInOrder(d)
    BY DEF ResultsInOrder
  <2> QED BY <2>2, <2>3, <2>4 DEF ResultInOrder
<1> QED BY <1>1 DEF ResultsInOrder

\* What the deduper knows of the calls.
LEMMA DedupStays ==
  ASSUME PayloadInv, NEW c \in Calls, Others(c), call'[c].kept = call[c].kept, call'[c].blind = call[c].blind,
         UNCHANGED <<config, dedup>>, call'[c].pc \notin {"new", "asked"}
  PROVE  DedupShape' /\ AskedInOrder' /\ KeptOnce'
<1>1. AllKeys' = AllKeys /\ (FewKeys' <=> FewKeys)
  BY DEF AllKeys, FewKeys
<1>2. DedupShape'
  BY <1>1 DEF PayloadInv, DedupShape
<1>3. \A q : Asked(q)' <=> Asked(q)
  BY DEF Asked
<1>4. AskedInOrder'
  BY <1>3 DEF PayloadInv, AskedInOrder, Others, TraceCalls
<1>5. \A d \in Calls : call'[d].kept = call[d].kept /\ call'[d].blind = call[d].blind
  BY DEF Others
<1>6. NoneBlind' <=> NoneBlind
  BY <1>5, Zenon DEF NoneBlind
<1>7. \A d \in TraceCalls : KeptKeys(d)' = KeptKeys(d)
  BY <1>5, ResultSame DEF TraceCalls
<1>8. KeptOnce'
  BY <1>1, <1>6, <1>7 DEF PayloadInv, KeptOnce, Fresh
<1> QED BY <1>2, <1>4, <1>8

\* Payloads stay where they are.
LEMMA PayloadsStay ==
  ASSUME OnePayload, NEW c \in Calls, Others(c), UNCHANGED <<channel, store>>,
         call[c].pc \in Early \/ call'[c].out = call[c].out,
         call'[c].pc \in Early \cup {"send"} => call[c].pc \in Early \cup {"send"},
         aggregator' = TRUE => "trace" \in forwarding'
  PROVE  OnePayload'
<1>1. ASSUME NEW q, q = channel.trace \/ q = store.trace, Carried(q) PROVE Carried(q)'
  <2>1. \A i \in DOMAIN q : q[i].call # c \/ call[c].pc \notin Early
    BY <1>1 DEF OnePayload, Holds
  <2> QED BY <1>1, <2>1 DEF Carried, Others
<1>2. Carried(channel.trace)' /\ Carried(store.trace)'
  BY <1>1 DEF OnePayload
<1>3. \A d \in Calls : /\ ~(Holds(channel.trace, d) /\ Holds(store.trace, d))'
                       /\ call'[d].pc \in Early \cup {"send"} => ~Holds(channel'.trace, d) /\ ~Holds(store'.trace, d)
  BY DEF OnePayload, Others
<1> QED BY <1>2, <1>3 DEF OnePayload

\* Nothing happens to the calls and their payloads.
LEMMA PayloadNothing ==
  ASSUME PayloadInv, UNCHANGED <<config, call, dedup, channel, store, concentrator>>,
         aggregator' = TRUE => "trace" \in forwarding'
  PROVE  PayloadInv'
<1>1. OnePayload'
  BY DEF PayloadInv, OnePayload, Carried
<1>2. \A d \in Calls : /\ Result(d)' = Result(d) /\ Left(d)' = Left(d) /\ Added(d)' = Added(d)
                       /\ ComputedBy(d)' = ComputedBy(d) /\ KeptKeys(d)' = KeptKeys(d)
  BY ResultSame
<1>3. \A d \in TraceCalls \cup OtlpCalls : d \in Calls
  BY DEF TraceCalls, OtlpCalls
<1>4. ResultsInOrder'
  BY <1>2, <1>3 DEF PayloadInv, ResultsInOrder, ResultInOrder
<1>5. AllKeys' = AllKeys /\ (FewKeys' <=> FewKeys)
  BY DEF AllKeys, FewKeys
<1>6. DedupShape'
  BY <1>5 DEF PayloadInv, DedupShape
<1>7. AskedInOrder'
  BY DEF PayloadInv, AskedInOrder, Asked
<1>8. NoneBlind' <=> NoneBlind
  BY DEF NoneBlind
<1>9. KeptOnce'
  BY <1>2, <1>3, <1>5, <1>8 DEF PayloadInv, KeptOnce, Fresh
<1> QED BY <1>1, <1>4, <1>6, <1>7, <1>9 DEF PayloadInv

-----------------------------------------------------------------------------
(* Each action keeps the second invariant *)

\* A call ends without having accepted anything, or is not about spans.
LEMMA CallEnds ==
  ASSUME PayloadInv, NEW c \in Calls, Others(c), call'[c].out = call[c].out,
         call'[c].kept = call[c].kept, call'[c].blind = call[c].blind,
         call'[c].pc \in {"answered", "cut"}, call'[c].status # 200 \/ c \notin TraceCalls \cup OtlpCalls,
         UNCHANGED <<config, dedup, channel, store, concentrator, forwarding, aggregator>>
  PROVE  PayloadInv'
<1>1. DedupShape' /\ AskedInOrder' /\ KeptOnce'
  BY DedupStays
<1>2. OnePayload'
  BY PayloadsStay DEF PayloadInv, OnePayload, Early
<1>3. /\ Result(c)' = Result(c) /\ Left(c)' = Left(c) /\ Added(c)' = Added(c)
      /\ ComputedBy(c)' = ComputedBy(c)
  BY ResultSame
<1>4. c \in TraceCalls \cup OtlpCalls => ResultInOrder(c)'
  BY <1>3 DEF PayloadInv, ResultsInOrder, ResultInOrder, Early
<1>5. ResultsInOrder'
  BY <1>4, ResultsMove DEF PayloadInv, ResultsInOrder
<1> QED BY <1>1, <1>2, <1>5 DEF PayloadInv

\* A body is refused.
LEMMA RefuseKeeps ==
  ASSUME IntakeInv, PayloadInv, NEW c \in Calls, Refuse(c)
  PROVE  PayloadInv'
<1>1. PICK status : status # 200 /\ Answer(c, status)
  BY DEF Refuse
<1>2. UNCHANGED <<config, dedup, channel, store, concentrator, forwarding, aggregator>>
  BY DEF Refuse
<1>3. CallShape
  BY DEF IntakeInv
<1> QED BY <1>1, <1>2, <1>3, AnswerEffect, CallEnds

\* A client is gone.
LEMMA DisconnectKeeps ==
  ASSUME IntakeInv, PayloadInv, NEW c \in Calls, Disconnect(c)
  PROVE  PayloadInv'
<1>1. Move(c, "cut") /\ UNCHANGED <<config, dedup, channel, store, concentrator, forwarding, aggregator>>
  BY DEF Disconnect
<1>2. CallShape /\ call[c].status = 0
  BY DEF IntakeInv, CallInOrder, Disconnect
<1> QED BY <1>1, <1>2, MoveEffect, CallEnds

\* A channel is gone.
LEMMA SendFailsKeeps ==
  ASSUME IntakeInv, PayloadInv, NEW c \in Calls, SendFails(c)
  PROVE  PayloadInv'
<1>1. Answer(c, 500) /\ UNCHANGED <<config, dedup, channel, store, concentrator, forwarding, aggregator>>
  BY DEF SendFails
<1>2. CallShape
  BY DEF IntakeInv
<1> QED BY <1>1, <1>2, AnswerEffect, CallEnds

\* The proxy endpoint.
LEMMA HandleProxyKeeps ==
  ASSUME IntakeInv, PayloadInv, NEW c \in Calls, HandleProxy(c)
  PROVE  PayloadInv'
<1>1. /\ Answer(c, 200) /\ c \notin TraceCalls \cup OtlpCalls
      /\ UNCHANGED <<config, dedup, channel, store, concentrator, forwarding, aggregator>>
  BY DEF HandleProxy, TraceCalls, OtlpCalls
<1>2. CallShape
  BY DEF IntakeInv
<1> QED BY <1>1, <1>2, AnswerEffect, CallEnds

\* Stats of a call that had none yet.
LEMMA CountFact ==
  ASSUME ResultsInOrder, NEW c \in TraceCalls \cup OtlpCalls, concentrator[c] = <<>>,
         concentrator' = Count(c, Result(c).for_stats)
  PROVE  /\ concentrator' = [d \in Calls |-> concentrator'[d]]
         /\ \A d \in Calls \ {c} : concentrator'[d] = concentrator[d]
         /\ concentrator'[c] = Added(c)
<1> DEFINE s == Result(c).for_stats
           ns == [i \in DOMAIN s |-> s[i].n]
<1>1. c \in Calls /\ concentrator = [d \in Calls |-> concentrator[d]]
  BY DEF ResultsInOrder, TraceCalls, OtlpCalls
<1>2. Cat(<<>>, ns) = ns
  <2>1. s \in Seq(All(c))
    BY ResultFact
  <2> HIDE DEF s
  <2>2. ns \in Seq({s[i].n : i \in DOMAIN s})
    BY <2>1
  <2> HIDE DEF ns
  <2> QED BY <2>2, CatFact
<1>3. concentrator' = IF ComputedBy(c) = "Extension" THEN [concentrator EXCEPT ![c] = Cat(@, ns)] ELSE concentrator
  BY Zenon DEF Count, Cat
<1>4. Added(c) = IF ComputedBy(c) = "Extension" THEN ns ELSE <<>>
  BY DEF Added
<1> HIDE DEF ns
<1> QED BY <1>1, <1>2, <1>3, <1>4

\* The spans of a trace call are processed.
LEMMA SendProcessedKeeps ==
  ASSUME IntakeInv, PayloadInv, NEW c \in Calls, send_processed_traces(c)
  PROVE  PayloadInv'
<1> DEFINE chunks == KeptChunks(c)
           is_empty == \A i \in DOMAIN chunks : chunks[i].spans = <<>>
           r == Result(c)
           send == ~is_empty /\ r.send
<1>1. CallShape /\ call[c].pc = "spans_done" /\ c \in TraceCalls /\ c \notin OtlpCalls /\ call[c].status = 0
  BY DEF IntakeInv, CallInOrder, send_processed_traces, TraceCalls, OtlpCalls
<1>2. r = process_traces(config, chunks, ClientStats(c))
  BY <1>1 DEF Result, Taken
<1>3. /\ concentrator' = IF is_empty THEN concentrator ELSE Count(c, r.for_stats)
      /\ IF send THEN call' = [call EXCEPT ![c].pc = "send", ![c].out = r.payload] ELSE Answer(c, 200)
      /\ UNCHANGED <<config, dedup, channel, store, forwarding, aggregator, barrier, faults>>
  <2> HIDE DEF chunks
  <2> QED BY <1>2, Zenon DEF send_processed_traces, chunks
<1>4. is_empty => Left(c) = {}
  <2> SUFFICES ASSUME is_empty PROVE Left(c) = {}
    OBVIOUS
  <2>1. Numbered(chunks, All(c)) /\ Members(chunks, 1 .. Len(chunks)) = NKept(c)
    BY KeptNumbered
  <2>2. chunks = [i \in 1 .. Len(chunks) |-> chunks[i]]
    BY <2>1 DEF Numbered
  <2> HIDE DEF chunks
  <2>3. DOMAIN chunks = 1 .. Len(chunks)
    BY <2>2
  <2>4. \A i \in 1 .. Len(chunks) : Range(chunks[i].spans) = {}
    BY <2>3 DEF Range
  <2>5. Members(chunks, 1 .. Len(chunks)) = {}
    BY <2>4 DEF Members
  <2> QED BY <1>1, <2>1, <2>5, ResultFact
<1> HIDE DEF is_empty, chunks, r
<1>5. ResultInOrder(c) /\ ResultsInOrder /\ concentrator[c] = <<>> /\ call[c].out = NoPayload
  BY <1>1 DEF PayloadInv, ResultsInOrder, ResultInOrder, Early
<1>6. ~is_empty => /\ concentrator' = [d \in Calls |-> concentrator'[d]]
                   /\ \A d \in Calls \ {c} : concentrator'[d] = concentrator[d]
                   /\ concentrator'[c] = Added(c)
  BY <1>1, <1>3, <1>5, CountFact DEF r
<1>7. /\ concentrator' = [d \in Calls |-> concentrator'[d]]
      /\ \A d \in Calls \ {c} : concentrator'[d] = concentrator[d]
      /\ IF is_empty THEN concentrator'[c] = <<>> ELSE concentrator'[c] = Added(c)
  BY <1>3, <1>5, <1>6 DEF ResultsInOrder
<1>8. /\ CallShape' /\ Others(c) /\ call'[c].kept = call[c].kept /\ call'[c].blind = call[c].blind
      /\ \/ send /\ call'[c].pc = "send" /\ call'[c].out = r.payload /\ call'[c].status = 0
         \/ ~send /\ call'[c].pc = "answered" /\ call'[c].out = NoPayload /\ call'[c].status = 200
  <2>1. CASE send
    <3>1. call' = [call EXCEPT ![c].pc = "send", ![c].out = r.payload]
      BY <1>3, <2>1
    <3> HIDE DEF send
    <3> QED BY <1>1, <2>1, <3>1 DEF CallShape, Fields, Others
  <2>2. CASE ~send
    <3>1. Answer(c, 200)
      BY <1>3, <2>2
    <3> QED BY <1>1, <1>5, <2>2, <3>1, AnswerEffect
  <2> QED BY <2>1, <2>2
<1>9. /\ Result(c)' = r /\ Left(c)' = Left(c) /\ Added(c)' = Added(c)
      /\ ComputedBy(c)' = ComputedBy(c)
  BY <1>3, <1>8, ResultSame DEF r
<1>10. (r.payload.stamped => r.send) /\ (ComputedBy(c) # "Extension" => Added(c) = <<>>)
  BY <1>1, ResultFact DEF r, Added
<1>11. ResultInOrder(c)'
  BY <1>1, <1>4, <1>7, <1>8, <1>9, <1>10 DEF ResultInOrder, Early
<1>12. ResultsInOrder'
  BY <1>3, <1>5, <1>7, <1>8, <1>11, ResultsMove
<1>13. DedupShape' /\ AskedInOrder' /\ KeptOnce'
  BY <1>3, <1>8, DedupStays
<1>14. OnePayload'
  BY <1>1, <1>3, <1>8, PayloadsStay DEF PayloadInv, OnePayload, Early
<1> QED BY <1>12, <1>13, <1>14 DEF PayloadInv

\* The spans of an OTLP call are processed.
LEMMA ProcessAndSendKeeps ==
  ASSUME IntakeInv, PayloadInv, NEW c \in Calls, process_and_send_traces(c)
  PROVE  PayloadInv'
<1> DEFINE r == Result(c)
<1>1. CallShape /\ call[c].pc = "process" /\ c \in OtlpCalls /\ c \notin TraceCalls /\ call[c].status = 0
  BY DEF IntakeInv, CallInOrder, process_and_send_traces, TraceCalls, OtlpCalls
<1>2. r = process_traces(config, Body[c].chunks, ClientStats(c))
  BY <1>1 DEF Result, Taken
<1> HIDE DEF r
<1>3. /\ \/ Answer(c, 500)
         \/ r.send /\ call' = [call EXCEPT ![c].pc = "send", ![c].out = r.payload]
         \/ ~r.send /\ Move(c, "count")
      /\ UNCHANGED <<config, dedup, channel, store, forwarding, aggregator, barrier, concentrator, faults>>
  BY <1>2 DEF process_and_send_traces
<1>4. CASE Answer(c, 500)
  BY <1>1, <1>3, <1>4, AnswerEffect, CallEnds
<1>5. CASE \/ r.send /\ call' = [call EXCEPT ![c].pc = "send", ![c].out = r.payload]
           \/ ~r.send /\ Move(c, "count")
  <2>1. ResultInOrder(c) /\ ResultsInOrder /\ concentrator[c] = <<>> /\ call[c].out = NoPayload
    BY <1>1 DEF PayloadInv, ResultsInOrder, ResultInOrder, Early
  <2>2. /\ CallShape' /\ Others(c) /\ call'[c].kept = call[c].kept /\ call'[c].blind = call[c].blind
        /\ call'[c].status = 0
        /\ \/ call'[c].pc = "send" /\ call'[c].out = r.payload
           \/ ~r.send /\ call'[c].pc = "count" /\ call'[c].out = NoPayload
    <3>1. CASE r.send /\ call' = [call EXCEPT ![c].pc = "send", ![c].out = r.payload]
      BY <1>1, <3>1 DEF CallShape, Fields, Others
    <3>2. CASE ~r.send /\ Move(c, "count")
      BY <1>1, <2>1, <3>2, MoveEffect
    <3> QED BY <1>5, <3>1, <3>2
  <2>3. /\ Result(c)' = r /\ Left(c)' = Left(c) /\ Added(c)' = Added(c)
        /\ ComputedBy(c)' = ComputedBy(c)
    BY <1>3, <2>2, ResultSame DEF r
  <2>4. r.payload.stamped => r.send
    BY <1>1, ResultFact DEF r
  <2>5. ResultInOrder(c)'
    BY <1>1, <1>3, <2>1, <2>2, <2>3, <2>4 DEF ResultInOrder, Early
  <2>6. ResultsInOrder'
    BY <1>3, <2>1, <2>2, <2>5, ResultsMove DEF ResultsInOrder
  <2>7. DedupShape' /\ AskedInOrder' /\ KeptOnce'
    BY <1>3, <2>2, DedupStays
  <2>8. OnePayload'
    BY <1>1, <1>3, <2>2, PayloadsStay DEF PayloadInv, OnePayload, Early
  <2> QED BY <2>6, <2>7, <2>8 DEF PayloadInv
<1> QED BY <1>3, <1>4, <1>5

\* The stats of an OTLP call are counted.
LEMMA CountOtlpKeeps ==
  ASSUME IntakeInv, PayloadInv, NEW c \in Calls, CountOtlp(c)
  PROVE  PayloadInv'
<1>1. CallShape /\ call[c].pc = "count" /\ c \in OtlpCalls /\ c \notin TraceCalls /\ call[c].status = 0
  BY DEF IntakeInv, CallInOrder, CountOtlp, TraceCalls, OtlpCalls
<1>2. Result(c) = process_traces(config, Body[c].chunks, ClientStats(c))
  BY <1>1 DEF Result, Taken
<1>3. /\ concentrator' = Count(c, Result(c).for_stats) /\ Answer(c, 200)
      /\ UNCHANGED <<config, dedup, channel, store, forwarding, aggregator, barrier, faults>>
  BY <1>2 DEF CountOtlp
<1>4. ResultInOrder(c) /\ ResultsInOrder /\ concentrator[c] = <<>>
  BY <1>1 DEF PayloadInv, ResultsInOrder, ResultInOrder, Early
<1>5. /\ concentrator' = [d \in Calls |-> concentrator'[d]]
      /\ \A d \in Calls \ {c} : concentrator'[d] = concentrator[d]
      /\ concentrator'[c] = Added(c)
  BY <1>1, <1>3, <1>4, CountFact
<1>6. /\ CallShape' /\ Others(c) /\ call'[c].kept = call[c].kept /\ call'[c].blind = call[c].blind
      /\ call'[c].pc = "answered" /\ call'[c].out = call[c].out /\ call'[c].status = 200
  BY <1>1, <1>3, AnswerEffect
<1>7. /\ Result(c)' = Result(c) /\ Left(c)' = Left(c) /\ Added(c)' = Added(c)
      /\ ComputedBy(c)' = ComputedBy(c)
  BY <1>3, <1>6, ResultSame
<1>8. ComputedBy(c) # "Extension" => Added(c) = <<>>
  BY DEF Added
<1>9. ResultInOrder(c)'
  BY <1>1, <1>4, <1>5, <1>6, <1>7, <1>8 DEF ResultInOrder, Early
<1>10. ResultsInOrder'
  BY <1>3, <1>4, <1>5, <1>6, <1>9, ResultsMove
<1>11. DedupShape' /\ AskedInOrder' /\ KeptOnce'
  BY <1>3, <1>6, DedupStays
<1>12. OnePayload'
  BY <1>1, <1>3, <1>6, PayloadsStay DEF PayloadInv, OnePayload, Early
<1> QED BY <1>10, <1>11, <1>12 DEF PayloadInv

\* A payload joins a channel without one of its call.
LEMMA SoleAppend ==
  ASSUME NEW q, IsSequence(q), Sole(q), NEW m, ~Holds(q, m.call)
  PROVE  /\ Sole(Append(q, m))
         /\ \A c : Holds(Append(q, m), c) => Holds(q, c) \/ c = m.call
         /\ \A i \in DOMAIN Append(q, m) : Append(q, m)[i] = m \/ (i \in DOMAIN q /\ Append(q, m)[i] = q[i])
<1> DEFINE r == Append(q, m)
<1>1. /\ Len(q) \in Nat /\ DOMAIN q = 1 .. Len(q)
      /\ DOMAIN r = 1 .. Len(q) + 1
      /\ \A i \in DOMAIN q : r[i] = q[i]
      /\ r[Len(q) + 1] = m
  BY DEF IsSequence
<1> HIDE DEF r
<1>2. \A i \in DOMAIN r : (i \in DOMAIN q /\ r[i] = q[i]) \/ (i = Len(q) + 1 /\ r[i] = m)
  BY <1>1
<1>3. Sole(r)
  BY <1>2 DEF Sole, Holds
<1>4. \A c : Holds(r, c) => Holds(q, c) \/ c = m.call
  BY <1>2 DEF Holds
<1>5. \A i \in DOMAIN r : r[i] = m \/ (i \in DOMAIN q /\ r[i] = q[i])
  BY <1>2
<1> QED BY <1>3, <1>4, <1>5, Zenon DEF r

\* A payload leaves a channel.
LEMMA SoleTail ==
  ASSUME NEW q, IsSequence(q), Sole(q), q # <<>>
  PROVE  /\ Sole(Tail(q)) /\ ~Holds(Tail(q), Head(q).call)
         /\ \A c : Holds(Tail(q), c) => Holds(q, c)
         /\ \A i \in DOMAIN Tail(q) : \E j \in DOMAIN q : Tail(q)[i] = q[j]
         /\ \E j \in DOMAIN q : Head(q) = q[j]
<1> DEFINE r == Tail(q)
<1>1. /\ Len(q) \in Nat /\ Len(q) > 0 /\ DOMAIN q = 1 .. Len(q)
      /\ DOMAIN r = 1 .. Len(q) - 1
      /\ \A i \in DOMAIN r : r[i] = q[i + 1]
      /\ Head(q) = q[1]
  BY DEF IsSequence
<1> HIDE DEF r
<1>2. \A i \in DOMAIN r : i + 1 \in DOMAIN q /\ i + 1 # 1 /\ r[i] = q[i + 1] /\ i \in Int
  BY <1>1
<1>3. 1 \in DOMAIN q
  BY <1>1
<1>4. ASSUME NEW i \in DOMAIN r, NEW j \in DOMAIN r, r[i].call = r[j].call PROVE i = j
  <2>1. i + 1 = j + 1
    BY <1>2, <1>4 DEF Sole
  <2> QED BY <1>2, <2>1
<1>5. Sole(r)
  BY <1>4 DEF Sole
<1>6. ~Holds(r, Head(q).call)
  <2> SUFFICES ASSUME NEW i \in DOMAIN r, r[i].call = Head(q).call PROVE FALSE
    BY DEF Holds
  <2>1. i + 1 = 1
    BY <1>1, <1>2, <1>3 DEF Sole
  <2> QED BY <1>2, <2>1
<1>7. \A c : Holds(r, c) => Holds(q, c)
  BY <1>2 DEF Holds
<1> QED BY <1>1, <1>2, <1>3, <1>5, <1>6, <1>7 DEF r

\* A payload is sent.
LEMMA SendKeepsPayloads ==
  ASSUME IntakeInv, PayloadInv, NEW c \in Calls, Send(c)
  PROVE  PayloadInv'
<1> DEFINE m == [call |-> c, out |-> call[c].out]
           q == channel.trace
<1>1. /\ CallShape /\ QueueShape /\ call[c].pc = "send" /\ call[c].status = 0
      /\ UNCHANGED <<config, dedup, store, forwarding, aggregator, barrier, concentrator, faults>>
  BY DEF IntakeInv, CallInOrder, Send
<1>2. \/ c \in OtlpCalls /\ c \notin TraceCalls /\ Move(c, "count")
      \/ c \in TraceCalls /\ c \notin OtlpCalls /\ Answer(c, 200)
      \/ c \notin TraceCalls \cup OtlpCalls /\ \E status : Answer(c, status)
  BY DEF Send, TraceCalls, OtlpCalls
<1>3. /\ CallShape' /\ Others(c) /\ call'[c].kept = call[c].kept /\ call'[c].blind = call[c].blind
      /\ call'[c].out = call[c].out
      /\ \/ c \in OtlpCalls /\ c \notin TraceCalls /\ call'[c].pc = "count" /\ call'[c].status = 0
         \/ c \in TraceCalls /\ c \notin OtlpCalls /\ call'[c].pc = "answered" /\ call'[c].status = 200
         \/ c \notin TraceCalls \cup OtlpCalls /\ call'[c].pc = "answered"
  <2>1. CASE c \in OtlpCalls /\ c \notin TraceCalls /\ Move(c, "count")
    BY <1>1, <2>1, MoveEffect
  <2>2. CASE c \in TraceCalls /\ c \notin OtlpCalls /\ Answer(c, 200)
    BY <1>1, <2>2, AnswerEffect
  <2>3. CASE c \notin TraceCalls \cup OtlpCalls /\ \E status : Answer(c, status)
    BY <1>1, <2>3, AnswerEffect
  <2> QED BY <1>2, <2>1, <2>2, <2>3
<1>4. /\ Result(c)' = Result(c) /\ Left(c)' = Left(c) /\ Added(c)' = Added(c)
      /\ ComputedBy(c)' = ComputedBy(c)
  BY <1>1, <1>3, ResultSame
<1>5. ASSUME c \in TraceCalls \cup OtlpCalls PROVE ResultInOrder(c)'
  <2>1. ResultInOrder(c) /\ concentrator'[c] = concentrator[c] /\ call[c].out = Result(c).payload
    BY <1>1, <1>5 DEF PayloadInv, ResultsInOrder, ResultInOrder
  <2>2. CASE c \in OtlpCalls
    BY <1>1, <1>3, <1>4, <2>1, <2>2 DEF ResultInOrder, Early
  <2>3. CASE c \in TraceCalls
    BY <1>1, <1>3, <1>4, <2>1, <2>3 DEF ResultInOrder, Early
  <2> QED BY <1>5, <2>2, <2>3
<1>6. ResultsInOrder'
  BY <1>1, <1>3, <1>5, ResultsMove DEF PayloadInv, ResultsInOrder
<1>7. DedupShape' /\ AskedInOrder' /\ KeptOnce'
  BY <1>1, <1>3, DedupStays
<1>8. channel'.trace = q \/ channel'.trace = Append(q, m)
  BY <1>1 DEF Send, QueueShape, Way, Ways
<1>9. ~Holds(q, c) /\ ~Holds(store.trace, c) /\ IsSequence(q) /\ Sole(q)
  BY <1>1 DEF PayloadInv, OnePayload, QueueShape, Ways
<1>10. OnePayload'
  <2> DEFINE r == channel'.trace
  <2>1. /\ Sole(r) /\ \A d : Holds(r, d) => Holds(q, d) \/ d = c
        /\ \A i \in DOMAIN r : r[i] = m \/ (i \in DOMAIN q /\ r[i] = q[i])
    <3>1. CASE r = q
      BY <1>9, <3>1
    <3>2. CASE r = Append(q, m)
      <4>1. m.call = c
        OBVIOUS
      <4> HIDE DEF m, q, r
      <4> QED BY <1>9, <3>2, <4>1, SoleAppend
    <3> QED BY <1>8, <3>1, <3>2
  <2>2. m.call = c /\ m.out = call'[c].out
    BY <1>3
  <2> HIDE DEF m, r
  <2>3. \A d \in Calls : call'[d].out = call[d].out
    BY <1>3 DEF Others
  <2>4. Carried(q) /\ Carried(store.trace)
    BY DEF PayloadInv, OnePayload
  <2>5. \A i \in DOMAIN r : r[i].call \in Calls /\ r[i].out = call'[r[i].call].out
    BY <2>1, <2>2, <2>3, <2>4 DEF Carried
  <2>6. Carried(channel.trace)' /\ Carried(store.trace)'
    BY <1>1, <2>3, <2>4, <2>5 DEF Carried, r
  <2>7. ASSUME NEW d \in Calls
        PROVE  /\ ~(Holds(r, d) /\ Holds(store.trace, d))
               /\ call'[d].pc \in Early \cup {"send"} => ~Holds(r, d) /\ ~Holds(store.trace, d)
    <3>1. CASE d = c
      BY <1>3, <1>9, <3>1 DEF Early
    <3>2. CASE d # c
      BY <1>3, <2>1, <3>2 DEF Others, PayloadInv, OnePayload
    <3> QED BY <3>1, <3>2
  <2> QED BY <1>1, <2>1, <2>6, <2>7 DEF PayloadInv, OnePayload, r
<1> QED BY <1>6, <1>7, <1>10 DEF PayloadInv

\* A forwarder stores a payload or ends.
LEMMA ForwardKeeps ==
  ASSUME IntakeInv, PayloadInv, NEW kind \in Ways, Forward(kind)
  PROVE  PayloadInv'
<1> DEFINE q == channel.trace
           s == store.trace
<1>1. /\ QueueShape /\ kind \in forwarding /\ channel[kind] # <<>>
      /\ UNCHANGED <<config, call, dedup, aggregator, concentrator>>
  BY DEF IntakeInv, Forward
<1>2. IsSequence(q) /\ IsSequence(s) /\ Sole(q) /\ Sole(s) /\ Carried(q) /\ Carried(s)
  BY <1>1 DEF PayloadInv, OnePayload, QueueShape, Ways
<1>3. \/ channel'.trace = q /\ store'.trace = s
      \/ q # <<>> /\ channel'.trace = Tail(q) /\ store'.trace = Append(s, Head(q))
      \/ channel'.trace = <<>> /\ store'.trace = s
  BY <1>1 DEF Forward, QueueShape, Ways
<1>4. aggregator' = TRUE => "trace" \in forwarding'
  <2>1. CASE kind = "stats" \/ aggregator
    BY <1>1, <2>1 DEF Forward, PayloadInv, OnePayload
  <2>2. CASE ~(kind = "stats" \/ aggregator)
    BY <1>1, <2>2
  <2> QED BY <2>1, <2>2
<1>5. OnePayload'
  <2> DEFINE r == channel'.trace
             t == store'.trace
  <2>1. /\ Sole(r) /\ Sole(t) /\ Carried(r) /\ Carried(t)
        /\ \A d \in Calls : (Holds(r, d) \/ Holds(t, d) => Holds(q, d) \/ Holds(s, d)) /\ ~(Holds(r, d) /\ Holds(t, d))
    <3>1. CASE r = q /\ t = s
      BY <1>2, <3>1 DEF PayloadInv, OnePayload
    <3>2. CASE r = <<>> /\ t = s
      <4>1. Sole(<<>>) /\ Carried(<<>>) /\ \A d : ~Holds(<<>>, d)
        BY DEF Sole, Carried, Holds
      <4> QED BY <1>2, <3>2, <4>1
    <3>3. CASE q # <<>> /\ r = Tail(q) /\ t = Append(s, Head(q))
      <4> DEFINE h == Head(q)
      <4>1. /\ Sole(r) /\ ~Holds(r, h.call) /\ \A c : Holds(r, c) => Holds(q, c)
            /\ \A i \in DOMAIN r : \E j \in DOMAIN q : r[i] = q[j]
            /\ \E j \in DOMAIN q : h = q[j]
        BY <1>2, <3>3, SoleTail
      <4> HIDE DEF h
      <4>2. Holds(q, h.call) /\ h.call \in Calls /\ h.out = call[h.call].out
        BY <1>2, <4>1 DEF Holds, Carried
      <4>3. ~Holds(s, h.call)
        BY <4>2 DEF PayloadInv, OnePayload
      <4>4. t = Append(s, h)
        BY <3>3 DEF h
      <4> HIDE DEF t, r, q, s
      <4>5. /\ Sole(t) /\ \A c : Holds(t, c) => Holds(s, c) \/ c = h.call
            /\ \A i \in DOMAIN t : t[i] = h \/ (i \in DOMAIN s /\ t[i] = s[i])
        BY <1>2, <4>3, <4>4, SoleAppend
      <4>6. Carried(r) /\ Carried(t)
        BY <1>2, <4>1, <4>2, <4>5 DEF Carried
      <4>7. \A d \in Calls : ~(Holds(q, d) /\ Holds(s, d))
        BY DEF PayloadInv, OnePayload, q, s
      <4> QED BY <4>1, <4>2, <4>5, <4>6, <4>7
    <3> QED BY <1>3, <3>1, <3>2, <3>3
  <2> HIDE DEF r, t
  <2>2. Carried(channel.trace)' /\ Carried(store.trace)'
    BY <1>1, <2>1 DEF Carried, r, t
  <2> QED BY <1>1, <1>4, <2>1, <2>2 DEF PayloadInv, OnePayload, r, t
<1>6. \A d \in Calls : /\ Result(d)' = Result(d) /\ Left(d)' = Left(d) /\ Added(d)' = Added(d)
                       /\ ComputedBy(d)' = ComputedBy(d) /\ KeptKeys(d)' = KeptKeys(d)
  BY <1>1, ResultSame
<1>7. \A d \in TraceCalls \cup OtlpCalls : d \in Calls
  BY DEF TraceCalls, OtlpCalls
<1>8. ResultsInOrder'
  BY <1>1, <1>6, <1>7 DEF PayloadInv, ResultsInOrder, ResultInOrder
<1>9. AllKeys' = AllKeys /\ (FewKeys' <=> FewKeys) /\ (NoneBlind' <=> NoneBlind)
  BY <1>1 DEF AllKeys, FewKeys, NoneBlind
<1>10. DedupShape' /\ AskedInOrder'
  BY <1>1, <1>9 DEF PayloadInv, DedupShape, AskedInOrder, Asked
<1>11. KeptOnce'
  BY <1>1, <1>6, <1>7, <1>9 DEF PayloadInv, KeptOnce, Fresh
<1> QED BY <1>5, <1>8, <1>10, <1>11 DEF PayloadInv

-----------------------------------------------------------------------------
(* The deduper *)

OnceEach(q) == \A i, j \in DOMAIN q : q[i] = q[j] => i = j

\* A key joins the others.
LEMMA AppendKey ==
  ASSUME NEW q, IsSequence(q), OnceEach(q), NEW k
  PROVE  /\ IsSequence(Append(q, k)) /\ Range(Append(q, k)) = Range(q) \cup {k}
         /\ k \notin Range(q) => OnceEach(Append(q, k))
<1> DEFINE r == Append(q, k)
<1>1. /\ Len(q) \in Nat /\ DOMAIN q = 1 .. Len(q)
      /\ DOMAIN r = 1 .. Len(q) + 1
      /\ \A i \in DOMAIN q : r[i] = q[i]
      /\ r[Len(q) + 1] = k
  BY DEF IsSequence
<1>2. IsSequence(r)
  BY SendKeeps
<1> HIDE DEF r
<1>3. \A i \in DOMAIN r : (i \in DOMAIN q /\ r[i] = q[i]) \/ (i = Len(q) + 1 /\ r[i] = k)
  BY <1>1
<1>4. Len(q) + 1 \in DOMAIN r /\ DOMAIN q \subseteq DOMAIN r
  BY <1>1
<1>5. Range(r) = Range(q) \cup {k}
  BY <1>1, <1>3, <1>4 DEF Range
<1>6. k \notin Range(q) => OnceEach(r)
  BY <1>3 DEF Range, OnceEach
<1> QED BY <1>2, <1>5, <1>6 DEF r

\* The oldest key is forgotten.
LEMMA TailKeys ==
  ASSUME NEW q, IsSequence(q), OnceEach(q), q # <<>>
  PROVE  IsSequence(Tail(q)) /\ OnceEach(Tail(q)) /\ Range(Tail(q)) \subseteq Range(q)
<1> DEFINE r == Tail(q)
<1>1. /\ Len(q) \in Nat /\ Len(q) > 0 /\ DOMAIN q = 1 .. Len(q)
      /\ DOMAIN r = 1 .. Len(q) - 1
      /\ \A i \in DOMAIN r : r[i] = q[i + 1]
  BY DEF IsSequence
<1>2. IsSequence(r)
  BY ReceiveKeeps
<1> HIDE DEF r
<1>3. \A i \in DOMAIN r : i + 1 \in DOMAIN q /\ r[i] = q[i + 1] /\ i \in Int
  BY <1>1
<1>4. ASSUME NEW i \in DOMAIN r, NEW j \in DOMAIN r, r[i] = r[j] PROVE i = j
  <2>1. i + 1 = j + 1
    BY <1>3, <1>4 DEF OnceEach
  <2> QED BY <1>3, <2>1
<1>5. Range(r) \subseteq Range(q)
  BY <1>3 DEF Range
<1> QED BY <1>2, <1>4, <1>5 DEF r, OnceEach

\* The deduper never has to forget when the keys are few.
LEMMA RoomForKey ==
  ASSUME NEW q, IsSequence(q), OnceEach(q), NEW k \in AllKeys, k \notin Range(q),
         Range(q) \subseteq AllKeys, FewKeys
  PROVE  Len(q) < DedupCapacity
<1> DEFINE S == 1 .. Len(q)
           T == AllKeys \ {k}
           f == [i \in S |-> q[i]]
<1>1. Len(q) \in Nat /\ DOMAIN q = S
  BY DEF IsSequence
<1>2. IsFiniteSet(T) /\ Cardinality(T) = Cardinality(AllKeys) - 1 /\ Cardinality(AllKeys) \in Nat
  BY FS_RemoveElement, FS_CardinalityType DEF FewKeys
<1>3. IsFiniteSet(S) /\ Cardinality(S) = Len(q)
  <2> DEFINE n == Len(q)
  <2> HIDE DEF n
  <2>1. n \in Nat
    BY <1>1 DEF n
  <2>2. IsFiniteSet(1 .. n) /\ Cardinality(1 .. n) = n
    BY <2>1, FS_Interval
  <2> QED BY <2>2 DEF n
<1>4. f \in [S -> T]
  <2>1. \A i \in S : q[i] \in T
    BY <1>1 DEF Range
  <2> HIDE DEF S, T
  <2> QED BY <2>1
<1>5. \A i, j \in S : f[i] = f[j] => i = j
  BY <1>1 DEF OnceEach
<1> SUFFICES ASSUME ~(Len(q) < DedupCapacity) PROVE FALSE
  OBVIOUS
<1>6. Cardinality(T) < Cardinality(S)
  BY <1>1, <1>2, <1>3, CapacityAssumption DEF FewKeys
<1> HIDE DEF S, T, f
<1> QED BY <1>2, <1>3, <1>4, <1>5, <1>6, FS_PigeonHole

\* check_and_add: the deduper knows the key afterwards, and while the keys are
\* few it still knows the others.
LEMMA CheckAndAdd ==
  ASSUME NEW q, IsSequence(q), OnceEach(q), Range(q) \subseteq AllKeys, NEW k \in AllKeys
  PROVE  LET r == check_and_add(q, k)
         IN /\ IsSequence(r) /\ OnceEach(r) /\ Range(r) \subseteq AllKeys
            /\ Contains(q, k) <=> k \in Range(q)
            /\ FewKeys => Range(r) = Range(q) \cup {k}
<1> DEFINE r == check_and_add(q, k)
           p == IF Len(q) >= DedupCapacity THEN Tail(q) ELSE q
<1>1. Len(q) \in Nat /\ DOMAIN q = 1 .. Len(q)
  BY DEF IsSequence
<1>2. Contains(q, k) <=> k \in Range(q)
  BY <1>1 DEF Contains, Range
<1>3. CASE k \in Range(q)
  <2>1. r = q
    BY <1>2, <1>3 DEF check_and_add
  <2> QED BY <1>2, <1>3, <2>1
<1>4. CASE k \notin Range(q)
  <2>1. r = Append(p, k)
    BY <1>2, <1>4 DEF check_and_add
  <2>2. Len(q) >= DedupCapacity => q # <<>>
    BY <1>1, CapacityAssumption
  <2>3. IsSequence(p) /\ OnceEach(p) /\ Range(p) \subseteq Range(q)
    BY <2>2, TailKeys
  <2>4. FewKeys => p = q
    <3>1. FewKeys => Len(q) < DedupCapacity
      BY <1>4, RoomForKey
    <3>2. FewKeys => ~(Len(q) >= DedupCapacity)
      BY <1>1, <3>1, CapacityAssumption
    <3> QED BY <3>2, Zenon
  <2> HIDE DEF p, r
  <2>5. IsSequence(r) /\ OnceEach(r) /\ Range(r) = Range(p) \cup {k}
    BY <1>4, <2>1, <2>3, AppendKey
  <2> QED BY <1>2, <2>3, <2>4, <2>5 DEF r
<1> QED BY <1>3, <1>4

\* Ask adds a question about a span that is there.
LEMMA AskFact ==
  ASSUME NEW q, IsSequence(q), \A i \in DOMAIN q : Asked(q[i]),
         NEW c \in TraceCalls \cap config.calls, NEW n \in Nat \ {0}
  PROVE  IsSequence(Ask(q, c, n)) /\ \A i \in DOMAIN Ask(q, c, n) : Asked(Ask(q, c, n)[i])
<1> DEFINE m == Question(c, n)
           r == Append(q, m)
<1>1. CASE ~(n <= Len(SpansIn[c]))
  BY <1>1 DEF Ask
<1>2. CASE n <= Len(SpansIn[c])
  <2>1. c \in Calls
    BY DEF TraceCalls
  <2>2. n \in DOMAIN SpansIn[c]
    <3>1. SpansIn[c] \in Seq(All(c))
      BY <2>1, BodyNumbered
    <3> QED BY <1>2, <3>1
  <2>3. Asked(m)
    BY <2>2 DEF Asked, Question
  <2>4. Ask(q, c, n) = r
    BY <1>2 DEF Ask
  <2> HIDE DEF m
  <2>5. /\ Len(q) \in Nat /\ DOMAIN q = 1 .. Len(q)
        /\ DOMAIN r = 1 .. Len(q) + 1
        /\ \A i \in DOMAIN q : r[i] = q[i]
        /\ r[Len(q) + 1] = m
    BY DEF IsSequence
  <2>6. IsSequence(r)
    BY SendKeeps
  <2> HIDE DEF r
  <2>7. \A i \in DOMAIN r : (i \in DOMAIN q /\ r[i] = q[i]) \/ r[i] = m
    BY <2>5
  <2>8. \A i \in DOMAIN r : Asked(r[i])
    BY <2>3, <2>7
  <2> QED BY <2>4, <2>6, <2>8
<1> QED BY <1>1, <1>2

\* NextSpan(c, keep, blind)
LEMMA NextSpanEffect ==
  ASSUME CallShape, NEW c \in Calls, call[c].pc = "asked", NEW keep, NEW blind, NextSpan(c, keep, blind)
  PROVE  /\ CallShape' /\ Others(c) /\ call'[c].status = call[c].status /\ call'[c].out = call[c].out
         /\ call'[c].at = call[c].at + 1
         /\ call'[c].kept = IF keep THEN call[c].kept \cup {SpansIn[c][call[c].at].n} ELSE call[c].kept
         /\ call'[c].blind = (call[c].blind \/ blind)
         /\ call'[c].pc = IF call[c].at = Len(SpansIn[c]) THEN "spans_done" ELSE "asked"
<1> DEFINE at == call[c].at + 1
           kept == IF keep THEN call[c].kept \cup {SpansIn[c][call[c].at].n} ELSE call[c].kept
           bl == (call[c].blind \/ blind)
           pc == IF call[c].at = Len(SpansIn[c]) THEN "spans_done" ELSE "asked"
<1>1. call' = [call EXCEPT ![c].at = at, ![c].kept = kept, ![c].blind = bl, ![c].pc = pc]
  BY DEF NextSpan
<1> HIDE DEF at, kept, bl, pc
<1>2. /\ CallShape' /\ Others(c) /\ call'[c].status = call[c].status /\ call'[c].out = call[c].out
      /\ call'[c].at = at /\ call'[c].kept = kept /\ call'[c].blind = bl /\ call'[c].pc = pc
  BY <1>1 DEF CallShape, Fields, Others
<1> QED BY <1>2 DEF at, kept, bl, pc

\* A call that has not been processed has nothing to send and nothing counted.
LEMMA EarlyMoves ==
  ASSUME IntakeInv, PayloadInv, NEW c \in Calls, call[c].pc \in Early, Others(c),
         call'[c].status = call[c].status, call'[c].out = call[c].out,
         call'[c].pc \in Early \/ c \notin TraceCalls \cup OtlpCalls,
         UNCHANGED <<config, channel, store, forwarding, aggregator, concentrator>>,
         call'[c].pc \in Early \cup {"send"}
  PROVE  OnePayload' /\ ResultsInOrder'
<1>1. call[c].status = 0
  BY DEF IntakeInv, CallInOrder, Early
<1>2. OnePayload'
  BY PayloadsStay DEF PayloadInv, OnePayload
<1>3. ASSUME c \in TraceCalls \cup OtlpCalls PROVE ResultInOrder(c)'
  <2>1. ResultInOrder(c)
    BY <1>3 DEF PayloadInv, ResultsInOrder
  <2>2. call[c].out = NoPayload /\ concentrator[c] = <<>>
    BY <2>1 DEF ResultInOrder
  <2>3. call'[c].out = NoPayload /\ concentrator'[c] = <<>> /\ call'[c].pc \in Early /\ call'[c].status = 0
    BY <1>1, <1>3, <2>2
  <2> QED BY <2>3 DEF ResultInOrder, Early
<1>4. ResultsInOrder'
  BY <1>3, ResultsMove DEF PayloadInv, ResultsInOrder
<1> QED BY <1>2, <1>4

\* While no call keeps other spans, a deduper that forgets nothing still knows
\* what was kept.
LEMMA KeptStays ==
  ASSUME KeptOnce, UNCHANGED config,
         \A d \in Calls : call'[d].kept = call[d].kept, NoneBlind' => NoneBlind,
         FewKeys => Range(dedup.order) \subseteq Range(dedup'.order)
  PROVE  KeptOnce'
<1>1. FewKeys' <=> FewKeys
  BY DEF AllKeys, FewKeys
<1>2. \A d \in TraceCalls : KeptKeys(d)' = KeptKeys(d)
  BY ResultSame DEF TraceCalls
<1>3. Fresh' => Fresh /\ FewKeys
  BY <1>1, Zenon DEF Fresh
<1> QED BY <1>2, <1>3 DEF KeptOnce

\* A body arrives, and the deduper is asked about its first span.
LEMMA ReceiveKeepsPayloads ==
  ASSUME IntakeInv, PayloadInv, NEW c \in Calls, Receive(c)
  PROVE  PayloadInv'
<1> DEFINE pc == CASE c \in TraceCalls -> IF SpansIn[c] = <<>> THEN "spans_done" ELSE "asked"
                   [] c \in OtlpCalls -> "process"
                   [] OTHER -> "send"
           queue == IF c \in TraceCalls THEN Ask(dedup.queue, c, 1) ELSE dedup.queue
<1>1. /\ CallShape /\ c \in config.calls /\ call[c].pc = "new" /\ Move(c, pc)
      /\ UNCHANGED <<config, channel, store, forwarding, aggregator, concentrator>>
  BY DEF Receive, IntakeInv
<1>2. DedupShape /\ AskedInOrder /\ KeptOnce
  BY DEF PayloadInv
<1>3. dedup'.order = dedup.order /\ dedup'.queue = queue /\ dedup' = [f \in {"order", "queue"} |-> dedup'[f]]
  <2>1. dedup' = IF c \in TraceCalls THEN [dedup EXCEPT !.queue = Ask(dedup.queue, c, 1)] ELSE dedup
    BY DEF Receive
  <2> QED BY <1>2, <2>1 DEF DedupShape
<1>4. \/ pc = "spans_done" /\ c \in TraceCalls
      \/ pc = "asked" /\ c \in TraceCalls /\ SpansIn[c] # <<>>
      \/ pc = "process" /\ c \in OtlpCalls
      \/ pc = "send" /\ c \notin TraceCalls \cup OtlpCalls
  BY DEF TraceCalls, OtlpCalls
<1> HIDE DEF pc
<1>5. /\ Others(c) /\ call'[c].pc = pc /\ call'[c].status = call[c].status /\ call'[c].out = call[c].out
      /\ call'[c].kept = call[c].kept /\ call'[c].blind = call[c].blind /\ call'[c].at = call[c].at
  BY <1>1, MoveEffect
<1>6. OnePayload' /\ ResultsInOrder'
  BY <1>1, <1>4, <1>5, EarlyMoves DEF Early
<1>7. IsSequence(queue) /\ \A i \in DOMAIN queue : Asked(queue[i])
  <2>1. IsSequence(dedup.queue) /\ \A i \in DOMAIN dedup.queue : Asked(dedup.queue[i])
    BY <1>2 DEF DedupShape, AskedInOrder
  <2> DEFINE q == dedup.queue
  <2> HIDE DEF q
  <2>2. c \in TraceCalls => c \in TraceCalls \cap config.calls
    BY <1>1
  <2>3. c \in TraceCalls => IsSequence(Ask(q, c, 1)) /\ \A i \in DOMAIN Ask(q, c, 1) : Asked(Ask(q, c, 1)[i])
    BY <2>1, <2>2, AskFact DEF q
  <2> QED BY <2>1, <2>3 DEF q
<1> HIDE DEF queue
<1>8. DedupShape'
  <2>1. AllKeys' = AllKeys
    BY <1>1 DEF AllKeys
  <2> QED BY <1>2, <1>3, <1>7, <2>1 DEF DedupShape
<1>9. AskedInOrder'
  <2>1. \A q : Asked(q)' <=> Asked(q)
    BY <1>1 DEF Asked
  <2>2. pc = "asked" => 1 \in DOMAIN SpansIn[c]
    <3>1. SpansIn[c] \in Seq(All(c))
      BY BodyNumbered
    <3> QED BY <1>4, <3>1
  <2>3. ASSUME NEW d \in TraceCalls
        PROVE  /\ call'[d].pc = "new" => call'[d].at = 1
               /\ call'[d].pc = "asked" => d \in config.calls /\ call'[d].at \in DOMAIN SpansIn[d]
    <3>1. CASE d = c
      BY <1>1, <1>2, <1>4, <1>5, <2>2, <3>1 DEF AskedInOrder
    <3>2. CASE d # c
      BY <1>2, <1>5, <3>2 DEF AskedInOrder, Others, TraceCalls
    <3> QED BY <3>1, <3>2
  <2> QED BY <1>1, <1>3, <1>7, <2>1, <2>3 DEF AskedInOrder
<1>10. KeptOnce'
  <2>1. \A d \in Calls : call'[d].kept = call[d].kept /\ call'[d].blind = call[d].blind
    BY <1>5 DEF Others
  <2>2. NoneBlind' => NoneBlind
    BY <2>1, Zenon DEF NoneBlind
  <2> QED BY <1>1, <1>2, <1>3, <2>1, <2>2, KeptStays
<1> QED BY <1>6, <1>8, <1>9, <1>10 DEF PayloadInv

\* The loop over the spans of a call goes on.
LEMMA NextSpanAsks ==
  ASSUME PayloadInv, NEW c \in Calls, c \in TraceCalls, call[c].pc = "asked", Others(c), UNCHANGED config,
         call'[c].at = call[c].at + 1,
         call'[c].pc = (IF call[c].at = Len(SpansIn[c]) THEN "spans_done" ELSE "asked"),
         NEW q, IsSequence(q), \A i \in DOMAIN q : Asked(q[i]),
         dedup'.queue = Ask(q, c, call[c].at + 1)
  PROVE  IsSequence(dedup'.queue) /\ AskedInOrder'
<1>1. c \in TraceCalls \cap config.calls /\ call[c].at \in DOMAIN SpansIn[c] /\ AskedInOrder
  BY DEF PayloadInv, AskedInOrder
<1>2. Len(SpansIn[c]) \in Nat /\ DOMAIN SpansIn[c] = 1 .. Len(SpansIn[c])
  <2>1. SpansIn[c] \in Seq(All(c))
    BY BodyNumbered
  <2> QED BY <2>1
<1>3. call[c].at + 1 \in Nat \ {0} /\ (call[c].at # Len(SpansIn[c]) => call[c].at + 1 \in DOMAIN SpansIn[c])
  BY <1>1, <1>2
<1> DEFINE n == call[c].at + 1
           r == Ask(q, c, n)
<1>4. IsSequence(r) /\ \A i \in DOMAIN r : Asked(r[i])
  <2> HIDE DEF n
  <2>1. n \in Nat \ {0}
    BY <1>3 DEF n
  <2> QED BY <1>1, <2>1, AskFact
<1> HIDE DEF r
<1>5. dedup'.queue = r
  BY DEF r
<1>6. \A x : Asked(x)' <=> Asked(x)
  BY DEF Asked
<1>7. ASSUME NEW d \in TraceCalls
      PROVE  /\ call'[d].pc = "new" => call'[d].at = 1
             /\ call'[d].pc = "asked" => d \in config.calls /\ call'[d].at \in DOMAIN SpansIn[d]
  <2>1. CASE d = c
    BY <1>1, <1>3, <2>1
  <2>2. CASE d # c
    BY <1>1, <2>2 DEF AskedInOrder, Others, TraceCalls
  <2> QED BY <2>1, <2>2
<1> QED BY <1>4, <1>5, <1>6, <1>7 DEF AskedInOrder

\* A span is kept because the deduper did not answer.
LEMMA DedupTimeoutKeeps ==
  ASSUME IntakeInv, PayloadInv, NEW c \in Calls, DedupTimeout(c)
  PROVE  PayloadInv'
<1>1. /\ CallShape /\ c \in TraceCalls /\ call[c].pc = "asked" /\ NextSpan(c, TRUE, TRUE)
      /\ dedup' = [dedup EXCEPT !.queue = Ask(dedup.queue, c, call[c].at + 1)]
      /\ UNCHANGED <<config, channel, store, forwarding, aggregator, concentrator>>
  BY DEF DedupTimeout, IntakeInv, CallInOrder
<1>2. DedupShape /\ AskedInOrder
  BY DEF PayloadInv
<1>3. /\ dedup'.order = dedup.order /\ dedup'.queue = Ask(dedup.queue, c, call[c].at + 1)
      /\ dedup' = [f \in {"order", "queue"} |-> dedup'[f]]
  BY <1>1, <1>2 DEF DedupShape
<1>4. /\ Others(c) /\ call'[c].status = call[c].status /\ call'[c].out = call[c].out
      /\ call'[c].at = call[c].at + 1 /\ call'[c].blind = (call[c].blind \/ TRUE)
      /\ call'[c].pc = IF call[c].at = Len(SpansIn[c]) THEN "spans_done" ELSE "asked"
  BY <1>1, NextSpanEffect
<1>5. OnePayload' /\ ResultsInOrder'
  BY <1>1, <1>4, EarlyMoves DEF Early
<1>6. IsSequence(dedup'.queue) /\ AskedInOrder'
  <2> DEFINE q == dedup.queue
  <2>1. IsSequence(q) /\ \A i \in DOMAIN q : Asked(q[i])
    BY <1>2 DEF DedupShape, AskedInOrder
  <2>2. dedup'.queue = Ask(q, c, call[c].at + 1)
    BY <1>3
  <2> HIDE DEF q
  <2> QED BY <1>1, <1>4, <2>1, <2>2, NextSpanAsks
<1>7. DedupShape'
  <2>1. AllKeys' = AllKeys
    BY <1>1 DEF AllKeys
  <2> QED BY <1>2, <1>3, <1>6, <2>1 DEF DedupShape
<1>8. ~NoneBlind'
  BY <1>4 DEF NoneBlind
<1>9. KeptOnce'
  BY <1>8 DEF KeptOnce, Fresh
<1> QED BY <1>5, <1>6, <1>7, <1>9 DEF PayloadInv

\* A call keeps one more of its spans.
LEMMA KeepsSpan ==
  ASSUME NEW c \in Calls, NEW i \in DOMAIN SpansIn[c],
         call'[c].kept = call[c].kept \cup {SpansIn[c][i].n}
  PROVE  KeptKeys(c)' = KeptKeys(c) \cup {SpansIn[c][i].key}
<1> DEFINE x == SpansIn[c][i]
<1>1. Range(SpansIn[c]) = All(c) /\ Distinct(SpansIn[c])
  BY BodyNumbered
<1>2. x \in All(c) /\ \A y \in All(c) : y.n = x.n => y = x
  BY <1>1 DEF Range, Distinct
<1> HIDE DEF x
<1>3. call'[c].kept = call[c].kept \cup {x.n}
  BY DEF x
<1>4. NKept(c)' = NKept(c) \cup {x}
  BY <1>2, <1>3 DEF NKept
<1>5. KeptKeys(c)' = KeptKeys(c) \cup {x.key}
  BY <1>4 DEF KeptKeys
<1> QED BY <1>5 DEF x

\* The deduper answers for one span: it is kept if no call kept its key before.
\* If the answer is lost, the deduper knows one more key.
LEMMA ServeKeeps ==
  ASSUME IntakeInv, PayloadInv, NEW lost \in BOOLEAN, Serve(lost)
  PROVE  PayloadInv'
<1> PICK q : q = Head(dedup.queue)
  OBVIOUS
<1> PICK keep \in BOOLEAN : keep = ~Contains(dedup.order, q.key)
  BY Zenon
<1> DEFINE c == q.call
           rest == Tail(dedup.queue)
           waits == ~lost /\ call[c].pc = "asked" /\ call[c].at = q.at
           order == check_and_add(dedup.order, q.key)
<1>1. /\ CallShape /\ dedup.queue # <<>> /\ dedup'.order = order
      /\ dedup'.queue = (IF waits THEN Ask(rest, c, q.at + 1) ELSE rest)
      /\ dedup' = [f \in {"order", "queue"} |-> dedup'[f]]
      /\ IF waits THEN NextSpan(c, keep, FALSE) ELSE UNCHANGED call
      /\ UNCHANGED <<config, channel, store, forwarding, aggregator, concentrator>>
  <2>1. /\ dedup' = [order |-> order, queue |-> IF waits THEN Ask(rest, c, q.at + 1) ELSE rest]
        /\ CallShape /\ dedup.queue # <<>>
        /\ IF waits THEN NextSpan(c, keep, FALSE) ELSE UNCHANGED call
        /\ UNCHANGED <<config, channel, store, forwarding, aggregator, concentrator>>
    BY Zenon DEF Serve, IntakeInv
  <2> HIDE DEF order, waits, rest, c
  <2> QED BY <2>1
<1>2. DedupShape /\ AskedInOrder /\ KeptOnce /\ AllKeys' = AllKeys /\ (FewKeys' <=> FewKeys)
  BY <1>1 DEF PayloadInv, AllKeys, FewKeys
<1>3. /\ Asked(q) /\ IsSequence(rest) /\ \A i \in DOMAIN rest : Asked(rest[i])
  <2> DEFINE s == dedup.queue
  <2>1. /\ IsSequence(s) /\ \A i \in DOMAIN s : Asked(s[i])
        /\ s # <<>>
    BY <1>1, <1>2 DEF DedupShape, AskedInOrder
  <2> HIDE DEF s
  <2>2. /\ Len(s) \in Nat /\ Len(s) > 0 /\ DOMAIN s = 1 .. Len(s)
        /\ DOMAIN Tail(s) = 1 .. Len(s) - 1
        /\ \A i \in DOMAIN Tail(s) : Tail(s)[i] = s[i + 1]
        /\ Head(s) = s[1]
    BY <2>1 DEF IsSequence
  <2>3. 1 \in DOMAIN s /\ \A i \in DOMAIN Tail(s) : i + 1 \in DOMAIN s
    BY <2>2
  <2>4. IsSequence(Tail(s))
    BY <2>1, ReceiveKeeps
  <2>5. Asked(Head(s)) /\ \A i \in DOMAIN Tail(s) : Asked(Tail(s)[i])
    BY <2>1, <2>2, <2>3
  <2> QED BY <2>4, <2>5 DEF s
<1> HIDE DEF rest
<1>4. c \in TraceCalls \cap config.calls /\ c \in Calls /\ q.at \in DOMAIN SpansIn[c] /\ q.key = SpansIn[c][q.at].key
  BY <1>3 DEF Asked, TraceCalls
<1>5. q.key \in AllKeys
  BY <1>4 DEF AllKeys
<1>6. /\ IsSequence(order) /\ OnceEach(order) /\ Range(order) \subseteq AllKeys
      /\ keep <=> q.key \notin Range(dedup.order)
      /\ FewKeys => Range(order) = Range(dedup.order) \cup {q.key}
  <2> DEFINE s == dedup.order
             k == q.key
  <2>1. IsSequence(s) /\ OnceEach(s) /\ Range(s) \subseteq AllKeys /\ k \in AllKeys
    BY <1>2, <1>5 DEF DedupShape, OnceEach
  <2>2. order = check_and_add(s, k) /\ keep = ~Contains(s, k)
    OBVIOUS
  <2> HIDE DEF s, k, order
  <2>3. LET r == check_and_add(s, k)
        IN /\ IsSequence(r) /\ OnceEach(r) /\ Range(r) \subseteq AllKeys
           /\ Contains(s, k) <=> k \in Range(s)
           /\ FewKeys => Range(r) = Range(s) \cup {k}
    BY <2>1, CheckAndAdd
  <2> QED BY <2>2, <2>3, Zenon DEF s, k
<1> HIDE DEF order
<1>7. IsSequence(dedup'.queue) => DedupShape'
  BY <1>1, <1>2, <1>6 DEF DedupShape, OnceEach
<1>8. CASE ~waits
  <2>1. UNCHANGED call /\ dedup'.queue = rest
    BY <1>1, <1>8
  <2>2. OnePayload' /\ ResultsInOrder'
    <3>1. OnePayload'
      BY <1>1, <2>1 DEF PayloadInv, OnePayload, Carried
    <3>2. \A d \in Calls : /\ Result(d)' = Result(d) /\ Left(d)' = Left(d) /\ Added(d)' = Added(d)
                           /\ ComputedBy(d)' = ComputedBy(d)
      BY <1>1, <2>1, ResultSame
    <3>3. \A d \in TraceCalls \cup OtlpCalls : d \in Calls
      BY DEF TraceCalls, OtlpCalls
    <3>4. ResultsInOrder'
      BY <1>1, <2>1, <3>2, <3>3 DEF PayloadInv, ResultsInOrder, ResultInOrder
    <3> QED BY <3>1, <3>4
  <2>3. AskedInOrder'
    BY <1>1, <1>2, <1>3, <2>1 DEF AskedInOrder, Asked
  <2>4. KeptOnce'
    <3>1. NoneBlind' => NoneBlind
      BY <2>1 DEF NoneBlind
    <3> QED BY <1>1, <1>2, <1>6, <2>1, <3>1, KeptStays
  <2> QED BY <1>3, <1>7, <2>1, <2>2, <2>3, <2>4 DEF PayloadInv
<1>9. CASE waits
  <2>1. /\ call[c].pc = "asked" /\ call[c].at = q.at /\ NextSpan(c, keep, FALSE)
        /\ dedup'.queue = Ask(rest, c, call[c].at + 1)
    BY <1>1, <1>9
  <2>2. /\ Others(c) /\ call'[c].status = call[c].status /\ call'[c].out = call[c].out
        /\ call'[c].at = call[c].at + 1 /\ call'[c].blind = (call[c].blind \/ FALSE)
        /\ call'[c].kept = (IF keep THEN call[c].kept \cup {SpansIn[c][call[c].at].n} ELSE call[c].kept)
        /\ call'[c].pc = IF call[c].at = Len(SpansIn[c]) THEN "spans_done" ELSE "asked"
    BY <1>1, <1>4, <2>1, NextSpanEffect
  <2>3. OnePayload' /\ ResultsInOrder'
    BY <1>1, <1>4, <2>1, <2>2, EarlyMoves DEF Early
  <2>4. IsSequence(dedup'.queue) /\ AskedInOrder'
    BY <1>1, <1>3, <1>4, <2>1, <2>2, NextSpanAsks
  <2>5. NoneBlind' => NoneBlind
    <3>1. \A d \in Calls \ {c} : call'[d].blind = call[d].blind
      BY <2>2 DEF Others
    <3>2. call[c].blind => call'[c].blind
      BY <2>2, Zenon
    <3> QED BY <3>1, <3>2, Zenon DEF NoneBlind
  <2>6. KeptOnce'
    <3>1. CASE ~keep
      <4>1. \A d \in Calls : call'[d].kept = call[d].kept
        BY <2>2, <3>1 DEF Others
      <4> QED BY <1>1, <1>2, <1>6, <2>5, <4>1, KeptStays
    <3>2. CASE keep
      <4>1. KeptKeys(c)' = KeptKeys(c) \cup {q.key}
        BY <1>4, <2>1, <2>2, <3>2, KeepsSpan
      <4>2. \A d \in TraceCalls \ {c} : KeptKeys(d)' = KeptKeys(d)
        BY <1>1, <2>2, ResultSame DEF Others, TraceCalls
      <4>3. q.key \notin Range(dedup.order)
        BY <1>6, <3>2
      <4>4. Fresh' => /\ FewKeys
                      /\ \A d \in TraceCalls : KeptKeys(d) \subseteq Range(dedup.order)
                      /\ \A d, e \in TraceCalls : d # e => KeptKeys(d) \cap KeptKeys(e) = {}
        BY <1>2, <2>5, Zenon DEF Fresh, KeptOnce
      <4>5. FewKeys => Range(dedup'.order) = Range(dedup.order) \cup {q.key}
        BY <1>1, <1>6
      <4> HIDE DEF KeptKeys, Fresh, FewKeys
      <4>6. Fresh' => \A d \in TraceCalls : KeptKeys(d)' \subseteq Range(dedup'.order)
        BY <1>4, <4>1, <4>2, <4>4, <4>5
      <4>7. Fresh' => \A d, e \in TraceCalls : d # e => KeptKeys(d)' \cap KeptKeys(e)' = {}
        <5> SUFFICES ASSUME Fresh', NEW d \in TraceCalls, NEW e \in TraceCalls, d # e, NEW k,
                            k \in KeptKeys(d)', k \in KeptKeys(e)'
                     PROVE  FALSE
          BY Zenon
        <5>1. k \in KeptKeys(d) \/ (d = c /\ k = q.key)
          BY <4>1, <4>2
        <5>2. k \in KeptKeys(e) \/ (e = c /\ k = q.key)
          BY <4>1, <4>2
        <5> QED BY <4>3, <4>4, <5>1, <5>2
      <4> QED BY <4>6, <4>7 DEF KeptOnce
    <3> QED BY <3>1, <3>2
  <2> QED BY <1>7, <2>3, <2>4, <2>6 DEF PayloadInv
<1> QED BY <1>8, <1>9

-----------------------------------------------------------------------------
(* The specification keeps the second invariant *)

\* The second invariant holds initially.
LEMMA PayloadInit == Init => PayloadInv
<1> SUFFICES ASSUME Init PROVE PayloadInv
  OBVIOUS
<1>1. \A c \in Calls : /\ call[c].pc = "new" /\ call[c].at = 1 /\ call[c].kept = {} /\ call[c].out = NoPayload
                       /\ call[c].status = 0 /\ concentrator[c] = <<>>
  BY DEF Init, NoPayload
<1>2. OnePayload
  BY DEF Init, OnePayload, Sole, Carried, Holds
<1>3. \A c \in TraceCalls \cup OtlpCalls : c \in Calls
  BY DEF TraceCalls, OtlpCalls
<1>4. concentrator = [c \in Calls |-> concentrator[c]]
  BY DEF Init
<1>5. ResultsInOrder
  BY <1>1, <1>3, <1>4 DEF ResultsInOrder, ResultInOrder, Early
<1>6. DedupShape
  <2>1. IsSequence(<<>>) /\ Range(<<>>) = {}
    BY DEF IsSequence, Range
  <2>2. dedup.order = <<>> /\ dedup.queue = <<>> /\ dedup = [f \in {"order", "queue"} |-> dedup[f]]
    BY DEF Init
  <2> QED BY <2>1, <2>2 DEF DedupShape
<1>7. AskedInOrder
  BY <1>1, <1>3 DEF Init, AskedInOrder
<1>8. KeptOnce
  <2>1. \A c \in TraceCalls : KeptKeys(c) = {}
    BY <1>1, <1>3 DEF KeptKeys, NKept
  <2> QED BY <2>1 DEF KeptOnce
<1> QED BY <1>2, <1>5, <1>6, <1>7, <1>8 DEF PayloadInv

\* Every step keeps it.
LEMMA PayloadStep == IntakeInv /\ PayloadInv /\ [Next]_vars => PayloadInv'
<1> SUFFICES ASSUME IntakeInv, PayloadInv, [Next]_vars PROVE PayloadInv'
  OBVIOUS
<1>1. ASSUME NEW c \in Calls, Receive(c) \/ HandleProxy(c) \/ Refuse(c) \/ Disconnect(c) \/ DedupTimeout(c)
      PROVE  PayloadInv'
  BY <1>1, ReceiveKeepsPayloads, HandleProxyKeeps, RefuseKeeps, DisconnectKeeps, DedupTimeoutKeeps
<1>2. ASSUME NEW c \in Calls, Step(c)
      PROVE  PayloadInv'
  BY <1>2, SendProcessedKeeps, ProcessAndSendKeeps, CountOtlpKeeps, SendKeepsPayloads, SendFailsKeeps,
     DedupTimeoutKeeps DEF Step
<1>3. aggregator = TRUE => "trace" \in forwarding
  BY DEF PayloadInv, OnePayload
<1>4. ASSUME NEW kind \in Ways, Forward(kind) \/ Acknowledge(kind)
      PROVE  PayloadInv'
  <2>1. CASE Acknowledge(kind)
    BY <1>3, <2>1, PayloadNothing DEF Acknowledge
  <2> QED BY <1>4, <2>1, ForwardKeeps
<1>5. CASE AggregatorStops
  BY <1>5, PayloadNothing DEF AggregatorStops
<1>6. CASE BarrierWait
  BY <1>3, <1>6, PayloadNothing DEF BarrierWait
<1>7. CASE BarrierFails
  BY <1>3, <1>7, PayloadNothing DEF BarrierFails
<1>8. CASE UNCHANGED vars
  BY <1>3, <1>8, PayloadNothing DEF vars
<1>9. CASE DedupServe \/ DedupLosesAnswer
  BY <1>9, ServeKeeps DEF DedupServe, DedupLosesAnswer
<1> QED BY <1>1, <1>2, <1>4, <1>5, <1>6, <1>7, <1>8, <1>9 DEF Next, Work, Ways

\* In every state the intake reaches: a call has one payload at most, on its
\* channel or in the aggregator, made by process_traces of the spans that the
\* call took; its stats are counted once, in the order of the two handlers; and
\* the deduper knows what the calls kept.
THEOREM PayloadInvariant == Spec => []PayloadInv
BY PayloadInit, PayloadStep, IntakeInvariant, PTL DEF Spec

\* The aggregator task is there or gone.
LEMMA AggregatorThere == Spec => [](aggregator \in BOOLEAN)
<1>1. Init => aggregator \in BOOLEAN
  BY DEF Init
<1>2. aggregator \in BOOLEAN /\ [Next]_vars => (aggregator \in BOOLEAN)'
  BY DEF Next, Work, Step, vars, Receive, HandleProxy, Refuse, Disconnect, DedupTimeout, AggregatorStops, BarrierWait,
         Forward, Acknowledge, BarrierFails, DedupServe, DedupLosesAnswer, Serve, Send, SendFails, send_processed_traces,
         process_and_send_traces, CountOtlp
<1> QED BY <1>1, <1>2, PTL DEF Spec

-----------------------------------------------------------------------------
(* What the tracer's spans come to *)

\* The payloads on the channel and in the aggregator, one per call.
LEMMA PayloadsFact ==
  ASSUME IntakeInv, PayloadInv
  PROVE  /\ \A i, j \in DOMAIN Payloads : Payloads[i].call = Payloads[j].call => i = j
         /\ \A i \in DOMAIN Payloads : Payloads[i].call \in Calls /\ Payloads[i].out = call[Payloads[i].call].out
         /\ \A c : Holds(channel.trace, c) \/ Holds(store.trace, c) => Holds(Payloads, c)
<1> DEFINE q == channel.trace
           s == store.trace
           S == {q[i] : i \in DOMAIN q} \cup {s[i] : i \in DOMAIN s}
           p == Cat(q, s)
<1>1. Payloads = p
  BY Zenon DEF Payloads, Cat
<1>2. q \in Seq(S) /\ s \in Seq(S)
  <2>1. IsSequence(q) /\ IsSequence(s)
    BY DEF IntakeInv, QueueShape, Ways
  <2> DEFINE A == {q[i] : i \in DOMAIN q}
             B == {s[i] : i \in DOMAIN s}
  <2>2. q \in Seq(A) /\ s \in Seq(B)
    BY <2>1 DEF IsSequence
  <2> HIDE DEF A, B, q, s
  <2>3. q \in Seq(A \cup B) /\ s \in Seq(A \cup B)
    BY <2>2
  <2> QED BY <2>3 DEF A, B
<1>3. /\ Sole(q) /\ Sole(s) /\ Carried(q) /\ Carried(s)
      /\ \A c \in Calls : ~(Holds(q, c) /\ Holds(s, c))
  BY DEF PayloadInv, OnePayload
<1> HIDE DEF q, s, S, p
<1>4. /\ p \in Seq(S) /\ Len(p) = Len(q) + Len(s)
      /\ \A i \in 1 .. Len(q) + Len(s) : p[i] = IF i <= Len(q) THEN q[i] ELSE s[i - Len(q)]
  BY <1>2, CatFact DEF p
<1>5. /\ Len(q) \in Nat /\ Len(s) \in Nat /\ DOMAIN q = 1 .. Len(q) /\ DOMAIN s = 1 .. Len(s)
      /\ DOMAIN p = 1 .. Len(q) + Len(s)
  BY <1>2, <1>4
<1>6. \A i \in DOMAIN p : \/ i \in DOMAIN q /\ p[i] = q[i]
                          \/ i - Len(q) \in DOMAIN s /\ p[i] = s[i - Len(q)] /\ i \in Int
  BY <1>4, <1>5
<1>7. ASSUME NEW i \in DOMAIN p PROVE p[i].call \in Calls /\ p[i].out = call[p[i].call].out
  BY <1>3, <1>6 DEF Carried
<1>8. ASSUME NEW i \in DOMAIN p, NEW j \in DOMAIN p, p[i].call = p[j].call PROVE i = j
  <2>1. CASE i \in DOMAIN q /\ p[i] = q[i] /\ j \in DOMAIN q /\ p[j] = q[j]
    BY <1>3, <1>8, <2>1 DEF Sole
  <2>2. CASE /\ i - Len(q) \in DOMAIN s /\ p[i] = s[i - Len(q)] /\ i \in Int
             /\ j - Len(q) \in DOMAIN s /\ p[j] = s[j - Len(q)] /\ j \in Int
    <3>1. i - Len(q) = j - Len(q)
      BY <1>3, <1>8, <2>2 DEF Sole
    <3> QED BY <1>5, <2>2, <3>1
  <2>3. CASE /\ i \in DOMAIN q /\ p[i] = q[i]
             /\ j - Len(q) \in DOMAIN s /\ p[j] = s[j - Len(q)] /\ j \in Int
    BY <1>3, <1>7, <1>8, <2>3 DEF Holds
  <2>4. CASE /\ i - Len(q) \in DOMAIN s /\ p[i] = s[i - Len(q)] /\ i \in Int
             /\ j \in DOMAIN q /\ p[j] = q[j]
    BY <1>3, <1>7, <1>8, <2>4 DEF Holds
  <2> QED BY <1>6, <2>1, <2>2, <2>3, <2>4
<1>9. ASSUME NEW c, Holds(q, c) \/ Holds(s, c) PROVE Holds(p, c)
  <2>1. CASE Holds(q, c)
    <3>1. PICK i \in DOMAIN q : q[i].call = c
      BY <2>1 DEF Holds
    <3>2. i \in DOMAIN p /\ p[i] = q[i]
      BY <1>4, <1>5
    <3> QED BY <3>1, <3>2 DEF Holds
  <2>2. CASE Holds(s, c)
    <3>1. PICK i \in DOMAIN s : s[i].call = c
      BY <2>2 DEF Holds
    <3>2. i + Len(q) \in DOMAIN p /\ ~(i + Len(q) <= Len(q)) /\ (i + Len(q)) - Len(q) = i
      BY <1>5
    <3>3. p[i + Len(q)] = s[i]
      BY <1>4, <1>5, <3>2
    <3> QED BY <3>1, <3>2, <3>3 DEF Holds
  <2> QED BY <1>9, <2>1, <2>2
<1> QED BY <1>1, <1>7, <1>8, <1>9 DEF q, s

\* None or one.
LEMMA AtMostOneElement ==
  ASSUME NEW I, \A i, j \in I : i = j
  PROVE  Cardinality(I) <= 1 /\ (I = {} => Cardinality(I) = 0) /\ (I # {} => Cardinality(I) = 1)
<1>1. CASE I = {}
  BY <1>1, FS_EmptySet
<1>2. CASE I # {}
  <2>1. PICK i : I = {i}
    BY <1>2
  <2>2. Cardinality(I) = 1
    BY <2>1, FS_Singleton
  <2> QED BY <1>2, <2>2
<1> QED BY <1>1, <1>2

\* A span that several requests carry, because the tracer sent it again, is in
\* one payload at most, as long as Deduper can remember every span and answers in
\* time: for any requests, whatever the handlers interleave.
THEOREM AtMostOnce == Spec => []SentAtMostOnce
<1>1. IntakeInv /\ PayloadInv => SentAtMostOnce
  <2> SUFFICES ASSUME IntakeInv, PayloadInv, FewKeys, NoneBlind, NEW key \in AllKeys
               PROVE  Times(key) <= 1
    BY DEF SentAtMostOnce
  <2> DEFINE P == Payloads
             I == {i \in DOMAIN P : P[i].call \in TraceCalls /\ Has(P[i].out.spans, key)}
  <2>1. /\ \A i, j \in DOMAIN P : P[i].call = P[j].call => i = j
        /\ \A i \in DOMAIN P : P[i].call \in Calls /\ P[i].out = call[P[i].call].out
    BY PayloadsFact
  <2> HIDE DEF P
  <2>2. ASSUME NEW i \in I PROVE key \in KeptKeys(P[i].call)
    <3> DEFINE c == P[i].call
    <3>1. c \in TraceCalls /\ Has(call[c].out.spans, key)
      BY <2>1
    <3> HIDE DEF c
    <3>2. PICK j \in DOMAIN call[c].out.spans : call[c].out.spans[j].key = key
      BY <3>1 DEF Has
    <3>3. call[c].out # NoPayload
      <4>1. DOMAIN NoPayload.spans = {}
        BY DEF NoPayload
      <4> QED BY <3>2, <4>1
    <3>4. call[c].out = Result(c).payload
      BY <3>1, <3>3 DEF PayloadInv, ResultsInOrder, ResultInOrder
    <3>5. Range(Result(c).payload.spans) \subseteq NKept(c)
      BY <3>1, ResultFact
    <3>6. call[c].out.spans[j] \in NKept(c)
      BY <3>2, <3>4, <3>5 DEF Range
    <3>7. key \in KeptKeys(c)
      BY <3>2, <3>6 DEF KeptKeys
    <3> QED BY <3>7 DEF c
  <2>3. \A c, d \in TraceCalls : c # d => KeptKeys(c) \cap KeptKeys(d) = {}
    BY DEF PayloadInv, KeptOnce, Fresh
  <2>4. \A i, j \in I : i = j
    BY <2>1, <2>2, <2>3
  <2>5. Times(key) = Cardinality(I)
    BY DEF Times, P
  <2> HIDE DEF I
  <2> QED BY <2>4, <2>5, AtMostOneElement
<1> QED BY <1>1, IntakeInvariant, PayloadInvariant, PTL

\* Of a call that was accepted with spans left, what is marked for the backend is
\* what the backend has to compute the stats of.
LEMMA MarkedFact ==
  ASSUME IntakeInv, PayloadInv, aggregator = TRUE, NEW c \in TraceCalls \cup OtlpCalls,
         call[c].status = 200, NEW x \in Left(c)
  PROVE  Marked(c, x.n) = IF ComputedBy(c) = "Backend" THEN 1 ELSE 0
<1> DEFINE P == Payloads
           HasN(p) == \E j \in DOMAIN p.out.spans : p.out.spans[j].n = x.n
           I == {i \in DOMAIN P : P[i].call = c /\ P[i].out.stamped /\ HasN(P[i])}
<1>1. /\ \A i, j \in DOMAIN P : P[i].call = P[j].call => i = j
      /\ \A i \in DOMAIN P : P[i].call \in Calls /\ P[i].out = call[P[i].call].out
      /\ Holds(channel.trace, c) \/ Holds(store.trace, c) => Holds(P, c)
  BY PayloadsFact
<1>2. Marked(c, x.n) = Cardinality(I)
  BY DEF Marked
<1> HIDE DEF P
<1>3. \A i, j \in I : i = j
  BY <1>1
<1>4. ResultInOrder(c) /\ c \in Calls
  BY DEF PayloadInv, ResultsInOrder, TraceCalls, OtlpCalls
<1>5. CASE ComputedBy(c) # "Backend"
  <2>1. ~Result(c).payload.stamped
    BY <1>5, ResultFact
  <2>2. ~call[c].out.stamped
    <3>1. ~NoPayload.stamped
      BY DEF NoPayload
    <3> QED BY <1>4, <2>1, <3>1 DEF ResultInOrder
  <2>3. I = {}
    <3> SUFFICES ASSUME NEW i \in I PROVE FALSE
      OBVIOUS
    <3>1. P[i].out = call[c].out
      BY <1>1
    <3> QED BY <2>2, <3>1
  <2> HIDE DEF I
  <2> QED BY <1>2, <1>3, <1>5, <2>3, AtMostOneElement
<1>6. CASE ComputedBy(c) = "Backend"
  <2>1. /\ Result(c).payload.stamped /\ Result(c).payload.spans = Result(c).for_stats
        /\ Range(Result(c).for_stats) = Left(c)
    BY <1>6, ResultFact
  <2>2. call[c].out = Result(c).payload
    BY <1>4, <2>1 DEF ResultInOrder
  <2>3. PICK k \in DOMAIN call[c].out.spans : call[c].out.spans[k] = x
    BY <2>1, <2>2 DEF Range
  <2>4. call[c].out.spans # <<>>
    <3>1. DOMAIN <<>> = {}
      OBVIOUS
    <3> QED BY <2>3, <3>1
  <2>5. "trace" \in forwarding
    BY DEF PayloadInv, OnePayload
  <2>6. Passed(c) /\ Due(c) /\ Way(c) = "trace"
    BY <2>4 DEF Passed, Good, Due, Way, TraceCalls, OtlpCalls
  <2>7. Holds(channel.trace, c) \/ Holds(store.trace, c)
    <3>1. Holds(channel[Way(c)], c) \/ Holds(store[Way(c)], c)
      BY <1>4, <2>5, <2>6 DEF IntakeInv, AcceptedNotLost
    <3> QED BY <2>6, <3>1
  <2>8. PICK i \in DOMAIN P : P[i].call = c
    BY <1>1, <2>7 DEF Holds
  <2>9. P[i].out = call[c].out
    BY <1>1, <2>8
  <2>10. P[i].out.stamped /\ HasN(P[i])
    BY <2>1, <2>2, <2>3, <2>9
  <2>11. I # {}
    BY <2>8, <2>10
  <2> HIDE DEF I
  <2> QED BY <1>2, <1>3, <1>6, <2>11, AtMostOneElement
<1> QED BY <1>5, <1>6

\* And what was added to the concentrator is what the extension computes them of.
LEMMA CountedFact ==
  ASSUME PayloadInv, NEW c \in TraceCalls \cup OtlpCalls, call[c].status = 200, NEW x \in Left(c)
  PROVE  Counted(c, x.n) = IF ComputedBy(c) = "Extension" THEN 1 ELSE 0
<1> DEFINE I == {i \in DOMAIN concentrator[c] : concentrator[c][i] = x.n}
           s == Result(c).for_stats
<1>1. Counted(c, x.n) = Cardinality(I)
  BY DEF Counted
<1>2. ResultInOrder(c)
  BY DEF PayloadInv, ResultsInOrder
<1>3. concentrator[c] = Added(c)
  BY <1>2 DEF ResultInOrder
<1>4. CASE ComputedBy(c) # "Extension"
  <2>1. concentrator[c] = <<>>
    BY <1>3, <1>4 DEF Added
  <2>2. I = {}
    BY <2>1
  <2> HIDE DEF I
  <2> QED BY <1>1, <1>4, <2>2, AtMostOneElement
<1>5. CASE ComputedBy(c) = "Extension"
  <2>1. Distinct(s) /\ Range(s) = Left(c)
    BY ResultFact
  <2>2. concentrator[c] = [i \in DOMAIN s |-> s[i].n]
    BY <1>3, <1>5 DEF Added
  <2> HIDE DEF s
  <2>3. I = {i \in DOMAIN s : s[i].n = x.n}
    BY <2>2
  <2>4. \A i, j \in I : i = j
    BY <2>1, <2>3 DEF Distinct
  <2>5. I # {}
    <3>1. PICK i \in DOMAIN s : s[i] = x
      BY <2>1 DEF Range
    <3> QED BY <2>3, <3>1
  <2> HIDE DEF I
  <2> QED BY <1>1, <1>5, <2>4, <2>5, AtMostOneElement
<1> QED BY <1>4, <1>5

\* Exactly one party computes the stats of every span that was not filtered out
\* of an accepted call: the tracer, the extension, or the backend from a span
\* that is marked and on its way or stored.  For any bodies and configurations,
\* whatever the deduper and the sampling dropped of the call.  Of a gRPC export
\* whose metadata names the tracer, they are computed twice.
THEOREM StatsOnce == Spec => []StatsComputedOnce
<1>1. IntakeInv /\ PayloadInv /\ aggregator \in BOOLEAN => StatsComputedOnce
  <2> SUFFICES ASSUME IntakeInv, PayloadInv, aggregator = TRUE, NEW c \in TraceCalls \cup OtlpCalls,
                      call[c].status = 200
               PROVE  LET left == SpansOf([i \in DOMAIN Taken(c) |-> process(Taken(c)[i], config)], DOMAIN Taken(c))
                          tracer == IF Body[c].client_stats THEN 1 ELSE 0
                      IN \A i \in DOMAIN left : Counted(c, left[i].n) + Marked(c, left[i].n) + tracer
                                                   = IF MetadataIgnored(c) THEN 2 ELSE 1
    BY Zenon DEF StatsComputedOnce, Taken
  <2> DEFINE X == Taken(c)
             Y == Outcome(X, config)
             left == SpansOf(Y, DOMAIN X)
             tracer == IF Body[c].client_stats THEN 1 ELSE 0
             total == IF MetadataIgnored(c) THEN 2 ELSE 1
  <2>1. Numbered(X, All(c)) /\ Shaped(X)
    BY BodyNumbered, KeptNumbered DEF Taken, TraceCalls, OtlpCalls
  <2> HIDE DEF X
  <2>2. Numbered(Y, All(c)) /\ Len(Y) = Len(X)
    BY <2>1, OutcomeNumbered
  <2>3. DOMAIN X = 1 .. Len(X)
    <3>1. X = [i \in 1 .. Len(X) |-> X[i]]
      BY <2>1 DEF Numbered
    <3> QED BY <3>1
  <2> HIDE DEF Y
  <2>4. Range(left) = Members(Y, 1 .. Len(X))
    BY <2>2, <2>3, SpansOfFact
  <2>5. Range(left) = Left(c)
    BY <2>4 DEF Left, X, Y
  <2> HIDE DEF left
  <2>6. ASSUME NEW i \in DOMAIN left PROVE Counted(c, left[i].n) + Marked(c, left[i].n) + tracer = total
    <3>1. PICK x \in Left(c) : left[i] = x
      BY <2>5 DEF Range
    <3>2. /\ Counted(c, x.n) = (IF ComputedBy(c) = "Extension" THEN 1 ELSE 0)
          /\ Marked(c, x.n) = (IF ComputedBy(c) = "Backend" THEN 1 ELSE 0)
      BY CountedFact, MarkedFact
    <3>3. \/ ComputedBy(c) = "Tracer" /\ ClientStats(c)
          \/ ComputedBy(c) \in {"Extension", "Backend"} /\ ~ClientStats(c)
      BY DEF ComputedBy, resolve
    <3>4. \/ ClientStats(c) /\ tracer = 1 /\ total = 1
          \/ ~ClientStats(c) /\ tracer = 0 /\ total = 1
          \/ ~ClientStats(c) /\ tracer = 1 /\ total = 2
      BY Zenon DEF ClientStats, MetadataIgnored
    <3> HIDE DEF tracer, total
    <3> QED BY <3>1, <3>2, <3>3, <3>4
  <2> QED BY <2>6 DEF left, X, Y, Outcome
<1> QED BY <1>1, IntakeInvariant, PayloadInvariant, AggregatorThere, PTL

=============================================================================
