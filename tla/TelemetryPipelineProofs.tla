----------------------- MODULE TelemetryPipelineProofs -----------------------
(***************************************************************************)
(* The safety properties of TelemetryPipeline hold for any POSTs and any   *)
(* capacities of the channels.                                             *)
(***************************************************************************)
EXTENDS TelemetryPipeline, TLAPS

\* The capacities are positive and the POSTs have finitely many events each.
LEMMA ConstantFacts ==
  /\ \A p \in Posts : EventCount[p] \in Nat
  /\ Answered \subseteq Forwarded /\ Forwarded \subseteq Events
  /\ LogsCap \in Nat /\ BusCap \in Nat /\ CommandCap \in Nat /\ DurableCap \in Nat
  /\ LogsCap > 0 /\ BusCap > 0 /\ CommandCap > 0 /\ DurableCap > 0 /\ MaxUpdates \in Nat
BY PostAssumption, AnsweredAssumption, CapAssumption

USE ConstantFacts

-----------------------------------------------------------------------------
(* The inductive invariant *)

\* The listener drops its sender only when no handler is left.
HandlersGone == listener = "gone" => \A p \in Posts : post[p] # "sending"

\* The last part of the drain runs behind a closed receiver.
RestIsClosed == agent = "rest" => ~rx_open

\* Once the agent is past its drain the logs channel is empty and nobody can
\* send on it any more: the receiver is closed or the last sender dropped.
DrainedForGood ==
  agent \in {"tombstone", "gone"} =>
    /\ logs = <<>> /\ current = Nothing
    /\ ~rx_open \/ listener = "gone"

\* The Tombstone is only on the bus when its sender is gone, behind everything
\* else.
TombstoneIsLast ==
  \A i \in DOMAIN bus : bus[i] = Tombstone => agent = "gone" /\ i = Len(bus)

\* After the Tombstone the main loop finds nothing on the bus and handles
\* nothing.
NothingAfterTombstone ==
  buried => agent = "gone" /\ bus = <<>> /\ handling = Nothing /\ main_at \in {"final", "exit"}

IInv ==
  /\ TypeOK /\ HandlersGone /\ RestIsClosed /\ DrainedForGood /\ TombstoneIsLast
  /\ NothingAfterTombstone /\ NoEventDropped

-----------------------------------------------------------------------------
(* Channels *)

On(m, q) == \E j \in DOMAIN q : q[j] = m
Sends(S, q, m, r) == q \in Seq(S) /\ m \in S /\ r = Append(q, m)
Receives(S, q, m, r) == q \in Seq(S) /\ q # <<>> /\ m = Head(q) /\ r = Tail(q)

\* A send on a channel (mpsc::Sender::send) adds the message behind the others.
LEMMA SendOnChannel ==
  ASSUME NEW S, NEW q, NEW m, NEW r, Sends(S, q, m, r)
  PROVE  /\ r \in Seq(S) /\ Len(r) = Len(q) + 1 /\ Len(q) \in Nat
         /\ DOMAIN r = 1 .. Len(q) + 1 /\ DOMAIN q = 1 .. Len(q)
         /\ \A j \in DOMAIN q : r[j] = q[j]
         /\ r[Len(q) + 1] = m
         /\ \A x : On(x, r) <=> On(x, q) \/ x = m
<1>1. /\ r \in Seq(S) /\ Len(r) = Len(q) + 1 /\ Len(q) \in Nat
      /\ DOMAIN r = 1 .. Len(q) + 1 /\ DOMAIN q = 1 .. Len(q)
      /\ \A j \in DOMAIN q : r[j] = q[j]
      /\ r[Len(q) + 1] = m
  BY DEF Sends
<1>2. Len(q) + 1 \in DOMAIN r /\ \A j \in DOMAIN r : j \in DOMAIN q \/ j = Len(q) + 1
  BY <1>1
<1>3. \A j \in DOMAIN q : j \in DOMAIN r
  BY <1>1
<1>4. \A x : On(x, r) <=> On(x, q) \/ x = m
  BY <1>1, <1>2, <1>3 DEF On
<1> QED BY <1>1, <1>4

\* A receive (mpsc::Receiver::recv) takes the first message and leaves the
\* others in their order.
LEMMA ReceiveFromChannel ==
  ASSUME NEW S, NEW q, NEW m, NEW r, Receives(S, q, m, r)
  PROVE  /\ m \in S /\ r \in Seq(S) /\ Len(r) = Len(q) - 1 /\ Len(q) \in Nat \ {0}
         /\ DOMAIN r = 1 .. Len(q) - 1 /\ DOMAIN q = 1 .. Len(q)
         /\ \A j \in DOMAIN r : r[j] = q[j + 1]
         /\ q[1] = m
         /\ \A x : On(x, q) <=> On(x, r) \/ x = m
<1>1. /\ m \in S /\ r \in Seq(S) /\ Len(r) = Len(q) - 1 /\ Len(q) \in Nat \ {0}
      /\ DOMAIN r = 1 .. Len(q) - 1 /\ DOMAIN q = 1 .. Len(q)
      /\ \A j \in DOMAIN r : r[j] = q[j + 1]
      /\ q[1] = m
  BY DEF Receives
<1>2. \A j \in DOMAIN q : j = 1 \/ (j - 1 \in DOMAIN r /\ r[j - 1] = q[j])
  BY <1>1
<1>3. 1 \in DOMAIN q /\ \A j \in DOMAIN r : j + 1 \in DOMAIN q
  BY <1>1
<1>4. \A x : On(x, q) <=> On(x, r) \/ x = m
  BY <1>1, <1>2, <1>3 DEF On
<1> QED BY <1>1, <1>4

\* The message kinds differ: an event is not "nothing", and none of the marks is
\* an event.
LEMMA MarksDiffer ==
  /\ \A e \in Events : e # Nothing /\ e # Tombstone /\ e # Update /\ e # Notice
  /\ Tombstone # Nothing /\ Update # Nothing /\ Notice # Nothing
  /\ \A e \in Events : e[1] \in Posts /\ e[2] \in 1 .. EventCount[e[1]] /\ e = <<e[1], e[2]>>
<1>1. \A e \in Events : \E p \in Posts : \E n \in 1 .. EventCount[p] : e = <<p, n>>
  BY DEF Events
<1>2. ASSUME NEW p \in Posts, NEW n \in 1 .. EventCount[p]
      PROVE  <<p, n>> # Nothing /\ <<p, n>> # Tombstone /\ <<p, n>> # Update /\ <<p, n>> # Notice
  BY DEF Nothing, Tombstone, Update, Notice
<1>3. Tombstone # Nothing /\ Update # Nothing /\ Notice # Nothing
  BY DEF Nothing, Tombstone, Update, Notice
<1>4. ASSUME NEW e \in Events
      PROVE  /\ e # Nothing /\ e # Tombstone /\ e # Update /\ e # Notice
             /\ e[1] \in Posts /\ e[2] \in 1 .. EventCount[e[1]] /\ e = <<e[1], e[2]>>
  <2>1. PICK p \in Posts : \E n \in 1 .. EventCount[p] : e = <<p, n>>
    BY <1>1
  <2>2. PICK n \in 1 .. EventCount[p] : e = <<p, n>>
    BY <2>1
  <2>3. e[1] = p /\ e[2] = n
    BY <2>2
  <2> QED BY <2>2, <2>3, <1>2
<1> QED BY <1>3, <1>4

-----------------------------------------------------------------------------
(* Initial states and steps *)

\* A freshly started extension, with empty channels, satisfies the invariant.
LEMMA InitInv == Init => IInv
<1> SUFFICES ASSUME Init PROVE IInv
  OBVIOUS
<1>1. TypeOK
  <2>1. logs \in Seq(Events) /\ bus \in Seq(Forwarded \cup {Tombstone})
        /\ commands \in Seq(Forwarded \cup {Update, Notice})
    BY DEF Init
  <2>2. Len(logs) = 0 /\ Len(bus) = 0 /\ Len(commands) = 0
    BY DEF Init
  <2>3. durable \in 0 .. DurableCap /\ updates \in 0 .. MaxUpdates
    BY DEF Init
  <2>4. post \in [Posts -> {"none", "sending", "ok", "refused"}] /\ sent \in [Posts -> Nat]
        /\ \A p \in Posts : sent[p] <= EventCount[p]
    BY DEF Init
  <2>5. (asked => handling \in Answered) /\ rx_open \in BOOLEAN /\ cancelled \in BOOLEAN /\ buried \in BOOLEAN
    BY DEF Init
  <2>6. Len(logs) <= LogsCap /\ Len(bus) <= BusCap /\ Len(commands) <= CommandCap
    BY <2>2
  <2> QED BY <2>1, <2>3, <2>4, <2>5, <2>6 DEF Init, TypeOK
<1>2. HandlersGone /\ RestIsClosed /\ DrainedForGood /\ TombstoneIsLast /\ NothingAfterTombstone
  BY DEF Init, HandlersGone, DrainedForGood, TombstoneIsLast, NothingAfterTombstone,
         RestIsClosed
<1>3. Taken = {}
  BY MarksDiffer DEF Init, Taken
<1> QED BY <1>1, <1>2, <1>3 DEF IInv, NoEventDropped

\* The steps of the listener's handlers and of its shutdown
\* (TelemetryListener::handle) keep the invariant.
LEMMA ListenerInv ==
  ASSUME IInv, (\E p \in Posts : BeginPost(p)) \/ Listener
  PROVE  IInv'
<1> USE DEF IInv
<1>1. ASSUME NEW p \in Posts, BeginPost(p)
      PROVE  IInv'
  <2>1. TypeOK'
    BY <1>1 DEF BeginPost, TypeOK, agentVars, mainVars, procVars
  <2>2. HandlersGone' /\ DrainedForGood' /\ TombstoneIsLast' /\ NothingAfterTombstone' /\ RestIsClosed'
    BY <1>1 DEF BeginPost, TypeOK, agentVars, mainVars, procVars, HandlersGone, DrainedForGood,
                TombstoneIsLast, NothingAfterTombstone,
         RestIsClosed
  <2>3. NoEventDropped'
    BY <1>1 DEF BeginPost, agentVars, mainVars, NoEventDropped, Taken
  <2> QED BY <2>1, <2>2, <2>3
<1>2. ASSUME NEW p \in Posts, SendEvent(p)
      PROVE  IInv'
  <2> DEFINE e == <<p, sent[p] + 1>>
  <2> USE <1>2 DEF SendEvent, agentVars, mainVars, procVars
  <2>0. sent[p] \in Nat /\ EventCount[p] \in Nat /\ sent[p] + 1 \in 1 .. EventCount[p]
    BY DEF TypeOK
  <2>1. e \in Events
    BY <2>0 DEF Events
  <2>2. Sends(Events, logs, e, logs')
    BY <2>1 DEF TypeOK, Sends
  <2>3. TypeOK'
    <3>1. logs' \in Seq(Events) /\ Len(logs') <= LogsCap
      BY <2>2, SendOnChannel DEF TypeOK
    <3>2. sent' \in [Posts -> Nat] /\ \A q \in Posts : sent'[q] <= EventCount[q]
      BY <2>0 DEF TypeOK
    <3> QED BY <3>1, <3>2 DEF TypeOK
  <2>4. HandlersGone' /\ DrainedForGood' /\ TombstoneIsLast' /\ NothingAfterTombstone' /\ RestIsClosed'
    BY DEF TypeOK, HandlersGone, DrainedForGood, TombstoneIsLast, NothingAfterTombstone, Closed,
           RestIsClosed
  <2>5. \A f \in Taken' : f \in Taken \/ f = e
    BY <2>0, MarksDiffer DEF Taken, TypeOK
  <2>6. \A x : On(x, logs') <=> On(x, logs) \/ x = e
    BY <2>2, SendOnChannel
  <2>7. NoEventDropped'
    BY <2>5, <2>6 DEF NoEventDropped, On
  <2> QED BY <2>3, <2>4, <2>7
<1>3. ASSUME NEW p \in Posts, AnswerServiceUnavailable(p) \/ AnswerOk(p)
      PROVE  IInv'
  <2> USE <1>3 DEF AnswerServiceUnavailable, AnswerOk, agentVars, mainVars, procVars
  <2>1. TypeOK'
    <3>1. post' \in [Posts -> {"none", "sending", "ok", "refused"}]
      BY DEF TypeOK
    <3>2. UNCHANGED <<sent, listener, logs, agentVars, bus, mainVars, procVars, durable>>
      OBVIOUS
    <3> HIDE <1>3
    <3> QED BY <3>1, <3>2 DEF TypeOK
  <2>2. HandlersGone' /\ DrainedForGood' /\ TombstoneIsLast' /\ NothingAfterTombstone' /\ RestIsClosed'
    BY DEF TypeOK, HandlersGone, DrainedForGood, TombstoneIsLast, NothingAfterTombstone,
         RestIsClosed
  <2>3. NoEventDropped'
    BY DEF NoEventDropped, Taken
  <2> QED BY <2>1, <2>2, <2>3
<1>4. ASSUME StopListening \/ ListenerGone
      PROVE  IInv'
  <2> USE <1>4 DEF StopListening, ListenerGone, agentVars, mainVars, procVars
  <2>1. TypeOK'
    BY DEF TypeOK
  <2>2. HandlersGone' /\ DrainedForGood' /\ TombstoneIsLast' /\ NothingAfterTombstone' /\ RestIsClosed'
    BY DEF HandlersGone, DrainedForGood, TombstoneIsLast, NothingAfterTombstone,
         RestIsClosed
  <2>3. NoEventDropped'
    BY DEF NoEventDropped, Taken
  <2> QED BY <2>1, <2>2, <2>3
<1> QED BY <1>1, <1>2, <1>3, <1>4 DEF Listener, Handler

\* The steps of LogsAgent::spin and of its drain keep the invariant.
LEMMA AgentInv ==
  ASSUME IInv, Agent \/ DrainTimeout
  PROVE  IInv'
<1> USE DEF IInv, postVars, mainVars, procVars
<1>1. CASE Receive
  <2> USE <1>1 DEF Receive
  <2>1. Receives(Events, logs, current', logs')
    BY DEF TypeOK, Receives
  <2>2. TypeOK'
    BY <2>1, ReceiveFromChannel DEF TypeOK
  <2>3. HandlersGone' /\ DrainedForGood' /\ TombstoneIsLast' /\ NothingAfterTombstone' /\ RestIsClosed'
    BY DEF HandlersGone, DrainedForGood, TombstoneIsLast, NothingAfterTombstone,
         RestIsClosed
  <2>4. \A x : On(x, logs) <=> On(x, logs') \/ x = current'
    BY <2>1, ReceiveFromChannel
  <2>5. NoEventDropped'
    BY <2>4, MarksDiffer DEF NoEventDropped, On, Taken
  <2> QED BY <2>2, <2>3, <2>5
<1>2. CASE ReceiveUpdate
  <2> USE <1>2 DEF ReceiveUpdate, agentVars
  <2>1. TypeOK'
    BY DEF TypeOK
  <2>2. HandlersGone' /\ DrainedForGood' /\ TombstoneIsLast' /\ NothingAfterTombstone' /\ RestIsClosed'
    BY DEF HandlersGone, DrainedForGood, TombstoneIsLast, NothingAfterTombstone,
         RestIsClosed
  <2>3. NoEventDropped'
    BY DEF NoEventDropped, Taken
  <2> QED BY <2>1, <2>2, <2>3
<1>3. CASE ProcessCurrent
  <2> USE <1>3 DEF ProcessCurrent
  <2>1. agent \notin {"tombstone", "gone"} /\ current \in Events /\ ~buried
    BY DEF TypeOK, DrainedForGood, NothingAfterTombstone
  <2>2. CASE current \notin Forwarded /\ UNCHANGED bus
    <3>1. TypeOK'
      BY <2>1, <2>2 DEF TypeOK
    <3>2. HandlersGone' /\ DrainedForGood' /\ TombstoneIsLast' /\ NothingAfterTombstone' /\ RestIsClosed'
      BY <2>1, <2>2 DEF HandlersGone, DrainedForGood, TombstoneIsLast, NothingAfterTombstone,
         RestIsClosed
    <3>3. NoEventDropped'
      BY <2>1, <2>2 DEF NoEventDropped, Taken
    <3> QED BY <3>1, <3>2, <3>3
  <2>3. CASE current \in Forwarded /\ Len(bus) < BusCap /\ bus' = Append(bus, current)
    <3>1. Sends(Forwarded \cup {Tombstone}, bus, current, bus')
      BY <2>3 DEF TypeOK, Sends
    <3>2. TypeOK'
      BY <2>1, <2>3, <3>1, SendOnChannel DEF TypeOK
    <3>3. HandlersGone' /\ DrainedForGood' /\ NothingAfterTombstone' /\ RestIsClosed'
      BY <2>1 DEF HandlersGone, DrainedForGood, NothingAfterTombstone, RestIsClosed
    <3>4. \A x : On(x, bus') <=> On(x, bus) \/ x = current
      BY <3>1, SendOnChannel
    <3>5. TombstoneIsLast'
      <4>1. ~On(Tombstone, bus)
        BY <2>1 DEF TombstoneIsLast, On
      <4>2. ~On(Tombstone, bus')
        BY <2>1, <3>4, <4>1, MarksDiffer
      <4> QED BY <4>2 DEF TombstoneIsLast, On
    <3>6. NoEventDropped'
      BY <2>1, <3>4 DEF NoEventDropped, Taken, On
    <3> QED BY <3>2, <3>3, <3>5, <3>6
  <2> QED BY <2>2, <2>3
<1>4. CASE AgentCancelled \/ Disconnected \/ DrainTimeout \/ RestDrained
  <2> USE <1>4 DEF AgentCancelled, Disconnected, DrainTimeout, RestDrained
  <2>1. TypeOK'
    <3>0. durable' \in {durable, 0} /\ rx_open' \in {rx_open, FALSE}
      OBVIOUS
    <3>1. agent' \in {"drain", "rest", "tombstone"}
      OBVIOUS
    <3>2. UNCHANGED <<current, processed, postVars, logs, bus, mainVars, procVars>>
      OBVIOUS
    <3> HIDE <1>4
    <3>3. rx_open' \in BOOLEAN
      BY <3>0 DEF TypeOK
    <3>4. durable' \in 0 .. DurableCap
      BY <3>0 DEF TypeOK
    <3> QED BY <3>1, <3>2, <3>3, <3>4 DEF TypeOK
  <2>2. agent # "gone" /\ ~buried /\ UNCHANGED <<post, listener, bus, buried>>
    BY DEF NothingAfterTombstone
  <2>3. HandlersGone' /\ TombstoneIsLast' /\ NothingAfterTombstone'
    BY <2>2 DEF HandlersGone, TombstoneIsLast, NothingAfterTombstone
  <2>4. DrainedForGood'
    <3>1. CASE AgentCancelled \/ DrainTimeout
      BY <3>1 DEF DrainedForGood
    <3>2. CASE Disconnected
      BY <3>2 DEF DrainedForGood
    <3>3. CASE RestDrained
      BY <3>3 DEF DrainedForGood, RestIsClosed
    <3> QED BY <3>1, <3>2, <3>3
  <2>5. NoEventDropped'
    BY DEF NoEventDropped, Taken
  <2>6. RestIsClosed'
    BY DEF RestIsClosed
  <2> QED BY <2>1, <2>3, <2>4, <2>5, <2>6
<1>5. CASE SendTombstone
  <2> USE <1>5 DEF SendTombstone
  <2>1. Sends(Forwarded \cup {Tombstone}, bus, Tombstone, bus')
    BY DEF TypeOK, Sends
  <2>2. TypeOK'
    BY <2>1, SendOnChannel DEF TypeOK
  <2>3. ~buried
    BY DEF NothingAfterTombstone
  <2>4. HandlersGone' /\ DrainedForGood' /\ NothingAfterTombstone' /\ RestIsClosed'
    BY <2>3 DEF HandlersGone, DrainedForGood, NothingAfterTombstone, RestIsClosed
  <2>5. TombstoneIsLast'
    BY <2>1, SendOnChannel DEF TombstoneIsLast
  <2>6. \A x : On(x, bus') <=> On(x, bus) \/ x = Tombstone
    BY <2>1, SendOnChannel
  <2>7. NoEventDropped'
    BY <2>6 DEF NoEventDropped, Taken, On
  <2> QED BY <2>2, <2>4, <2>5, <2>7
<1> QED BY <1>1, <1>2, <1>3, <1>4, <1>5 DEF Agent

\* The steps of the main loop, of handle_event_bus_event and of the shutdown
\* sequence keep the invariant.
LEMMA MainInv ==
  ASSUME IInv, Main \/ LeaveSelect \/ BeginShutdown \/ IdleTimeout
  PROVE  IInv'
<1> USE DEF IInv, postVars, agentVars, otherVars
<1>1. ASSUME NEW c \in {Notice} \cup Forwarded, Sending(c)
      PROVE  /\ commands' \in Seq(Forwarded \cup {Update, Notice}) /\ Len(commands') <= CommandCap
             /\ UNCHANGED <<command, updates>>
  <2>1. Sends(Forwarded \cup {Update, Notice}, commands, c, commands')
    BY <1>1 DEF Sending, Sends, TypeOK
  <2> QED BY <1>1, <2>1, SendOnChannel DEF Sending, TypeOK
<1>2. ASSUME UNCHANGED <<post, sent, listener, logs, agent, current, processed, rx_open, bus, handled, buried, handling, asked, durable>>,
             cancelled' \in BOOLEAN,
             main_at' \in {"loop", "busy", "await", "tombstone", "final", "exit"},
             buried => main_at' \in {"final", "exit"},
             UNCHANGED procVars \/ Sending(Notice)
      PROVE  IInv'
  <2>1. /\ commands' \in Seq(Forwarded \cup {Update, Notice}) /\ Len(commands') <= CommandCap
        /\ UNCHANGED <<command, updates>>
    BY <1>1, <1>2 DEF procVars, TypeOK
  <2>2. TypeOK'
    BY <1>2, <2>1 DEF TypeOK
  <2>3. HandlersGone' /\ DrainedForGood' /\ TombstoneIsLast' /\ NothingAfterTombstone' /\ RestIsClosed'
    BY <1>2 DEF HandlersGone, DrainedForGood, TombstoneIsLast, NothingAfterTombstone, RestIsClosed
  <2>4. NoEventDropped'
    BY <1>2 DEF NoEventDropped, Taken
  <2> QED BY <2>2, <2>3, <2>4
<1>3. CASE LeaveSelect \/ BackToSelect \/ BeginShutdown
  BY <1>2, <1>3 DEF LeaveSelect, BackToSelect, BeginShutdown, MainIs, TypeOK, NothingAfterTombstone
<1>4. CASE AwaitHandlesReturns \/ IdleTimeout \/ FinalFlushDone
  BY <1>2, <1>4 DEF AwaitHandlesReturns, IdleTimeout, FinalFlushDone, MainIs, TypeOK, NothingAfterTombstone
<1>5. CASE ReceiveEvent
  <2> USE <1>5 DEF ReceiveEvent, MainIs, procVars
  <2>1. Receives(Forwarded \cup {Tombstone}, bus, handling', bus')
    BY DEF TypeOK, Receives
  <2>2. handling' \in Forwarded /\ bus' \in Seq(Forwarded \cup {Tombstone}) /\ Len(bus') <= BusCap
    BY <2>1, ReceiveFromChannel DEF TypeOK
  <2>3. ~asked /\ ~buried
    BY MarksDiffer DEF TypeOK, NothingAfterTombstone
  <2>4. TypeOK'
    BY <2>2, <2>3 DEF TypeOK
  <2>5. HandlersGone' /\ DrainedForGood' /\ NothingAfterTombstone' /\ RestIsClosed'
    BY <2>3 DEF HandlersGone, DrainedForGood, NothingAfterTombstone, RestIsClosed
  <2>6. TombstoneIsLast'
    BY <2>1, ReceiveFromChannel DEF TombstoneIsLast
  <2>7. \A x : On(x, bus) <=> On(x, bus') \/ x = handling'
    BY <2>1, ReceiveFromChannel
  <2>8. NoEventDropped'
    BY <2>7, MarksDiffer DEF NoEventDropped, On, Taken
  <2> QED BY <2>4, <2>5, <2>6, <2>8
<1>6. CASE HandleEvent
  <2> USE <1>6 DEF HandleEvent
  <2>1. handling \in Forwarded /\ ~buried
    BY DEF TypeOK, NothingAfterTombstone
  <2>2. /\ commands' \in Seq(Forwarded \cup {Update, Notice}) /\ Len(commands') <= CommandCap
        /\ UNCHANGED <<command, updates>>
    BY <1>1, <2>1
  <2>3. \/ handling \in Answered /\ asked' = TRUE /\ handling' = handling /\ handled' = handled
        \/ handling' = Nothing /\ handled' = handled \cup {handling} /\ asked' = asked
    OBVIOUS
  <2>4. TypeOK'
    <3>1. handled' \subseteq Forwarded /\ handling' \in Forwarded \cup {Nothing}
          /\ (asked' => handling' \in Answered)
      BY <2>1, <2>3 DEF TypeOK
    <3> QED BY <2>2, <3>1 DEF TypeOK
  <2>5. HandlersGone' /\ DrainedForGood' /\ TombstoneIsLast' /\ NothingAfterTombstone' /\ RestIsClosed'
    BY <2>1 DEF HandlersGone, DrainedForGood, TombstoneIsLast, NothingAfterTombstone, RestIsClosed
  <2>6. NoEventDropped'
    BY <2>3 DEF NoEventDropped, Taken
  <2> QED BY <2>4, <2>5, <2>6
<1>7. CASE ReceiveTombstone
  <2> USE <1>7 DEF ReceiveTombstone, MainIs, procVars
  <2>1. Receives(Forwarded \cup {Tombstone}, bus, Tombstone, bus')
    BY DEF TypeOK, Receives
  <2>2. bus[1] = Tombstone /\ 1 \in DOMAIN bus /\ Len(bus') = Len(bus) - 1
        /\ bus' \in Seq(Forwarded \cup {Tombstone}) /\ Len(bus') <= BusCap
    BY <2>1, ReceiveFromChannel DEF TypeOK
  <2>3. agent = "gone" /\ Len(bus) = 1
    BY <2>2 DEF TombstoneIsLast
  <2>4. bus' = <<>>
    BY <2>2, <2>3
  <2>5. TypeOK'
    BY <2>2 DEF TypeOK
  <2>6. HandlersGone' /\ DrainedForGood' /\ NothingAfterTombstone' /\ RestIsClosed' /\ TombstoneIsLast'
    BY <2>3, <2>4 DEF HandlersGone, DrainedForGood, NothingAfterTombstone, RestIsClosed, TombstoneIsLast
  <2>7. \A x : On(x, bus) <=> On(x, bus') \/ x = Tombstone
    BY <2>1, ReceiveFromChannel
  <2>8. NoEventDropped'
    BY <2>7, MarksDiffer DEF NoEventDropped, On, Taken
  <2> QED BY <2>5, <2>6, <2>8
<1> QED BY <1>3, <1>4, <1>5, <1>6, <1>7 DEF Main

\* The steps of InvocationProcessorService::run and of process_traces keep the
\* invariant.
LEMMA ProcessorInv ==
  ASSUME IInv, TraceAgentForwards \/ Processor
  PROVE  IInv'
<1> USE DEF IInv, postVars, agentVars
<1> DEFINE C == Forwarded \cup {Update, Notice}
<1>1. ASSUME UNCHANGED <<post, sent, listener, logs, agent, current, processed, rx_open, bus>>,
             UNCHANGED <<main_at, handled, cancelled, buried, handling, asked>>,
             commands' \in Seq(C), Len(commands') <= CommandCap,
             command' \in C \cup {Nothing}, durable' \in 0 .. DurableCap, updates' \in 0 .. MaxUpdates
      PROVE  IInv'
  <2>1. TypeOK'
    BY <1>1 DEF TypeOK
  <2>2. HandlersGone' /\ DrainedForGood' /\ TombstoneIsLast' /\ NothingAfterTombstone' /\ RestIsClosed'
    BY <1>1 DEF HandlersGone, DrainedForGood, TombstoneIsLast, NothingAfterTombstone, RestIsClosed
  <2>3. NoEventDropped'
    BY <1>1 DEF NoEventDropped, Taken
  <2> QED BY <2>1, <2>2, <2>3
<1>2. CASE TraceAgentForwards
  <2>1. Sends(C, commands, Update, commands')
    BY <1>2 DEF TraceAgentForwards, Sends, TypeOK
  <2>2. commands' \in Seq(C) /\ Len(commands') <= CommandCap
    BY <1>2, <2>1, SendOnChannel DEF TraceAgentForwards, TypeOK
  <2> QED BY <1>1, <1>2, <2>2 DEF TraceAgentForwards, TypeOK, mainVars
<1>3. CASE TakeCommand
  <2>1. Receives(C, commands, command', commands')
    BY <1>3 DEF TakeCommand, Receives, TypeOK
  <2>2. commands' \in Seq(C) /\ Len(commands') <= CommandCap /\ command' \in C
    BY <2>1, ReceiveFromChannel DEF TypeOK
  <2> QED BY <1>1, <1>3, <2>2 DEF TakeCommand, TypeOK, mainVars
<1>4. CASE forward_durable_context
  <2>1. durable' \in 0 .. DurableCap
    BY <1>4 DEF forward_durable_context, TypeOK
  <2> QED BY <1>1, <1>4, <2>1 DEF forward_durable_context, TypeOK, mainVars
<1>5. CASE ProcessCommand
  <2> USE <1>5 DEF ProcessCommand
  <2>1. \/ asked /\ command = handling /\ handling' = Nothing /\ asked' = FALSE
           /\ handled' = handled \cup {handling}
        \/ UNCHANGED <<handling, asked, handled>>
    OBVIOUS
  <2>2. /\ handled' \subseteq Forwarded /\ handling' \in Forwarded \cup {Nothing}
        /\ (asked' => handling' \in Answered)
    BY <2>1 DEF TypeOK
  <2>3. TypeOK'
    BY <2>2 DEF TypeOK
  <2>4. HandlersGone' /\ DrainedForGood' /\ TombstoneIsLast' /\ NothingAfterTombstone' /\ RestIsClosed'
    BY <2>1 DEF HandlersGone, DrainedForGood, TombstoneIsLast, NothingAfterTombstone, RestIsClosed
  <2>5. NoEventDropped'
    BY <2>1 DEF NoEventDropped, Taken
  <2> QED BY <2>3, <2>4, <2>5
<1> QED BY <1>2, <1>3, <1>4, <1>5 DEF Processor

-----------------------------------------------------------------------------
(* The theorems *)

\* Every reachable state of the pipeline satisfies the inductive invariant.
THEOREM PipelineInvariant == Spec => []IInv
<1>1. IInv /\ UNCHANGED vars => IInv'
  BY DEF vars, IInv, TypeOK, HandlersGone, DrainedForGood, TombstoneIsLast, NothingAfterTombstone,
         RestIsClosed, NoEventDropped, Taken
<1>2. IInv /\ [Next]_vars => IInv'
  BY <1>1, ListenerInv, AgentInv, MainInv, ProcessorInv DEF Next
<1> QED BY InitInv, <1>2, PTL DEF Spec

\* The channels stay within their capacities and the tasks within their states,
\* for any capacities.
THEOREM PipelineTypeCorrect == Spec => []TypeOK
BY PipelineInvariant, PTL DEF IInv

\* No telemetry event the listener took is dropped between the logs channel and
\* the main loop, at full channels or in the shutdown, for any POSTs and capacities.
THEOREM NoTelemetryDropped == Spec => []NoEventDropped
BY PipelineInvariant, PTL DEF IInv

\* When the main loop gets the Tombstone (wait_for_tombstone_event), everything
\* the listener took has been processed and, if forwarded, handled.
THEOREM TombstoneIsLastEvent == Spec => []TombstoneComesLast
<1>1. IInv => TombstoneComesLast
  <2> SUFFICES ASSUME IInv, buried PROVE Taken \subseteq processed /\ Taken \cap Forwarded \subseteq handled
    BY DEF TombstoneComesLast
  <2>1. logs = <<>> /\ current = Nothing /\ bus = <<>> /\ handling = Nothing
    BY DEF IInv, NothingAfterTombstone, DrainedForGood
  <2>2. ASSUME NEW e \in Taken PROVE e \in processed /\ (e \in Forwarded => e \in handled)
    BY <2>1, MarksDiffer DEF IInv, NoEventDropped, Taken
  <2> QED BY <2>2
<1> QED BY <1>1, PipelineInvariant, PTL
=============================================================================
