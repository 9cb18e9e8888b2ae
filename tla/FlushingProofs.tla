--------------------------- MODULE FlushingProofs ---------------------------
(***************************************************************************)
(* The safety properties of Flushing hold for any payloads, endpoints and  *)
(* number of rounds, and for any client of the service that makes one call *)
(* at a time.  The on-demand loop and the tasks of Managed Instance mode   *)
(* are such clients, so that everything proved of Flushing holds of them,  *)
(* and their shutdown settles whatever was accepted: for any strategies    *)
(* and numbers of invocations, and wherever the background flusher is when *)
(* its token is cancelled.                                                 *)
(***************************************************************************)
EXTENDS OnDemandLoop, ManagedLoop, TLAPS

-----------------------------------------------------------------------------
(* The inductive invariant *)

\* What the stage of a call says about the shipments it holds.
StageShape ==
  \A t \in TaskIds :
    /\ task[t].stage \in {"idle", "fetch"} => Held(t) = {}
    /\ task[t].stage \in {"more", "done"} => task[t].todo = {} /\ task[t].sent = {}

\* The three sets of a call are disjoint.
FieldsDisjoint ==
  \A t \in TaskIds :
    /\ task[t].todo \cap task[t].sent = {}
    /\ task[t].todo \cap task[t].failed = {}
    /\ task[t].sent \cap task[t].failed = {}

\* A flusher only ever holds payloads of its kind.
KindsMatch ==
  /\ \A t \in TaskIds : \A s \in Held(t) : KindOf[s[1]] = t.kind
  /\ \A k \in Kinds : \A p \in Waiting(k) : p \in accepted /\ KindOf[p] = k

\* Pipeline stats are in the DSM aggregator or in the proxy's, never in both.
DsmApart == \A k \in Kinds : agg[k] \cap dsm = {}

SpawnedOf(t) == [t EXCEPT !.caller = "spawned"]

\* Which calls have not been made, or were already joined.
IdleCalls ==
  /\ \A h \in handles : h.caller = "spawned" /\ h.round <= round
  /\ \A t \in TaskIds :
       /\ t.caller = "spawned" /\ t \notin handles => task[t].stage = "idle"
       /\ t.caller = "redrive" /\ (t.round > round \/ SpawnedOf(t) \in handles)
            => task[t].stage = "idle"
       /\ t.caller = "blocking" /\ op \notin {"blocking", "final"} => task[t].stage = "idle"

\* Nothing is known of payloads that have not been accepted.
FreshUnknown ==
  \A s \in Shipment : s[1] \notin accepted =>
    /\ \A t \in TaskIds : s \notin Held(t)
    /\ delivered[s] = 0 /\ lost[s] = "no"

\* What a call counts as sent did reach the intake.
SentDelivered == \A t \in TaskIds : \A s \in task[t].sent : delivered[s] > 0

IInv ==
  /\ TypeOK /\ StageShape /\ FieldsDisjoint /\ KindsMatch /\ IdleCalls /\ FreshUnknown
  /\ SentDelivered /\ DsmApart
  /\ DisjointHands /\ LostForGood /\ NothingVanishes /\ NoDuplicates

-----------------------------------------------------------------------------
\* A fresh FlushingService (FlushingService::new) with empty aggregators satisfies the
\* inductive invariant.
LEMMA InitInv == Init => IInv
<1> SUFFICES ASSUME Init PROVE IInv
  OBVIOUS
<1>1. TypeOK
  BY RoundAssumption DEF Init, TypeOK, NoTask, Stages, Losses, Ops
<1>2. \A t \in TaskIds : task[t] = NoTask /\ Held(t) = {} /\ task[t].stage = "idle"
  BY DEF Init, NoTask, Held
<1>3. StageShape /\ FieldsDisjoint /\ IdleCalls /\ KindsMatch /\ FreshUnknown /\ SentDelivered
      /\ DsmApart
  BY <1>2 DEF Init, StageShape, FieldsDisjoint, IdleCalls, KindsMatch, FreshUnknown,
              SentDelivered, DsmApart, Waiting, NoTask
<1>4. DisjointHands /\ LostForGood /\ NothingVanishes /\ NoDuplicates
  BY <1>2 DEF Init, DisjointHands, LostForGood, NothingVanishes, NoDuplicates, ShipmentsOf,
              Waiting, NoTask
<1> QED BY <1>1, <1>3, <1>4 DEF IInv

TaskRecord == [stage : Stages, todo : SUBSET Shipment,
               sent : SUBSET Shipment, failed : SUBSET Shipment]

\* The effect of a step of one flush call t: its record becomes r, it takes P
\* out of its aggregator, the intake accepts D, and L is given up.
CallEffect(t, r, P, D, L, why) ==
  /\ task' = [task EXCEPT ![t] = r]
  /\ agg' = [agg EXCEPT ![t.kind] = @ \ P]
  /\ delivered' = [s \in Shipment |-> delivered[s] + IF s \in D THEN 1 ELSE 0]
  /\ lost' = [s \in Shipment |-> IF s \in L THEN why ELSE lost[s]]
  /\ accepted' = accepted /\ handles' = handles /\ round' = round /\ op' = op
  /\ returned' = returned /\ dsm' = dsm

\* The call accounts for everything it held and took.
CallAccounts(t, r, P, D, L, why) ==
  /\ r \in TaskRecord /\ P \subseteq agg[t.kind] /\ why \in Losses \ {"no"}
  /\ task[t].stage # "idle" /\ r.stage # "idle"
  /\ D \subseteq task[t].todo
  /\ r.todo \cup r.sent \cup r.failed \subseteq Held(t) \cup ShipmentsOf(P)
  /\ r.sent \subseteq task[t].sent \cup D
  /\ L \subseteq task[t].todo \cup task[t].failed \cup ShipmentsOf(P)
  /\ L \cap (r.todo \cup r.sent \cup r.failed \cup D) = {}
  /\ \A s \in Held(t) \cup ShipmentsOf(P) :
       s \in r.todo \cup r.sent \cup r.failed \cup L \cup D \cup task[t].sent
  /\ r.todo \cap r.sent = {} /\ r.todo \cap r.failed = {} /\ r.sent \cap r.failed = {}
  /\ r.stage = "fetch" => r.todo \cup r.sent \cup r.failed = {}
  /\ r.stage \in {"more", "done"} => r.todo = {} /\ r.sent = {}
  /\ (~AnswersLost /\ t.kind # "traces") =>
       /\ D \cap (r.todo \cup r.failed) = {}
       /\ r.todo \cup r.failed \subseteq task[t].todo \cup task[t].failed \cup ShipmentsOf(P)

\* Such a step keeps the invariant.
LEMMA FlushCallStep ==
  ASSUME IInv, NEW t \in TaskIds, NEW r, NEW P, NEW D, NEW L, NEW why,
         CallEffect(t, r, P, D, L, why), CallAccounts(t, r, P, D, L, why)
  PROVE  IInv'
<1> USE DEF CallEffect, CallAccounts
<1> DEFINE N == r.todo \cup r.sent \cup r.failed
           S == ShipmentsOf(P)
<1>0. D \subseteq Shipment /\ L \subseteq Shipment
  BY DEF IInv, TypeOK, ShipmentsOf
<1>1. /\ task' \in [TaskIds -> TaskRecord] /\ task \in [TaskIds -> TaskRecord]
      /\ task'[t] = r /\ \A u \in TaskIds : u # t => task'[u] = task[u]
  BY DEF IInv, TypeOK, TaskRecord
<1>2. /\ Held(t)' = N /\ \A u \in TaskIds : u # t => Held(u)' = Held(u)
  BY <1>1 DEF Held
<1>3. /\ t.kind \in Kinds /\ agg'[t.kind] = agg[t.kind] \ P
      /\ \A k \in Kinds : k # t.kind => agg'[k] = agg[k]
      /\ agg' \in [Kinds -> SUBSET Payload] /\ \A k \in Kinds : agg'[k] \subseteq agg[k]
  BY DEF IInv, TypeOK, TaskIds
<1>w. /\ \A k \in Kinds : Waiting(k)' \subseteq Waiting(k) /\ (k # t.kind => Waiting(k)' = Waiting(k))
      /\ Waiting(t.kind)' = Waiting(t.kind) \ P /\ P \subseteq Waiting(t.kind)
      /\ DsmApart'
  BY <1>3 DEF Waiting, IInv, DsmApart
<1>4. TypeOK'
  <2>1. delivered' \in [Shipment -> Nat] /\ lost' \in [Shipment -> Losses]
    BY DEF IInv, TypeOK
  <2> QED BY <1>1, <1>3, <2>1 DEF IInv, TypeOK, TaskRecord
<1>5. \A s \in S : /\ s \in Shipment /\ s[1] \in P /\ KindOf[s[1]] = t.kind /\ s[1] \in accepted
                   /\ delivered[s] = 0 /\ lost[s] = "no"
                   /\ \A u \in TaskIds : s \notin Held(u)
  BY <1>3, <1>w DEF IInv, ShipmentsOf, KindsMatch, DisjointHands
<1>6. /\ \A s \in Shipment : s \notin Held(t) \cup S => delivered'[s] = delivered[s] /\ lost'[s] = lost[s]
      /\ \A s \in Shipment : delivered'[s] >= delivered[s] /\ delivered[s] \in Nat
      /\ \A s \in Shipment : s \notin D => delivered'[s] = delivered[s]
      /\ \A s \in D : delivered'[s] = delivered[s] + 1
      /\ Held(t) \subseteq Shipment
  BY <1>1 DEF IInv, TypeOK, Held, TaskRecord
<1>7. StageShape'
  BY <1>1, <1>2 DEF IInv, StageShape
<1>8. FieldsDisjoint'
  BY <1>1 DEF IInv, FieldsDisjoint
<1>9. KindsMatch'
  BY <1>2, <1>w, <1>5 DEF IInv, KindsMatch
<1>10. IdleCalls'
  BY <1>1 DEF IInv, IdleCalls, SpawnedOf
<1>11. FreshUnknown'
  <2>1. \A s \in Shipment : s[1] \notin accepted => s \notin Held(t) \cup S
    BY <1>5 DEF IInv, FreshUnknown
  <2> QED BY <1>2, <1>6, <2>1 DEF IInv, FreshUnknown
<1>12. SentDelivered'
  BY <1>1, <1>6 DEF IInv, SentDelivered, TypeOK
<1>13. DisjointHands'
  <2>1. \A u \in TaskIds : u # t => N \cap Held(u) = {}
    BY <1>5 DEF IInv, DisjointHands
  <2>2. \A a, b \in TaskIds : a # b => (Held(a) \cap Held(b) = {})'
    BY <1>2, <2>1 DEF IInv, DisjointHands
  <2>3. ASSUME NEW k \in Kinds, NEW s \in ShipmentsOf(Waiting(k)')
        PROVE  /\ \A u \in TaskIds : s \notin Held(u)'
               /\ delivered'[s] = 0 /\ lost'[s] = "no"
    <3>1. s \in ShipmentsOf(Waiting(k)) /\ s \in Shipment
      BY <1>w DEF ShipmentsOf
    <3>2. s \notin S
      BY <1>w, <1>5, <2>3 DEF IInv, KindsMatch, ShipmentsOf
    <3>3. \A u \in TaskIds : s \notin Held(u)
      BY <3>1 DEF IInv, DisjointHands
    <3> QED BY <1>2, <1>6, <3>1, <3>2, <3>3 DEF IInv, DisjointHands
  <2> QED BY <2>2, <2>3 DEF DisjointHands, ShipmentsOf
<1>14. LostForGood'
  <2>1. ASSUME NEW s \in Shipment, lost'[s] # "no", NEW u \in TaskIds PROVE s \notin Held(u)'
    <3>1. CASE s \in L
      <4>1. u # t => s \notin Held(u)
        BY <3>1, <1>5 DEF IInv, DisjointHands, Held
      <4> QED BY <3>1, <1>2, <4>1
    <3>2. CASE s \notin L
      <4>1. lost[s] # "no"
        BY <2>1, <3>2
      <4> QED BY <1>2, <1>5, <4>1 DEF IInv, LostForGood
    <3> QED BY <3>1, <3>2
  <2> QED BY <2>1 DEF LostForGood
<1>15. NothingVanishes'
  <2>1. ASSUME NEW s \in ShipmentsOf(accepted)
        PROVE  \/ s[1] \in Waiting(KindOf[s[1]])' \/ \E u \in TaskIds : s \in Held(u)'
               \/ delivered'[s] > 0 \/ lost'[s] # "no"
    <3>1. s \in Shipment
      BY DEF ShipmentsOf
    <3>2. CASE s \in Held(t) \cup S
      <4>1. s \in L => lost'[s] # "no"
        BY <3>1
      <4>2. s \in D \cup task[t].sent => delivered'[s] > 0
        BY <1>6, <3>1 DEF IInv, SentDelivered
      <4> QED BY <1>2, <3>2, <4>1, <4>2
    <3>3. CASE s \notin Held(t) \cup S
      <4>1. s[1] \in Waiting(KindOf[s[1]]) => s[1] \in Waiting(KindOf[s[1]])'
        BY <1>w, <3>1, <3>3, PayloadAssumption DEF ShipmentsOf, Shipment, IInv, KindsMatch
      <4> QED BY <1>2, <1>6, <3>1, <3>3, <4>1 DEF IInv, NothingVanishes
    <3> QED BY <3>2, <3>3
  <2> QED BY <2>1 DEF NothingVanishes, ShipmentsOf
<1>16. NoDuplicates'
  <2> SUFFICES ASSUME ~AnswersLost, NEW s \in Shipment, KindOf[s[1]] # "traces", delivered'[s] > 0
               PROVE  /\ delivered'[s] = 1 /\ lost'[s] = "no"
                      /\ \A u \in TaskIds : s \notin task'[u].todo \cup task'[u].failed
    BY DEF NoDuplicates
  <2>1. CASE s \in D
    <3>1. s \in task[t].todo /\ s \in Held(t) /\ KindOf[s[1]] = t.kind
      BY <2>1 DEF IInv, KindsMatch, Held
    <3>2. delivered[s] = 0 /\ lost[s] = "no"
      BY <3>1, <1>6 DEF IInv, NoDuplicates, LostForGood
    <3>3. s \notin L /\ delivered'[s] = 1 /\ lost'[s] = "no"
      BY <2>1, <3>2, <1>6
    <3>4. s \notin r.todo \cup r.failed
      BY <2>1, <3>1
    <3>5. \A u \in TaskIds : u # t => s \notin Held(u)
      BY <3>1 DEF IInv, DisjointHands
    <3> QED BY <1>1, <3>3, <3>4, <3>5 DEF Held
  <2>2. CASE s \notin D
    <3>1. delivered[s] > 0 /\ delivered'[s] = delivered[s]
      BY <1>6, <2>2
    <3>2. /\ delivered[s] = 1 /\ lost[s] = "no"
          /\ \A u \in TaskIds : s \notin task[u].todo \cup task[u].failed
      BY <3>1 DEF IInv, NoDuplicates
    <3>3. s \notin S /\ s \notin L
      BY <1>5, <3>1, <3>2
    <3>4. s \notin r.todo \cup r.failed
      <4>1. CASE s \in Held(t)
        BY <4>1, <3>2, <3>3 DEF IInv, KindsMatch
      <4>2. CASE s \notin Held(t)
        BY <4>2, <3>3
      <4> QED BY <4>1, <4>2
    <3> QED BY <1>1, <3>1, <3>2, <3>3, <3>4
  <2> QED BY <2>1, <2>2
<1> QED BY <1>w, <1>4, <1>7, <1>8, <1>9, <1>10, <1>11, <1>12, <1>13, <1>14, <1>15, <1>16 DEF IInv

-----------------------------------------------------------------------------
(* The steps of a flush call are instances of FlushCallStep *)

\* A payload nobody has seen is put where nobody has taken it from.
LEMMA ProducerInv ==
  ASSUME IInv, NEW p \in Payload, Accept(p) \/ RecordConsume(p) PROVE IInv'
<1>1. /\ task' = task /\ handles' = handles /\ round' = round /\ op' = op /\ delivered' = delivered
      /\ lost' = lost /\ returned' = returned /\ accepted' = accepted \cup {p} /\ p \notin accepted
      /\ KindOf[p] \in Kinds
  BY PayloadAssumption DEF Accept, RecordConsume
<1>2. /\ agg' \in [Kinds -> SUBSET Payload] /\ dsm' \subseteq DsmPayload
      /\ Waiting(KindOf[p])' = Waiting(KindOf[p]) \cup {p}
      /\ \A k \in Kinds : k # KindOf[p] => Waiting(k)' = Waiting(k)
  <2>1. CASE Accept(p)
    BY <1>1, <2>1 DEF IInv, TypeOK, Waiting, Accept
  <2>2. CASE RecordConsume(p)
    BY <1>1, <2>2, PayloadAssumption DEF IInv, TypeOK, Waiting, RecordConsume
  <2> QED BY <2>1, <2>2
<1>a. DsmApart'
  <2>1. CASE Accept(p)
    BY <1>1, <2>1 DEF IInv, TypeOK, DsmApart, Accept
  <2>2. CASE RecordConsume(p)
    BY <1>1, <2>2 DEF IInv, DsmApart, KindsMatch, Waiting, RecordConsume
  <2> QED BY <2>1, <2>2
<1>3. \A t \in TaskIds : Held(t)' = Held(t)
  BY <1>1 DEF Held
<1>4. TypeOK' /\ StageShape' /\ FieldsDisjoint' /\ IdleCalls' /\ SentDelivered' /\ LostForGood' /\ NoDuplicates'
  BY <1>1, <1>2, <1>3
  DEF IInv, TypeOK, StageShape, FieldsDisjoint, IdleCalls, SentDelivered, LostForGood, NoDuplicates, SpawnedOf
<1>5. KindsMatch' /\ FreshUnknown'
  BY <1>1, <1>2, <1>3 DEF IInv, KindsMatch, FreshUnknown
<1>6. DisjointHands'
  <2>1. ASSUME NEW k \in Kinds, NEW s \in ShipmentsOf(Waiting(k)')
        PROVE  (\A t \in TaskIds : s \notin Held(t)) /\ delivered[s] = 0 /\ lost[s] = "no"
    <3>1. CASE s[1] = p
      BY <1>1, <3>1 DEF IInv, FreshUnknown, ShipmentsOf
    <3>2. CASE s[1] # p
      BY <1>2, <3>2 DEF IInv, DisjointHands, ShipmentsOf
    <3> QED BY <3>1, <3>2
  <2> QED BY <1>1, <1>3, <2>1 DEF IInv, DisjointHands, ShipmentsOf
<1>7. NothingVanishes'
  <2>1. ASSUME NEW s \in Shipment, s[1] \in accepted'
        PROVE  \/ s[1] \in Waiting(KindOf[s[1]])' \/ \E t \in TaskIds : s \in Held(t)
               \/ delivered[s] > 0 \/ lost[s] # "no"
    <3>1. CASE s[1] = p
      BY <1>2, <3>1
    <3>2. CASE s[1] # p
      <4>1. KindOf[s[1]] \in Kinds /\ s[1] \in accepted
        BY <1>1, <2>1, <3>2, PayloadAssumption DEF IInv, TypeOK
      <4>2. s[1] \in Waiting(KindOf[s[1]]) => s[1] \in Waiting(KindOf[s[1]])'
        BY <1>2, <4>1
      <4> QED BY <4>1, <4>2 DEF IInv, NothingVanishes, ShipmentsOf
    <3> QED BY <3>1, <3>2
  <2> QED BY <1>1, <1>3, <2>1 DEF NothingVanishes, ShipmentsOf
<1> QED BY <1>a, <1>4, <1>5, <1>6, <1>7 DEF IInv

\* Facts about the state of a call every flusher step starts from.
LEMMA CallFacts ==
  ASSUME IInv, NEW t \in TaskIds
  PROVE  /\ task[t] \in TaskRecord /\ task \in [TaskIds -> TaskRecord]
         /\ task[t].stage \in Stages
         /\ task[t].todo \subseteq Shipment /\ task[t].sent \subseteq Shipment
         /\ task[t].failed \subseteq Shipment
         /\ task[t].todo \cap task[t].sent = {} /\ task[t].todo \cap task[t].failed = {}
         /\ task[t].sent \cap task[t].failed = {}
         /\ task[t].stage \in {"idle", "fetch"} => Held(t) = {}
         /\ task[t].stage \in {"more", "done"} => task[t].todo = {} /\ task[t].sent = {}
         /\ t.kind \in Kinds /\ agg \in [Kinds -> SUBSET Payload]
         /\ agg = [agg EXCEPT ![t.kind] = @ \ {}]
         /\ delivered = [s \in Shipment |-> delivered[s] + IF s \in {} THEN 1 ELSE 0]
         /\ lost = [s \in Shipment |-> IF s \in {} THEN "key" ELSE lost[s]]
         /\ ShipmentsOf({}) = {} /\ {"key", "rejected", "redrive"} \subseteq Losses \ {"no"}
BY DEF IInv, TypeOK, TaskRecord, StageShape, FieldsDisjoint, TaskIds, ShipmentsOf, Losses

\* A flusher that finds no API key and clears its aggregator (TraceFlusher::flush,
\* proxy Flusher::flush) preserves the invariant.
LEMMA BeginWithoutKeyInv == ASSUME IInv, NEW t \in TaskIds, BeginWithoutKey(t) PROVE IInv'
<1> DEFINE r == [NoTask EXCEPT !.stage = "done"]
           L == task[t].todo \cup ShipmentsOf(agg[t.kind])
<1>1. r \in TaskRecord /\ r.todo = {} /\ r.sent = {} /\ r.failed = {} /\ r.stage = "done"
  BY DEF NoTask, TaskRecord, Stages
<1>2. task[t].sent = {} /\ task[t].failed = {} /\ task[t].stage # "idle"
  BY CallFacts DEF BeginWithoutKey, Held
<1>3. CallEffect(t, r, agg[t.kind], {}, L, "key")
  BY CallFacts DEF BeginWithoutKey, Lose, CallEffect
<1>4. CallAccounts(t, r, agg[t.kind], {}, L, "key")
  BY <1>1, <1>2, CallFacts DEF CallAccounts, Held
<1> HIDE DEF r, L
<1> QED BY <1>3, <1>4, FlushCallStep

\* Taking the batches out of the aggregator (get_batches) preserves the invariant.
LEMMA FetchInv == ASSUME IInv, NEW t \in TaskIds, Fetch(t) PROVE IInv'
<1>1. PICK P \in Fetched(t), keyless \in SUBSET Endpoints[t.kind] :
        /\ agg' = [agg EXCEPT ![t.kind] = @ \ P]
        /\ LET S == ShipmentsOf(P)
               K == {s \in S : s[2] \in keyless}
           IN  /\ task' = [task EXCEPT ![t].stage = "send", ![t].todo = S \ K, ![t].sent = {}]
               /\ Lose(K, "key")
  BY DEF Fetch
<1> DEFINE S == ShipmentsOf(P)
           K == {s \in S : s[2] \in keyless}
           r == [task[t] EXCEPT !.stage = "send", !.todo = S \ K, !.sent = {}]
<1>2. P \subseteq agg[t.kind] /\ S \subseteq Shipment /\ K \subseteq S
  BY CallFacts DEF Fetched, ShipmentsOf
<1>3. task[t].stage # "idle" /\ task[t].todo = {} /\ task[t].sent = {} /\ Held(t) = task[t].failed
  BY CallFacts DEF Fetch, Held
<1>4. r \in TaskRecord /\ task' = [task EXCEPT ![t] = r]
  <2>1. r \in TaskRecord
    BY <1>2, CallFacts DEF TaskRecord, Stages
  <2>2. task' = [task EXCEPT ![t] = r]
    BY <1>1, CallFacts
  <2> QED BY <2>1, <2>2
<1>5. CallEffect(t, r, P, {}, K, "key")
  BY <1>1, <1>4, CallFacts DEF Fetch, Lose, CallEffect
<1>6. S \cap task[t].failed = {}
  <2>1. P \subseteq Waiting(t.kind)
    BY <1>2 DEF Waiting
  <2>2. S \subseteq ShipmentsOf(Waiting(t.kind))
    BY <2>1 DEF ShipmentsOf
  <2> QED BY <1>3, <2>2, CallFacts DEF IInv, DisjointHands
<1>7. CallAccounts(t, r, P, {}, K, "key")
  <2>1. r.stage = "send" /\ r.todo = S \ K /\ r.sent = {} /\ r.failed = task[t].failed
    BY CallFacts DEF TaskRecord
  <2> HIDE DEF r, K, S
  <2> QED BY <1>2, <1>3, <1>4, <1>6, <2>1, CallFacts DEF CallAccounts, S
<1> HIDE DEF r, K
<1> QED BY <1>5, <1>7, FlushCallStep

\* A request contains shipments the call still has to send.
LEMMA RequestsFacts ==
  ASSUME IInv, NEW t \in TaskIds, NEW G \in Requests(t)
  PROVE  G \subseteq task[t].todo
BY DEF Requests

\* A request the intake accepts preserves the invariant.
LEMMA DeliverInv == ASSUME IInv, NEW t \in TaskIds, Deliver(t) PROVE IInv'
<1>1. PICK G \in Requests(t) :
        /\ task' = [task EXCEPT ![t].todo = @ \ G, ![t].sent = @ \cup G]
        /\ delivered' = [s \in Shipment |-> delivered[s] + IF s \in G THEN 1 ELSE 0]
  BY DEF Deliver
<1> DEFINE r == [task[t] EXCEPT !.todo = @ \ G, !.sent = @ \cup G]
<1>2. G \subseteq task[t].todo
  BY RequestsFacts
<1>3. /\ r \in TaskRecord /\ task' = [task EXCEPT ![t] = r]
      /\ r.stage = task[t].stage /\ r.todo = task[t].todo \ G
      /\ r.sent = task[t].sent \cup G /\ r.failed = task[t].failed
  <2>1. task' = [task EXCEPT ![t] = r]
    BY <1>1, CallFacts
  <2>2. /\ r.stage = task[t].stage /\ r.todo = task[t].todo \ G
        /\ r.sent = task[t].sent \cup G /\ r.failed = task[t].failed
    BY CallFacts DEF TaskRecord
  <2>3. r \in TaskRecord
    BY <1>2, CallFacts DEF TaskRecord
  <2> QED BY <2>1, <2>2, <2>3
<1>4. CallEffect(t, r, {}, G, {}, "key")
  BY <1>1, <1>3, CallFacts DEF Deliver, CallEffect
<1>5. task[t].stage \in {"retry", "send"}
  BY DEF Deliver, Sending
<1> HIDE DEF r
<1>6. CallAccounts(t, r, {}, G, {}, "key")
  BY <1>2, <1>3, <1>5, CallFacts DEF CallAccounts, Held
<1> QED BY <1>4, <1>6, FlushCallStep

\* A request the flusher drops for good (403, permanent status) preserves the
\* invariant.
LEMMA RejectInv == ASSUME IInv, NEW t \in TaskIds, Reject(t) PROVE IInv'
<1>1. PICK G \in Requests(t) : /\ task' = [task EXCEPT ![t].todo = @ \ G]
                               /\ Lose(G, "rejected")
  BY DEF Reject
<1> DEFINE r == [task[t] EXCEPT !.todo = @ \ G]
<1>2. G \subseteq task[t].todo
  BY RequestsFacts
<1>3. /\ r \in TaskRecord /\ task' = [task EXCEPT ![t] = r]
      /\ r.stage = task[t].stage /\ r.todo = task[t].todo \ G
      /\ r.sent = task[t].sent /\ r.failed = task[t].failed
  BY <1>1, <1>2, CallFacts DEF TaskRecord
<1>4. CallEffect(t, r, {}, {}, G, "rejected")
  BY <1>1, <1>3, CallFacts DEF Reject, Lose, CallEffect
<1>5. task[t].stage \in {"retry", "send"}
  BY DEF Reject, Sending
<1> HIDE DEF r
<1>6. CallAccounts(t, r, {}, {}, G, "rejected")
  BY <1>2, <1>3, <1>5, CallFacts DEF CallAccounts, Held
<1> QED BY <1>4, <1>6, FlushCallStep

\* A request that failed all its attempts and is handed back preserves the
\* invariant.
LEMMA ExhaustInv == ASSUME IInv, NEW t \in TaskIds, Exhaust(t) PROVE IInv'
<1>1. PICK G \in Requests(t), reached \in BOOLEAN :
        /\ reached => AnswersLost
        /\ delivered' = [s \in Shipment |-> delivered[s] + IF reached /\ s \in G THEN 1 ELSE 0]
        /\ \E B \in HandedBack(t, G) :
             task' = [task EXCEPT ![t].todo = @ \ B, ![t].sent = @ \ B, ![t].failed = @ \cup B]
  BY DEF Exhaust
<1>2. PICK B \in HandedBack(t, G) :
        task' = [task EXCEPT ![t].todo = @ \ B, ![t].sent = @ \ B, ![t].failed = @ \cup B]
  BY <1>1
<1> DEFINE r == [task[t] EXCEPT !.todo = @ \ B, !.sent = @ \ B, !.failed = @ \cup B]
           D == {s \in G : reached}
<1>3. G \subseteq task[t].todo /\ D \subseteq G /\ (~AnswersLost => D = {})
  BY <1>1, RequestsFacts
<1>4. /\ G \subseteq B /\ B \subseteq task[t].todo \cup task[t].sent
      /\ t.kind # "traces" => B = G
  BY <1>2, <1>3 DEF HandedBack
<1>5. /\ r \in TaskRecord /\ task' = [task EXCEPT ![t] = r]
      /\ r.stage = task[t].stage /\ r.todo = task[t].todo \ B
      /\ r.sent = task[t].sent \ B /\ r.failed = task[t].failed \cup B
  BY <1>2, <1>4, CallFacts DEF TaskRecord
<1>6. CallEffect(t, r, {}, D, {}, "key")
  <2>1. delivered' = [s \in Shipment |-> delivered[s] + IF s \in D THEN 1 ELSE 0]
    BY <1>1
  <2> QED BY <1>5, <2>1, CallFacts DEF Exhaust, CallEffect
<1>7. task[t].stage \in {"retry", "send"}
  BY DEF Exhaust, Sending
<1> HIDE DEF r, D
<1>8. CallAccounts(t, r, {}, D, {}, "key")
  BY <1>3, <1>4, <1>5, <1>7, CallFacts DEF CallAccounts, Held
<1> QED BY <1>6, <1>8, FlushCallStep

\* The return of a flush call, or its move from the retry to the aggregator,
\* preserves the invariant.
LEMMA FinishInv == ASSUME IInv, NEW t \in TaskIds, Finish(t) PROVE IInv'
<1> DEFINE next == IF task[t].stage = "retry" THEN AfterRetry(t) ELSE "done"
           discard == next = "done" /\ t.caller = "redrive"
           L == IF discard THEN task[t].failed ELSE {}
           r == [task[t] EXCEPT !.stage = next, !.sent = {}, !.failed = task[t].failed \ L]
<1>1. task[t].stage \in {"retry", "send"} /\ task[t].todo = {} /\ next \in {"more", "done"}
  BY DEF Finish, AfterRetry
<1>2. L \subseteq task[t].failed /\ task[t].failed \ L = IF discard THEN {} ELSE task[t].failed
  OBVIOUS
<1>3. /\ task' = [task EXCEPT ![t].stage = next, ![t].sent = {},
                              ![t].failed = IF discard THEN {} ELSE @]
      /\ Lose(L, "redrive")
  BY DEF Finish
<1> HIDE DEF next, discard, L
<1>4. r \in TaskRecord /\ task' = [task EXCEPT ![t] = r]
  <2>1. r \in TaskRecord
    <3>1. task[t] \in TaskRecord
      BY CallFacts
    <3>2. next \in Stages /\ task[t].failed \ L \in SUBSET Shipment
      BY <1>1, <3>1 DEF TaskRecord, Stages
    <3> QED BY <3>1, <3>2 DEF TaskRecord
  <2>2. task' = [task EXCEPT ![t] = r]
    BY <1>2, <1>3, CallFacts
  <2> QED BY <2>1, <2>2
<1>5. CallEffect(t, r, {}, {}, L, "redrive")
  BY <1>3, <1>4, CallFacts DEF Finish, Lose, CallEffect
<1>6. CallAccounts(t, r, {}, {}, L, "redrive")
  <2>1. r.stage = next /\ r.todo = {} /\ r.sent = {} /\ r.failed = task[t].failed \ L
    BY <1>1, CallFacts DEF TaskRecord
  <2> HIDE DEF r
  <2> QED BY <1>1, <1>2, <1>4, <2>1, CallFacts DEF CallAccounts, Held
<1> HIDE DEF r
<1> QED BY <1>5, <1>6, FlushCallStep

-----------------------------------------------------------------------------
(* The calls of the service *)

\* The conjuncts of IInv about shipments, as opposed to the owner's bookkeeping.
Hands ==
  /\ StageShape /\ FieldsDisjoint /\ KindsMatch /\ FreshUnknown /\ SentDelivered
  /\ DisjointHands /\ LostForGood /\ NothingVanishes /\ NoDuplicates /\ DsmApart

\* A call starts with what it is given and nothing else.
LEMMA CallShape ==
  ASSUME NEW kind \in Kinds, NEW R \in SUBSET Shipment
  PROVE  /\ Call(kind, R) \in TaskRecord
         /\ Call(kind, R).todo = R /\ Call(kind, R).sent = {} /\ Call(kind, R).failed = {}
         /\ Call(kind, R).stage \in {"fetch", "retry"}
         /\ R # {} => Call(kind, R).stage = "retry"
BY DEF Call, NoTask, TaskRecord, Stages

\* Starting idle calls, of which exactly one takes over the metrics, keeps
\* every shipment accounted for.
LEMMA StartCallsHands ==
  ASSUME IInv, NEW ids \in SUBSET TaskIds, StartCalls(ids),
         \A t \in ids : task[t].stage = "idle",
         \A t, u \in ids : t.kind = u.kind => t = u,
         \A k \in Kinds : \E t \in ids : t.kind = k,
         accepted' = accepted, delivered' = delivered, lost' = lost
  PROVE  /\ Hands'
         /\ agg' \in [Kinds -> SUBSET Payload] /\ task' \in [TaskIds -> TaskRecord]
         /\ dsm' \subseteq DsmPayload
         /\ \A t \in TaskIds : t \notin ids => task'[t] = task[t]
<1> DEFINE Given(t) == IF t.kind = "metrics" THEN ShipmentsOf(agg[t.kind]) ELSE {}
<1>1. /\ \A t \in TaskIds : Given(t) \in SUBSET Shipment /\ t.kind \in Kinds
      /\ task \in [TaskIds -> TaskRecord] /\ agg \in [Kinds -> SUBSET Payload]
  BY DEF ShipmentsOf, TaskIds, IInv, TypeOK, TaskRecord
<1>2. /\ \A t \in TaskIds : t \in ids => task'[t] = Call(t.kind, Given(t))
      /\ \A t \in TaskIds : t \notin ids => task'[t] = task[t]
      /\ DOMAIN task' = TaskIds
      /\ task' = [t \in TaskIds |-> task'[t]]
  BY DEF StartCalls
<1> HIDE DEF Given
<1>3. \A t \in ids : /\ task'[t] \in TaskRecord
                     /\ task'[t].todo = Given(t) /\ task'[t].sent = {} /\ task'[t].failed = {}
                     /\ task'[t].stage \in {"fetch", "retry"}
                     /\ Given(t) # {} => task'[t].stage = "retry"
  BY <1>1, <1>2, CallShape
<1>4. task' \in [TaskIds -> TaskRecord]
  BY <1>1, <1>2, <1>3
<1>5. /\ \A t \in ids : Held(t)' = Given(t) /\ Held(t) = {}
      /\ \A t \in TaskIds : t \notin ids => Held(t)' = Held(t)
  BY <1>2, <1>3 DEF Held, IInv, StageShape
<1>6. /\ agg' \in [Kinds -> SUBSET Payload] /\ dsm' = {} /\ DsmApart'
      /\ \A k \in Kinds : k = "metrics" => Waiting(k)' = {}
      /\ \A k \in Kinds : k # "metrics" => Waiting(k)' = Waiting(k)
  <2>1. agg' \in [Kinds -> SUBSET Payload] /\ dsm' = {}
    BY <1>1, PayloadAssumption DEF StartCalls, IInv, TypeOK
  <2> QED BY <1>1, <2>1 DEF StartCalls, Waiting, DsmApart
<1>7. \A t \in TaskIds : \A s \in Given(t) :
        /\ t.kind = "metrics" /\ s \in ShipmentsOf(Waiting(t.kind)) /\ s \in Shipment
        /\ s[1] \in Waiting(t.kind) /\ KindOf[s[1]] = t.kind /\ s[1] \in accepted
        /\ delivered[s] = 0 /\ lost[s] = "no" /\ \A u \in TaskIds : s \notin Held(u)
  BY <1>1 DEF Given, ShipmentsOf, IInv, DisjointHands, KindsMatch, Waiting
<1>8. StageShape' /\ FieldsDisjoint'
  BY <1>2, <1>3, <1>5 DEF IInv, StageShape, FieldsDisjoint
<1>9. KindsMatch'
  BY <1>5, <1>6, <1>7 DEF IInv, KindsMatch
<1>10. FreshUnknown' /\ LostForGood'
  BY <1>5, <1>7 DEF IInv, FreshUnknown, LostForGood
<1>11. SentDelivered'
  BY <1>2, <1>3 DEF IInv, SentDelivered
<1>12. DisjointHands'
  <2>1. ASSUME NEW a \in TaskIds, NEW b \in TaskIds, a # b PROVE (Held(a) \cap Held(b) = {})'
    <3>1. CASE a \in ids /\ b \in ids
      BY <3>1, <2>1, <1>5, <1>7
    <3>2. CASE ~(a \in ids /\ b \in ids)
      BY <3>2, <2>1, <1>5, <1>7 DEF IInv, DisjointHands
    <3> QED BY <3>1, <3>2
  <2>2. ASSUME NEW k \in Kinds, NEW s \in ShipmentsOf(Waiting(k)')
        PROVE  (\A t \in TaskIds : s \notin Held(t)') /\ delivered[s] = 0 /\ lost[s] = "no"
    <3>1. k # "metrics" /\ s \in ShipmentsOf(Waiting(k)) /\ KindOf[s[1]] = k
      BY <1>6 DEF ShipmentsOf, IInv, KindsMatch
    <3> QED BY <3>1, <1>5, <1>7 DEF IInv, DisjointHands
  <2> QED BY <2>1, <2>2 DEF DisjointHands, ShipmentsOf
<1>13. NothingVanishes'
  <2>1. ASSUME NEW s \in Shipment, s[1] \in accepted
        PROVE  \/ s[1] \in Waiting(KindOf[s[1]])' \/ \E t \in TaskIds : s \in Held(t)'
               \/ delivered[s] > 0 \/ lost[s] # "no"
    <3>1. KindOf[s[1]] \in Kinds
      BY <2>1, PayloadAssumption DEF IInv, TypeOK
    <3>2. CASE s[1] \in Waiting(KindOf[s[1]]) /\ KindOf[s[1]] = "metrics"
      <4>1. PICK t \in ids : t.kind = KindOf[s[1]]
        BY <3>1
      <4>2. s \in Given(t)
        BY <3>2, <4>1 DEF Given, ShipmentsOf, Waiting
      <4> QED BY <1>5, <4>2
    <3>3. CASE s[1] \in Waiting(KindOf[s[1]]) /\ KindOf[s[1]] # "metrics"
      BY <3>1, <3>3, <1>6
    <3>4. CASE s[1] \notin Waiting(KindOf[s[1]])
      BY <2>1, <3>4, <1>5 DEF IInv, NothingVanishes, ShipmentsOf
    <3> QED BY <3>2, <3>3, <3>4
  <2> QED BY <2>1 DEF NothingVanishes, ShipmentsOf
<1>14. NoDuplicates'
  <2>1. \A s \in Shipment : delivered[s] > 0 => \A t \in ids : s \notin task'[t].todo \cup task'[t].failed
    BY <1>3, <1>7
  <2> QED BY <1>2, <2>1 DEF IInv, NoDuplicates
<1> QED BY <1>2, <1>4, <1>6, <1>8, <1>9, <1>10, <1>11, <1>12, <1>13, <1>14 DEF Hands

\* spawn_non_blocking preserves the invariant.
LEMMA SpawnNonBlockingInv == ASSUME IInv, SpawnNonBlocking PROVE IInv'
<1> DEFINE ids == {t \in TaskIds : t.caller = "spawned" /\ t.round = round + 1}
<1>1. /\ op = "none" /\ round < MaxRounds /\ StartCalls(ids)
      /\ handles' = handles \cup ids /\ round' = round + 1
      /\ accepted' = accepted /\ op' = op /\ returned' = returned
      /\ delivered' = delivered /\ lost' = lost /\ round \in 0 .. MaxRounds
  BY DEF SpawnNonBlocking, IInv, TypeOK
<1>2. \A t \in ids : task[t].stage = "idle" /\ t \notin handles
  BY <1>1 DEF IInv, IdleCalls
<1>3. \A t, u \in ids : t.kind = u.kind => t = u
  BY DEF TaskIds
<1>4. ASSUME NEW k \in Kinds PROVE \E t \in ids : t.kind = k
  <2>1. [caller |-> "spawned", kind |-> k, round |-> round + 1] \in ids
    BY <1>1, RoundAssumption DEF TaskIds, Rounds
  <2> QED BY <2>1
<1>5. /\ Hands' /\ agg' \in [Kinds -> SUBSET Payload] /\ task' \in [TaskIds -> TaskRecord]
      /\ dsm' \subseteq DsmPayload
      /\ \A t \in TaskIds : t \notin ids => task'[t] = task[t]
  <2> HIDE DEF ids
  <2>1. ids \in SUBSET TaskIds
    BY DEF ids
  <2> QED BY <1>1, <1>2, <1>3, <1>4, <2>1, StartCallsHands
<1>6. TypeOK'
  BY <1>1, <1>5, RoundAssumption DEF IInv, TypeOK, TaskRecord
<1>7. IdleCalls'
  <2>1. \A g \in handles' : g.caller = "spawned" /\ g.round <= round'
    BY <1>1 DEF IInv, IdleCalls, TypeOK, TaskIds, Rounds
  <2>2. ASSUME NEW t \in TaskIds, t.caller = "spawned", t \notin handles'
        PROVE  task'[t].stage = "idle"
    BY <1>1, <1>5, <2>2 DEF IInv, IdleCalls
  <2>3. ASSUME NEW t \in TaskIds, t.caller = "redrive",
               t.round > round + 1 \/ SpawnedOf(t) \in handles'
        PROVE  task'[t].stage = "idle"
    <3>1. t.round \in Rounds /\ SpawnedOf(t).round = t.round
      BY <2>3 DEF TaskIds, SpawnedOf
    <3>2. t.round > round \/ SpawnedOf(t) \in handles
      BY <1>1, <2>3, <3>1 DEF Rounds
    <3> QED BY <1>5, <2>3, <3>2 DEF IInv, IdleCalls
  <2>4. ASSUME NEW t \in TaskIds, t.caller = "blocking" PROVE task'[t].stage = "idle"
    BY <1>1, <1>5, <2>4 DEF IInv, IdleCalls
  <2> QED BY <1>1, <2>1, <2>2, <2>3, <2>4 DEF IdleCalls, SpawnedOf
<1> QED BY <1>5, <1>6, <1>7 DEF IInv, Hands

\* The start of flush_blocking and flush_blocking_final preserves the invariant.
LEMMA FlushBlockingInv ==
  ASSUME IInv, NEW f \in {"blocking", "final"}, FlushBlocking(f) PROVE IInv'
<1> DEFINE ids == {t \in TaskIds : t.caller = "blocking"}
<1>1. /\ op = "none" /\ StartCalls(ids) /\ op' = f
      /\ handles' = handles /\ round' = round
      /\ accepted' = accepted /\ returned' = returned
      /\ delivered' = delivered /\ lost' = lost
  BY DEF FlushBlocking
<1>2. \A t \in ids : task[t].stage = "idle"
  BY <1>1 DEF IInv, IdleCalls
<1>3. \A t, u \in ids : t.kind = u.kind => t = u
  BY DEF TaskIds
<1>4. ASSUME NEW k \in Kinds PROVE \E t \in ids : t.kind = k
  <2>1. [caller |-> "blocking", kind |-> k, round |-> 0] \in ids
    BY DEF TaskIds
  <2> QED BY <2>1
<1>5. /\ Hands' /\ agg' \in [Kinds -> SUBSET Payload] /\ task' \in [TaskIds -> TaskRecord]
      /\ dsm' \subseteq DsmPayload
      /\ \A t \in TaskIds : t \notin ids => task'[t] = task[t]
  <2> HIDE DEF ids
  <2>1. ids \in SUBSET TaskIds
    BY DEF ids
  <2> QED BY <1>1, <1>2, <1>3, <1>4, <2>1, StartCallsHands
<1>6. TypeOK'
  BY <1>1, <1>5 DEF IInv, TypeOK, TaskRecord, Ops
<1>7. IdleCalls'
  BY <1>1, <1>5 DEF IInv, IdleCalls, SpawnedOf
<1> QED BY <1>5, <1>6, <1>7 DEF IInv, Hands

\* The return of a blocking flush, which drops what it could not deliver,
\* preserves the invariant.
LEMMA FlushBlockingReturnsInv == ASSUME IInv, FlushBlockingReturns PROVE IInv'
<1> DEFINE ids == {t \in TaskIds : t.caller = "blocking"}
           U == UNION {task[t].failed : t \in ids}
<1>1. /\ \A t \in ids : task[t].stage = "done"
      /\ lost' = [s \in Shipment |-> IF s \in U THEN "blocking" ELSE lost[s]]
      /\ task' = [t \in TaskIds |-> IF t \in ids THEN NoTask ELSE task[t]]
      /\ returned' = {t.kind : t \in {i \in ids : task[i].failed # {}}}
      /\ op' = "none" /\ agg' = agg /\ accepted' = accepted /\ handles' = handles
      /\ round' = round /\ delivered' = delivered /\ dsm' = dsm
  BY DEF FlushBlockingReturns, Lose
<1>2. /\ \A t \in ids : task'[t] = NoTask /\ Held(t)' = {} /\ Held(t) = task[t].failed
      /\ \A t \in TaskIds : t \notin ids => task'[t] = task[t] /\ Held(t)' = Held(t)
  BY <1>1 DEF NoTask, Held, IInv, StageShape
<1>3. /\ \A t \in ids : t.kind \in Kinds /\ task[t].failed \subseteq U
      /\ \A s \in U : \E t \in ids : s \in task[t].failed /\ s \in Held(t)
      /\ U \subseteq Shipment
  BY <1>2 DEF TaskIds, IInv, TypeOK
<1>4. TypeOK'
  <2>1. NoTask \in TaskRecord
    BY DEF NoTask, TaskRecord, Stages
  <2>2. task' \in [TaskIds -> TaskRecord]
    BY <1>1, <2>1 DEF IInv, TypeOK, TaskRecord
  <2>3. returned' \subseteq Kinds
    BY <1>1, <1>3
  <2> HIDE DEF U
  <2>4. lost' \in [Shipment -> Losses]
    BY <1>1 DEF IInv, TypeOK, Losses
  <2> QED BY <1>1, <2>2, <2>3, <2>4 DEF IInv, TypeOK, TaskRecord, Ops
<1> HIDE DEF U
<1>a. DsmApart' /\ \A k \in Kinds : Waiting(k)' = Waiting(k)
  BY <1>1 DEF IInv, DsmApart, Waiting
<1>5. StageShape' /\ FieldsDisjoint' /\ KindsMatch' /\ SentDelivered'
  BY <1>1, <1>2, <1>a DEF NoTask, IInv, StageShape, FieldsDisjoint, KindsMatch, SentDelivered
<1>6. IdleCalls'
  BY <1>1, <1>2 DEF NoTask, IInv, IdleCalls, SpawnedOf
<1>7. FreshUnknown'
  BY <1>1, <1>2, <1>3 DEF IInv, FreshUnknown
<1>8. DisjointHands'
  <2>1. \A k \in Kinds : \A s \in ShipmentsOf(Waiting(k)) : s \notin U
    BY <1>3 DEF IInv, DisjointHands
  <2> QED BY <1>1, <1>2, <1>a, <2>1 DEF IInv, DisjointHands, ShipmentsOf
<1>9. LostForGood'
  BY <1>1, <1>2, <1>3 DEF IInv, LostForGood, DisjointHands
<1>10. NothingVanishes'
  <2>1. ASSUME NEW s \in Shipment, s[1] \in accepted
        PROVE  \/ s[1] \in Waiting(KindOf[s[1]]) \/ \E t \in TaskIds : s \in Held(t)'
               \/ delivered[s] > 0 \/ lost'[s] # "no"
    <3>1. \A t \in ids : s \in Held(t) => s \in U
      BY <1>2, <1>3
    <3> QED BY <1>1, <1>2, <2>1, <3>1 DEF IInv, NothingVanishes, ShipmentsOf
  <2> QED BY <1>1, <2>1 DEF NothingVanishes, ShipmentsOf, Waiting
<1>11. NoDuplicates'
  <2>1. \A s \in U : \E t \in TaskIds : s \in task[t].failed
    BY <1>3
  <2> QED BY <1>1, <1>2, <2>1 DEF NoTask, IInv, NoDuplicates
<1> QED BY <1>a, <1>4, <1>5, <1>6, <1>7, <1>8, <1>9, <1>10, <1>11 DEF IInv

\* Entering and leaving await_handles preserves the invariant.
LEMMA AwaitInv == ASSUME IInv, AwaitHandles \/ AwaitHandlesReturns PROVE IInv'
<1>1. /\ task' = task /\ agg' = agg /\ accepted' = accepted /\ handles' = handles
      /\ round' = round /\ delivered' = delivered /\ lost' = lost
      /\ op' \in {"none", "await"} /\ returned' \subseteq Kinds
      /\ op \in {"none", "await"} /\ dsm' = dsm
  BY DEF AwaitHandles, AwaitHandlesReturns, IInv, TypeOK
<1>2. \A t \in TaskIds : Held(t)' = Held(t)
  BY <1>1 DEF Held
<1>3. TypeOK' /\ IdleCalls'
  BY <1>1 DEF IInv, TypeOK, Ops, IdleCalls, SpawnedOf
<1>4. StageShape' /\ FieldsDisjoint' /\ KindsMatch' /\ FreshUnknown' /\ SentDelivered' /\ DsmApart'
  BY <1>1, <1>2 DEF IInv, StageShape, FieldsDisjoint, KindsMatch, FreshUnknown, SentDelivered,
                    DsmApart, Waiting
<1>5. DisjointHands' /\ LostForGood' /\ NothingVanishes' /\ NoDuplicates'
  BY <1>1, <1>2 DEF IInv, DisjointHands, LostForGood, NothingVanishes, NoDuplicates, ShipmentsOf,
                    Waiting
<1> QED BY <1>3, <1>4, <1>5 DEF IInv

\* What a joined handle gave back moves to the redrive of the same kind and
\* round, which has not been made before.
LEMMA JoinHandleInv == ASSUME IInv, NEW h \in handles, JoinHandle(h) PROVE IInv'
<1> DEFINE r == [h EXCEPT !.caller = "redrive"]
           retry == task[h].failed
           again == retry # {} \/ h.kind = "proxy"
<1>1. /\ op = "await" /\ task[h].stage = "done" /\ handles' = handles \ {h}
      /\ task' = [task EXCEPT ![h] = NoTask, ![r] = IF again THEN Call(h.kind, retry) ELSE @]
      /\ agg' = agg /\ accepted' = accepted /\ round' = round /\ op' = op
      /\ returned' = returned /\ delivered' = delivered /\ lost' = lost /\ dsm' = dsm
  BY DEF JoinHandle
<1>2. /\ h \in TaskIds /\ h.caller = "spawned" /\ r \in TaskIds /\ r # h /\ r.caller = "redrive"
      /\ r.kind = h.kind /\ h.kind \in Kinds /\ SpawnedOf(r) = h /\ r.round = h.round
      /\ \A u \in TaskIds : u.caller = "redrive" /\ SpawnedOf(u) = h => u = r
  BY DEF IInv, TypeOK, IdleCalls, TaskIds, SpawnedOf
<1>3. task[r].stage = "idle" /\ Held(r) = {}
  BY <1>2 DEF IInv, IdleCalls, StageShape
<1>4. /\ retry \in SUBSET Shipment /\ task[h].todo = {} /\ task[h].sent = {} /\ Held(h) = retry
  BY <1>1, <1>2 DEF IInv, TypeOK, StageShape, Held
<1> HIDE DEF r
<1>5. /\ task \in [TaskIds -> TaskRecord]
      /\ task'[h] = NoTask /\ task'[r] = IF again THEN Call(h.kind, retry) ELSE task[r]
      /\ \A u \in TaskIds : u # h /\ u # r => task'[u] = task[u]
      /\ NoTask \in TaskRecord
      /\ NoTask.todo = {} /\ NoTask.sent = {} /\ NoTask.failed = {} /\ NoTask.stage = "idle"
  BY <1>1, <1>2 DEF IInv, TypeOK, TaskRecord, NoTask, Stages
<1>6. /\ task'[r] \in TaskRecord /\ task'[r].todo = retry
      /\ task'[r].sent = {} /\ task'[r].failed = {}
      /\ task'[r].stage \in {"idle", "fetch", "retry"}
      /\ task'[r].stage \in {"idle", "fetch"} => retry = {}
  <2>1. CASE again
    <3>1. task'[r] = Call(h.kind, retry)
      BY <1>5, <2>1
    <3> HIDE DEF retry
    <3> QED BY <1>2, <1>4, <3>1, CallShape
  <2>2. CASE ~again
    <3>1. task'[r] = task[r] /\ retry = {} /\ task[r] \in TaskRecord
      BY <1>2, <1>5, <2>2
    <3> QED BY <1>3, <3>1 DEF Held, TaskRecord
  <2> QED BY <2>1, <2>2
<1>7. task' \in [TaskIds -> TaskRecord]
  BY <1>1, <1>2, <1>5, <1>6
<1>8. /\ Held(h)' = {} /\ Held(r)' = retry
      /\ \A u \in TaskIds : u # h /\ u # r => Held(u)' = Held(u)
  BY <1>5, <1>6 DEF Held
<1> HIDE DEF retry, again
<1>9. TypeOK'
  BY <1>1, <1>7 DEF IInv, TypeOK, TaskRecord
<1>10. StageShape' /\ FieldsDisjoint' /\ SentDelivered'
  BY <1>1, <1>5, <1>6, <1>8 DEF IInv, StageShape, FieldsDisjoint, SentDelivered
<1>11. KindsMatch' /\ DsmApart'
  BY <1>1, <1>2, <1>4, <1>8 DEF IInv, KindsMatch, DsmApart, Waiting
<1>12. IdleCalls'
  <2>1. \A g \in handles' : g.caller = "spawned" /\ g.round <= round'
    BY <1>1 DEF IInv, IdleCalls
  <2>2. ASSUME NEW u \in TaskIds, u.caller = "spawned", u \notin handles'
        PROVE  task'[u].stage = "idle"
    BY <1>1, <1>2, <1>5, <2>2 DEF IInv, IdleCalls
  <2>3. ASSUME NEW u \in TaskIds, u.caller = "redrive", u.round > round \/ SpawnedOf(u) \in handles'
        PROVE  task'[u].stage = "idle"
    <3>1. u # r
      BY <1>1, <1>2, <2>3 DEF IInv, IdleCalls, TypeOK, TaskIds, Rounds
    <3>2. u # h
      BY <1>2, <2>3
    <3> QED BY <1>1, <1>5, <2>3, <3>1, <3>2 DEF IInv, IdleCalls
  <2>4. ASSUME NEW u \in TaskIds, u.caller = "blocking" PROVE u # r /\ u # h
    BY <1>2, <2>4
  <2> QED BY <1>1, <1>5, <2>1, <2>2, <2>3, <2>4 DEF IInv, IdleCalls, SpawnedOf
<1>13. FreshUnknown' /\ LostForGood'
  BY <1>1, <1>2, <1>4, <1>8 DEF IInv, FreshUnknown, LostForGood
<1>14. DisjointHands'
  BY <1>1, <1>2, <1>4, <1>8 DEF IInv, DisjointHands, ShipmentsOf, Waiting
<1>15. NothingVanishes'
  BY <1>1, <1>2, <1>3, <1>4, <1>8 DEF IInv, NothingVanishes, ShipmentsOf, Waiting
<1>16. NoDuplicates'
  <2>1. \A s \in task'[r].todo : s \in task[h].failed
    BY <1>6 DEF retry
  <2> QED BY <1>1, <1>2, <1>5, <1>6, <2>1 DEF IInv, NoDuplicates
<1> QED BY <1>9, <1>10, <1>11, <1>12, <1>13, <1>14, <1>15, <1>16 DEF IInv

-----------------------------------------------------------------------------
(* The theorems *)

\* Every step of the service, its flushers and the producers preserves the
\* invariant.
LEMMA NextInv == ASSUME IInv, [Next]_vars PROVE IInv'
<1>1. CASE \E p \in Payload : Accept(p) \/ RecordConsume(p)
  BY <1>1, ProducerInv
<1>2. CASE \E t \in TaskIds : FlusherStep(t)
  BY <1>2, BeginWithoutKeyInv, FetchInv, DeliverInv, RejectInv, ExhaustInv, FinishInv DEF FlusherStep
<1>3. CASE SpawnNonBlocking
  BY <1>3, SpawnNonBlockingInv
<1>4. CASE \E f \in {"blocking", "final"} : FlushBlocking(f)
  BY <1>4, FlushBlockingInv
<1>5. CASE AwaitHandles
  BY <1>5, AwaitInv
<1>6. CASE ServiceReturns
  BY <1>6, FlushBlockingReturnsInv, AwaitInv, JoinHandleInv DEF ServiceReturns
<1>7. CASE UNCHANGED vars
  <2>1. \A t \in TaskIds : Held(t)' = Held(t)
    BY <1>7 DEF vars, Held
  <2>2. TypeOK' /\ StageShape' /\ FieldsDisjoint' /\ KindsMatch' /\ IdleCalls' /\ SentDelivered' /\ DsmApart'
    BY <1>7, <2>1 DEF vars, IInv, TypeOK, StageShape, FieldsDisjoint, KindsMatch, IdleCalls,
                      SpawnedOf, SentDelivered, DsmApart, Waiting
  <2>a. \A k : Waiting(k)' = Waiting(k)
    BY <1>7 DEF vars, Waiting
  <2>3. FreshUnknown' /\ DisjointHands' /\ LostForGood' /\ NothingVanishes' /\ NoDuplicates'
    BY <1>7, <2>1, <2>a DEF vars, IInv, FreshUnknown, DisjointHands, LostForGood, NothingVanishes,
                            NoDuplicates, ShipmentsOf
  <2> QED BY <2>2, <2>3 DEF IInv
<1> QED BY <1>1, <1>2, <1>3, <1>4, <1>5, <1>6, <1>7 DEF Next

\* The inductive invariant holds throughout, for any payloads, endpoints and
\* number of rounds; the theorems below are its consequences.
THEOREM Invariance == Spec => []IInv
BY InitInv, NextInv, PTL DEF Spec

\* The state of service, flushers and shipments is always well-typed.
THEOREM TypeCorrect == Spec => []TypeOK
<1>1. IInv => TypeOK
  BY DEF IInv
<1> QED BY <1>1, Invariance, PTL

\* Whatever order spawned flushes, redrives and blocking flushes run in, no two
\* of them hold the same shipment and none holds what is still aggregated.
THEOREM HandsAreDisjoint == Spec => []DisjointHands
<1>1. IInv => DisjointHands
  BY DEF IInv
<1> QED BY <1>1, Invariance, PTL

\* Every accepted payload is, for each endpoint, aggregated, held by a flush
\* call, delivered, or given up on one of the code's drop paths.
THEOREM NoShipmentVanishes == Spec => []NothingVanishes
<1>1. IInv => NothingVanishes
  BY DEF IInv
<1> QED BY <1>1, Invariance, PTL

\* Given up means given up: no retry resurrects the shipment.
THEOREM LossIsFinal == Spec => []LostForGood
<1>1. IInv => LostForGood
  BY DEF IInv
<1> QED BY <1>1, Invariance, PTL

\* Unless an answer is lost, everything but traces is delivered at most once
\* and what is delivered is not also reported as failed.
THEOREM AtMostOnceButTraces == Spec => []NoDuplicates
<1>1. IInv => NoDuplicates
  BY DEF IInv
<1> QED BY <1>1, Invariance, PTL

-----------------------------------------------------------------------------
(* Handles across calls *)

\* A flusher step belongs to a running call and touches no other.
LEMMA FlusherStepLocal ==
  ASSUME IInv, NEW t \in TaskIds, FlusherStep(t)
  PROVE  /\ Active(t) /\ \A u \in TaskIds : u # t => task'[u] = task[u]
         /\ handles' = handles /\ round' = round /\ op' = op
<1> USE CallFacts
<1>1. CASE BeginWithoutKey(t)
  BY <1>1 DEF BeginWithoutKey, Active
<1>2. CASE Fetch(t)
  BY <1>2 DEF Fetch, Active
<1>3. CASE Deliver(t)
  BY <1>3 DEF Deliver, Active, Sending
<1>4. CASE Reject(t)
  BY <1>4 DEF Reject, Active, Sending
<1>5. CASE Exhaust(t)
  BY <1>5 DEF Exhaust, Active, Sending
<1>6. CASE Finish(t)
  BY <1>6 DEF Finish, Active
<1> QED BY <1>1, <1>2, <1>3, <1>4, <1>5, <1>6 DEF FlusherStep

\* What any step does to the spawned calls whose handles are kept.
LEMMA HandleStep ==
  ASSUME IInv, [Next]_vars, NEW h \in handles
  PROVE  \/ h \in handles' /\ task'[h] = task[h]
         \/ h \in handles' /\ Active(h) /\ round' = round
         \/ h \notin handles' /\ op = "await"
<1>1. h \in TaskIds /\ h.caller = "spawned" /\ h.round <= round /\ task \in [TaskIds -> TaskRecord]
  BY DEF IInv, TypeOK, IdleCalls, TaskRecord
<1>2. CASE \E p \in Payload : Accept(p) \/ RecordConsume(p)
  BY <1>2 DEF Accept, RecordConsume
<1>3. CASE \E t \in TaskIds : FlusherStep(t)
  BY <1>1, <1>3, FlusherStepLocal
<1>4. CASE SpawnNonBlocking
  BY <1>1, <1>4 DEF SpawnNonBlocking, StartCalls, IInv, TypeOK, TaskIds, Rounds
<1>5. CASE \E f \in {"blocking", "final"} : FlushBlocking(f)
  BY <1>1, <1>5 DEF FlushBlocking, StartCalls
<1>6. CASE AwaitHandles
  BY <1>6 DEF AwaitHandles
<1>7. CASE FlushBlockingReturns
  BY <1>1, <1>7 DEF FlushBlockingReturns
<1>8. CASE AwaitHandlesReturns
  BY <1>8 DEF AwaitHandlesReturns
<1>9. CASE \E g \in handles : JoinHandle(g)
  <2>1. PICK g \in handles : JoinHandle(g)
    BY <1>9
  <2>2. CASE g = h
    BY <2>1, <2>2 DEF JoinHandle
  <2>3. CASE g # h
    <3>1. [g EXCEPT !.caller = "redrive"].caller = "redrive"
      BY DEF IInv, TypeOK, TaskIds
    <3> QED BY <1>1, <2>1, <2>3, <3>1 DEF JoinHandle
  <2> QED BY <2>2, <2>3
<1>10. CASE UNCHANGED vars
  BY <1>10 DEF vars
<1> QED BY <1>2, <1>3, <1>4, <1>5, <1>6, <1>7, <1>8, <1>9, <1>10 DEF Next, ServiceReturns

\* The running spawned calls are those of the latest round.
LatestRound == \A h \in handles : Active(h) => h.round = round

\* Every step preserves LatestRound: spawn_non_blocking is only called when no
\* handle is pending (has_pending).
LEMMA LatestRoundStep == ASSUME IInv, LatestRound, [Next]_vars PROVE LatestRound'
<1>1. CASE SpawnNonBlocking
  <2>1. \A h \in handles' : h \notin handles => h.round = round'
    BY <1>1 DEF SpawnNonBlocking
  <2>2. \A h \in handles : ~Active(h)
    BY <1>1 DEF SpawnNonBlocking, HasPending
  <2>3. \A h \in handles : task'[h] = task[h]
    BY <1>1, <2>2, HandleStep DEF SpawnNonBlocking
  <2> QED BY <2>1, <2>2, <2>3 DEF LatestRound, Active
<1>2. CASE ~SpawnNonBlocking
  <2>1. handles' \subseteq handles /\ round' = round
    <3>1. CASE \E t \in TaskIds : FlusherStep(t)
      BY <3>1, FlusherStepLocal
    <3>2. CASE ~\E t \in TaskIds : FlusherStep(t)
      BY <1>2, <3>2 DEF Next, vars, Accept, RecordConsume, FlushBlocking, AwaitHandles,
           ServiceReturns, FlushBlockingReturns, AwaitHandlesReturns, JoinHandle
    <3> QED BY <3>1, <3>2
  <2>2. \A h \in handles' : Active(h)' => Active(h)
    BY <2>1, HandleStep DEF Active
  <2> QED BY <2>1, <2>2 DEF LatestRound
<1> QED BY <1>1, <1>2

\* Two spawned flushes of different rounds never run at the same time.
THEOREM OneRound == Spec => []OneRoundAtATime
<1>1. Init => LatestRound
  BY DEF Init, LatestRound
<1>2. LatestRound => OneRoundAtATime
  BY DEF LatestRound, OneRoundAtATime
<1> QED BY <1>1, <1>2, LatestRoundStep, Invariance, PTL DEF Spec

\* What a finished non-blocking flush handed back stays with its handle until
\* await_handles takes it, whatever blocking flushes happen in between.
THEOREM RetriesSurvive == Spec => RetriesSurviveBlockingFlush
<1> DEFINE A == \A h \in handles : task[h].stage = "done" =>
                  \A s \in task[h].failed :
                    s \in task'[h].failed \/ (op = "await" /\ h \notin handles')
<1>1. ASSUME IInv, [Next]_vars PROVE [A]_vars
  BY <1>1, HandleStep DEF Active
<1> QED BY <1>1, Invariance, PTL DEF Spec, RetriesSurviveBlockingFlush

-----------------------------------------------------------------------------
(* How a shutdown settles what was accepted: await_handles, then the final    *)
(* flush.  Both main loops end with these two calls.                          *)

\* A finished redrive kept nothing: the JoinSet of await_handles discards its
\* result.
RedrivesKeepNothing ==
  \A t \in TaskIds : t.caller = "redrive" /\ task[t].stage = "done" => task[t].failed = {}

\* await_handles has returned and nothing was spawned since.
HandlesSettled ==
  /\ handles = {}
  /\ \A t \in TaskIds : t.caller = "redrive" => ~Active(t)

\* In the final flush, a flusher that has looked at its aggregator has left
\* nothing of C in it.
Emptied(C) ==
  op = "final" =>
    /\ dsm \cap C = {}
    /\ \A t \in TaskIds : t.caller = "blocking" /\ task[t].stage # "fetch" => agg[t.kind] \cap C = {}

\* get_batches removes what it returns, and the call goes on to send it.
LEMMA FetchFacts ==
  ASSUME IInv, NEW t \in TaskIds, Fetch(t)
  PROVE  /\ dsm' = dsm /\ task'[t].stage = "send"
         /\ \E P \in Fetched(t) : agg' = [agg EXCEPT ![t.kind] = @ \ P]
<1>1. PICK P \in Fetched(t) :
        /\ agg' = [agg EXCEPT ![t.kind] = @ \ P]
        /\ \E T : task' = [task EXCEPT ![t].stage = "send", ![t].todo = T, ![t].sent = {}]
  BY Zenon DEF Fetch
<1>2. task'[t].stage = "send"
  BY <1>1, CallFacts DEF TaskRecord
<1>3. dsm' = dsm
  BY Zenon DEF Fetch
<1> QED BY <1>1, <1>2, <1>3

\* A redrive is joined empty-handed in every step.
LEMMA RedriveStep == ASSUME IInv, RedrivesKeepNothing, [Next]_vars PROVE RedrivesKeepNothing'
<1> SUFFICES ASSUME NEW t \in TaskIds, t.caller = "redrive", task'[t].stage = "done"
             PROVE  task'[t].failed = {}
  BY DEF RedrivesKeepNothing
<1>1. task[t] \in TaskRecord /\ task \in [TaskIds -> TaskRecord]
  BY CallFacts
<1>2. CASE task'[t] = task[t]
  BY <1>2 DEF RedrivesKeepNothing
<1>3. CASE \E u \in TaskIds : FlusherStep(u)
  <2>1. PICK u \in TaskIds : FlusherStep(u)
    BY <1>3
  <2>2. CASE u # t
    BY <1>2, <2>1, <2>2, FlusherStepLocal
  <2>3. CASE u = t
    <3>1. Active(t)
      BY <2>1, <2>3, FlusherStepLocal
    <3>2. CASE BeginWithoutKey(t)
      BY <1>1, <3>2 DEF BeginWithoutKey, NoTask
    <3>3. CASE Finish(t)
      BY <1>1, <3>3 DEF Finish
    <3>4. CASE Fetch(t)
      BY <3>4, FetchFacts
    <3>5. CASE Deliver(t)
      BY <1>1, <3>5 DEF Deliver, Sending
    <3>6. CASE Reject(t)
      BY <1>1, <3>6 DEF Reject, Sending
    <3>7. CASE Exhaust(t)
      BY <1>1, <3>7 DEF Exhaust, Sending
    <3> QED BY <2>1, <2>3, <3>2, <3>3, <3>4, <3>5, <3>6, <3>7 DEF FlusherStep
  <2> QED BY <2>2, <2>3
<1>4. CASE \E h \in handles : JoinHandle(h)
  <2>1. PICK h \in handles : JoinHandle(h)
    BY <1>4
  <2> DEFINE r == [h EXCEPT !.caller = "redrive"]
  <2>2. h \in TaskIds /\ h.caller = "spawned" /\ h.kind \in Kinds /\ r \in TaskIds
    BY DEF IInv, TypeOK, IdleCalls, TaskIds
  <2>3. task[h].failed \in SUBSET Shipment
    BY <2>2, CallFacts DEF TaskRecord
  <2>4. Call(h.kind, task[h].failed).stage # "done"
    BY <2>2, <2>3, CallShape
  <2>5. task'[t] = task[t] \/ task'[t] = Call(h.kind, task[h].failed)
    <3> HIDE DEF r
    <3>1. task' = [task EXCEPT ![h] = NoTask,
             ![r] = IF task[h].failed # {} \/ h.kind = "proxy" THEN Call(h.kind, task[h].failed) ELSE @]
      BY <2>1 DEF JoinHandle, r
    <3>2. t # h /\ task \in [TaskIds -> TaskRecord]
      BY <2>2, <1>1
    <3> HIDE DEF Call, NoTask
    <3> QED BY <2>2, <3>1, <3>2
  <2> QED BY <1>2, <2>4, <2>5
<1>5. CASE SpawnNonBlocking \/ \E f \in {"blocking", "final"} : FlushBlocking(f)
  BY <1>2, <1>5 DEF SpawnNonBlocking, FlushBlocking, StartCalls
<1>6. CASE FlushBlockingReturns
  BY <1>2, <1>6 DEF FlushBlockingReturns
<1>7. CASE \/ \E p \in Payload : Accept(p) \/ RecordConsume(p)
           \/ AwaitHandles \/ AwaitHandlesReturns \/ UNCHANGED vars
  BY <1>2, <1>7 DEF Accept, RecordConsume, AwaitHandles, AwaitHandlesReturns, vars
<1> QED BY <1>3, <1>4, <1>5, <1>6, <1>7 DEF Next, ServiceReturns

\* Nothing is accepted twice, so the accepted payloads only grow.
LEMMA AcceptedGrows == ASSUME [Next]_vars PROVE accepted \subseteq accepted'
BY DEF Next, vars, Accept, RecordConsume, FlusherStep, BeginWithoutKey, Fetch, Deliver, Reject, Exhaust,
       Finish, SpawnNonBlocking, FlushBlocking, AwaitHandles, ServiceReturns, FlushBlockingReturns,
       AwaitHandlesReturns, JoinHandle

\* What a flush call does to the outcome of a shipment: deliveries are only
\* counted up, and a shipment given up is not taken back.
LEMMA OutcomesStay ==
  ASSUME IInv, [Next]_vars, NEW s \in Shipment
  PROVE  delivered'[s] >= delivered[s] /\ (lost[s] # "no" => lost'[s] # "no")
<1>0. delivered \in [Shipment -> Nat] /\ lost \in [Shipment -> Losses]
  BY DEF IInv, TypeOK
<1>1. CASE \E t \in TaskIds : FlusherStep(t)
  <2>1. PICK t \in TaskIds : FlusherStep(t)
    BY <1>1
  <2>2. CASE BeginWithoutKey(t)
    BY <1>0, <2>2 DEF BeginWithoutKey, Lose
  <2>3. CASE Fetch(t)
    <3>1. delivered' = delivered /\ \E K : lost' = [x \in Shipment |-> IF x \in K THEN "key" ELSE lost[x]]
      BY <2>3, Zenon DEF Fetch, Lose
    <3> QED BY <1>0, <3>1
  <2>4. CASE Deliver(t)
    BY <1>0, <2>4 DEF Deliver
  <2>5. CASE Reject(t)
    BY <1>0, <2>5 DEF Reject, Lose
  <2>6. CASE Exhaust(t)
    <3>1. PICK G \in Requests(t), reached \in BOOLEAN :
            delivered' = [x \in Shipment |-> delivered[x] + IF reached /\ x \in G THEN 1 ELSE 0]
      BY <2>6, Zenon DEF Exhaust
    <3>2. delivered'[s] = delivered[s] \/ delivered'[s] = delivered[s] + 1
      BY <1>0, <3>1
    <3> QED BY <1>0, <2>6, <3>2 DEF Exhaust
  <2>7. CASE Finish(t)
    <3>1. delivered' = delivered /\ \E K : lost' = [x \in Shipment |-> IF x \in K THEN "redrive" ELSE lost[x]]
      BY <2>7, Zenon DEF Finish, Lose
    <3> QED BY <1>0, <3>1
  <2> QED BY <2>1, <2>2, <2>3, <2>4, <2>5, <2>6, <2>7 DEF FlusherStep
<1>2. CASE FlushBlockingReturns
  <2>1. delivered' = delivered /\ \E K : lost' = [x \in Shipment |-> IF x \in K THEN "blocking" ELSE lost[x]]
    BY <1>2, Zenon DEF FlushBlockingReturns, Lose
  <2> QED BY <1>0, <2>1
<1>3. CASE \/ \E p \in Payload : Accept(p) \/ RecordConsume(p)
           \/ SpawnNonBlocking \/ \E f \in {"blocking", "final"} : FlushBlocking(f)
           \/ AwaitHandles \/ AwaitHandlesReturns \/ (\E h \in handles : JoinHandle(h)) \/ UNCHANGED vars
  <2>1. delivered' = delivered /\ lost' = lost
    BY <1>3 DEF Accept, RecordConsume, SpawnNonBlocking, FlushBlocking, AwaitHandles,
                AwaitHandlesReturns, JoinHandle, vars
  <2> QED BY <1>0, <2>1
<1> QED BY <1>1, <1>2, <1>3 DEF Next, ServiceReturns

\* What await_handles settled stays settled unless a round is spawned.
LEMMA SettledStep ==
  ASSUME IInv, HandlesSettled, [Next]_vars, round' = round PROVE HandlesSettled'
<1>1. CASE \E u \in TaskIds : FlusherStep(u)
  BY <1>1, FlusherStepLocal DEF HandlesSettled, Active
<1>2. CASE SpawnNonBlocking \/ \E h \in handles : JoinHandle(h)
  BY <1>2 DEF HandlesSettled, SpawnNonBlocking, IInv, TypeOK
<1>3. CASE \E f \in {"blocking", "final"} : FlushBlocking(f)
  BY <1>3 DEF FlushBlocking, StartCalls, HandlesSettled, Active
<1>4. CASE FlushBlockingReturns
  BY <1>4 DEF FlushBlockingReturns, HandlesSettled, Active
<1>5. CASE \/ \E p \in Payload : Accept(p) \/ RecordConsume(p)
           \/ AwaitHandles \/ AwaitHandlesReturns \/ UNCHANGED vars
  BY <1>5 DEF Accept, RecordConsume, AwaitHandles, AwaitHandlesReturns, vars, HandlesSettled, Active
<1> QED BY <1>1, <1>2, <1>3, <1>4, <1>5 DEF Next, ServiceReturns

\* The final flush takes everything of C that is aggregated, the stats the
\* concentrator holds back and the pipeline stats included, and nothing puts an
\* accepted payload back.
LEMMA EmptiedStep ==
  ASSUME IInv, NEW C, C \subseteq accepted, Emptied(C), [Next]_vars
  PROVE  Emptied(C)'
<1> SUFFICES ASSUME op' = "final"
             PROVE  /\ dsm' \cap C = {}
                    /\ \A t \in TaskIds : t.caller = "blocking" /\ task'[t].stage # "fetch"
                                             => agg'[t.kind] \cap C = {}
  BY DEF Emptied
<1>0. /\ task \in [TaskIds -> TaskRecord] /\ agg \in [Kinds -> SUBSET Payload]
      /\ \A t \in TaskIds : t.kind \in Kinds
  BY DEF IInv, TypeOK, TaskRecord, TaskIds
<1>1. CASE \E p \in Payload : Accept(p) \/ RecordConsume(p)
  <2>1. PICK p \in Payload : Accept(p) \/ RecordConsume(p)
    BY <1>1
  <2>2. p \notin C /\ op = "final" /\ task' = task
    BY <2>1 DEF Accept, RecordConsume
  <2>3. /\ \A k \in Kinds : agg'[k] \subseteq agg[k] \cup {p}
        /\ dsm' \subseteq dsm \cup {p}
    BY <1>0, <2>1 DEF Accept, RecordConsume
  <2> QED BY <1>0, <2>2, <2>3 DEF Emptied
<1>2. CASE \E u \in TaskIds : FlusherStep(u)
  <2>1. PICK u \in TaskIds : FlusherStep(u)
    BY <1>2
  <2>2. op = "final" /\ \A t \in TaskIds : t # u => task'[t] = task[t]
    BY <2>1, FlusherStepLocal
  <2>3. dsm' = dsm /\ \A k \in Kinds : agg'[k] \subseteq agg[k]
    <3>1. CASE Fetch(u)
      BY <1>0, <3>1, FetchFacts
    <3>2. CASE ~Fetch(u)
      BY <1>0, <2>1, <3>2 DEF FlusherStep, BeginWithoutKey, Deliver, Reject, Exhaust, Finish
    <3> QED BY <3>1, <3>2
  <2>4. ASSUME u.caller = "blocking", task[u].stage = "fetch", task'[u].stage # "fetch"
        PROVE  agg'[u.kind] = {}
    <3>1. CASE BeginWithoutKey(u)
      BY <1>0, <3>1 DEF BeginWithoutKey
    <3>2. CASE Fetch(u)
      <4>1. Fetched(u) = {agg[u.kind]}
        BY <2>2, <2>4 DEF Fetched
      <4> QED BY <1>0, <3>2, <4>1, FetchFacts
    <3> QED BY <2>1, <2>4, <3>1, <3>2 DEF FlusherStep, Deliver, Reject, Exhaust, Finish, Sending
  <2> QED BY <1>0, <2>2, <2>3, <2>4 DEF Emptied
<1>3. CASE \E f \in {"blocking", "final"} : FlushBlocking(f)
  <2> DEFINE ids == {t \in TaskIds : t.caller = "blocking"}
  <2>1. StartCalls(ids)
    BY <1>3 DEF FlushBlocking
  <2>2. dsm' = {} /\ ("metrics" \in Kinds => agg'["metrics"] = {})
    BY <2>1 DEF StartCalls
  <2>3. ASSUME NEW t \in TaskIds, t.caller = "blocking", t.kind # "metrics"
        PROVE  task'[t].stage = "fetch"
    <3>1. task'[t] = Call(t.kind, {})
      BY <2>1, <2>3 DEF StartCalls
    <3> QED BY <2>3, <3>1 DEF Call, NoTask
  <2> QED BY <1>0, <2>2, <2>3
<1>4. CASE SpawnNonBlocking \/ FlushBlockingReturns \/ AwaitHandles \/ AwaitHandlesReturns
           \/ \E h \in handles : JoinHandle(h)
  BY <1>4 DEF SpawnNonBlocking, FlushBlockingReturns, AwaitHandles, AwaitHandlesReturns, JoinHandle
<1>5. CASE UNCHANGED vars
  BY <1>5 DEF vars, Emptied
<1> QED BY <1>1, <1>2, <1>3, <1>4, <1>5 DEF Next, ServiceReturns

\* When the final flush returns, every shipment of C is delivered or given up.
LEMMA FinalFlushSettles ==
  ASSUME IInv, RedrivesKeepNothing, HandlesSettled, NEW C, C \subseteq accepted, Emptied(C),
         op = "final", FlushBlockingReturns, NEW s \in ShipmentsOf(C)
  PROVE  delivered'[s] > 0 \/ lost'[s] # "no"
<1> DEFINE ids == {t \in TaskIds : t.caller = "blocking"}
<1>1. /\ \A t \in ids : task[t].stage = "done"
      /\ lost' = [x \in Shipment |-> IF x \in UNION {task[t].failed : t \in ids} THEN "blocking" ELSE lost[x]]
      /\ delivered' = delivered
  BY DEF FlushBlockingReturns, Lose
<1>2. s \in Shipment /\ s[1] \in accepted /\ s[1] \in C /\ s[1] \in Payload /\ KindOf[s[1]] \in Kinds
  BY PayloadAssumption DEF ShipmentsOf, IInv, TypeOK
<1>3. s[1] \notin Waiting(KindOf[s[1]])
  <2>1. [caller |-> "blocking", kind |-> KindOf[s[1]], round |-> 0] \in ids
    BY <1>2 DEF TaskIds
  <2>2. agg[KindOf[s[1]]] \cap C = {} /\ dsm \cap C = {}
    BY <1>1, <2>1 DEF Emptied
  <2> QED BY <1>2, <2>2 DEF Waiting
<1>4. ASSUME NEW t \in TaskIds, s \in Held(t) PROVE s \in task[t].failed /\ t \in ids
  <2>1. task[t].stage # "idle"
    BY <1>4 DEF IInv, StageShape
  <2>2. t.caller # "spawned"
    BY <2>1 DEF HandlesSettled, IInv, IdleCalls
  <2>3. task[t].stage = "done"
    BY <1>1, <2>1, <2>2 DEF HandlesSettled, Active, TaskIds
  <2>4. s \in task[t].failed
    BY <1>4, <2>3 DEF IInv, StageShape, Held
  <2>5. t.caller # "redrive"
    BY <2>3, <2>4 DEF RedrivesKeepNothing
  <2> QED BY <2>2, <2>4, <2>5 DEF TaskIds
<1>5. CASE \E t \in TaskIds : s \in Held(t)
  <2>1. s \in UNION {task[t].failed : t \in ids}
    BY <1>4, <1>5
  <2> QED BY <1>1, <1>2, <2>1
<1>6. CASE delivered[s] > 0 \/ lost[s] # "no"
  BY <1>1, <1>2, <1>6
<1> QED BY <1>2, <1>3, <1>5, <1>6 DEF IInv, NothingVanishes, ShipmentsOf

-----------------------------------------------------------------------------
(* The on-demand loop as a client of the service *)

\* A step of the loop or of its environment is a step of the service, its
\* flushers or the producers, or leaves them alone.
LEMMA LoopStepIsServiceStep == ASSUME LoopNext PROVE [Next]_vars
<1>1. CASE \/ InvocationOver \/ EmitRuntimeDone \/ NextInvoke \/ NextShutdown \/ ReceiveEvent
           \/ Tick \/ Decide \/ TombstoneWaitEnds
  BY <1>1 DEF InvocationOver, EmitRuntimeDone, NextInvoke, NextShutdown, ReceiveEvent, Tick, Decide,
              TombstoneWaitEnds
<1>2. CASE Produce \/ Fly
  BY <1>2 DEF Produce, Fly, Next
<1>3. CASE SpawnUnlessPending
  BY <1>3 DEF SpawnUnlessPending, Next
<1>4. CASE CallFlushBlocking \/ CallFlushBlockingFinal
  BY <1>4 DEF CallFlushBlocking, CallFlushBlockingFinal, Next
<1>5. CASE FlushBlockingDone \/ Exit \/ CallAwaitHandles \/ JoinNextHandle \/ AwaitHandlesDone
  BY <1>5 DEF FlushBlockingDone, Exit, CallAwaitHandles, JoinNextHandle, AwaitHandlesDone, Next,
              ServiceReturns
<1> QED BY <1>1, <1>2, <1>3, <1>4, <1>5 DEF LoopNext, LoopStep

\* The on-demand loop (main.rs) only uses the service as the service expects, so
\* every theorem about Flushing holds of it.
THEOREM OnDemandUsesService == LoopSpec => Spec
<1>1. LoopInit => Init
  BY DEF LoopInit
<1>2. [LoopNext]_allVars => [Next]_vars
  BY LoopStepIsServiceStep DEF allVars
<1> QED BY <1>1, <1>2, PTL DEF LoopSpec, Spec

-----------------------------------------------------------------------------
(* The inductive invariant of the on-demand shutdown *)

\* The loop awaits one call at a time, at the place that made it.
CallsInPlace ==
  /\ op = "await" => loop = "await"
  /\ op = "final" => loop = "final"
  /\ op = "blocking" => loop \in DOMAIN AfterFlush

Late == {"tombstone", "final", "exit"}

LoopInv ==
  /\ IInv /\ RedrivesKeepNothing
  /\ CallsInPlace /\ flush_strategy \in Strategies
  /\ cut \subseteq accepted
  /\ loop \in Late => HandlesSettled
  /\ Emptied(cut)
  /\ ExitSettled

\* The service starts idle, so nothing is to be settled yet.
LEMMA LoopInitInv == LoopInit => LoopInv
<1> SUFFICES ASSUME LoopInit PROVE LoopInv
  OBVIOUS
<1>1. IInv
  BY InitInv DEF LoopInit
<1>2. RedrivesKeepNothing
  BY DEF LoopInit, Init, RedrivesKeepNothing, NoTask
<1> QED BY <1>1, <1>2 DEF LoopInit, Init, LoopInv, CallsInPlace, Late, Emptied, ExitSettled

\* The strategy is chosen at the start (Config::serverless_flush_strategy).
LEMMA StrategyFixed == ASSUME [LoopNext]_allVars PROVE flush_strategy' = flush_strategy
BY DEF LoopNext, LoopStep, allVars, loopVars, InvocationOver, EmitRuntimeDone, Produce, Fly, NextInvoke,
       NextShutdown, ReceiveEvent, Tick, Decide, SpawnUnlessPending, CallFlushBlocking,
       FlushBlockingDone, CallAwaitHandles, JoinNextHandle, AwaitHandlesDone, TombstoneWaitEnds,
       CallFlushBlockingFinal, Exit

\* Where the loop goes and what becomes of the call it awaits, in each step.
LEMMA LoopMoves ==
  ASSUME LoopInv, [LoopNext]_allVars
  PROVE  /\ CallsInPlace'
         /\ loop \in Late => round' = round
         /\ loop' \in Late => loop \in Late \/ AwaitHandlesReturns
         /\ cut' = cut \/ (cut' = accepted /\ op' # "final" /\ UNCHANGED vars /\ loop' # "exit")
         /\ loop' = "exit" => \/ op = "final" /\ FlushBlockingReturns /\ cut' = cut
                              \/ loop = "exit" /\ UNCHANGED vars /\ cut' = cut
<1> USE DEF LoopInv, CallsInPlace, Late
<1>0. op \in Ops
  BY DEF IInv, TypeOK
<1>1. CASE UNCHANGED allVars
  BY <1>1 DEF allVars, vars, loopVars
<1>2. CASE InvocationOver \/ EmitRuntimeDone
  BY <1>2 DEF InvocationOver, EmitRuntimeDone, vars
<1>3. CASE NextInvoke \/ NextShutdown \/ Tick \/ ReceiveEvent
  <2>1. op = "none" /\ UNCHANGED vars /\ cut' = cut /\ loop' # "exit" /\ (loop' \in Late => loop \in Late)
    BY <1>0, <1>3 DEF Ops, NextInvoke, NextShutdown, AwaitingNext, Tick, Goto, ReceiveEvent, AfterFlush
  <2> QED BY <2>1 DEF vars
<1>4. CASE Decide
  <2>1. op = "none" /\ UNCHANGED vars /\ cut' = cut
    BY <1>0, <1>4 DEF Ops, Decide, AfterFlush
  <2>2. loop' \in {"flush_end", "spawn", "top_flush", "wait_next"}
    <3>1. PICK d \in DecisionsUnder[flush_strategy] :
            loop' = [End |-> "flush_end", Continuous |-> "spawn",
                     Periodic |-> "top_flush", Dont |-> "wait_next"][d]
      BY <1>4 DEF Decide
    <3>2. flush_strategy \in Strategies
      OBVIOUS
    <3>3. d \in {"End", "Continuous", "Periodic", "Dont"}
      BY <3>1, <3>2, LoopAssumption DEF DecisionsUnder
    <3> QED BY <3>1, <3>3
  <2> QED BY <2>1, <2>2 DEF vars
<1>5. CASE TombstoneWaitEnds
  BY <1>0, <1>5 DEF Ops, TombstoneWaitEnds, Goto, AfterFlush, vars
<1>6. CASE Produce \/ Fly
  <2>1. op' = op /\ round' = round
    <3>1. CASE Produce
      BY <3>1 DEF Produce, Accept, RecordConsume
    <3>2. CASE Fly
      BY <3>2, FlusherStepLocal DEF Fly
    <3> QED BY <1>6, <3>1, <3>2
  <2> QED BY <1>6, <2>1 DEF Produce, Fly, loopVars
<1>7. CASE SpawnUnlessPending
  <2>1. op = "none" /\ op' = "none" /\ loop = "spawn" /\ loop' = "wait_next" /\ cut' = cut
    BY <1>0, <1>7 DEF Ops, SpawnUnlessPending, Goto, SpawnNonBlocking, AfterFlush, vars
  <2> QED BY <2>1
<1>8. CASE CallFlushBlocking \/ CallFlushBlockingFinal \/ CallAwaitHandles
  BY <1>8 DEF CallFlushBlocking, CallFlushBlockingFinal, CallAwaitHandles, FlushBlocking, AwaitHandles,
              loopVars, AfterFlush
<1>9. CASE FlushBlockingDone \/ Exit
  <2>1. op' = "none" /\ round' = round /\ cut' = cut /\ FlushBlockingReturns
        /\ op \in {"blocking", "final"}
    BY <1>9 DEF FlushBlockingDone, Exit, FlushBlockingReturns
  <2>2. CASE Exit
    <3>1. loop = "final" /\ loop' = "exit"
      BY <2>2 DEF Exit, Goto
    <3> QED BY <2>1, <3>1 DEF AfterFlush
  <2>3. CASE FlushBlockingDone
    <3>1. loop \in DOMAIN AfterFlush /\ loop' = AfterFlush[loop]
      BY <2>3 DEF FlushBlockingDone
    <3>2. loop \notin Late /\ loop' \notin Late
      BY <3>1 DEF AfterFlush
    <3> QED BY <2>1, <3>2
  <2> QED BY <1>9, <2>2, <2>3
<1>10. CASE JoinNextHandle
  BY <1>10 DEF JoinNextHandle, JoinHandle, loopVars
<1>11. CASE AwaitHandlesDone
  BY <1>11 DEF AwaitHandlesDone, AwaitHandlesReturns, Goto
<1> QED BY <1>1, <1>2, <1>3, <1>4, <1>5, <1>6, <1>7, <1>8, <1>9, <1>10, <1>11 DEF LoopNext, LoopStep

\* Every step of the main loop keeps the invariant.
LEMMA LoopNextInv == ASSUME LoopInv, [LoopNext]_allVars PROVE LoopInv'
<1>1. [Next]_vars
  BY LoopStepIsServiceStep DEF allVars
<1>2. IInv' /\ RedrivesKeepNothing' /\ accepted \subseteq accepted'
  BY <1>1, NextInv, RedriveStep, AcceptedGrows DEF LoopInv
<1>3. CallsInPlace' /\ flush_strategy' \in Strategies
  BY LoopMoves, StrategyFixed DEF LoopInv
<1>4. cut' \subseteq accepted'
  BY <1>2, LoopMoves DEF LoopInv, vars
<1>5. loop' \in Late => HandlesSettled'
  <2>1. CASE loop \in Late
    BY <1>1, <2>1, SettledStep, LoopMoves DEF LoopInv
  <2>2. CASE AwaitHandlesReturns
    BY <2>2 DEF AwaitHandlesReturns, HandlesSettled, Active
  <2> QED BY <2>1, <2>2, LoopMoves
<1>6. Emptied(cut)'
  <2>1. CASE cut' = cut
    <3>1. \A C : C \subseteq accepted /\ Emptied(C) => Emptied(C)'
      BY <1>1, EmptiedStep DEF LoopInv
    <3> QED BY <2>1, <3>1 DEF LoopInv, Emptied
  <2>2. CASE op' # "final"
    BY <2>2 DEF Emptied
  <2> QED BY <2>1, <2>2, LoopMoves
<1>7. ExitSettled'
  <2> SUFFICES ASSUME loop' = "exit", NEW s \in ShipmentsOf(cut')
               PROVE  delivered'[s] > 0 \/ lost'[s] # "no"
    BY DEF ExitSettled
  <2>1. CASE op = "final" /\ FlushBlockingReturns /\ cut' = cut
    <3>1. loop \in Late
      BY <2>1 DEF LoopInv, CallsInPlace, Late
    <3> QED BY <2>1, <3>1, FinalFlushSettles DEF LoopInv
  <2>2. CASE loop = "exit" /\ UNCHANGED vars /\ cut' = cut
    BY <2>2 DEF LoopInv, ExitSettled, vars
  <2> QED BY <2>1, <2>2, LoopMoves
<1> QED BY <1>2, <1>3, <1>4, <1>5, <1>6, <1>7 DEF LoopInv

\* The invariant holds in every reachable state of the loop.
THEOREM OnDemandInvariant == LoopSpec => []LoopInv
BY LoopInitInv, LoopNextInv, PTL DEF LoopSpec

\* When the extension exits, every shipment of every payload accepted before the
\* background services were cancelled is delivered or given up on an explicit
\* drop path: await_handles and flush_blocking_final together leave nothing in
\* an aggregator, a task or a handle.
THEOREM OnDemandExitSettled == LoopSpec => []ExitSettled
BY OnDemandInvariant, PTL DEF LoopInv

-----------------------------------------------------------------------------
(* runtimeDone events and the flush that ends an invocation *)

\* Events follow the invocations that emit them.
Counted ==
  /\ invoked \in Nat /\ over \in Nat /\ emitted \in Nat
  /\ bus \in Seq([inv : Nat, metrics : BOOLEAN])
  /\ over <= invoked /\ emitted <= over /\ Len(bus) <= emitted

\* Under End the loop receives the event of every invocation before it asks
\* for the next one: an event still on the bus is of the current invocation.
EndReceives ==
  flush_strategy = "End" =>
    /\ loop \notin {"spawn", "top_flush", "wait_next", "tick_flush"}
    /\ loop = "first_next" => invoked = 0
    /\ loop \in {"decide", "flush_end", "race_flush"} => emitted - Len(bus) >= invoked - 1
    /\ loop \in {"end_flush", "end_next"} => emitted - Len(bus) >= invoked

EndInv == Counted /\ EndReceives /\ flush_strategy \in Strategies

\* Every step keeps the count of the events.
LEMMA EndStep == ASSUME EndInv, [LoopNext]_allVars PROVE EndInv'
<1> USE DEF EndInv, Counted, EndReceives
<1>0. flush_strategy' = flush_strategy
  BY StrategyFixed
<1>1. CASE UNCHANGED loopVars
  BY <1>1 DEF loopVars
<1>2. CASE InvocationOver
  BY <1>2 DEF InvocationOver
<1>3. CASE EmitRuntimeDone
  <2>1. PICK m \in BOOLEAN : bus' = Append(bus, [inv |-> emitted + 1, metrics |-> m])
    BY <1>3 DEF EmitRuntimeDone
  <2> DEFINE e == [inv |-> emitted + 1, metrics |-> m]
  <2>2. e \in [inv : Nat, metrics : BOOLEAN]
    OBVIOUS
  <2>3. bus' \in Seq([inv : Nat, metrics : BOOLEAN]) /\ Len(bus') = Len(bus) + 1
    <3> HIDE DEF e
    <3>1. bus' = Append(bus, e)
      BY <2>1 DEF e
    <3> QED BY <2>2, <3>1
  <2>4. emitted' = emitted + 1 /\ emitted < over /\ UNCHANGED <<flush_strategy, loop, invoked, over>>
    BY <1>3 DEF EmitRuntimeDone
  <2>5. Len(bus) \in Nat
    OBVIOUS
  <2> QED BY <2>3, <2>4, <2>5
<1>4. CASE NextInvoke
  BY <1>4 DEF NextInvoke, AwaitingNext
<1>5. CASE NextShutdown
  BY <1>5 DEF NextShutdown, AwaitingNext
<1>6. CASE ReceiveEvent
  <2>1. /\ bus' \in Seq([inv : Nat, metrics : BOOLEAN]) /\ Len(bus') = Len(bus) - 1 /\ Len(bus) \in Nat
        /\ UNCHANGED <<flush_strategy, invoked, over, emitted>>
    BY <1>6 DEF ReceiveEvent
  <2>2. \/ loop' = loop /\ loop \in {"flush_end", "wait_next", "tombstone"}
        \/ loop = "flush_end" /\ loop' = "end_flush"
    <3>1. CASE loop = "flush_end" /\ Head(bus).metrics
      BY <1>6, <3>1 DEF ReceiveEvent
    <3>2. CASE ~(loop = "flush_end" /\ Head(bus).metrics)
      BY <1>6, <3>2, Zenon DEF ReceiveEvent
    <3> QED BY <3>1, <3>2
  <2> QED BY <2>1, <2>2
<1>7. CASE Tick
  BY <1>7 DEF Tick, Goto
<1>8. CASE Decide
  <2>1. UNCHANGED <<flush_strategy, bus, invoked, over, emitted>> /\ loop = "decide"
    BY <1>8 DEF Decide
  <2>2. flush_strategy = "End" => loop' = "flush_end"
    <3>1. PICK d \in DecisionsUnder[flush_strategy] :
            loop' = [End |-> "flush_end", Continuous |-> "spawn",
                     Periodic |-> "top_flush", Dont |-> "wait_next"][d]
      BY <1>8 DEF Decide
    <3>2. flush_strategy = "End" => d = "End"
      BY DEF DecisionsUnder
    <3> QED BY <3>1, <3>2
  <2>3. flush_strategy = "End" => EndReceives'
    BY <2>1, <2>2
  <2> QED BY <1>0, <2>1, <2>3
<1>9. CASE SpawnUnlessPending \/ TombstoneWaitEnds \/ AwaitHandlesDone \/ Exit
  BY <1>9 DEF SpawnUnlessPending, TombstoneWaitEnds, AwaitHandlesDone, Exit, Goto
<1>10. CASE FlushBlockingDone
  BY <1>10 DEF FlushBlockingDone, AfterFlush
<1>11. CASE \/ Produce \/ Fly \/ CallFlushBlocking \/ CallAwaitHandles \/ JoinNextHandle
            \/ CallFlushBlockingFinal \/ UNCHANGED allVars
  BY <1>1, <1>11 DEF Produce, Fly, CallFlushBlocking, CallAwaitHandles, JoinNextHandle,
                     CallFlushBlockingFinal, allVars
<1> QED BY <1>2, <1>3, <1>4, <1>5, <1>6, <1>7, <1>8, <1>9, <1>10, <1>11 DEF LoopNext, LoopStep

\* README.md: "Waits for platform.runtimeDone, then performs blocking flush".
\* Under the End strategy no runtimeDone of an earlier invocation, however late
\* the Telemetry API delivers it, lets the loop flush before the current
\* invocation is over; with or without metrics in the records.
THEOREM EndFlushWaits == LoopSpec => []EndFlushAfterInvocation
<1>1. LoopInit => EndInv
  BY DEF LoopInit, EndInv, Counted, EndReceives
<1>2. EndInv => EndFlushAfterInvocation
  <2> SUFFICES ASSUME EndInv, flush_strategy = "End", loop = "end_flush" PROVE over = invoked
    BY DEF EndFlushAfterInvocation
  <2>1. Len(bus) \in Nat /\ emitted - Len(bus) >= invoked
    BY DEF EndInv, Counted, EndReceives
  <2> QED BY <2>1 DEF EndInv, Counted
<1> QED BY <1>1, <1>2, EndStep, PTL DEF LoopSpec

-----------------------------------------------------------------------------
(* The tasks of Managed Instance mode as a client of the service *)

\* A step of one of the three tasks is a step of the service or leaves it alone.
LEMMA ManagedStepIsServiceStep == ASSUME ManagedNext PROVE [Next]_vars
<1>1. CASE ShutdownEvent \/ EmergencyShutdown \/ NextTransientError \/ MainTask
  BY <1>1 DEF ShutdownEvent, EmergencyShutdown, NextTransientError, MainTask, LeaveEventLoop,
              CancelBackgroundServices, JoinFlusherTask
<1>2. CASE ManagedProduce \/ ManagedFly \/ FlushTick
  BY <1>2 DEF ManagedProduce, ManagedFly, FlushTick, Next
<1>3. CASE FlusherTask
  BY <1>3 DEF FlusherTask, FlusherCancelled, FlusherJoins, FlusherAwaited, FinalFlush, FlusherEnds, Next,
              ServiceReturns
<1> QED BY <1>1, <1>2, <1>3 DEF ManagedNext

\* The background flusher only uses the service as the service expects, so
\* every theorem about Flushing holds in Managed Instance mode.
THEOREM ManagedUsesService == ManagedSpec => Spec
<1>1. ManagedInit => Init
  BY DEF ManagedInit
<1>2. [ManagedNext]_managedVars => [Next]_vars
  BY ManagedStepIsServiceStep DEF managedVars
<1> QED BY <1>1, <1>2, PTL DEF ManagedSpec, Spec

-----------------------------------------------------------------------------
(* The inductive invariant of the managed shutdown *)

\* The flusher task awaits one call at a time, at the place that made it.
FlusherCallsInPlace ==
  /\ op \in {"none", "await", "final"}
  /\ op = "await" => flusher = "await"
  /\ op = "final" => flusher = "final"

\* The services are cancelled before the flusher leaves its select!, so what is
\* to be settled is fixed before the final flush begins.
CancelledFirst ==
  /\ cancelled <=> main_at \in {"join", "exit"}
  /\ flusher # "ticking" => cancelled
  /\ main_at = "exit" => flusher = "gone"

\* Once the final flush has returned, what was accepted is settled.
FlusherSettled ==
  flusher = "gone" => \A s \in ShipmentsOf(promised) : delivered[s] > 0 \/ lost[s] # "no"

ManagedInv ==
  /\ IInv /\ RedrivesKeepNothing
  /\ FlusherCallsInPlace /\ CancelledFirst
  /\ promised \subseteq accepted
  /\ flusher \in {"final", "gone"} => HandlesSettled
  /\ Emptied(promised)
  /\ FlusherSettled

\* Nothing is to be settled at the start.
LEMMA ManagedInitInv == ManagedInit => ManagedInv
<1> SUFFICES ASSUME ManagedInit PROVE ManagedInv
  OBVIOUS
<1>1. IInv
  BY InitInv DEF ManagedInit
<1>2. RedrivesKeepNothing
  BY DEF ManagedInit, Init, RedrivesKeepNothing, NoTask
<1> QED BY <1>1, <1>2 DEF ManagedInit, Init, ManagedInv, FlusherCallsInPlace, CancelledFirst, Emptied, FlusherSettled

\* What each step does to the tasks and to the call the flusher awaits.
LEMMA ManagedMoves ==
  ASSUME ManagedInv, [ManagedNext]_managedVars
  PROVE  /\ FlusherCallsInPlace' /\ CancelledFirst'
         /\ flusher # "ticking" => round' = round
         /\ flusher' \in {"final", "gone"} => flusher \in {"final", "gone"} \/ AwaitHandlesReturns
         /\ promised' = promised \/ (promised' = accepted /\ flusher' = "ticking" /\ UNCHANGED vars)
         /\ flusher' = "gone" => \/ op = "final" /\ FlushBlockingReturns /\ promised' = promised
                                 \/ flusher = "gone" /\ promised' = promised
<1> USE DEF ManagedInv, FlusherCallsInPlace, CancelledFirst
<1>1. CASE UNCHANGED managedVars
  BY <1>1 DEF managedVars, vars, taskVars
<1>2. CASE ShutdownEvent \/ EmergencyShutdown \/ NextTransientError \/ LeaveEventLoop \/ JoinFlusherTask
  BY <1>2 DEF ShutdownEvent, EmergencyShutdown, NextTransientError, LeaveEventLoop, JoinFlusherTask, vars
<1>3. CASE CancelBackgroundServices
  BY <1>3 DEF CancelBackgroundServices, vars
<1>4. CASE ManagedProduce \/ ManagedFly
  <2>1. op' = op /\ round' = round
    <3>1. CASE ManagedProduce
      BY <3>1 DEF ManagedProduce, Accept, RecordConsume
    <3>2. CASE ManagedFly
      BY <3>2, FlusherStepLocal DEF ManagedFly
    <3> QED BY <1>4, <3>1, <3>2
  <2> QED BY <1>4, <2>1 DEF ManagedProduce, ManagedFly, taskVars
<1>5. CASE FlushTick
  BY <1>5 DEF FlushTick, SpawnNonBlocking, taskVars
<1>6. CASE FlusherCancelled \/ FlusherAwaited
  BY <1>6 DEF FlusherCancelled, FlusherAwaited, AwaitHandles, AwaitHandlesReturns
<1>7. CASE FlusherJoins
  BY <1>7 DEF FlusherJoins, JoinHandle, taskVars
<1>8. CASE FinalFlush
  BY <1>8 DEF FinalFlush, FlushBlocking, taskVars
<1>9. CASE FlusherEnds
  BY <1>9 DEF FlusherEnds, FlushBlockingReturns
<1> QED BY <1>1, <1>2, <1>3, <1>4, <1>5, <1>6, <1>7, <1>8, <1>9 DEF ManagedNext, FlusherTask, MainTask

\* Every step of the three tasks keeps the invariant.
LEMMA ManagedNextInv == ASSUME ManagedInv, [ManagedNext]_managedVars PROVE ManagedInv'
<1>1. [Next]_vars
  BY ManagedStepIsServiceStep DEF managedVars
<1>2. IInv' /\ RedrivesKeepNothing' /\ accepted \subseteq accepted'
  BY <1>1, NextInv, RedriveStep, AcceptedGrows DEF ManagedInv
<1>3. FlusherCallsInPlace' /\ CancelledFirst'
  BY ManagedMoves
<1>4. promised' \subseteq accepted'
  BY <1>2, ManagedMoves DEF ManagedInv, vars
<1>5. flusher' \in {"final", "gone"} => HandlesSettled'
  <2>1. CASE flusher \in {"final", "gone"}
    BY <1>1, <2>1, SettledStep, ManagedMoves DEF ManagedInv
  <2>2. CASE AwaitHandlesReturns
    BY <2>2 DEF AwaitHandlesReturns, HandlesSettled, Active
  <2> QED BY <2>1, <2>2, ManagedMoves
<1>6. Emptied(promised)'
  <2>1. CASE promised' = promised
    <3>1. \A C : C \subseteq accepted /\ Emptied(C) => Emptied(C)'
      BY <1>1, EmptiedStep DEF ManagedInv
    <3> QED BY <2>1, <3>1 DEF ManagedInv, Emptied
  <2>2. CASE flusher' = "ticking"
    BY <1>3, <2>2 DEF Emptied, FlusherCallsInPlace
  <2> QED BY <2>1, <2>2, ManagedMoves
<1>7. FlusherSettled'
  <2> SUFFICES ASSUME flusher' = "gone", NEW s \in ShipmentsOf(promised')
               PROVE  delivered'[s] > 0 \/ lost'[s] # "no"
    BY DEF FlusherSettled
  <2>1. CASE op = "final" /\ FlushBlockingReturns /\ promised' = promised
    <3>1. HandlesSettled
      BY <2>1 DEF ManagedInv, FlusherCallsInPlace
    <3> QED BY <2>1, <3>1, FinalFlushSettles DEF ManagedInv
  <2>2. CASE flusher = "gone" /\ promised' = promised
    <3>1. s \in Shipment /\ (delivered[s] > 0 \/ lost[s] # "no") /\ delivered[s] \in Nat
      BY <2>2 DEF ManagedInv, FlusherSettled, ShipmentsOf, IInv, TypeOK
    <3>2. delivered'[s] >= delivered[s] /\ delivered'[s] \in Nat /\ (lost[s] # "no" => lost'[s] # "no")
      BY <1>1, <1>2, <3>1, OutcomesStay DEF ManagedInv, IInv, TypeOK
    <3> QED BY <3>1, <3>2
  <2> QED BY <2>1, <2>2, ManagedMoves
<1> QED BY <1>2, <1>3, <1>4, <1>5, <1>6, <1>7 DEF ManagedInv

\* The invariant holds in every reachable state of the three tasks.
THEOREM ManagedInvariant == ManagedSpec => []ManagedInv
BY ManagedInitInv, ManagedNextInv, PTL DEF ManagedSpec

\* When a managed instance exits, every shipment of every payload accepted before
\* the services were cancelled is delivered or given up on an explicit drop path,
\* whatever the background flusher was doing at the cancellation.
THEOREM ManagedExit == ManagedSpec => []ManagedExitSettled
<1>1. ManagedInv => ManagedExitSettled
  BY DEF ManagedInv, CancelledFirst, FlusherSettled, ManagedExitSettled
<1> QED BY <1>1, ManagedInvariant, PTL
=============================================================================
