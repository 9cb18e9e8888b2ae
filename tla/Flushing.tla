------------------------------ MODULE Flushing ------------------------------
(***************************************************************************)
(* FlushingService (flushing/service.rs, flushing/handles.rs) and the five *)
(* flushers behind it: what happens to every payload between the moment an *)
(* aggregator accepts it and the moment it is delivered or given up.       *)
(*                                                                         *)
(* A shipment is one payload for one endpoint (dual shipping).  Every call *)
(* of a flusher's flush(..) is a task; three kinds of caller create tasks: *)
(*   spawned   tokio::spawn in spawn_non_blocking, joined via a handle     *)
(*   redrive   the JoinSet of await_handles, results discarded             *)
(*   blocking  the tokio::join! of flush_blocking_inner                    *)
(* Tasks of different callers run concurrently and share the aggregators.  *)
(* The retry loop of a single request is abstracted to its outcome.        *)
(***************************************************************************)
EXTENDS Integers, FiniteSets

CONSTANTS
  Kinds,        \* the flushers in use, of the five of the code
  Payload,      \* payloads the aggregators can receive
  KindOf,       \* [Payload -> Kinds]: the flusher that ships it
  DsmPayload,   \* the proxied payloads that are Data Streams pipeline stats
  Endpoints,    \* [Kinds -> non-empty set]: where a kind is shipped to
  MaxRounds,    \* bound on spawn_non_blocking calls
  AnswersLost,  \* may a request be accepted although its answer is lost?
  KeyMayFail    \* may ApiKeyFactory::get_api_key return None?

AllKinds == {"logs", "traces", "metrics", "stats", "proxy"}

ASSUME PayloadAssumption ==
  /\ Kinds \subseteq AllKinds
  /\ KindOf \in [Payload -> Kinds]
  /\ \A k \in Kinds : Endpoints[k] # {}
  /\ DsmPayload \subseteq {p \in Payload : KindOf[p] = "proxy"}
ASSUME RoundAssumption == MaxRounds \in Nat
ASSUME SwitchAssumption == AnswersLost \in BOOLEAN /\ KeyMayFail \in BOOLEAN

Rounds == 1 .. MaxRounds
TaskIds == [caller : {"spawned", "redrive"}, kind : Kinds, round : Rounds]
             \cup [caller : {"blocking"}, kind : Kinds, round : {0}]

AllEndpoints == UNION {Endpoints[k] : k \in Kinds}
Shipment == {s \in Payload \X AllEndpoints : s[2] \in Endpoints[KindOf[s[1]]]}

\* Definitions whose name starts with Mut are plausible wrong versions of the
\* definition that follows them; the runs' properties are shown to reject them.
ShipmentsOf(P) == {s \in Shipment : s[1] \in P}

VARIABLES
  agg,        \* [Kinds -> set of payloads waiting in the kind's aggregator]
  dsm,        \* pipeline stats waiting in the DSM aggregator
  accepted,   \* history: payloads some aggregator accepted
  task,       \* [TaskIds -> state of the flush call]
  handles,    \* spawned tasks whose JoinHandle is in FlushHandles
  round,      \* spawn_non_blocking calls so far
  op,         \* the FlushingService call the owner is awaiting
  returned,   \* the kinds the last service call reported as failed
  delivered,  \* [Shipment -> number of times the intake accepted it]
  lost        \* [Shipment -> why the extension gave it up, "no" if it has not]

vars == <<agg, dsm, accepted, task, handles, round, op, returned, delivered, lost>>

Stages == {"idle", "retry", "more", "fetch", "send", "done"}
Losses == {"no", "key", "rejected", "blocking", "redrive"}
Ops == {"none", "await", "blocking", "final"}

NoTask == [stage |-> "idle", todo |-> {}, sent |-> {}, failed |-> {}]
\* A flush call retries what it is given, or starts with its aggregator; the
\* metrics flusher is always given its data.
Call(kind, retry) ==
  [NoTask EXCEPT !.stage = IF retry = {} /\ kind # "metrics" THEN "fetch" ELSE "retry",
                 !.todo = retry]

Held(t) == task[t].todo \cup task[t].sent \cup task[t].failed
Active(t) == task[t].stage \notin {"idle", "done"}

Init ==
  /\ agg = [k \in Kinds |-> {}]
  /\ dsm = {}
  /\ accepted = {}
  /\ task = [t \in TaskIds |-> NoTask]
  /\ handles = {}
  /\ round = 0
  /\ op = "none"
  /\ returned = {}
  /\ delivered = [s \in Shipment |-> 0]
  /\ lost = [s \in Shipment |-> "no"]

Lose(S, why) == lost' = [s \in Shipment |-> IF s \in S THEN why ELSE lost[s]]

-----------------------------------------------------------------------------
(* Producers *)

\* An aggregator receives a payload (log batch entry, trace, metric, stats
\* bucket, proxied request).
Accept(p) ==
  /\ p \notin accepted \cup DsmPayload
  /\ accepted' = accepted \cup {p}
  /\ agg' = [agg EXCEPT ![KindOf[p]] = @ \cup {p}]
  /\ UNCHANGED <<dsm, task, handles, round, op, returned, delivered, lost>>

\* DsmProcessor::record_consume.  All checkpoints recorded between two drains
\* end up in one payload; p is that payload.
RecordConsume(p) ==
  /\ p \in DsmPayload \ accepted
  /\ dsm = {}
  /\ accepted' = accepted \cup {p}
  /\ dsm' = {p}
  /\ UNCHANGED <<agg, task, handles, round, op, returned, delivered, lost>>

-----------------------------------------------------------------------------
(* The flushers: one task t runs flush(retry) *)

\* Traces and proxy resolve the API key before anything else; without one
\* they clear the aggregator and forget what they were asked to retry.
BeginWithoutKey(t) ==
  /\ KeyMayFail
  /\ \/ task[t].stage = "fetch"
     \/ task[t].stage = "retry" /\ task[t].sent \cup task[t].failed = {}
  /\ t.kind \in {"traces", "proxy"}
  /\ Lose(task[t].todo \cup ShipmentsOf(agg[t.kind]), "key")
  /\ agg' = [agg EXCEPT ![t.kind] = {}]
  /\ task' = [task EXCEPT ![t] = [NoTask EXCEPT !.stage = "done"]]
  /\ UNCHANGED <<accepted, dsm, handles, round, op, returned, delivered>>

\* get_batches empties the aggregator.  The stats concentrator keeps recent
\* buckets back unless this is the forced flush of the shutdown.
Fetched(t) ==
  IF t.kind = "stats" /\ ~(t.caller = "blocking" /\ op = "final")
    THEN SUBSET agg[t.kind]
    ELSE {agg[t.kind]}

\* Each logs endpoint resolves its own key after the batches left the
\* aggregator: what is meant for an endpoint without one is dropped.
Fetch(t) ==
  /\ task[t].stage \in {"fetch", "more"}
  /\ \E P \in Fetched(t), keyless \in SUBSET Endpoints[t.kind] :
       /\ keyless # {} => KeyMayFail /\ t.kind = "logs"
       /\ agg' = [agg EXCEPT ![t.kind] = @ \ P]
       /\ LET S == ShipmentsOf(P)
              K == {s \in S : s[2] \in keyless}
          IN  /\ task' = [task EXCEPT ![t].stage = "send", ![t].todo = S \ K, ![t].sent = {}]
              /\ Lose(K, "key")
  /\ UNCHANGED <<accepted, dsm, handles, round, op, returned, delivered>>

Sending(t) == task[t].stage \in {"retry", "send"} /\ task[t].todo # {}

\* What goes into one request: a batch of stats, otherwise one shipment.
Requests(t) ==
  IF t.kind # "stats" THEN {{s} : s \in task[t].todo}
  ELSE IF task[t].stage = "retry" THEN {task[t].todo}
  ELSE SUBSET task[t].todo \ {{}}

Deliver(t) ==
  /\ Sending(t)
  /\ \E G \in Requests(t) :
       /\ task' = [task EXCEPT ![t].todo = @ \ G, ![t].sent = @ \cup G]
       /\ delivered' = [s \in Shipment |-> delivered[s] + IF s \in G THEN 1 ELSE 0]
  /\ UNCHANGED <<agg, accepted, dsm, handles, round, op, returned, lost>>

\* The intake refuses the request for good (403 for logs, a non-retriable
\* status for stats), the metrics library gives it up, or the stats flusher
\* has no API key: the flusher drops it and reports success.
Reject(t) ==
  /\ Sending(t)
  /\ t.kind \in {"logs", "stats", "metrics"}
  /\ \E G \in Requests(t) :
       /\ task' = [task EXCEPT ![t].todo = @ \ G]
       /\ Lose(G, "rejected")
  /\ UNCHANGED <<agg, accepted, dsm, handles, round, op, returned, delivered>>

MutHandBackWhole(t, G) == {task[t].todo \cup task[t].sent}

\* The shipments a flusher hands back when the request for G fails: send_traces
\* stops at the first failure and returns the whole batch it was working on,
\* the part it already sent included.  A retried batch is everything retried.
HandedBack(t, G) ==
  IF t.kind # "traces" THEN {G}
  ELSE IF task[t].stage = "retry" THEN {task[t].todo \cup task[t].sent}
  ELSE {B \in SUBSET {s \in task[t].todo \cup task[t].sent : \E g \in G : g[2] = s[2]} : G \subseteq B}

\* All FLUSH_RETRY_COUNT attempts failed.  An attempt that timed out may have
\* been accepted nevertheless.
Exhaust(t) ==
  /\ Sending(t)
  /\ \E G \in Requests(t), reached \in BOOLEAN :
       /\ reached => AnswersLost
       /\ delivered' = [s \in Shipment |-> delivered[s] + IF reached /\ s \in G THEN 1 ELSE 0]
       /\ \E B \in HandedBack(t, G) :
            task' = [task EXCEPT ![t].todo = @ \ B, ![t].sent = @ \ B, ![t].failed = @ \cup B]
  /\ UNCHANGED <<agg, accepted, dsm, handles, round, op, returned, lost>>

\* After a retry, traces go on to the aggregator only if it succeeded, stats
\* always, the others never.
AfterRetry(t) ==
  IF t.kind = "stats" \/ (t.kind = "traces" /\ task[t].failed = {}) THEN "more" ELSE "done"

\* The call returns.  The JoinSet of await_handles discards the result, so
\* what a redrive could not send is gone.
Finish(t) ==
  /\ task[t].stage \in {"retry", "send"} /\ task[t].todo = {}
  /\ LET next == IF task[t].stage = "retry" THEN AfterRetry(t) ELSE "done"
         discard == next = "done" /\ t.caller = "redrive"
     IN  /\ task' = [task EXCEPT ![t].stage = next, ![t].sent = {},
                                 ![t].failed = IF discard THEN {} ELSE @]
         /\ Lose(IF discard THEN task[t].failed ELSE {}, "redrive")
  /\ UNCHANGED <<agg, accepted, dsm, handles, round, op, returned, delivered>>

FlusherStep(t) ==
  \/ BeginWithoutKey(t) \/ Fetch(t)
  \/ Deliver(t) \/ Reject(t) \/ Exhaust(t) \/ Finish(t)

-----------------------------------------------------------------------------
(* FlushingService, called by one owner at a time *)

\* FlushHandles::has_pending
HasPending == \E h \in handles : Active(h)

MutDsmNotDrained(ids) ==
  /\ task' = [t \in TaskIds |->
       IF t \notin ids THEN task[t]
       ELSE Call(t.kind, IF t.kind = "metrics" THEN ShipmentsOf(agg[t.kind]) ELSE {})]
  /\ agg' = [k \in Kinds |-> IF k = "metrics" THEN {} ELSE agg[k]]
  /\ UNCHANGED dsm

\* The service itself takes the metrics from their aggregator and drains the
\* DSM aggregator into the proxy's (drain_into_proxy).  Both are awaited: what other
\* tasks do in between (accept a payload of another kind, flush the spawned calls)
\* touches nothing that the rest of this step reads, so it commutes to before or
\* after it.  Left out: the metrics aggregator's task being gone, on which
\* flush_blocking_inner goes on with no metrics and reports them as undelivered.
StartCalls(ids) ==
  /\ task' = [t \in TaskIds |->
       IF t \notin ids THEN task[t]
       ELSE Call(t.kind, IF t.kind = "metrics" THEN ShipmentsOf(agg[t.kind]) ELSE {})]
  /\ agg' = [k \in Kinds |-> IF k = "metrics" THEN {}
                             ELSE IF k = "proxy" THEN agg[k] \cup dsm ELSE agg[k]]
  /\ dsm' = {}

\* spawn_non_blocking, which both owners call only when nothing is pending.
SpawnNonBlocking ==
  /\ op = "none" /\ round < MaxRounds
  /\ ~HasPending
  /\ LET ids == {t \in TaskIds : t.caller = "spawned" /\ t.round = round + 1}
     IN  /\ StartCalls(ids)
         /\ handles' = handles \cup ids
  /\ round' = round + 1
  /\ UNCHANGED <<accepted, op, returned, delivered, lost>>

FlushBlocking(kind_of_flush) ==
  /\ op = "none"
  /\ op' = kind_of_flush
  /\ StartCalls({t \in TaskIds : t.caller = "blocking"})
  /\ UNCHANGED <<accepted, handles, round, returned, delivered, lost>>

MutBlockingDropsHandles ==
  /\ op \in {"blocking", "final"}
  /\ \A t \in TaskIds : t.caller = "blocking" => task[t].stage = "done"
  /\ op' = "none"
  /\ returned' = {}
  /\ task' = [t \in TaskIds |-> IF Active(t) THEN task[t] ELSE NoTask]
  /\ handles' = {h \in handles : Active(h)}
  /\ UNCHANGED <<agg, accepted, dsm, round, delivered, lost>>

MutBlockingWaitsForSuccess ==
  /\ op \in {"blocking", "final"}
  /\ \A t \in TaskIds : t.caller = "blocking" => task[t].stage = "done" /\ task[t].failed = {}
  /\ op' = "none"
  /\ returned' = {}
  /\ task' = [t \in TaskIds |-> IF t.caller = "blocking" THEN NoTask ELSE task[t]]
  /\ UNCHANGED <<agg, accepted, dsm, handles, round, delivered, lost>>

\* join! returns once all five are done; undelivered payloads are dropped and
\* only the return value tells.
FlushBlockingReturns ==
  /\ op \in {"blocking", "final"}
  /\ LET ids == {t \in TaskIds : t.caller = "blocking"}
         undelivered == UNION {task[t].failed : t \in ids}
     IN  /\ \A t \in ids : task[t].stage = "done"
         /\ returned' = {t.kind : t \in {i \in ids : task[i].failed # {}}}
         /\ Lose(undelivered, "blocking")
         /\ task' = [t \in TaskIds |-> IF t \in ids THEN NoTask ELSE task[t]]
  /\ op' = "none"
  /\ UNCHANGED <<agg, accepted, dsm, handles, round, delivered>>

AwaitHandles ==
  /\ op = "none"
  /\ op' = "await"
  /\ UNCHANGED <<agg, accepted, dsm, task, handles, round, returned, delivered, lost>>

\* await_handles drains the handle vectors in this order.
AwaitRank == [stats |-> 1, traces |-> 2, logs |-> 3, metrics |-> 4, proxy |-> 5]
NextHandle(h) ==
  \A g \in handles :
    g = h \/ AwaitRank[h.kind] < AwaitRank[g.kind] \/ (h.kind = g.kind /\ h.round < g.round)

MutJoinAndForget(h) ==
  /\ op = "await"
  /\ h \in handles /\ NextHandle(h)
  /\ task[h].stage = "done"
  /\ handles' = handles \ {h}
  /\ task' = [task EXCEPT ![h] = NoTask]
  /\ UNCHANGED <<agg, accepted, dsm, round, op, returned, delivered, lost>>

\* One handle is joined and what it handed back is redriven concurrently; the
\* proxy flusher is called even with nothing to redrive.
JoinHandle(h) ==
  /\ op = "await"
  /\ h \in handles /\ NextHandle(h)
  /\ task[h].stage = "done"
  /\ handles' = handles \ {h}
  /\ LET r == [h EXCEPT !.caller = "redrive"]
         retry == task[h].failed
     IN  task' = [task EXCEPT
           ![h] = NoTask,
           ![r] = IF retry # {} \/ h.kind = "proxy" THEN Call(h.kind, retry) ELSE @]
  /\ UNCHANGED <<agg, accepted, dsm, round, op, returned, delivered, lost>>

\* Only a JoinError (a panic, which aborts the process) makes it return true.
AwaitHandlesReturns ==
  /\ op = "await"
  /\ handles = {}
  /\ \A t \in TaskIds : t.caller = "redrive" => ~Active(t)
  /\ op' = "none"
  /\ returned' = {}
  /\ UNCHANGED <<agg, accepted, dsm, task, handles, round, delivered, lost>>

ServiceReturns == FlushBlockingReturns \/ AwaitHandlesReturns \/ \E h \in handles : JoinHandle(h)

Next ==
  \/ \E p \in Payload : Accept(p) \/ RecordConsume(p)
  \/ \E t \in TaskIds : FlusherStep(t)
  \/ SpawnNonBlocking
  \/ \E f \in {"blocking", "final"} : FlushBlocking(f)
  \/ AwaitHandles
  \/ ServiceReturns

Spec == Init /\ [][Next]_vars

-----------------------------------------------------------------------------
(* Properties *)

\* Type correctness of the service, its tasks and the outcome of shipments.
TypeOK ==
  /\ agg \in [Kinds -> SUBSET Payload]
  /\ accepted \subseteq Payload
  /\ dsm \subseteq DsmPayload
  /\ task \in [TaskIds -> [stage : Stages, todo : SUBSET Shipment,
                           sent : SUBSET Shipment, failed : SUBSET Shipment]]
  /\ handles \subseteq TaskIds
  /\ round \in 0 .. MaxRounds
  /\ op \in Ops
  /\ returned \subseteq Kinds
  /\ delivered \in [Shipment -> Nat]
  /\ lost \in [Shipment -> Losses]

\* The payloads of a kind that nobody has taken for shipping yet.
Waiting(k) == IF k = "proxy" THEN agg[k] \cup dsm ELSE agg[k]

\* Concurrent flush calls (a spawned round, redrives and a blocking flush) work
\* on disjoint shipments, and a payload still in its aggregator is in nobody's
\* hands and has no outcome yet: what stats_flusher.rs relies on when it sends
\* without the aggregator lock ("get_batch hands each caller a disjoint batch").
DisjointHands ==
  /\ \A t1, t2 \in TaskIds : t1 # t2 => Held(t1) \cap Held(t2) = {}
  /\ \A k \in Kinds : \A s \in ShipmentsOf(Waiting(k)) :
       /\ \A t \in TaskIds : s \notin Held(t)
       /\ delivered[s] = 0 /\ lost[s] = "no"

\* No shipment of an accepted payload ever vanishes: it waits in the
\* aggregator, some flush call or handle holds it, the intake has it, or one of
\* the code's explicit drop paths gave it up.
NothingVanishes ==
  \A s \in ShipmentsOf(accepted) :
    \/ s[1] \in Waiting(KindOf[s[1]])
    \/ \E t \in TaskIds : s \in Held(t)
    \/ delivered[s] > 0
    \/ lost[s] # "no"

\* If no answer of the intake is lost, then except for traces (whose batches
\* are retried whole) nothing is delivered twice and nothing delivered is ever
\* retried or given up as lost.
NoDuplicates ==
  ~AnswersLost =>
    \A s \in Shipment : (KindOf[s[1]] # "traces" /\ delivered[s] > 0) =>
      /\ delivered[s] = 1
      /\ lost[s] = "no"
      /\ \A t \in TaskIds : s \notin task[t].todo \cup task[t].failed

\* A shipment given up is never sent, held or retried again.
LostForGood ==
  \A s \in Shipment : lost[s] # "no" => \A t \in TaskIds : s \notin Held(t)

\* A shipment that a non-blocking flush could not send is given up only by a
\* redrive of await_handles that also failed, or dropped without an API key:
\* blocking flushes never touch what a handle still holds.
RetriesSurviveBlockingFlush ==
  [][\A h \in handles : task[h].stage = "done" =>
       \A s \in task[h].failed : s \in task'[h].failed \/ (op = "await" /\ h \notin handles')]_vars

\* At most one round of spawned flush tasks runs at a time ("Only spawn new
\* flush if no pending flushes to prevent resource buildup", main.rs).
OneRoundAtATime ==
  \A g, h \in handles : (Active(g) /\ Active(h)) => g.round = h.round
=============================================================================
