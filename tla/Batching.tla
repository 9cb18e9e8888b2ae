------------------------------ MODULE Batching ------------------------------
(***************************************************************************)
(* How queued payloads are cut into batches: get_batch of                  *)
(* logs/aggregator.rs, traces/trace_aggregator.rs and                      *)
(* traces/stats_aggregator.rs, and the services and flusher that call it.  *)
(* A payload is its arrival number and its size in bytes; a behaviour is   *)
(* that of one of the three aggregators.                                   *)
(***************************************************************************)
EXTENDS Integers, Sequences, SequencesExt

CONSTANTS
  Kinds,         \* aggregators to consider
  MaxContent,    \* max_content_size_bytes
  MaxEntries,    \* max_batch_entries_size (logs only)
  Sizes,         \* sizes of payloads
  ShallowSize,   \* size_of_val(&payload): the stats payload without its heap data
  MaxPayloads    \* bound on payloads

ASSUME KindAssumption == Kinds \subseteq {"logs", "traces", "stats"}
ASSUME LimitAssumption == MaxContent \in Nat \ {0} /\ MaxEntries \in Nat \ {0}
ASSUME SizeAssumption == Sizes \subseteq Nat /\ ShallowSize \in Nat \ {0} /\ MaxPayloads \in Nat

VARIABLES
  kind,       \* "logs", "traces" or "stats"
  queue,      \* messages / queue, oldest first
  inserted,   \* payloads added so far
  taken,      \* history: the batches handed to the flusher
  cleared,    \* history: payloads dropped by Clear
  last,       \* what the aggregator did last
  open        \* the service has not been shut down

vars == <<kind, queue, inserted, taken, cleared, last, open>>

Init ==
  /\ kind \in Kinds
  /\ queue = <<>> /\ inserted = 0
  /\ taken = <<>> /\ cleared = {}
  /\ last = "new" /\ open = TRUE

\* What get_batch takes a payload to weigh.
Measured(p) == IF kind = "stats" THEN ShallowSize ELSE p.size

\* Definitions whose name starts with Mut are plausible wrong versions of the
\* definition that follows them; the runs' properties are shown to reject them.

\* The fill of the batch after the k payloads of q that follow position i: the
\* logs buffer starts with "[" and adds a "," to every entry.
Filled(q, i) ==
  LET fill[k \in 0 .. Len(q) - i] ==
        IF k = 0 THEN IF kind = "logs" THEN 1 ELSE 0
        ELSE fill[k - 1] + Measured(q[i + k]) + IF kind = "logs" THEN 1 ELSE 0
  IN  fill

\* Does the k-th of these payloads go into the batch?
Fits(q, i, k) ==
  LET before == Filled(q, i)[k - 1]
  IN  /\ before + Measured(q[i + k]) <= MaxContent
      /\ IF kind = "logs" THEN k <= MaxEntries ELSE before < MaxContent

\* get_batch: how many payloads after position i make the next batch.  A trace
\* payload too large for any batch is sent alone; a log or stats payload is put
\* back.
BatchLen(q, i) ==
  LET fitting == CHOOSE n \in 0 .. Len(q) - i :
                   /\ \A k \in 1 .. n : Fits(q, i, k)
                   /\ n = Len(q) - i \/ ~Fits(q, i, n + 1)
  IN  IF fitting = 0 /\ kind = "traces" /\ i < Len(q) THEN 1 ELSE fitting

MutPutBackForgotten(q) ==
  LET from[i \in 0 .. Len(q)] ==
        LET n == BatchLen(q, i)
        IN  IF n = 0 THEN <<>>
            ELSE <<SubSeq(q, i + 1, i + n)>> \o from[IF i + n < Len(q) THEN i + n + 1 ELSE i + n]
  IN  from[0]

\* The loop of get_batches: batches until one comes out empty.
Batches(q) ==
  LET from[i \in 0 .. Len(q)] ==
        LET n == BatchLen(q, i)
        IN  IF n = 0 THEN <<>> ELSE <<SubSeq(q, i + 1, i + n)>> \o from[i + n]
  IN  from[0]

\* What stays queued once these batches were taken.
Rest(batches) == SubSeq(queue, Len(FlattenSeq(batches)) + 1, Len(queue))

-----------------------------------------------------------------------------
\* add / add_batch, and for stats what the concentrator hands out.
Insert ==
  /\ open /\ inserted < MaxPayloads
  /\ \E s \in Sizes : queue' = Append(queue, [n |-> inserted + 1, size |-> s])
  /\ inserted' = inserted + 1
  /\ last' = "insert"
  /\ UNCHANGED <<kind, taken, cleared, open>>

\* The services take all batches in one command, the stats flusher under one
\* lock of the aggregator.
GetBatches ==
  /\ open
  /\ LET batches == Batches(queue)
     IN  /\ taken' = taken \o batches
         /\ queue' = Rest(batches)
  /\ last' = "get"
  /\ UNCHANGED <<kind, inserted, cleared, open>>

\* Only the trace aggregator can be cleared.
Clear ==
  /\ open /\ kind = "traces"
  /\ cleared' = cleared \cup {queue[j].n : j \in DOMAIN queue}
  /\ queue' = <<>>
  /\ last' = "clear"
  /\ UNCHANGED <<kind, inserted, taken, open>>

\* The stats aggregator is not a service and is never shut down.
Shutdown ==
  /\ open /\ kind # "stats"
  /\ open' = FALSE
  /\ last' = "shutdown"
  /\ UNCHANGED <<kind, queue, inserted, taken, cleared>>

Next == Insert \/ GetBatches \/ Clear \/ Shutdown

Spec == Init /\ [][Next]_vars

-----------------------------------------------------------------------------
(* Properties *)

\* Every payload is in exactly one place (a batch, the queue, or cleared), and
\* batches and queue together keep the order of arrival: putting a payload back
\* to end a batch neither loses, repeats nor overtakes one.
EachPayloadOnceInOrder ==
  LET all == FlattenSeq(taken) \o queue
  IN  /\ \A j, k \in DOMAIN all : j < k => all[j].n < all[k].n
      /\ {all[j].n : j \in DOMAIN all} \cup cleared = 1 .. inserted
      /\ {all[j].n : j \in DOMAIN all} \cap cleared = {}

=============================================================================
