-------------------------- MODULE RuntimeProxyProofs --------------------------
(***************************************************************************)
(* What becomes of the traces that App & API Protection holds back         *)
(* (RuntimeProxy, AppSec), for any requests and traces and any capacities  *)
(* of the context buffer and the channel.                                  *)
(***************************************************************************)
EXTENDS RuntimeProxy, TLAPS

-----------------------------------------------------------------------------
(* Sequences without duplicates, seen as sets *)

Elems(q) == {q[i] : i \in DOMAIN q}
NoDup(q) == \A i, j \in DOMAIN q : q[i] = q[j] => i = j
Distinct(S, q) == q \in Seq(S) /\ NoDup(q)

\* Append adds its element.
LEMMA AppendElems ==
  ASSUME NEW S, NEW q \in Seq(S), NEW m \in S
  PROVE  /\ Append(q, m) \in Seq(S)
         /\ Elems(Append(q, m)) = Elems(q) \cup {m}
         /\ NoDup(q) /\ m \notin Elems(q) => NoDup(Append(q, m))
<1> DEFINE r == Append(q, m)
<1>1. /\ r \in Seq(S) /\ Len(q) \in Nat /\ DOMAIN q = 1 .. Len(q) /\ DOMAIN r = 1 .. Len(q) + 1
      /\ \A i \in DOMAIN q : r[i] = q[i]
      /\ r[Len(q) + 1] = m
  OBVIOUS
<1> HIDE DEF r
<1>2. \A i \in DOMAIN r : (i \in DOMAIN q /\ r[i] = q[i]) \/ (i = Len(q) + 1 /\ r[i] = m)
  BY <1>1
<1>3. DOMAIN q \subseteq DOMAIN r /\ Len(q) + 1 \in DOMAIN r
  BY <1>1
<1>4. Elems(r) = Elems(q) \cup {m}
  BY <1>1, <1>2, <1>3 DEF Elems
<1>5. NoDup(q) /\ m \notin Elems(q) => NoDup(r)
  BY <1>2 DEF NoDup, Elems
<1> QED BY <1>1, <1>4, <1>5 DEF r

\* Tail removes the head, where it occurs once.
LEMMA TailElems ==
  ASSUME NEW S, NEW q, Distinct(S, q), q # <<>>
  PROVE  /\ Distinct(S, Tail(q)) /\ Head(q) \in Elems(q) /\ Head(q) \in S
         /\ Elems(Tail(q)) = Elems(q) \ {Head(q)}
<1> DEFINE r == Tail(q)
<1>1. /\ r \in Seq(S) /\ Len(q) \in Nat /\ Len(q) > 0 /\ DOMAIN q = 1 .. Len(q)
      /\ DOMAIN r = 1 .. Len(q) - 1 /\ Head(q) = q[1] /\ Head(q) \in S
      /\ \A i \in DOMAIN r : r[i] = q[i + 1]
  BY DEF Distinct
<1> HIDE DEF r
<1>2. \A i \in DOMAIN r : i + 1 \in DOMAIN q /\ i + 1 # 1
  BY <1>1
<1>3. \A i \in DOMAIN q : i = 1 \/ (i - 1 \in DOMAIN r /\ r[i - 1] = q[i])
  BY <1>1
<1>4. 1 \in DOMAIN q
  BY <1>1
<1>5. NoDup(q)
  BY DEF Distinct
<1>6. NoDup(r)
  <2> SUFFICES ASSUME NEW i \in DOMAIN r, NEW j \in DOMAIN r, r[i] = r[j] PROVE i = j
    BY DEF NoDup
  <2>1. i + 1 = j + 1
    BY <1>1, <1>2, <1>5 DEF NoDup
  <2> QED BY <1>1, <2>1
<1>7. ASSUME NEW i \in DOMAIN r PROVE r[i] \in Elems(q) /\ r[i] # q[1]
  BY <1>1, <1>2, <1>4, <1>5 DEF NoDup, Elems
<1>8. Elems(r) = Elems(q) \ {q[1]}
  <2>1. \A x \in Elems(r) : x \in Elems(q) /\ x # q[1]
    BY <1>7 DEF Elems
  <2>2. \A x \in Elems(q) : x # q[1] => x \in Elems(r)
    BY <1>3 DEF Elems
  <2> QED BY <2>1, <2>2
<1> QED BY <1>1, <1>4, <1>6, <1>8 DEF r, Elems, Distinct

\* RemoveAt removes an element, where it occurs once.
LEMMA RemoveElems ==
  ASSUME NEW S, NEW q, Distinct(S, q), NEW k \in DOMAIN q
  PROVE  Distinct(S, RemoveAt(q, k)) /\ Elems(RemoveAt(q, k)) = Elems(q) \ {q[k]}
<1> DEFINE a == SubSeq(q, 1, k - 1)
           b == SubSeq(q, k + 1, Len(q))
           r == RemoveAt(q, k)
<1>1. q \in Seq(S) /\ NoDup(q) /\ Len(q) \in Nat /\ DOMAIN q = 1 .. Len(q) /\ k \in Nat
  BY DEF Distinct
<1>2. a \in Seq(S) /\ Len(a) = k - 1 /\ \A i \in 1 .. k - 1 : a[i] = q[i]
  BY <1>1
<1>3. b \in Seq(S) /\ Len(b) = Len(q) - k /\ \A i \in 1 .. Len(q) - k : b[i] = q[k + i]
  BY <1>1
<1>4. r = a \o b
  BY DEF RemoveAt
<1> HIDE DEF a, b, r
<1>5. /\ r \in Seq(S) /\ DOMAIN r = 1 .. Len(q) - 1
      /\ \A i \in 1 .. Len(q) - 1 : r[i] = IF i < k THEN q[i] ELSE q[i + 1]
  <2>1. r \in Seq(S) /\ Len(r) = Len(q) - 1
    <3>1. a \in Seq(S) /\ b \in Seq(S)
      BY <1>2, <1>3
    <3>2. a \o b \in Seq(S)
      BY <3>1
    <3>3. Len(a \o b) = Len(a) + Len(b)
      BY <3>1
    <3> QED BY <1>1, <1>2, <1>3, <1>4, <3>2, <3>3
  <2>2. \A i \in 1 .. Len(q) - 1 : r[i] = IF i <= k - 1 THEN a[i] ELSE b[i - (k - 1)]
    BY <1>1, <1>2, <1>3, <1>4
  <2>3. ASSUME NEW i \in 1 .. Len(q) - 1 PROVE r[i] = IF i < k THEN q[i] ELSE q[i + 1]
    <3>1. CASE i < k
      BY <1>1, <1>2, <2>2, <3>1
    <3>2. CASE i >= k
      <4>1. i - (k - 1) \in 1 .. Len(q) - k /\ k + (i - (k - 1)) = i + 1
        BY <1>1, <3>2
      <4>2. b[i - (k - 1)] = q[i + 1]
        BY <1>3, <4>1
      <4> QED BY <1>1, <2>2, <3>2, <4>2
    <3> QED BY <1>1, <3>1, <3>2
  <2> QED BY <2>1, <2>3
<1>6. \A i \in DOMAIN q : i = k \/ \E j \in DOMAIN r : r[j] = q[i]
  <2> SUFFICES ASSUME NEW i \in DOMAIN q, i # k PROVE \E j \in DOMAIN r : r[j] = q[i]
    OBVIOUS
  <2>1. CASE i < k
    BY <1>1, <1>5, <2>1
  <2>2. CASE i > k
    <3>1. i - 1 \in DOMAIN r /\ r[i - 1] = q[i]
      BY <1>1, <1>5, <2>2
    <3> QED BY <3>1
  <2> QED BY <1>1, <2>1, <2>2
<1>7. \A i \in DOMAIN r : \E j \in DOMAIN q : j # k /\ r[i] = q[j]
  <2> SUFFICES ASSUME NEW i \in DOMAIN r PROVE \E j \in DOMAIN q : j # k /\ r[i] = q[j]
    OBVIOUS
  <2>1. CASE i < k
    BY <1>1, <1>5, <2>1
  <2>2. CASE i >= k
    <3>1. i + 1 \in DOMAIN q /\ i + 1 # k /\ r[i] = q[i + 1]
      BY <1>1, <1>5, <2>2
    <3> QED BY <3>1
  <2> QED BY <1>1, <1>5, <2>1, <2>2
<1>8. Elems(r) = Elems(q) \ {q[k]}
  <2>1. \A x \in Elems(r) : x \in Elems(q) /\ x # q[k]
    BY <1>1, <1>7 DEF Elems, NoDup
  <2>2. \A x \in Elems(q) : x # q[k] => x \in Elems(r)
    BY <1>6 DEF Elems
  <2> QED BY <2>1, <2>2
<1>9. NoDup(r)
  <2> SUFFICES ASSUME NEW i \in DOMAIN r, NEW j \in DOMAIN r, r[i] = r[j] PROVE i = j
    BY DEF NoDup
  <2> DEFINE at(n) == IF n < k THEN n ELSE n + 1
  <2>1. at(i) \in DOMAIN q /\ at(j) \in DOMAIN q /\ r[i] = q[at(i)] /\ r[j] = q[at(j)]
    BY <1>1, <1>5
  <2>2. at(i) = at(j)
    <3> HIDE DEF at
    <3> QED BY <1>1, <2>1 DEF NoDup
  <2> QED BY <1>1, <1>5, <2>2
<1> QED BY <1>5, <1>8, <1>9 DEF Distinct, r

\* RemoveFirst removes an element, if it is there.
LEMMA LeavesQueue ==
  ASSUME NEW S, NEW q, Distinct(S, q), NEW w
  PROVE  Distinct(S, RemoveFirst(q, w)) /\ Elems(RemoveFirst(q, w)) = Elems(q) \ {w}
<1>1. q \in Seq(S) /\ NoDup(q) /\ Len(q) \in Nat /\ DOMAIN q = 1 .. Len(q)
  BY DEF Distinct
<1>2. CASE w \in Elems(q)
  <2>1. PICK k \in DOMAIN q : q[k] = w
    BY <1>2 DEF Elems
  <2>2. {i \in 1 .. Len(q) : q[i] = w} = {k}
    BY <1>1, <2>1 DEF NoDup
  <2>3. Min({k}) = k
    BY <1>1, <2>1 DEF Min
  <2>4. RemoveFirst(q, w) = RemoveAt(q, k)
    BY <1>1, <2>1, <2>2, <2>3 DEF RemoveFirst, SelectInSeq
  <2> QED BY <2>1, <2>4, RemoveElems
<1>3. CASE w \notin Elems(q)
  BY <1>1, <1>3 DEF RemoveFirst, Elems
<1> QED BY <1>2, <1>3

\* Assignment at a position replaces an element, where it occurs once.
LEMMA ReplaceElems ==
  ASSUME NEW S, NEW q, Distinct(S, q), NEW k \in DOMAIN q, NEW m \in S
  PROVE  /\ [q EXCEPT ![k] = m] \in Seq(S)
         /\ Elems([q EXCEPT ![k] = m]) = (Elems(q) \ {q[k]}) \cup {m}
         /\ m \notin Elems(q) \ {q[k]} => NoDup([q EXCEPT ![k] = m])
<1> DEFINE r == [q EXCEPT ![k] = m]
<1>1. q \in Seq(S) /\ NoDup(q)
  BY DEF Distinct
<1>2. r \in Seq(S) /\ DOMAIN r = DOMAIN q /\ r[k] = m /\ \A i \in DOMAIN q : i # k => r[i] = q[i]
  BY <1>1
<1> HIDE DEF r
<1>3. Elems(r) = (Elems(q) \ {q[k]}) \cup {m}
  BY <1>1, <1>2 DEF Elems, NoDup
<1>4. m \notin Elems(q) \ {q[k]} => NoDup(r)
  BY <1>1, <1>2 DEF Elems, NoDup
<1> QED BY <1>2, <1>3, <1>4 DEF r

-----------------------------------------------------------------------------
(* The inductive invariant *)

Learnable == {"request", "response", "schema"}
Budgets == {0} \cup {s.budget : s \in Setups}
Contexts == [rid : Requests, known : BOOLEAN, budget : Budgets, tags : SUBSET Learnable,
             seen : BOOLEAN, held : Traces \cup {NoTrace}]
Outgoing == [trace : Traces, tags : SUBSET Learnable, context : BOOLEAN]
Waiters == ({"trace"} \X Traces) \cup ({"next", "response", "error"} \X Requests)
Stages == {"idle", "next_lock", "next_body", "running", "response_lock", "response_body",
           "response_sent", "error_mutex", "error_sent", "done", "failed"}

Types ==
  /\ setup \in Setups
  /\ runtime \in [Requests -> Stages]
  /\ mutex \in Seq(Waiters) /\ contexts \in Seq(Contexts) /\ channel \in Seq(Outgoing)
  /\ posted \in [Traces -> {"new", "waiting", "send", "accepted", "dropped"}]
  /\ outbox \in [Traces -> Seq(Outgoing)] /\ store \in [Traces -> Seq(Outgoing)]
  /\ learned \in [Requests -> SUBSET Learnable]

\* One context per request; a context whose response was seen holds nothing.
OneContextEach(ctxs) ==
  /\ Distinct(Contexts, ctxs)
  /\ \A x, y \in Elems(ctxs) : x.rid = y.rid => x = y
  /\ \A x \in Elems(ctxs) : x.seen => x.held = NoTrace

\* Nobody waits for the AppSec mutex twice.
Waits(kind, x) == <<kind, x>> \in Elems(mutex)
MutexOnce ==
  /\ NoDup(mutex)
  /\ \A t \in Traces : Waits("trace", t) => posted[t] = "waiting"

\* A trace is held for its own request, by a call that was answered.
HeldForItsRequest ==
  \A x \in Elems(contexts) : x.held # NoTrace => x.rid = RidOf[x.held] /\ posted[x.held] = "accepted"

\* Where a trace can be.
OnChannel(t) == \E e \in Elems(channel) : e.trace = t
Stored(t) == store[t] # <<>>
HeldBack(t) == \E x \in Elems(contexts) : x.held = t
Nowhere(t) == ~OnChannel(t) /\ ~Stored(t) /\ ~HeldBack(t)
ChannelOnce ==
  NoDup(channel) /\ \A e, f \in Elems(channel) : e.trace = f.trace => e = f

\* Until it is accepted a trace is with the call that posted it; then it is in
\* at most one place, and in none only if a trace of the same request took its.
\* One that was dropped is nowhere.
Followed(t) ==
  /\ posted[t] \in {"new", "waiting", "dropped"} => outbox[t] = <<>> /\ Nowhere(t)
  /\ posted[t] = "send" => Nowhere(t) /\ \E e \in Outgoing : outbox[t] = <<e>> /\ e.trace = t
  /\ posted[t] = "accepted" =>
       /\ outbox[t] = <<>> /\ Len(store[t]) <= 1
       /\ ~(OnChannel(t) /\ Stored(t)) /\ ~(OnChannel(t) /\ HeldBack(t)) /\ ~(Stored(t) /\ HeldBack(t))
       /\ Nowhere(t) => \E u \in SameRequest(t) : posted[u] \in {"accepted", "dropped"}

PlaceInv ==
  /\ Types /\ OneContextEach(contexts) /\ MutexOnce /\ HeldForItsRequest /\ ChannelOnce
  /\ \A t \in Traces : Followed(t)

\* The analysis of a request starts once, and so does that of its response.
\* Final(r): that of the response is over, or will not come.
Started(r) == runtime[r] \notin {"idle", "next_lock", "next_body"}
Final(r) ==
  /\ runtime[r] \in {"response_sent", "error_sent", "done", "failed"}
  /\ ~Waits("response", r) /\ ~Waits("error", r)
AnalysedOnce(r) ==
  /\ Waits("next", r) => Started(r)
  /\ Waits("next", r) \/ ~Started(r) => ~Has(contexts, r)
  /\ Waits("response", r) => runtime[r] \in {"response_sent", "done"}
  /\ Waits("error", r) => runtime[r] = "error_mutex"

\* A context whose response was seen has learned all that is learned.
SeenHasLearned ==
  \A x \in Elems(contexts) : x.seen => Final(x.rid) /\ x.tags = learned[x.rid]

\* What leaves by a context leaves with all that is learned of its request.
Complete(t, e) ==
  e.context /\ RidOf[t] \notin evicted =>
    RidOf[t] \in Requests /\ Final(RidOf[t]) /\ e.tags = learned[RidOf[t]]
AllComplete ==
  /\ \A e \in Elems(channel) : Complete(e.trace, e)
  /\ \A t \in Traces : \A e \in Elems(outbox[t]) \cup Elems(store[t]) : Complete(t, e)

TagInv ==
  /\ \A r \in Requests : AnalysedOnce(r)
  /\ SeenHasLearned /\ AllComplete

-----------------------------------------------------------------------------
(* The operations of the AppSec processor on its contexts *)

\* get_context finds the one context of a request.
LEMMA PositionFact ==
  ASSUME NEW ctxs, OneContextEach(ctxs), NEW rid, Has(ctxs, rid)
  PROVE  /\ position(ctxs, rid) \in DOMAIN ctxs
         /\ get_context(ctxs, rid) = ctxs[position(ctxs, rid)]
         /\ get_context(ctxs, rid) \in Elems(ctxs) /\ get_context(ctxs, rid) \in Contexts
         /\ get_context(ctxs, rid).rid = rid
         /\ \A x \in Elems(ctxs) : x.rid = rid => x = get_context(ctxs, rid)
<1>1. ctxs \in Seq(Contexts) /\ NoDup(ctxs) /\ DOMAIN ctxs = 1 .. Len(ctxs) /\ Len(ctxs) \in Nat
  BY DEF OneContextEach, Distinct
<1>2. PICK i \in DOMAIN ctxs : ctxs[i].rid = rid
  BY DEF Has
<1>3. \A j \in DOMAIN ctxs : ctxs[j].rid = rid => j = i
  BY <1>1, <1>2 DEF OneContextEach, Elems, NoDup
<1>4. \A j \in 1 .. i - 1 : j \in DOMAIN ctxs /\ j # i
  BY <1>1
<1>5. \E k \in DOMAIN ctxs : ctxs[k].rid = rid /\ \A j \in 1 .. k - 1 : ctxs[j].rid # rid
  BY <1>2, <1>3, <1>4
<1>6. position(ctxs, rid) \in DOMAIN ctxs /\ ctxs[position(ctxs, rid)].rid = rid
  BY <1>5 DEF position
<1>7. ctxs[position(ctxs, rid)] \in Elems(ctxs) /\ ctxs[position(ctxs, rid)] \in Contexts
  BY <1>1, <1>6 DEF Elems
<1> QED BY <1>6, <1>7 DEF get_context, OneContextEach

\* Elements of a sequence of contexts are contexts.
LEMMA ElemsFact ==
  ASSUME NEW S, NEW q \in Seq(S)
  PROVE  Elems(q) \subseteq S /\ (q = <<>> <=> Elems(q) = {}) /\ (Len(q) = 0 <=> q = <<>>)
<1>1. Elems(q) \subseteq S
  BY DEF Elems
<1>2. q # <<>> => q[1] \in Elems(q)
  BY DEF Elems
<1>3. q = <<>> => Elems(q) = {}
  BY DEF Elems
<1> QED BY <1>1, <1>2, <1>3

\* The fields of a context that is in the buffer.
LEMMA ContextTypes ==
  ASSUME Types
  PROVE  \A x \in Elems(contexts) :
           /\ x \in Contexts /\ x.rid \in Requests /\ x.tags \in SUBSET Learnable
           /\ x.held # NoTrace => x.held \in Traces
<1>1. Elems(contexts) \subseteq Contexts
  BY ElemsFact DEF Types
<1> QED BY <1>1 DEF Contexts

\* Has, on the set of contexts.
LEMMA HasFact == ASSUME NEW q, NEW rid PROVE Has(q, rid) <=> \E x \in Elems(q) : x.rid = rid
BY DEF Has, Elems

\* Appending a context of a new request.
LEMMA AppendContext ==
  ASSUME NEW ctxs, OneContextEach(ctxs), NEW n \in Contexts, ~Has(ctxs, n.rid), ~n.seen
  PROVE  OneContextEach(Append(ctxs, n)) /\ Elems(Append(ctxs, n)) = Elems(ctxs) \cup {n}
<1>1. \A x \in Elems(ctxs) : x.rid # n.rid
  BY HasFact
<1>2. n \notin Elems(ctxs)
  BY <1>1
<1>3. /\ Append(ctxs, n) \in Seq(Contexts) /\ NoDup(Append(ctxs, n))
      /\ Elems(Append(ctxs, n)) = Elems(ctxs) \cup {n}
  BY <1>2, AppendElems DEF OneContextEach, Distinct
<1> HIDE DEF Contexts
<1> QED BY <1>1, <1>3 DEF OneContextEach, Distinct

\* The oldest context makes room for a new one.
LEMMA DropOldest ==
  ASSUME NEW ctxs, OneContextEach(ctxs), ctxs # <<>>
  PROVE  /\ OneContextEach(Tail(ctxs)) /\ Head(ctxs) \in Elems(ctxs)
         /\ Elems(Tail(ctxs)) = Elems(ctxs) \ {Head(ctxs)}
<1>1. /\ Distinct(Contexts, Tail(ctxs)) /\ Head(ctxs) \in Elems(ctxs)
      /\ Elems(Tail(ctxs)) = Elems(ctxs) \ {Head(ctxs)}
  BY TailElems DEF OneContextEach
<1> QED BY <1>1 DEF OneContextEach

\* delete_context removes the one context of the request.
LEMMA DeleteContext ==
  ASSUME NEW ctxs, OneContextEach(ctxs), NEW rid
  PROVE  /\ OneContextEach(delete_context(ctxs, rid))
         /\ Has(ctxs, rid) => Elems(delete_context(ctxs, rid)) = Elems(ctxs) \ {get_context(ctxs, rid)}
         /\ ~Has(ctxs, rid) => delete_context(ctxs, rid) = ctxs
<1>1. CASE Has(ctxs, rid)
  <2>1. /\ Distinct(Contexts, delete_context(ctxs, rid))
        /\ Elems(delete_context(ctxs, rid)) = Elems(ctxs) \ {get_context(ctxs, rid)}
    BY <1>1, PositionFact, RemoveElems DEF OneContextEach, delete_context
  <2> QED BY <1>1, <2>1 DEF OneContextEach
<1>2. CASE ~Has(ctxs, rid)
  BY <1>2 DEF delete_context
<1> QED BY <1>1, <1>2

\* A change through get_context_mut replaces the one context of the request.
LEMMA UpdateContext ==
  ASSUME NEW ctxs, OneContextEach(ctxs), NEW y \in Contexts, Has(ctxs, y.rid),
         y.seen => y.held = NoTrace
  PROVE  /\ OneContextEach(Update(ctxs, y))
         /\ Elems(Update(ctxs, y)) = (Elems(ctxs) \ {get_context(ctxs, y.rid)}) \cup {y}
         /\ get_context(Update(ctxs, y), y.rid) = y
<1> DEFINE g == get_context(ctxs, y.rid)
<1>1. /\ position(ctxs, y.rid) \in DOMAIN ctxs /\ g = ctxs[position(ctxs, y.rid)]
      /\ \A x \in Elems(ctxs) : x.rid = y.rid => x = g
  BY PositionFact
<1> HIDE DEF g
<1>2. \A x \in Elems(ctxs) \ {g} : x.rid # y.rid
  BY <1>1
<1>3. Distinct(Contexts, Update(ctxs, y)) /\ Elems(Update(ctxs, y)) = (Elems(ctxs) \ {g}) \cup {y}
  <2> DEFINE k == position(ctxs, y.rid)
             r == [ctxs EXCEPT ![k] = y]
  <2>1. Distinct(Contexts, ctxs) /\ k \in DOMAIN ctxs /\ g = ctxs[k]
    BY <1>1 DEF OneContextEach
  <2> HIDE DEF k
  <2>2. /\ r \in Seq(Contexts) /\ Elems(r) = (Elems(ctxs) \ {ctxs[k]}) \cup {y}
        /\ y \notin Elems(ctxs) \ {ctxs[k]} => NoDup(r)
    BY <2>1, ReplaceElems
  <2> HIDE DEF r
  <2>3. y \notin Elems(ctxs) \ {g}
    BY <1>2
  <2>4. Update(ctxs, y) = r
    BY DEF Update, r, k
  <2> QED BY <2>1, <2>2, <2>3, <2>4 DEF Distinct
<1>4. OneContextEach(Update(ctxs, y))
  BY <1>2, <1>3 DEF OneContextEach
<1>5. Has(Update(ctxs, y), y.rid)
  BY <1>3, HasFact
<1>6. get_context(Update(ctxs, y), y.rid) = y
  BY <1>3, <1>4, <1>5, PositionFact
<1> QED BY <1>3, <1>4, <1>6 DEF g

\* What set_response_seen sends of a context.
Released(d) == IF ~d.seen /\ d.held # NoTrace THEN <<Sent(d.held, d.tags, TRUE)>> ELSE <<>>

\* An analysis by the rule engine changes tags and budget only.
LEMMA RunFact ==
  ASSUME NEW x \in Contexts, NEW what \in Learnable, NEW spent \in BOOLEAN
  PROVE  /\ run(x, what, spent) \in Contexts
         /\ run(x, what, spent).rid = x.rid /\ run(x, what, spent).seen = x.seen
         /\ run(x, what, spent).held = x.held
BY DEF run, Contexts, Budgets

\* set_response_seen hands out the held trace and keeps what was learned.
LEMMA SeenFact ==
  ASSUME NEW x \in Contexts
  PROVE  LET s == set_response_seen(x)
         IN /\ s.ctx \in Contexts /\ s.ctx.rid = x.rid /\ s.ctx.tags = x.tags
            /\ s.ctx.seen /\ s.ctx.held = NoTrace
            /\ s.out = Released(x)
BY DEF set_response_seen, Contexts, Released

\* One context takes the place of another, and what the other held is sent.
Replaces(before, after, out, d, y) ==
  d \in Elems(before) /\ Elems(after) = (Elems(before) \ {d}) \cup {y} /\ out = Released(d)

\* process_invocation_next for a request without a context: nothing, a context
\* that learned of the request, or that in place of the oldest.
Opens(before, after, out, n) ==
  Elems(after) = Elems(before) \cup {n} /\ out = <<>>
Fresh(n, r) == n \in Contexts /\ n.rid = r /\ ~n.seen /\ n.held = NoTrace

\* new_context adds a fresh context; a full buffer gives up its oldest one.
LEMMA NewContextEffect ==
  ASSUME NEW ctxs, OneContextEach(ctxs), NEW r \in Requests, ~Has(ctxs, r), NEW budget \in Budgets,
         NEW a, a = new_context(ctxs, r, budget)
  PROVE  /\ OneContextEach(a.ctxs)
         /\ \E n : Fresh(n, r) /\ (Opens(ctxs, a.ctxs, a.out, n) \/ \E d : Replaces(ctxs, a.ctxs, a.out, d, n))
<1> DEFINE n == Context(r, budget)
<1>1. Fresh(n, r)
  BY DEF Fresh, Context, Contexts
<1> HIDE DEF n
<1>2. CASE ctxs # <<>> /\ Len(ctxs) = ContextCapacity
  <2>1. a = [ctxs |-> Append(Tail(ctxs), n), out |-> set_response_seen(Head(ctxs)).out]
    BY <1>2 DEF new_context, n
  <2>2. /\ OneContextEach(Tail(ctxs)) /\ Head(ctxs) \in Elems(ctxs)
        /\ Elems(Tail(ctxs)) = Elems(ctxs) \ {Head(ctxs)}
    BY <1>2, DropOldest
  <2>3. ~Has(Tail(ctxs), r)
    BY <2>2, HasFact
  <2>4. OneContextEach(Append(Tail(ctxs), n)) /\ Elems(Append(Tail(ctxs), n)) = Elems(Tail(ctxs)) \cup {n}
    BY <1>1, <2>2, <2>3, AppendContext DEF Fresh
  <2>5. set_response_seen(Head(ctxs)).out = Released(Head(ctxs))
    BY DEF set_response_seen, Released
  <2>6. Replaces(ctxs, a.ctxs, a.out, Head(ctxs), n)
    BY <2>1, <2>2, <2>4, <2>5 DEF Replaces
  <2> QED BY <1>1, <2>1, <2>4, <2>6
<1>3. CASE ctxs = <<>> \/ Len(ctxs) # ContextCapacity
  <2>1. a.ctxs = Append(ctxs, n) /\ a.out = <<>>
    <3>1. Len(ctxs) # ContextCapacity
      BY <1>3, ContextAssumption
    <3> QED BY <3>1 DEF new_context, n, delete_context
  <2>2. OneContextEach(Append(ctxs, n)) /\ Elems(Append(ctxs, n)) = Elems(ctxs) \cup {n}
    BY <1>1, AppendContext DEF Fresh
  <2>3. Opens(ctxs, a.ctxs, a.out, n)
    BY <2>1, <2>2 DEF Opens
  <2> QED BY <1>1, <2>1, <2>2, <2>3
<1> QED BY <1>2, <1>3

\* process_invocation_next does nothing, or opens a context and analyses the event.
LEMMA NextEffect ==
  ASSUME NEW ctxs, OneContextEach(ctxs), NEW r \in Requests, ~Has(ctxs, r), NEW known,
         NEW budget \in Budgets, NEW spent \in BOOLEAN,
         NEW a, a = process_invocation_next(ctxs, r, known, budget, spent)
  PROVE  /\ OneContextEach(a.ctxs)
         /\ \/ a.ctxs = ctxs /\ a.out = <<>>
            \/ \E n : /\ Fresh(n, r)
                      /\ Opens(ctxs, a.ctxs, a.out, n) \/ \E d : Replaces(ctxs, a.ctxs, a.out, d, n)
<1>1. CASE ~known
  BY <1>1 DEF process_invocation_next
<1>2. CASE known
  <2> DEFINE b == new_context(ctxs, r, budget)
             y == run(get_context(b.ctxs, r), "request", spent)
  <2>1. a.ctxs = Update(b.ctxs, y) /\ a.out = b.out
    BY <1>2 DEF process_invocation_next
  <2>2. OneContextEach(b.ctxs)
    BY NewContextEffect
  <2>3. PICK n : /\ Fresh(n, r)
                 /\ Opens(ctxs, b.ctxs, b.out, n) \/ \E d : Replaces(ctxs, b.ctxs, b.out, d, n)
    BY NewContextEffect
  <2> HIDE DEF b
  <2>4. n \in Elems(b.ctxs) /\ n.rid = r
    BY <2>3 DEF Opens, Replaces, Fresh
  <2>5. Has(b.ctxs, r)
    BY <2>4, HasFact
  <2>6. get_context(b.ctxs, r) = n
    BY <2>2, <2>4, <2>5, PositionFact
  <2>7. Fresh(y, r)
    BY <2>3, <2>6, RunFact DEF Fresh, Learnable
  <2> HIDE DEF y
  <2>8. OneContextEach(a.ctxs) /\ Elems(a.ctxs) = (Elems(b.ctxs) \ {n}) \cup {y}
    BY <2>1, <2>2, <2>5, <2>6, <2>7, UpdateContext DEF Fresh
  <2>9. n \notin Elems(ctxs)
    BY <2>3, HasFact DEF Fresh
  <2>10. Opens(ctxs, a.ctxs, a.out, y) \/ \E d : Replaces(ctxs, a.ctxs, a.out, d, y)
    <3>1. CASE Opens(ctxs, b.ctxs, b.out, n)
      BY <2>1, <2>8, <2>9, <3>1 DEF Opens
    <3>2. ASSUME NEW d, Replaces(ctxs, b.ctxs, b.out, d, n)
          PROVE  Replaces(ctxs, a.ctxs, a.out, d, y)
      BY <2>1, <2>8, <2>9, <3>2 DEF Replaces
    <3> QED BY <2>3, <3>1, <3>2
  <2> QED BY <2>7, <2>8, <2>10
<1> QED BY <1>1, <1>2

\* process_invocation_result: the context has seen its response and lets its
\* trace go with the tags it has now.
Finishes(ctxs, a, r, y) ==
  /\ y \in Contexts /\ y.rid = r /\ y.seen /\ y.held = NoTrace
  /\ \E d \in Elems(ctxs) :
       /\ d.rid = r /\ Elems(a.ctxs) = (Elems(ctxs) \ {d}) \cup {y}
       /\ a.out = IF ~d.seen /\ d.held # NoTrace THEN <<Sent(d.held, y.tags, TRUE)>> ELSE <<>>
  /\ get_context(a.ctxs, r) = y

\* process_invocation_result finishes the context of the request, if there is one.
LEMMA ResultEffect ==
  ASSUME NEW ctxs, OneContextEach(ctxs), NEW r \in Requests, NEW parses \in BOOLEAN, NEW sample \in BOOLEAN,
         NEW spent \in BOOLEAN, NEW a, a = process_invocation_result(ctxs, r, parses, sample, spent)
  PROVE  /\ OneContextEach(a.ctxs)
         /\ ~Has(ctxs, r) => a.ctxs = ctxs /\ a.out = <<>>
         /\ Has(ctxs, r) => \E y : Finishes(ctxs, a, r, y)
<1>1. CASE ~Has(ctxs, r)
  BY <1>1 DEF process_invocation_result
<1>2. CASE Has(ctxs, r)
  <2> DEFINE d == get_context(ctxs, r)
             x == IF d.known /\ parses THEN run(d, "response", spent) ELSE d
             z == IF sample THEN extract_schemas(x) ELSE x
             s == set_response_seen(z)
             y == s.ctx
  <2>1. d \in Elems(ctxs) /\ d \in Contexts /\ d.rid = r
    BY <1>2, PositionFact
  <2>2. a.ctxs = Update(ctxs, y) /\ a.out = s.out
    BY <1>2 DEF process_invocation_result, Analysed
  <2> HIDE DEF d
  <2>3. x \in Contexts /\ x.rid = r /\ x.seen = d.seen /\ x.held = d.held
    <3>1. CASE d.known /\ parses
      BY <2>1, <3>1, RunFact DEF Learnable
    <3>2. CASE ~(d.known /\ parses)
      BY <2>1, <3>2
    <3> QED BY <3>1, <3>2
  <2> HIDE DEF x
  <2>4. z \in Contexts /\ z.rid = r /\ z.seen = d.seen /\ z.held = d.held
    BY <2>3 DEF extract_schemas, Contexts, Learnable
  <2> HIDE DEF z
  <2>5. /\ y \in Contexts /\ y.rid = r /\ y.tags = z.tags /\ y.seen /\ y.held = NoTrace
        /\ s.out = Released(z)
    BY <2>4, SeenFact
  <2> HIDE DEF s, y
  <2>6. /\ OneContextEach(a.ctxs) /\ Elems(a.ctxs) = (Elems(ctxs) \ {d}) \cup {y}
        /\ get_context(a.ctxs, r) = y
    BY <1>2, <2>2, <2>5, UpdateContext DEF d
  <2>7. a.out = IF ~d.seen /\ d.held # NoTrace THEN <<Sent(d.held, y.tags, TRUE)>> ELSE <<>>
    BY <2>2, <2>4, <2>5 DEF Released
  <2>8. Finishes(ctxs, a, r, y)
    BY <2>1, <2>5, <2>6, <2>7 DEF Finishes
  <2> QED BY <1>2, <2>6, <2>8
<1> QED BY <1>1, <1>2

\* process_span: a trace goes on without tags, takes the tags of a context that
\* has seen its response and with it the context, or is held in place of another.
Passes(ctxs, a, t) == a.ctxs = ctxs /\ a.out = <<Sent(t, {}, FALSE)>>
Takes(ctxs, a, t, d) ==
  /\ d \in Elems(ctxs) /\ d.rid = RidOf[t] /\ d.seen
  /\ Elems(a.ctxs) = Elems(ctxs) \ {d} /\ a.out = <<Sent(t, d.tags, TRUE)>>
Holding(ctxs, a, t, d, y) ==
  /\ d \in Elems(ctxs) /\ d.rid = RidOf[t] /\ ~d.seen /\ RidOf[t] # 0
  /\ y \in Contexts /\ y.rid = d.rid /\ ~y.seen /\ y.tags = d.tags /\ y.held = t
  /\ Elems(a.ctxs) = (Elems(ctxs) \ {d}) \cup {y} /\ a.out = <<>>

\* process_span lets a trace pass, takes the finished context, or holds the trace.
LEMMA SpanEffect ==
  ASSUME NEW ctxs, OneContextEach(ctxs), NEW t \in Traces, NEW a, a = process_span(ctxs, t, RidOf[t])
  PROVE  /\ OneContextEach(a.ctxs)
         /\ \/ Passes(ctxs, a, t)
            \/ \E d : Takes(ctxs, a, t, d)
            \/ \E d, y : Holding(ctxs, a, t, d, y)
<1> DEFINE rid == RidOf[t]
           d == get_context(ctxs, rid)
<1>1. CASE rid = 0 \/ ~Has(ctxs, rid)
  BY <1>1 DEF process_span, Passes
<1>2. CASE rid # 0 /\ Has(ctxs, rid) /\ d.seen
  <2>1. d \in Elems(ctxs) /\ d.rid = rid
    BY <1>2, PositionFact
  <2>2. OneContextEach(delete_context(ctxs, rid)) /\ Elems(delete_context(ctxs, rid)) = Elems(ctxs) \ {d}
    BY <1>2, DeleteContext
  <2>3. a.ctxs = delete_context(ctxs, rid) /\ a.out = <<Sent(t, d.tags, TRUE)>>
    BY <1>2 DEF process_span
  <2> HIDE DEF d
  <2>4. Takes(ctxs, a, t, d)
    BY <1>2, <2>1, <2>2, <2>3 DEF Takes
  <2> QED BY <2>2, <2>3, <2>4
<1>3. CASE rid # 0 /\ Has(ctxs, rid) /\ ~d.seen
  <2> DEFINE y == hold_trace(d, t)
  <2>1. d \in Elems(ctxs) /\ d.rid = rid /\ d \in Contexts
    BY <1>3, PositionFact
  <2>2. y \in Contexts /\ y.rid = rid /\ ~y.seen /\ y.tags = d.tags /\ y.held = t
    BY <1>3, <2>1 DEF hold_trace, Contexts
  <2>3. a = [ctxs |-> Update(ctxs, y), out |-> <<>>]
    BY <1>3 DEF process_span
  <2> HIDE DEF y
  <2>4. OneContextEach(Update(ctxs, y)) /\ Elems(Update(ctxs, y)) = (Elems(ctxs) \ {d}) \cup {y}
    BY <1>3, <2>2, UpdateContext
  <2>5. Holding(ctxs, a, t, d, y)
    BY <1>3, <2>1, <2>2, <2>3, <2>4 DEF Holding
  <2> QED BY <2>3, <2>4, <2>5
<1> QED BY <1>1, <1>2, <1>3

-----------------------------------------------------------------------------
(* Steps of the proxy: the runtime moves on, somebody may wait for the mutex *)

Inv == PlaceInv /\ TagInv

\* What the traces are followed by does not change.
LEMMA QuietStep ==
  ASSUME Inv, Types', MutexOnce', \A r \in Requests : AnalysedOnce(r)' /\ (Final(r) => Final(r)'),
         UNCHANGED <<contexts, evicted, learned, posted, outbox, channel, store>>
  PROVE  Inv'
<1>1. OneContextEach(contexts)' /\ HeldForItsRequest' /\ ChannelOnce'
  BY DEF Inv, PlaceInv, OneContextEach, HeldForItsRequest, ChannelOnce
<1>2. \A t \in Traces : Followed(t)'
  BY DEF Inv, PlaceInv, Followed, Nowhere, OnChannel, Stored, HeldBack
<1>3. SeenHasLearned'
  <2>1. \A x \in Elems(contexts) : x.rid \in Requests
    BY ContextTypes DEF Inv, PlaceInv
  <2> QED BY <2>1 DEF Inv, TagInv, SeenHasLearned
<1>4. AllComplete'
  BY DEF Inv, TagInv, AllComplete, Complete
<1> QED BY <1>1, <1>2, <1>3, <1>4 DEF Inv, PlaceInv, TagInv

Early == {"idle", "next_lock", "next_body", "running", "response_lock", "response_body"}
Late == {"response_sent", "error_sent", "done", "failed"}
Forwards(from, to) ==
  /\ from \in Early \cup Late /\ to \in Stages /\ to # "error_mutex"
  /\ from \notin {"idle", "next_lock", "next_body"} => to \notin {"idle", "next_lock", "next_body"}
  /\ from \in Late => to \in Late
  /\ from \in {"response_sent", "done"} => to \in {"response_sent", "done"}

\* The runtime moves on and nobody waits.
LEMMA MoveStep ==
  ASSUME Inv, NEW r \in Requests, NEW to, Go(r, to), Forwards(runtime[r], to),
         UNCHANGED <<setup, mutex, contexts, evicted, learned, posted, outbox, channel, store>>
  PROVE  Inv'
<1>1. Types /\ MutexOnce /\ \A q \in Requests : AnalysedOnce(q)
  BY DEF Inv, PlaceInv, TagInv
<1>2. Types'
  BY <1>1 DEF Types, Go, Forwards
<1>3. MutexOnce'
  BY <1>1 DEF MutexOnce, Waits
<1>4. runtime'[r] = to /\ \A q \in Requests : q # r => runtime'[q] = runtime[q]
  BY <1>1 DEF Types, Go
<1>5. \A q \in Requests : AnalysedOnce(q)' /\ (Final(q) => Final(q)')
  <2> SUFFICES ASSUME NEW q \in Requests PROVE AnalysedOnce(q)' /\ (Final(q) => Final(q)')
    OBVIOUS
  <2>1. \A kind : Waits(kind, q)' <=> Waits(kind, q)
    BY DEF Waits
  <2>2. CASE q # r
    BY <1>1, <1>4, <2>1, <2>2 DEF AnalysedOnce, Started, Final
  <2>3. CASE q = r
    BY <1>1, <1>4, <2>1, <2>3 DEF AnalysedOnce, Started, Final, Forwards, Early, Late
  <2> QED BY <2>2, <2>3
<1> QED BY <1>2, <1>3, <1>5, QuietStep

\* The runtime moves on and a task, or the call itself, waits for the mutex.
Enters(kind, from, to) ==
  \/ kind = "next" /\ from = "next_body" /\ to = "running"
  \/ kind = "response" /\ from = "response_body" /\ to = "response_sent"
  \/ kind = "error" /\ from = "running" /\ to = "error_mutex"

\* A task queues for the AppSec mutex.
LEMMA EnterStep ==
  ASSUME Inv, NEW r \in Requests, NEW kind, NEW to, Go(r, to), Enters(kind, runtime[r], to),
         mutex' = Append(mutex, <<kind, r>>),
         UNCHANGED <<setup, contexts, evicted, learned, posted, outbox, channel, store>>
  PROVE  Inv'
<1>1. Types /\ MutexOnce /\ \A q \in Requests : AnalysedOnce(q)
  BY DEF Inv, PlaceInv, TagInv
<1>2. <<kind, r>> \in Waiters /\ kind \in {"next", "response", "error"} /\ to \in Stages
  BY DEF Enters, Waiters, Stages
<1>3. ~Waits(kind, r)
  BY <1>1 DEF AnalysedOnce, Started, Enters
<1>4. /\ mutex' \in Seq(Waiters) /\ NoDup(mutex')
      /\ Elems(mutex') = Elems(mutex) \cup {<<kind, r>>}
  BY <1>1, <1>2, <1>3, AppendElems DEF Types, MutexOnce, Waits
<1>5. \A k, x : Waits(k, x)' <=> (Waits(k, x) \/ (k = kind /\ x = r))
  BY <1>4 DEF Waits
<1>6. Types'
  BY <1>1, <1>2, <1>4 DEF Types, Go
<1>7. MutexOnce'
  BY <1>1, <1>2, <1>4, <1>5 DEF MutexOnce
<1>8. runtime'[r] = to /\ \A q \in Requests : q # r => runtime'[q] = runtime[q]
  BY <1>1 DEF Types, Go
<1>9. \A q \in Requests : AnalysedOnce(q)' /\ (Final(q) => Final(q)')
  <2> SUFFICES ASSUME NEW q \in Requests PROVE AnalysedOnce(q)' /\ (Final(q) => Final(q)')
    OBVIOUS
  <2>1. CASE q # r
    BY <1>1, <1>5, <1>8, <2>1 DEF AnalysedOnce, Started, Final
  <2>2. CASE q = r
    BY <1>1, <1>5, <1>8, <2>2 DEF AnalysedOnce, Started, Final, Enters
  <2> QED BY <2>1, <2>2
<1> QED BY <1>6, <1>7, <1>9, QuietStep

\* Nothing that the traces depend on moves.
LEMMA IdleStep ==
  ASSUME Inv, UNCHANGED <<setup, runtime, mutex, contexts, evicted, learned, posted, outbox, channel, store>>
  PROVE  Inv'
<1>1. Types' /\ MutexOnce'
  BY DEF Inv, PlaceInv, Types, MutexOnce, Waits
<1>2. \A r \in Requests : AnalysedOnce(r)' /\ (Final(r) => Final(r)')
  BY DEF Inv, TagInv, AnalysedOnce, Started, Final, Waits
<1> QED BY <1>1, <1>2, QuietStep

\* All that the runtime does, and what follows from it without the mutex.
LEMMA ProxyStep ==
  ASSUME Inv, NEW r \in Requests,
         \/ CallNext(r) \/ NextFails(r) \/ NextBodyBreaks(r) \/ NextBodyRead(r)
         \/ CallResponse(r) \/ ResponseBodyDropped(r) \/ CallError(r) \/ RuntimeStops(r)
         \/ invocation_next_proxy(r) \/ invocation_response_proxy(r) \/ ResponseBodySent(r)
         \/ ResponseAnswered(r) \/ passthrough_proxy(r) \/ LockCallDropped(r)
  PROVE  Inv'
<1> USE DEF aapState, traceState, proxyState
<1>1. CASE CallNext(r)
  BY <1>1, MoveStep DEF CallNext, Forwards, Early, Late, Stages
<1>2. CASE NextFails(r)
  BY <1>2, MoveStep DEF NextFails, Forwards, Early, Late, Stages
<1>3. CASE NextBodyBreaks(r)
  <2>1. UNCHANGED mutex
    BY <1>3 DEF NextBodyBreaks, send_completion
  <2> QED BY <1>3, <2>1, MoveStep DEF NextBodyBreaks, Forwards, Early, Late, Stages
<1>4. CASE NextBodyRead(r)
  <2>1. UNCHANGED mutex \/ mutex' = Append(mutex, <<"next", r>>)
    BY <1>4 DEF NextBodyRead, send_completion
  <2> QED BY <1>4, <2>1, MoveStep, EnterStep DEF NextBodyRead, Forwards, Enters, Early, Late, Stages
<1>5. CASE CallResponse(r)
  BY <1>5, MoveStep DEF CallResponse, Forwards, Early, Late, Stages
<1>6. CASE ResponseBodyDropped(r)
  BY <1>6, MoveStep DEF ResponseBodyDropped, Forwards, Early, Late, Stages
<1>7. CASE CallError(r)
  <2>1. CASE setup.aap
    BY <1>7, <2>1, EnterStep DEF CallError, Enters
  <2>2. CASE ~setup.aap
    BY <1>7, <2>2, MoveStep DEF CallError, Forwards, Early, Late, Stages
  <2> QED BY <2>1, <2>2
<1>8. CASE RuntimeStops(r)
  BY <1>8, MoveStep DEF RuntimeStops, Forwards, Early, Late, Stages
<1>9. CASE invocation_next_proxy(r)
  BY <1>9, MoveStep DEF invocation_next_proxy, Forwards, Early, Late, Stages
<1>10. CASE invocation_response_proxy(r)
  BY <1>10, MoveStep DEF invocation_response_proxy, Forwards, Early, Late, Stages
<1>11. CASE ResponseBodySent(r)
  <2>1. UNCHANGED mutex \/ mutex' = Append(mutex, <<"response", r>>)
    BY <1>11 DEF ResponseBodySent, send_completion
  <2> QED BY <1>11, <2>1, MoveStep, EnterStep DEF ResponseBodySent, Forwards, Enters, Early, Late, Stages
<1>12. CASE ResponseAnswered(r)
  BY <1>12, MoveStep DEF ResponseAnswered, Forwards, Early, Late, Stages
<1>13. CASE passthrough_proxy(r)
  BY <1>13, MoveStep DEF passthrough_proxy, Forwards, Early, Late, Stages
<1>14. CASE LockCallDropped(r)
  BY <1>14, MoveStep DEF LockCallDropped, Forwards, Early, Late, Stages
<1> QED BY <1>1, <1>2, <1>3, <1>4, <1>5, <1>6, <1>7, <1>8, <1>9, <1>10, <1>11, <1>12, <1>13, <1>14

-----------------------------------------------------------------------------
(* A held trace is let go *)

\* Concatenation with nothing and with one element.
LEMMA ConcatFact ==
  ASSUME NEW S, NEW q \in Seq(S)
  PROVE  q \o <<>> = q /\ \A e \in S : q \o <<e>> = Append(q, e)
OBVIOUS

\* The payload of a trace joins the channel.
LEMMA JoinsChannel ==
  ASSUME ChannelOnce, channel \in Seq(Outgoing), NEW e \in Outgoing, ~OnChannel(e.trace),
         channel' = channel \o <<e>>
  PROVE  /\ channel' \in Seq(Outgoing) /\ ChannelOnce'
         /\ Elems(channel') = Elems(channel) \cup {e}
         /\ \A t : OnChannel(t)' <=> OnChannel(t) \/ t = e.trace
<1>1. channel' = Append(channel, e)
  BY ConcatFact
<1>2. e \notin Elems(channel)
  BY DEF OnChannel
<1>3. /\ channel' \in Seq(Outgoing) /\ NoDup(channel')
      /\ Elems(channel') = Elems(channel) \cup {e}
  <2>1. NoDup(channel)
    BY DEF ChannelOnce
  <2>2. /\ Append(channel, e) \in Seq(Outgoing) /\ NoDup(Append(channel, e))
        /\ Elems(Append(channel, e)) = Elems(channel) \cup {e}
    BY <1>2, <2>1, AppendElems
  <2> QED BY <1>1, <2>2
<1>4. ChannelOnce'
  BY <1>3 DEF ChannelOnce, OnChannel
<1>5. \A t : OnChannel(t)' <=> OnChannel(t) \/ t = e.trace
  BY <1>3 DEF OnChannel
<1> QED BY <1>3, <1>4, <1>5

\* A context that lets go of its trace hands it to the channel: it is still followed.
LEMMA ReleaseStep ==
  ASSUME PlaceInv, NEW d \in Elems(contexts), NEW y \in Contexts, y.held = NoTrace,
         NEW tags \in SUBSET Learnable,
         Elems(contexts') = (Elems(contexts) \ {d}) \cup {y},
         channel' = channel \o (IF ~d.seen /\ d.held # NoTrace THEN <<Sent(d.held, tags, TRUE)>> ELSE <<>>),
         UNCHANGED <<posted, outbox, store>>
  PROVE  /\ HeldForItsRequest' /\ ChannelOnce' /\ channel' \in Seq(Outgoing)
         /\ \A t \in Traces : Followed(t)'
         /\ \A f \in Elems(channel') :
              \/ f \in Elems(channel)
              \/ ~d.seen /\ f = Sent(d.held, tags, TRUE) /\ d.held \in Traces /\ RidOf[d.held] = d.rid
<1>1. /\ Types /\ OneContextEach(contexts) /\ HeldForItsRequest /\ ChannelOnce
      /\ \A t \in Traces : Followed(t)
  BY DEF PlaceInv
<1>2. channel \in Seq(Outgoing) /\ Elems(contexts) \subseteq Contexts
  <2>1. channel \in Seq(Outgoing) /\ contexts \in Seq(Contexts)
    BY <1>1 DEF Types
  <2> QED BY <2>1, ElemsFact
<1>3. d \in Contexts /\ d.held \in Traces \cup {NoTrace}
  BY <1>2 DEF Contexts
<1>4. HeldForItsRequest'
  BY <1>1 DEF HeldForItsRequest
<1>5. CASE ~d.seen /\ d.held # NoTrace
  <2> DEFINE u == d.held
             e == Sent(u, tags, TRUE)
  <2>1. u \in Traces /\ RidOf[u] = d.rid /\ posted[u] = "accepted"
    BY <1>1, <1>3, <1>5 DEF HeldForItsRequest
  <2>2. e \in Outgoing /\ e.trace = u
    BY <2>1 DEF Sent, Outgoing
  <2>3. channel' = channel \o <<e>>
    BY <1>5
  <2> HIDE DEF u, e
  <2>4. HeldBack(u)
    BY DEF HeldBack, u
  <2>5. ~OnChannel(u) /\ ~Stored(u)
    BY <1>1, <2>1, <2>4 DEF Followed
  <2>6. /\ channel' \in Seq(Outgoing) /\ ChannelOnce'
        /\ Elems(channel') = Elems(channel) \cup {e}
        /\ \A t : OnChannel(t)' <=> OnChannel(t) \/ t = u
    BY <1>1, <1>2, <2>2, <2>3, <2>5, JoinsChannel
  <2>7. \A t \in Traces : t # u => (HeldBack(t)' <=> HeldBack(t))
    BY ProxyAssumption DEF HeldBack, u
  <2>8. ~HeldBack(u)'
    <3>1. \A x \in Elems(contexts) : x.held = u => x.rid = d.rid
      BY <1>1, <2>1, ProxyAssumption DEF HeldForItsRequest
    <3>2. \A x \in Elems(contexts) : x.held = u => x = d
      BY <1>1, <3>1 DEF OneContextEach
    <3> QED BY <2>1, <3>2, ProxyAssumption DEF HeldBack
  <2>9. \A t \in Traces : Followed(t)'
    <3> SUFFICES ASSUME NEW t \in Traces PROVE Followed(t)'
      OBVIOUS
    <3>1. CASE t # u
      BY <1>1, <2>6, <2>7, <3>1 DEF Followed, Nowhere, Stored
    <3>2. CASE t = u
      BY <1>1, <2>1, <2>5, <2>6, <2>8, <3>2 DEF Followed, Nowhere, Stored
    <3> QED BY <3>1, <3>2
  <2>10. \A f \in Elems(channel') : f \in Elems(channel) \/ f = Sent(d.held, tags, TRUE)
    BY <2>6 DEF e, u
  <2> QED BY <1>4, <1>5, <2>1, <2>6, <2>9, <2>10 DEF u
<1>6. CASE d.seen \/ d.held = NoTrace
  <2>1. channel' = channel
    BY <1>2, <1>6, ConcatFact
  <2>2. d.held = NoTrace
    BY <1>1, <1>6 DEF OneContextEach
  <2>3. \A t \in Traces : HeldBack(t)' <=> HeldBack(t)
    BY <2>2, ProxyAssumption DEF HeldBack
  <2>4. ChannelOnce' /\ \A t : OnChannel(t)' <=> OnChannel(t)
    BY <1>1, <2>1 DEF ChannelOnce, OnChannel
  <2>5. \A t \in Traces : Followed(t)'
    BY <1>1, <2>3, <2>4 DEF Followed, Nowhere, Stored
  <2> QED BY <1>2, <1>4, <2>1, <2>4, <2>5
<1> QED BY <1>5, <1>6

-----------------------------------------------------------------------------
(* The analyses, behind the mutex *)

\* The first in the queue leaves it.
LEMMA LeavesMutex ==
  ASSUME MutexOnce, mutex \in Seq(Waiters), NEW kind, NEW x, Holds(mutex, <<kind, x>>), mutex' = Tail(mutex)
  PROVE  /\ mutex' \in Seq(Waiters) /\ NoDup(mutex') /\ Waits(kind, x)
         /\ \A k, z : Waits(k, z)' <=> Waits(k, z) /\ <<k, z>> # <<kind, x>>
<1>1. Distinct(Waiters, mutex) /\ mutex # <<>> /\ Head(mutex) = <<kind, x>>
  BY DEF Distinct, MutexOnce, Holds
<1>2. /\ Distinct(Waiters, mutex') /\ <<kind, x>> \in Elems(mutex)
      /\ Elems(mutex') = Elems(mutex) \ {<<kind, x>>}
  BY <1>1, TailElems
<1> QED BY <1>2 DEF Distinct, Waits

\* The analysis of an invocation, an eviction included.
LEMMA AnalyseNextStep ==
  ASSUME Inv, NEW r \in Requests, AnalyseNext(r)
  PROVE  Inv'
<1>1. /\ PlaceInv /\ Types /\ MutexOnce /\ OneContextEach(contexts) /\ HeldForItsRequest /\ ChannelOnce
      /\ \A q \in Requests : AnalysedOnce(q)
      /\ SeenHasLearned /\ AllComplete /\ \A t \in Traces : Followed(t)
  BY DEF Inv, PlaceInv, TagInv
<1>2. /\ mutex' \in Seq(Waiters) /\ NoDup(mutex') /\ Waits("next", r)
      /\ \A k, z : Waits(k, z)' <=> Waits(k, z) /\ <<k, z>> # <<"next", r>>
  BY <1>1, LeavesMutex DEF AnalyseNext, Types
<1>3. UNCHANGED <<setup, runtime, learned, posted, outbox, store>>
  BY DEF AnalyseNext
<1>4. ~Has(contexts, r) /\ setup.budget \in Budgets
  BY <1>1, <1>2 DEF AnalysedOnce, Types, Budgets
<1>5. PICK spent \in BOOLEAN :
        LET a == process_invocation_next(contexts, r, r \in setup.known, setup.budget, spent)
        IN contexts' = a.ctxs /\ channel' = channel \o a.out /\ evicted' = evicted \cup Pushed(a.ctxs)
  BY DEF AnalyseNext
<1> DEFINE a == process_invocation_next(contexts, r, r \in setup.known, setup.budget, spent)
<1>6. contexts' = a.ctxs /\ channel' = channel \o a.out /\ evicted' = evicted \cup Pushed(contexts')
  BY <1>5
<1>7. /\ OneContextEach(a.ctxs)
      /\ \/ a.ctxs = contexts /\ a.out = <<>>
         \/ \E n : /\ Fresh(n, r)
                   /\ Opens(contexts, a.ctxs, a.out, n) \/ \E d : Replaces(contexts, a.ctxs, a.out, d, n)
  BY <1>1, <1>4, NextEffect
<1> HIDE DEF a
<1>8. OneContextEach(contexts') /\ contexts' \in Seq(Contexts)
  BY <1>6, <1>7 DEF OneContextEach, Distinct
<1>9. MutexOnce'
  BY <1>1, <1>2, <1>3 DEF MutexOnce
<1>10. \A q \in Requests : Final(q)' <=> Final(q)
  BY <1>2, <1>3 DEF Final
<1>11. ASSUME \A q \in Requests : Has(contexts', q) => Has(contexts, q) \/ q = r
       PROVE  \A q \in Requests : AnalysedOnce(q)'
  <2> SUFFICES ASSUME NEW q \in Requests PROVE AnalysedOnce(q)'
    OBVIOUS
  <2>1. CASE q # r
    BY <1>1, <1>2, <1>3, <1>11, <2>1 DEF AnalysedOnce, Started
  <2>2. CASE q = r
    BY <1>1, <1>2, <1>3, <2>2 DEF AnalysedOnce, Started
  <2> QED BY <2>1, <2>2
<1>12. ASSUME \A x \in Elems(contexts') : x \in Elems(contexts) \/ ~x.seen
       PROVE  SeenHasLearned'
  <2>1. \A x \in Elems(contexts') : x.rid \in Requests
    <3>1. Elems(contexts') \subseteq Contexts
      BY <1>8, ElemsFact
    <3> QED BY <3>1 DEF Contexts
  <2> QED BY <1>1, <1>3, <1>10, <1>12, <2>1 DEF SeenHasLearned
<1>13. ASSUME NEW t, NEW e, Complete(t, e) PROVE Complete(t, e)'
  BY <1>3, <1>6, <1>10, <1>13 DEF Complete
<1>14. CASE a.ctxs = contexts /\ a.out = <<>>
  <2>1. contexts' = contexts /\ channel' = channel
    BY <1>1, <1>6, <1>14, ConcatFact DEF Types
  <2>2. HeldForItsRequest' /\ ChannelOnce' /\ \A t \in Traces : Followed(t)'
    BY <1>1, <1>3, <2>1 DEF HeldForItsRequest, ChannelOnce, Followed, Nowhere, OnChannel, Stored, HeldBack
  <2>3. Types'
    BY <1>1, <1>2, <1>3, <2>1 DEF Types
  <2>4. AllComplete'
    BY <1>1, <1>3, <1>13, <2>1 DEF AllComplete
  <2> QED BY <1>8, <1>9, <1>11, <1>12, <2>1, <2>2, <2>3, <2>4 DEF Inv, PlaceInv, TagInv
<1>15. ASSUME NEW n, Fresh(n, r), Opens(contexts, a.ctxs, a.out, n)
       PROVE  Inv'
  <2>1. Elems(contexts') = Elems(contexts) \cup {n} /\ channel' = channel
    BY <1>1, <1>6, <1>15, ConcatFact DEF Opens, Types
  <2>2. n.held = NoTrace /\ ~n.seen /\ n.rid = r
    BY <1>15 DEF Fresh
  <2>3. HeldForItsRequest' /\ ChannelOnce' /\ \A t \in Traces : HeldBack(t)' <=> HeldBack(t)
    BY <1>1, <1>3, <2>1, <2>2, ProxyAssumption DEF HeldForItsRequest, ChannelOnce, HeldBack
  <2>4. \A t \in Traces : Followed(t)'
    BY <1>1, <1>3, <2>1, <2>3 DEF Followed, Nowhere, OnChannel, Stored
  <2>5. Types'
    BY <1>1, <1>2, <1>3, <1>8, <2>1 DEF Types
  <2>6. AllComplete'
    BY <1>1, <1>3, <1>13, <2>1 DEF AllComplete
  <2>7. \A q \in Requests : Has(contexts', q) => Has(contexts, q) \/ q = r
    BY <2>1, <2>2, HasFact
  <2>8. SeenHasLearned'
    BY <1>12, <2>1, <2>2
  <2> QED BY <1>8, <1>9, <1>11, <2>3, <2>4, <2>5, <2>6, <2>7, <2>8 DEF Inv, PlaceInv, TagInv
<1>16. ASSUME NEW n, Fresh(n, r), NEW d, Replaces(contexts, a.ctxs, a.out, d, n)
       PROVE  Inv'
  <2>1. /\ d \in Elems(contexts) /\ Elems(contexts') = (Elems(contexts) \ {d}) \cup {n}
        /\ channel' = channel \o Released(d)
    BY <1>6, <1>16 DEF Replaces
  <2>2. n \in Contexts /\ n.held = NoTrace /\ ~n.seen /\ n.rid = r
    BY <1>16 DEF Fresh
  <2>3. d \in Contexts /\ d.tags \in SUBSET Learnable
    BY <1>1, <2>1, ContextTypes
  <2>4. /\ HeldForItsRequest' /\ ChannelOnce' /\ channel' \in Seq(Outgoing)
        /\ \A t \in Traces : Followed(t)'
        /\ \A f \in Elems(channel') :
             \/ f \in Elems(channel)
             \/ ~d.seen /\ f = Sent(d.held, d.tags, TRUE) /\ d.held \in Traces /\ RidOf[d.held] = d.rid
    BY <1>1, <1>3, <2>1, <2>2, <2>3, ReleaseStep DEF Released
  <2>5. Types'
    BY <1>1, <1>2, <1>3, <1>8, <2>4 DEF Types
  <2>6. \A q \in Requests : Has(contexts', q) => Has(contexts, q) \/ q = r
    BY <2>1, <2>2, HasFact
  <2>7. SeenHasLearned'
    BY <1>12, <2>1, <2>2
  <2>8. ~d.seen => d.rid \in evicted'
    <3>1. d.rid # r /\ \A x \in Elems(contexts) : x.rid = d.rid => x = d
      BY <1>1, <1>4, <2>1, HasFact DEF OneContextEach
    <3>2. ~Has(contexts', d.rid)
      BY <2>1, <2>2, <3>1, HasFact
    <3>3. PICK j \in DOMAIN contexts : contexts[j] = d
      BY <2>1 DEF Elems
    <3> QED BY <1>6, <3>2, <3>3 DEF Pushed
  <2>9. \A f \in Elems(channel') : Complete(f.trace, f)'
    <3>1. Sent(d.held, d.tags, TRUE).trace = d.held
      BY DEF Sent
    <3>2. ASSUME ~d.seen, RidOf[d.held] = d.rid
          PROVE  Complete(d.held, Sent(d.held, d.tags, TRUE))'
      BY <2>8, <3>2 DEF Complete
    <3>3. \A f \in Elems(channel) : Complete(f.trace, f)'
      BY <1>1, <1>13 DEF AllComplete
    <3> QED BY <2>4, <3>1, <3>2, <3>3
  <2>10. AllComplete'
    BY <1>1, <1>3, <1>13, <2>9 DEF AllComplete
  <2> QED BY <1>8, <1>9, <1>11, <2>4, <2>5, <2>6, <2>7, <2>10 DEF Inv, PlaceInv, TagInv
<1> QED BY <1>7, <1>14, <1>15, <1>16

\* The response, or the error, of a request is analysed.
LEMMA ResultStep ==
  ASSUME Inv, NEW r \in Requests, NEW kind \in {"response", "error"}, Holds(mutex, <<kind, r>>),
         NEW parses \in BOOLEAN, Result(r, parses), mutex' = Tail(mutex),
         IF kind = "error" THEN Go(r, "error_sent") ELSE UNCHANGED runtime,
         UNCHANGED <<setup, evicted, posted, outbox, store>>
  PROVE  Inv'
<1>1. /\ PlaceInv /\ Types /\ MutexOnce /\ OneContextEach(contexts) /\ HeldForItsRequest /\ ChannelOnce
      /\ \A q \in Requests : AnalysedOnce(q)
      /\ SeenHasLearned /\ AllComplete /\ \A t \in Traces : Followed(t)
  BY DEF Inv, PlaceInv, TagInv
<1>2. /\ mutex' \in Seq(Waiters) /\ NoDup(mutex') /\ Waits(kind, r)
      /\ \A k, z : Waits(k, z)' <=> Waits(k, z) /\ <<k, z>> # <<kind, r>>
  BY <1>1, LeavesMutex DEF Types
<1>3. MutexOnce'
  BY <1>1, <1>2 DEF MutexOnce
<1>4. /\ runtime' \in [Requests -> Stages] /\ \A q \in Requests : q # r => runtime'[q] = runtime[q]
      /\ runtime'[r] = IF kind = "error" THEN "error_sent" ELSE runtime[r]
  BY <1>1 DEF Types, Go, Stages
<1>5. ~Final(r) /\ Final(r)'
  BY <1>1, <1>2, <1>4 DEF Final, AnalysedOnce
<1>6. \A q \in Requests : q # r => (Final(q)' <=> Final(q))
  BY <1>2, <1>4 DEF Final
<1>7. PICK sample \in BOOLEAN, spent \in BOOLEAN :
        LET a == process_invocation_result(contexts, r, parses, sample, spent)
        IN /\ contexts' = a.ctxs /\ channel' = channel \o a.out
           /\ learned' = IF Has(contexts, r) THEN [learned EXCEPT ![r] = get_context(a.ctxs, r).tags] ELSE learned
  BY DEF Result
<1> DEFINE a == process_invocation_result(contexts, r, parses, sample, spent)
<1>8. /\ contexts' = a.ctxs /\ channel' = channel \o a.out
      /\ learned' = IF Has(contexts, r) THEN [learned EXCEPT ![r] = get_context(contexts', r).tags] ELSE learned
  BY <1>7
<1>9. /\ OneContextEach(a.ctxs)
      /\ ~Has(contexts, r) => a.ctxs = contexts /\ a.out = <<>>
      /\ Has(contexts, r) => \E y : Finishes(contexts, a, r, y)
  BY <1>1, ResultEffect
<1> HIDE DEF a
<1>10. OneContextEach(contexts') /\ contexts' \in Seq(Contexts)
  BY <1>8, <1>9 DEF OneContextEach, Distinct
<1>11. ASSUME \A q \in Requests : Has(contexts', q) => Has(contexts, q)
       PROVE  \A q \in Requests : AnalysedOnce(q)'
  <2> SUFFICES ASSUME NEW q \in Requests PROVE AnalysedOnce(q)'
    OBVIOUS
  <2>1. Waits("next", q)' <=> Waits("next", q)
    BY <1>2
  <2>2. CASE q # r
    BY <1>1, <1>2, <1>4, <1>11, <2>1, <2>2 DEF AnalysedOnce, Started
  <2>3. CASE q = r /\ kind = "error"
    BY <1>1, <1>2, <1>4, <1>11, <2>1, <2>3 DEF AnalysedOnce, Started
  <2>4. CASE q = r /\ kind = "response"
    BY <1>1, <1>2, <1>4, <1>11, <2>1, <2>4 DEF AnalysedOnce, Started
  <2> QED BY <2>2, <2>3, <2>4
<1>12. /\ learned' \in [Requests -> SUBSET Learnable]
       /\ \A q \in Requests : q # r => learned'[q] = learned[q]
       /\ Has(contexts, r) => learned'[r] = get_context(contexts', r).tags
  <2>1. CASE Has(contexts, r)
    <3>1. PICK y : Finishes(contexts, a, r, y)
      BY <1>9, <2>1
    <3>2. get_context(contexts', r).tags \in SUBSET Learnable
      BY <1>8, <3>1 DEF Finishes, Contexts
    <3> QED BY <1>1, <1>8, <2>1, <3>2 DEF Types
  <2>2. CASE ~Has(contexts, r)
    BY <1>1, <1>8, <2>2 DEF Types
  <2> QED BY <2>1, <2>2
<1>13. ASSUME NEW t, NEW e, Complete(t, e) PROVE Complete(t, e)'
  BY <1>5, <1>6, <1>12, <1>13 DEF Complete
<1>14. CASE ~Has(contexts, r)
  <2>1. contexts' = contexts /\ channel' = channel
    BY <1>1, <1>8, <1>9, <1>14, ConcatFact DEF Types
  <2>2. HeldForItsRequest' /\ ChannelOnce' /\ \A t \in Traces : Followed(t)'
    BY <1>1, <2>1 DEF HeldForItsRequest, ChannelOnce, Followed, Nowhere, OnChannel, Stored, HeldBack
  <2>3. Types'
    BY <1>1, <1>2, <1>4, <1>12, <2>1 DEF Types
  <2>4. AllComplete'
    BY <1>1, <1>13, <2>1 DEF AllComplete
  <2>5. SeenHasLearned'
    <3>1. \A x \in Elems(contexts) : x.rid \in Requests /\ x.rid # r
      BY <1>1, <1>14, ContextTypes, HasFact
    <3> QED BY <1>1, <1>6, <1>12, <2>1, <3>1 DEF SeenHasLearned
  <2> QED BY <1>3, <1>10, <1>11, <2>1, <2>2, <2>3, <2>4, <2>5 DEF Inv, PlaceInv, TagInv
<1>15. CASE Has(contexts, r)
  <2>1. PICK y : Finishes(contexts, a, r, y)
    BY <1>9, <1>15
  <2>2. /\ y \in Contexts /\ y.rid = r /\ y.seen /\ y.held = NoTrace /\ get_context(contexts', r) = y
        /\ y.tags \in SUBSET Learnable
    BY <1>8, <2>1 DEF Finishes, Contexts
  <2>3. PICK d \in Elems(contexts) :
          /\ d.rid = r /\ Elems(contexts') = (Elems(contexts) \ {d}) \cup {y}
          /\ channel' = channel \o (IF ~d.seen /\ d.held # NoTrace THEN <<Sent(d.held, y.tags, TRUE)>> ELSE <<>>)
    BY <1>8, <2>1 DEF Finishes
  <2>4. /\ HeldForItsRequest' /\ ChannelOnce' /\ channel' \in Seq(Outgoing)
        /\ \A t \in Traces : Followed(t)'
        /\ \A f \in Elems(channel') :
             \/ f \in Elems(channel)
             \/ ~d.seen /\ f = Sent(d.held, y.tags, TRUE) /\ d.held \in Traces /\ RidOf[d.held] = d.rid
    BY <1>1, <2>2, <2>3, ReleaseStep
  <2>5. Types'
    BY <1>1, <1>2, <1>4, <1>10, <1>12, <2>4 DEF Types
  <2>6. \A q \in Requests : Has(contexts', q) => Has(contexts, q)
    BY <1>15, <2>2, <2>3, HasFact
  <2>7. SeenHasLearned'
    <3>1. \A x \in Elems(contexts) : x.rid \in Requests /\ (x.rid = r => x = d)
      BY <1>1, <2>3, ContextTypes DEF OneContextEach
    <3>2. \A x \in Elems(contexts') : x = y \/ (x \in Elems(contexts) /\ x.rid \in Requests /\ x.rid # r)
      BY <2>3, <3>1
    <3>3. y.tags = learned'[r]
      BY <1>12, <1>15, <2>2
    <3> QED BY <1>1, <1>5, <1>6, <1>12, <2>2, <3>2, <3>3 DEF SeenHasLearned
  <2>8. \A f \in Elems(channel') : Complete(f.trace, f)'
    <3>1. Sent(d.held, y.tags, TRUE).trace = d.held /\ Sent(d.held, y.tags, TRUE).tags = y.tags
      BY DEF Sent
    <3>2. y.tags = learned'[r]
      BY <1>12, <1>15, <2>2
    <3>3. ASSUME RidOf[d.held] = d.rid
          PROVE  Complete(d.held, Sent(d.held, y.tags, TRUE))'
      BY <1>5, <2>3, <3>1, <3>2, <3>3 DEF Complete
    <3>4. \A f \in Elems(channel) : Complete(f.trace, f)'
      BY <1>1, <1>13 DEF AllComplete
    <3> QED BY <2>4, <3>1, <3>3, <3>4
  <2>9. AllComplete'
    BY <1>1, <1>13, <2>8 DEF AllComplete
  <2> QED BY <1>3, <1>10, <1>11, <2>4, <2>5, <2>6, <2>7, <2>9 DEF Inv, PlaceInv, TagInv
<1> QED BY <1>14, <1>15

\* The analysis of a response.
LEMMA AnalyseResponseStep ==
  ASSUME Inv, NEW r \in Requests, AnalyseResponse(r)
  PROVE  Inv'
<1>1. PICK parses \in BOOLEAN : Result(r, parses)
  BY DEF AnalyseResponse
<1>2. /\ Holds(mutex, <<"response", r>>) /\ mutex' = Tail(mutex)
      /\ UNCHANGED <<setup, runtime, evicted, posted, outbox, store>>
  BY DEF AnalyseResponse
<1> QED BY <1>1, <1>2, ResultStep

\* The analysis of an invocation error.
LEMMA ErrorStep ==
  ASSUME Inv, NEW r \in Requests, invocation_error_proxy(r)
  PROVE  Inv'
<1>1. /\ Holds(mutex, <<"error", r>>) /\ mutex' = Tail(mutex) /\ Result(r, TRUE) /\ Go(r, "error_sent")
      /\ UNCHANGED <<setup, evicted, posted, outbox, store>>
  BY DEF invocation_error_proxy
<1> QED BY <1>1, ResultStep

\* The call of an invocation error is dropped while it waits for the mutex.
LEMMA ErrorDroppedStep ==
  ASSUME Inv, NEW r \in Requests, ErrorCallDropped(r)
  PROVE  Inv'
<1>1. /\ runtime[r] = "error_mutex" /\ mutex' = RemoveFirst(mutex, <<"error", r>>) /\ Go(r, "failed")
      /\ UNCHANGED <<setup, contexts, evicted, learned, posted, outbox, channel, store>>
  BY DEF ErrorCallDropped, traceState
<1>2. Types /\ MutexOnce /\ \A q \in Requests : AnalysedOnce(q)
  BY DEF Inv, PlaceInv, TagInv
<1>3. /\ mutex' \in Seq(Waiters) /\ NoDup(mutex')
      /\ \A k, z : Waits(k, z)' <=> Waits(k, z) /\ <<k, z>> # <<"error", r>>
  <2>1. Distinct(Waiters, mutex') /\ Elems(mutex') = Elems(mutex) \ {<<"error", r>>}
    BY <1>1, <1>2, LeavesQueue DEF Types, MutexOnce, Distinct
  <2> QED BY <2>1 DEF Distinct, Waits
<1>4. /\ runtime' \in [Requests -> Stages] /\ runtime'[r] = "failed"
      /\ \A q \in Requests : q # r => runtime'[q] = runtime[q]
  BY <1>1, <1>2 DEF Types, Go, Stages
<1>5. Types' /\ MutexOnce'
  BY <1>1, <1>2, <1>3, <1>4 DEF Types, MutexOnce
<1>6. ASSUME NEW q \in Requests PROVE AnalysedOnce(q)' /\ (Final(q) => Final(q)')
  <2>1. CASE q # r
    BY <1>1, <1>2, <1>3, <1>4, <2>1 DEF AnalysedOnce, Started, Final
  <2>2. CASE q = r
    BY <1>1, <1>2, <1>3, <1>4, <2>2 DEF AnalysedOnce, Started, Final
  <2> QED BY <2>1, <2>2
<1> QED BY <1>1, <1>5, <1>6, QuietStep

\* The analysis before set_response_seen changes tags and budget only.
LEMMA AnalysedFact ==
  ASSUME NEW x \in Contexts, NEW parses \in BOOLEAN, NEW sample \in BOOLEAN, NEW spent \in BOOLEAN
  PROVE  LET z == Analysed(x, parses, sample, spent)
         IN z \in Contexts /\ z.rid = x.rid /\ z.seen = x.seen /\ z.held = x.held
<1> DEFINE y == IF x.known /\ parses THEN run(x, "response", spent) ELSE x
<1>1. y \in Contexts /\ y.rid = x.rid /\ y.seen = x.seen /\ y.held = x.held
  <2>1. CASE x.known /\ parses
    BY <2>1, RunFact DEF Learnable
  <2>2. CASE ~(x.known /\ parses)
    BY <2>2
  <2> QED BY <2>1, <2>2
<1>2. Analysed(x, parses, sample, spent) = IF sample THEN extract_schemas(y) ELSE y
  BY DEF Analysed
<1> HIDE DEF y
<1> QED BY <1>1, <1>2 DEF extract_schemas, Contexts, Learnable

\* It is dropped with the trace it has taken from the context.
LEMMA HandOverDroppedStep ==
  ASSUME Inv, NEW r \in Requests, HandOverDropped(r)
  PROVE  Inv'
<1>1. /\ PlaceInv /\ Types /\ MutexOnce /\ OneContextEach(contexts) /\ HeldForItsRequest /\ ChannelOnce
      /\ \A q \in Requests : AnalysedOnce(q)
      /\ SeenHasLearned /\ AllComplete /\ \A t \in Traces : Followed(t)
  BY DEF Inv, PlaceInv, TagInv
<1>2. /\ Holds(mutex, <<"error", r>>) /\ Has(contexts, r) /\ mutex' = Tail(mutex) /\ Go(r, "failed")
      /\ UNCHANGED <<setup, evicted, learned, outbox, channel, store>>
  BY DEF HandOverDropped
<1>3. PICK sample \in BOOLEAN, spent \in BOOLEAN :
        LET ctx == Analysed(get_context(contexts, r), TRUE, sample, spent)
        IN /\ ctx.held # NoTrace /\ contexts' = Update(contexts, [ctx EXCEPT !.held = NoTrace])
           /\ posted' = [posted EXCEPT ![ctx.held] = "dropped"]
  BY DEF HandOverDropped
<1>4. PICK d : d = get_context(contexts, r)
  OBVIOUS
<1>5. d \in Elems(contexts) /\ d \in Contexts /\ d.rid = r
  BY <1>1, <1>2, <1>4, PositionFact
<1>6. PICK z : z = Analysed(d, TRUE, sample, spent)
  OBVIOUS
<1>7. z \in Contexts /\ z.rid = r /\ z.seen = d.seen /\ z.held = d.held
  BY <1>5, <1>6, AnalysedFact
<1>8. PICK y : y = [z EXCEPT !.held = NoTrace]
  OBVIOUS
<1>9. PICK u : u = d.held
  OBVIOUS
<1>10. u # NoTrace /\ contexts' = Update(contexts, y) /\ posted' = [posted EXCEPT ![u] = "dropped"]
  BY <1>3, <1>4, <1>6, <1>7, <1>8, <1>9
<1>11. y \in Contexts /\ y.rid = r /\ y.held = NoTrace /\ y.seen = d.seen
  BY <1>7, <1>8 DEF Contexts
<1>12. ~d.seen /\ u \in Traces /\ RidOf[u] = r /\ posted[u] = "accepted"
  BY <1>1, <1>5, <1>9, <1>10, ContextTypes DEF OneContextEach, HeldForItsRequest
<1>13. OneContextEach(contexts') /\ Elems(contexts') = (Elems(contexts) \ {d}) \cup {y}
  BY <1>1, <1>2, <1>4, <1>10, <1>11, UpdateContext
<1>14. /\ mutex' \in Seq(Waiters) /\ NoDup(mutex') /\ Waits("error", r)
       /\ \A k, x : Waits(k, x)' <=> Waits(k, x) /\ <<k, x>> # <<"error", r>>
  BY <1>1, <1>2, LeavesMutex DEF Types
<1>15. /\ runtime' \in [Requests -> Stages] /\ runtime'[r] = "failed"
       /\ \A q \in Requests : q # r => runtime'[q] = runtime[q]
  BY <1>1, <1>2 DEF Types, Go, Stages
<1>16. posted'[u] = "dropped" /\ \A t \in Traces : t # u => posted'[t] = posted[t]
  BY <1>1, <1>10, <1>12 DEF Types
<1>17. MutexOnce'
  BY <1>1, <1>12, <1>14, <1>16 DEF MutexOnce
<1>18. Types'
  <2>1. contexts' \in Seq(Contexts)
    BY <1>13 DEF OneContextEach, Distinct
  <2> QED BY <1>1, <1>2, <1>10, <1>14, <1>15, <2>1 DEF Types
<1>19. \A x \in Elems(contexts) : x.held = u => x = d
  BY <1>1, <1>5, <1>10, <1>12 DEF HeldForItsRequest, OneContextEach
<1>20. HeldForItsRequest'
  BY <1>1, <1>11, <1>13, <1>16, <1>19, ContextTypes DEF HeldForItsRequest
<1>21. \A t \in Traces : Followed(t)'
  <2> SUFFICES ASSUME NEW t \in Traces PROVE Followed(t)'
    OBVIOUS
  <2>1. (OnChannel(t)' <=> OnChannel(t)) /\ (Stored(t)' <=> Stored(t))
    BY <1>2 DEF OnChannel, Stored
  <2>2. CASE t = u
    <3>1. HeldBack(u)
      BY <1>5, <1>9 DEF HeldBack
    <3>2. ~HeldBack(u)'
      BY <1>10, <1>11, <1>13, <1>19 DEF HeldBack
    <3>3. ~OnChannel(u) /\ ~Stored(u) /\ outbox[u] = <<>>
      BY <1>1, <1>12, <3>1 DEF Followed
    <3> QED BY <1>2, <1>16, <2>1, <2>2, <3>2, <3>3 DEF Followed, Nowhere
  <2>3. CASE t # u
    <3>1. HeldBack(t)' <=> HeldBack(t)
      BY <1>9, <1>11, <1>13, <2>3, ProxyAssumption DEF HeldBack
    <3>2. Nowhere(t) /\ posted[t] = "accepted" =>
            \E v \in SameRequest(t) : posted'[v] \in {"accepted", "dropped"}
      BY <1>1, <1>16 DEF Followed, SameRequest
    <3> QED BY <1>1, <1>2, <1>16, <2>1, <2>3, <3>1, <3>2 DEF Followed, Nowhere
  <2> QED BY <2>2, <2>3
<1>22. \A q \in Requests : Has(contexts', q) => Has(contexts, q)
  BY <1>2, <1>11, <1>13, HasFact
<1>23. ASSUME NEW q \in Requests PROVE AnalysedOnce(q)' /\ (Final(q) => Final(q)')
  <2>1. CASE q # r
    BY <1>1, <1>14, <1>15, <1>22, <2>1 DEF AnalysedOnce, Started, Final
  <2>2. CASE q = r
    BY <1>1, <1>14, <1>15, <1>22, <2>2 DEF AnalysedOnce, Started, Final
  <2> QED BY <2>1, <2>2
<1>24. SeenHasLearned'
  BY <1>1, <1>2, <1>11, <1>12, <1>13, <1>23, ContextTypes DEF SeenHasLearned
<1>25. AllComplete'
  <2>1. \A t, e : Complete(t, e) => Complete(t, e)'
    BY <1>2, <1>23 DEF Complete
  <2> QED BY <1>1, <1>2, <2>1 DEF AllComplete
<1>26. ChannelOnce'
  BY <1>1, <1>2 DEF ChannelOnce
<1> QED BY <1>13, <1>17, <1>18, <1>20, <1>21, <1>23, <1>24, <1>25, <1>26 DEF Inv, PlaceInv, TagInv

-----------------------------------------------------------------------------
(* The traces *)

\* The call of one trace goes on; contexts, tags and the runtime stay.
LEMMA PostTraceStep ==
  ASSUME Inv, NEW t \in Traces, PostTrace(t)
  PROVE  Inv'
<1>1. /\ Types /\ MutexOnce /\ OneContextEach(contexts) /\ HeldForItsRequest /\ ChannelOnce
      /\ \A q \in Requests : AnalysedOnce(q)
      /\ SeenHasLearned /\ AllComplete /\ \A u \in Traces : Followed(u)
  BY DEF Inv, PlaceInv, TagInv
<1>2. /\ posted[t] = "new"
      /\ UNCHANGED <<setup, runtime, contexts, evicted, learned, channel, store>>
  BY DEF PostTrace
<1>3. Nowhere(t) /\ outbox[t] = <<>>
  BY <1>1, <1>2 DEF Followed
<1>4. OneContextEach(contexts') /\ ChannelOnce'
  BY <1>1, <1>2 DEF OneContextEach, ChannelOnce
<1>5. CASE setup.aap
  <2>1. /\ mutex' = Append(mutex, <<"trace", t>>) /\ posted' = [posted EXCEPT ![t] = "waiting"]
        /\ UNCHANGED outbox
    BY <1>5 DEF PostTrace
  <2>2. <<"trace", t>> \in Waiters /\ <<"trace", t>> \notin Elems(mutex)
    BY <1>1, <1>2 DEF Waiters, MutexOnce, Waits
  <2>3. mutex' \in Seq(Waiters) /\ NoDup(mutex') /\ Elems(mutex') = Elems(mutex) \cup {<<"trace", t>>}
    BY <1>1, <2>1, <2>2, AppendElems DEF Types, MutexOnce
  <2>4. \A k, x : Waits(k, x)' <=> (Waits(k, x) \/ (k = "trace" /\ x = t))
    BY <2>3 DEF Waits
  <2>5. posted'[t] = "waiting" /\ \A u \in Traces : u # t => posted'[u] = posted[u]
    BY <1>1, <2>1 DEF Types
  <2>6. Types'
    BY <1>1, <1>2, <2>1, <2>3 DEF Types
  <2>7. MutexOnce'
    BY <1>1, <2>3, <2>4, <2>5 DEF MutexOnce
  <2>8. HeldForItsRequest'
    <3>1. \A x \in Elems(contexts) : x.held # NoTrace => x.held \in Traces
      BY <1>1, ContextTypes
    <3> QED BY <1>1, <1>2, <2>5, <3>1 DEF HeldForItsRequest
  <2>9. \A u \in Traces : Followed(u)'
    <3> SUFFICES ASSUME NEW u \in Traces PROVE Followed(u)'
      OBVIOUS
    <3>1. (Nowhere(u)' <=> Nowhere(u)) /\ (OnChannel(u)' <=> OnChannel(u)) /\ (Stored(u)' <=> Stored(u))
          /\ (HeldBack(u)' <=> HeldBack(u))
      BY <1>2 DEF Nowhere, OnChannel, Stored, HeldBack
    <3>2. CASE u = t
      BY <1>3, <2>1, <2>5, <3>1, <3>2 DEF Followed
    <3>3. CASE u # t
      <4>1. Nowhere(u) /\ posted[u] = "accepted" => \E v \in SameRequest(u) : posted'[v] \in {"accepted", "dropped"}
        BY <1>1, <1>2, <2>5 DEF Followed, SameRequest
      <4> QED BY <1>1, <1>2, <2>1, <2>5, <3>1, <3>3, <4>1 DEF Followed
    <3> QED BY <3>2, <3>3
  <2>10. \A q \in Requests : AnalysedOnce(q)' /\ (Final(q)' <=> Final(q))
    BY <1>1, <1>2, <2>4 DEF AnalysedOnce, Started, Final
  <2>11. SeenHasLearned' /\ AllComplete'
    <3>1. \A x \in Elems(contexts) : x.rid \in Requests
      BY <1>1, ContextTypes
    <3> QED BY <1>1, <1>2, <2>1, <2>10, <3>1 DEF SeenHasLearned, AllComplete, Complete
  <2> QED BY <1>4, <2>6, <2>7, <2>8, <2>9, <2>10, <2>11 DEF Inv, PlaceInv, TagInv
<1>6. CASE ~setup.aap
  <2> DEFINE e == Sent(t, {}, FALSE)
  <2>1. /\ posted' = [posted EXCEPT ![t] = "send"] /\ outbox' = [outbox EXCEPT ![t] = <<e>>]
        /\ UNCHANGED mutex
    BY <1>6 DEF PostTrace
  <2>2. e \in Outgoing /\ e.trace = t /\ ~e.context
    BY DEF Sent, Outgoing
  <2> HIDE DEF e
  <2>3. /\ posted'[t] = "send" /\ outbox'[t] = <<e>>
        /\ \A u \in Traces : u # t => posted'[u] = posted[u] /\ outbox'[u] = outbox[u]
    BY <1>1, <2>1 DEF Types
  <2>4. Types'
    BY <1>1, <1>2, <2>1, <2>2 DEF Types
  <2>5. MutexOnce'
    BY <1>1, <1>2, <2>1, <2>3 DEF MutexOnce, Waits
  <2>6. HeldForItsRequest'
    <3>1. \A x \in Elems(contexts) : x.held # NoTrace => x.held \in Traces
      BY <1>1, ContextTypes
    <3> QED BY <1>1, <1>2, <2>3, <3>1 DEF HeldForItsRequest
  <2>7. \A u \in Traces : Followed(u)'
    <3> SUFFICES ASSUME NEW u \in Traces PROVE Followed(u)'
      OBVIOUS
    <3>1. (Nowhere(u)' <=> Nowhere(u)) /\ (OnChannel(u)' <=> OnChannel(u)) /\ (Stored(u)' <=> Stored(u))
          /\ (HeldBack(u)' <=> HeldBack(u))
      BY <1>2 DEF Nowhere, OnChannel, Stored, HeldBack
    <3>2. CASE u = t
      BY <1>3, <2>2, <2>3, <3>1, <3>2 DEF Followed
    <3>3. CASE u # t
      <4>1. Nowhere(u) /\ posted[u] = "accepted" => \E v \in SameRequest(u) : posted'[v] \in {"accepted", "dropped"}
        BY <1>1, <1>2, <2>3 DEF Followed, SameRequest
      <4> QED BY <1>1, <1>2, <2>3, <3>1, <3>3, <4>1 DEF Followed
    <3> QED BY <3>2, <3>3
  <2>8. \A q \in Requests : AnalysedOnce(q)' /\ (Final(q)' <=> Final(q))
    BY <1>1, <1>2, <2>1 DEF AnalysedOnce, Started, Final, Waits
  <2>9. SeenHasLearned'
    BY <1>1, <1>2, <2>1 DEF SeenHasLearned, Final, Waits
  <2>10. AllComplete'
    <3>1. Elems(<<e>>) = {e}
      BY DEF Elems
    <3>2. Complete(t, e)'
      BY <2>2 DEF Complete
    <3>3. \A u, f : Complete(u, f) => Complete(u, f)'
      BY <1>2, <2>8 DEF Complete
    <3> QED BY <1>1, <1>2, <2>3, <3>1, <3>2, <3>3 DEF AllComplete
  <2> QED BY <1>4, <2>4, <2>5, <2>6, <2>7, <2>8, <2>9, <2>10 DEF Inv, PlaceInv, TagInv
<1> QED BY <1>5, <1>6

\* The call of a trace sends it.
LEMMA SendTraceStep ==
  ASSUME Inv, NEW t \in Traces, SendTrace(t)
  PROVE  Inv'
<1>1. /\ Types /\ MutexOnce /\ OneContextEach(contexts) /\ HeldForItsRequest /\ ChannelOnce
      /\ \A q \in Requests : AnalysedOnce(q)
      /\ SeenHasLearned /\ AllComplete /\ \A u \in Traces : Followed(u)
  BY DEF Inv, PlaceInv, TagInv
<1>2. /\ posted[t] = "send" /\ channel' = channel \o outbox[t] /\ outbox' = [outbox EXCEPT ![t] = <<>>]
      /\ posted' = [posted EXCEPT ![t] = "accepted"]
      /\ UNCHANGED <<setup, runtime, mutex, contexts, evicted, learned, store>>
  BY DEF SendTrace, aapState
<1>3. PICK e \in Outgoing : outbox[t] = <<e>> /\ e.trace = t
  BY <1>1, <1>2 DEF Followed
<1>4. Nowhere(t)
  BY <1>1, <1>2 DEF Followed
<1>5. /\ channel' \in Seq(Outgoing) /\ ChannelOnce' /\ Elems(channel') = Elems(channel) \cup {e}
      /\ \A u : OnChannel(u)' <=> OnChannel(u) \/ u = t
  BY <1>1, <1>2, <1>3, <1>4, JoinsChannel DEF Types, Nowhere
<1>6. /\ posted'[t] = "accepted" /\ outbox'[t] = <<>>
      /\ \A u \in Traces : u # t => posted'[u] = posted[u] /\ outbox'[u] = outbox[u]
  BY <1>1, <1>2 DEF Types
<1>7. Types'
  BY <1>1, <1>2, <1>5 DEF Types
<1>8. MutexOnce' /\ OneContextEach(contexts')
  BY <1>1, <1>2, <1>6 DEF MutexOnce, Waits, OneContextEach
<1>9. HeldForItsRequest'
  BY <1>1, <1>2, <1>6, ContextTypes DEF HeldForItsRequest
<1>10. \A u \in Traces : Followed(u)'
  <2> SUFFICES ASSUME NEW u \in Traces PROVE Followed(u)'
    OBVIOUS
  <2>1. (Stored(u)' <=> Stored(u)) /\ (HeldBack(u)' <=> HeldBack(u))
    BY <1>2 DEF Stored, HeldBack
  <2>2. CASE u = t
    <3>1. Len(store[t]) <= 1
      BY <1>4 DEF Nowhere, Stored
    <3> QED BY <1>2, <1>4, <1>5, <1>6, <2>1, <2>2, <3>1 DEF Followed, Nowhere
  <2>3. CASE u # t
    <3>1. posted[u] = "accepted" /\ Nowhere(u) => \E v \in SameRequest(u) : posted'[v] \in {"accepted", "dropped"}
      BY <1>1, <1>6 DEF Followed, SameRequest
    <3> QED BY <1>1, <1>2, <1>5, <1>6, <2>1, <2>3, <3>1 DEF Followed, Nowhere
  <2> QED BY <2>2, <2>3
<1>11. \A q \in Requests : AnalysedOnce(q)' /\ (Final(q)' <=> Final(q))
  BY <1>1, <1>2 DEF AnalysedOnce, Started, Final, Waits
<1>12. SeenHasLearned'
  BY <1>1, <1>2 DEF SeenHasLearned, Final, Waits
<1>13. AllComplete'
  <2>1. \A u, f : Complete(u, f) => Complete(u, f)'
    BY <1>2, <1>11 DEF Complete
  <2>2. Elems(<<>>) = {} /\ e \in Elems(outbox[t])
    BY <1>3 DEF Elems
  <2>3. \A f \in Elems(channel') : Complete(f.trace, f)'
    BY <1>1, <1>3, <1>5, <2>1, <2>2 DEF AllComplete
  <2>4. \A u \in Traces : \A f \in Elems(outbox'[u]) \cup Elems(store'[u]) : Complete(u, f)'
    BY <1>1, <1>2, <1>6, <2>1, <2>2 DEF AllComplete
  <2> QED BY <2>3, <2>4 DEF AllComplete
<1> QED BY <1>5, <1>7, <1>8, <1>9, <1>10, <1>11, <1>12, <1>13 DEF Inv, PlaceInv, TagInv

\* The call of a trace is dropped.
LEMMA TraceDroppedStep ==
  ASSUME Inv, NEW t \in Traces, TraceCallDropped(t)
  PROVE  Inv'
<1>1. /\ Types /\ MutexOnce /\ OneContextEach(contexts) /\ HeldForItsRequest /\ ChannelOnce
      /\ \A q \in Requests : AnalysedOnce(q)
      /\ SeenHasLearned /\ AllComplete /\ \A u \in Traces : Followed(u)
  BY DEF Inv, PlaceInv, TagInv
<1>2. /\ posted[t] \in {"waiting", "send"} /\ mutex' = RemoveFirst(mutex, <<"trace", t>>)
      /\ outbox' = [outbox EXCEPT ![t] = <<>>] /\ posted' = [posted EXCEPT ![t] = "dropped"]
      /\ UNCHANGED <<setup, runtime, contexts, evicted, learned, channel, store>>
  BY DEF TraceCallDropped
<1>3. Nowhere(t)
  BY <1>1, <1>2 DEF Followed
<1>4. /\ mutex' \in Seq(Waiters) /\ NoDup(mutex')
      /\ \A k, z : Waits(k, z)' <=> Waits(k, z) /\ <<k, z>> # <<"trace", t>>
  <2>1. Distinct(Waiters, mutex') /\ Elems(mutex') = Elems(mutex) \ {<<"trace", t>>}
    BY <1>1, <1>2, LeavesQueue DEF Types, MutexOnce, Distinct
  <2> QED BY <2>1 DEF Distinct, Waits
<1>5. /\ posted'[t] = "dropped" /\ outbox'[t] = <<>>
      /\ \A u \in Traces : u # t => posted'[u] = posted[u] /\ outbox'[u] = outbox[u]
  BY <1>1, <1>2 DEF Types
<1>6. Types'
  BY <1>1, <1>2, <1>4 DEF Types
<1>7. MutexOnce'
  BY <1>1, <1>4, <1>5 DEF MutexOnce
<1>8. OneContextEach(contexts') /\ ChannelOnce'
  BY <1>1, <1>2 DEF OneContextEach, ChannelOnce
<1>9. HeldForItsRequest'
  BY <1>1, <1>2, <1>5, ContextTypes DEF HeldForItsRequest
<1>10. \A u \in Traces : Followed(u)'
  <2> SUFFICES ASSUME NEW u \in Traces PROVE Followed(u)'
    OBVIOUS
  <2>1. (Nowhere(u)' <=> Nowhere(u)) /\ (OnChannel(u)' <=> OnChannel(u)) /\ (Stored(u)' <=> Stored(u))
        /\ (HeldBack(u)' <=> HeldBack(u))
    BY <1>2 DEF Nowhere, OnChannel, Stored, HeldBack
  <2>2. CASE u = t
    BY <1>3, <1>5, <2>1, <2>2 DEF Followed
  <2>3. CASE u # t
    <3>1. Nowhere(u) /\ posted[u] = "accepted" =>
            \E v \in SameRequest(u) : posted'[v] \in {"accepted", "dropped"}
      BY <1>1, <1>2, <1>5 DEF Followed, SameRequest
    <3> QED BY <1>1, <1>2, <1>5, <2>1, <2>3, <3>1 DEF Followed
  <2> QED BY <2>2, <2>3
<1>11. \A q \in Requests : AnalysedOnce(q)' /\ (Final(q)' <=> Final(q))
  BY <1>1, <1>2, <1>4 DEF AnalysedOnce, Started, Final
<1>12. SeenHasLearned'
  BY <1>1, <1>2, <1>11, ContextTypes DEF SeenHasLearned
<1>13. AllComplete'
  <2>1. \A u, f : Complete(u, f) => Complete(u, f)'
    BY <1>2, <1>11 DEF Complete
  <2>2. Elems(<<>>) = {}
    BY DEF Elems
  <2> QED BY <1>1, <1>2, <1>5, <2>1, <2>2 DEF AllComplete
<1> QED BY <1>6, <1>7, <1>8, <1>9, <1>10, <1>11, <1>12, <1>13 DEF Inv, PlaceInv, TagInv

\* The forwarder stores the oldest payload.
LEMMA ForwardStep ==
  ASSUME Inv, Forward
  PROVE  Inv'
<1>1. /\ Types /\ MutexOnce /\ OneContextEach(contexts) /\ HeldForItsRequest /\ ChannelOnce
      /\ \A q \in Requests : AnalysedOnce(q)
      /\ SeenHasLearned /\ AllComplete /\ \A u \in Traces : Followed(u)
  BY DEF Inv, PlaceInv, TagInv
<1>0. PICK e : e = Head(channel)
  OBVIOUS
<1> DEFINE t == e.trace
<1>2. /\ channel # <<>> /\ store' = [store EXCEPT ![t] = Append(store[t], e)] /\ channel' = Tail(channel)
      /\ UNCHANGED <<setup, runtime, mutex, contexts, evicted, learned, posted, outbox>>
  BY <1>0 DEF Forward, aapState
<1>3. Distinct(Outgoing, channel)
  BY <1>1 DEF Types, ChannelOnce, Distinct
<1>4. /\ channel' \in Seq(Outgoing) /\ NoDup(channel') /\ e \in Elems(channel) /\ e \in Outgoing
      /\ Elems(channel') = Elems(channel) \ {e}
  BY <1>0, <1>2, <1>3, TailElems DEF Distinct
<1>5. t \in Traces
  BY <1>4 DEF Outgoing
<1>6. OnChannel(t)
  BY <1>4 DEF OnChannel
<1> HIDE DEF t
<1>7. posted[t] = "accepted" /\ ~Stored(t) /\ ~HeldBack(t)
  BY <1>1, <1>5, <1>6 DEF Followed, Nowhere, Types
<1>8. store[t] = <<>> /\ store'[t] = Append(<<>>, e) /\ \A u \in Traces : u # t => store'[u] = store[u]
  BY <1>1, <1>2, <1>5, <1>7 DEF Types, Stored
<1>9. store'[t] = <<e>> /\ Len(store'[t]) = 1 /\ store'[t] # <<>> /\ Elems(store'[t]) = {e}
  BY <1>8 DEF Elems
<1>10. Types'
  <2>1. store' \in [Traces -> Seq(Outgoing)]
    BY <1>1, <1>2, <1>4, <1>5 DEF Types
  <2> QED BY <1>1, <1>2, <1>4, <2>1 DEF Types
<1>11. ChannelOnce' /\ ~OnChannel(t)' /\ \A u \in Traces : u # t => (OnChannel(u)' <=> OnChannel(u))
  BY <1>1, <1>4 DEF ChannelOnce, OnChannel, t
<1>12. MutexOnce' /\ OneContextEach(contexts') /\ HeldForItsRequest'
  BY <1>1, <1>2 DEF MutexOnce, Waits, OneContextEach, HeldForItsRequest
<1>13. \A u \in Traces : Followed(u)'
  <2> SUFFICES ASSUME NEW u \in Traces PROVE Followed(u)'
    OBVIOUS
  <2>1. HeldBack(u)' <=> HeldBack(u)
    BY <1>2 DEF HeldBack
  <2>2. CASE u = t
    BY <1>1, <1>2, <1>5, <1>7, <1>9, <1>11, <2>1, <2>2 DEF Followed, Nowhere, Stored
  <2>3. CASE u # t
    BY <1>1, <1>2, <1>8, <1>11, <2>1, <2>3 DEF Followed, Nowhere, Stored
  <2> QED BY <2>2, <2>3
<1>14. \A q \in Requests : AnalysedOnce(q)' /\ (Final(q)' <=> Final(q))
  BY <1>1, <1>2 DEF AnalysedOnce, Started, Final, Waits
<1>15. SeenHasLearned'
  BY <1>1, <1>2 DEF SeenHasLearned, Final, Waits
<1>16. AllComplete'
  <2>1. \A u, f : Complete(u, f) => Complete(u, f)'
    BY <1>2, <1>14 DEF Complete
  <2>2. Complete(t, e)'
    BY <1>1, <1>4, <2>1 DEF AllComplete, t
  <2>3. \A f \in Elems(channel') : Complete(f.trace, f)'
    BY <1>1, <1>4, <2>1 DEF AllComplete
  <2>4. ASSUME NEW u \in Traces, NEW f \in Elems(outbox'[u]) \cup Elems(store'[u])
        PROVE  Complete(u, f)'
    BY <1>1, <1>2, <1>8, <1>9, <2>1, <2>2 DEF AllComplete
  <2> QED BY <2>3, <2>4 DEF AllComplete
<1> QED BY <1>10, <1>11, <1>12, <1>13, <1>14, <1>15, <1>16 DEF Inv, PlaceInv, TagInv

\* A trace asks for the context of its request.
LEMMA ProcessTraceStep ==
  ASSUME Inv, NEW t \in Traces, ProcessTrace(t)
  PROVE  Inv'
<1>1. /\ Types /\ MutexOnce /\ OneContextEach(contexts) /\ HeldForItsRequest /\ ChannelOnce
      /\ \A q \in Requests : AnalysedOnce(q)
      /\ SeenHasLearned /\ AllComplete /\ \A u \in Traces : Followed(u)
  BY DEF Inv, PlaceInv, TagInv
<1> DEFINE a == process_span(contexts, t, RidOf[t])
<1>2. /\ contexts' = a.ctxs /\ outbox' = [outbox EXCEPT ![t] = a.out]
      /\ posted' = [posted EXCEPT ![t] = IF a.out = <<>> THEN "accepted" ELSE "send"]
      /\ mutex' = Tail(mutex) /\ Holds(mutex, <<"trace", t>>)
      /\ UNCHANGED <<setup, runtime, evicted, learned, channel, store>>
  BY DEF ProcessTrace
<1>3. /\ OneContextEach(a.ctxs)
      /\ \/ Passes(contexts, a, t)
         \/ \E d : Takes(contexts, a, t, d)
         \/ \E d, y : Holding(contexts, a, t, d, y)
  BY <1>1, SpanEffect
<1> HIDE DEF a
<1>4. OneContextEach(contexts') /\ contexts' \in Seq(Contexts)
  BY <1>2, <1>3 DEF OneContextEach, Distinct
<1>5. /\ mutex' \in Seq(Waiters) /\ NoDup(mutex') /\ Waits("trace", t)
      /\ \A k, z : Waits(k, z)' <=> Waits(k, z) /\ <<k, z>> # <<"trace", t>>
  BY <1>1, <1>2, LeavesMutex DEF Types
<1>6. posted[t] = "waiting" /\ Nowhere(t)
  BY <1>1, <1>5 DEF MutexOnce, Followed
<1>7. /\ posted'[t] = (IF a.out = <<>> THEN "accepted" ELSE "send") /\ outbox'[t] = a.out
      /\ \A u \in Traces : u # t => posted'[u] = posted[u] /\ outbox'[u] = outbox[u]
  BY <1>1, <1>2 DEF Types
<1>8. MutexOnce'
  BY <1>1, <1>5, <1>7 DEF MutexOnce
<1>9. ChannelOnce' /\ \A u : OnChannel(u)' <=> OnChannel(u)
  BY <1>1, <1>2 DEF ChannelOnce, OnChannel
<1>10. \A u : Stored(u)' <=> Stored(u)
  BY <1>2 DEF Stored
<1>11. ASSUME a.out \in Seq(Outgoing) PROVE Types'
  BY <1>1, <1>2, <1>4, <1>5, <1>11 DEF Types
<1>12. \A q \in Requests : Final(q)' <=> Final(q)
  BY <1>2, <1>5 DEF Final
<1>13. ASSUME \A q \in Requests : Has(contexts', q) => Has(contexts, q)
       PROVE  \A q \in Requests : AnalysedOnce(q)'
  BY <1>1, <1>2, <1>5, <1>13 DEF AnalysedOnce, Started
<1>14. ASSUME \A f \in Elems(a.out) : Complete(t, f)
       PROVE  AllComplete'
  <2>1. \A u, f : Complete(u, f) => Complete(u, f)'
    BY <1>2, <1>12 DEF Complete
  <2>2. \A f \in Elems(channel') : Complete(f.trace, f)'
    BY <1>1, <1>2, <2>1 DEF AllComplete
  <2>3. \A u \in Traces : \A f \in Elems(outbox'[u]) \cup Elems(store'[u]) : Complete(u, f)'
    BY <1>1, <1>2, <1>7, <1>14, <2>1 DEF AllComplete
  <2> QED BY <2>2, <2>3 DEF AllComplete
<1>15. ASSUME NEW u \in Traces, u # t, posted[u] = "accepted", Nowhere(u)
       PROVE  \E v \in SameRequest(u) : posted'[v] \in {"accepted", "dropped"}
  BY <1>1, <1>6, <1>7, <1>15 DEF Followed, SameRequest
\* The trace goes on, and no context held one that it does not hold now.
<1>16. ASSUME NEW e \in Outgoing, e.trace = t, a.out = <<e>>, Complete(t, e),
              \A x \in Elems(contexts') : x \in Elems(contexts),
              \A x \in Elems(contexts) : x \in Elems(contexts') \/ x.held = NoTrace
       PROVE  Inv'
  <2>1. Elems(a.out) = {e} /\ a.out \in Seq(Outgoing) /\ a.out # <<>>
    BY <1>16 DEF Elems
  <2>2. \A u \in Traces : HeldBack(u)' <=> HeldBack(u)
    BY <1>16, ProxyAssumption DEF HeldBack
  <2>3. \A u \in Traces : Followed(u)'
    <3> SUFFICES ASSUME NEW u \in Traces PROVE Followed(u)'
      OBVIOUS
    <3>1. CASE u = t
      BY <1>6, <1>7, <1>9, <1>10, <1>16, <2>1, <2>2, <3>1 DEF Followed, Nowhere
    <3>2. CASE u # t
      BY <1>1, <1>2, <1>7, <1>9, <1>10, <1>15, <2>2, <3>2 DEF Followed, Nowhere
    <3> QED BY <3>1, <3>2
  <2>4. HeldForItsRequest'
    BY <1>1, <1>6, <1>7, <1>16, ContextTypes DEF HeldForItsRequest
  <2>5. \A q \in Requests : AnalysedOnce(q)'
    BY <1>13, <1>16, HasFact
  <2>6. SeenHasLearned'
    BY <1>1, <1>2, <1>12, <1>16, ContextTypes DEF SeenHasLearned
  <2>7. AllComplete' /\ Types'
    BY <1>11, <1>14, <1>16, <2>1
  <2> QED BY <1>4, <1>8, <1>9, <2>3, <2>4, <2>5, <2>6, <2>7 DEF Inv, PlaceInv, TagInv
<1>17. CASE Passes(contexts, a, t)
  <2> DEFINE e == Sent(t, {}, FALSE)
  <2>1. contexts' = contexts /\ a.out = <<e>>
    BY <1>2, <1>17 DEF Passes
  <2>2. e \in Outgoing /\ e.trace = t /\ ~e.context
    BY DEF Sent, Outgoing
  <2> HIDE DEF e
  <2>3. Complete(t, e)
    BY <2>2 DEF Complete
  <2> QED BY <1>16, <2>1, <2>2, <2>3
<1>18. ASSUME NEW d, Takes(contexts, a, t, d) PROVE Inv'
  <2> DEFINE e == Sent(t, d.tags, TRUE)
  <2>1. /\ d \in Elems(contexts) /\ d.rid = RidOf[t] /\ d.seen
        /\ Elems(contexts') = Elems(contexts) \ {d} /\ a.out = <<e>>
    BY <1>2, <1>18 DEF Takes
  <2>2. d.rid \in Requests /\ d.tags \in SUBSET Learnable /\ d.held = NoTrace
    BY <1>1, <2>1, ContextTypes DEF OneContextEach
  <2>3. e \in Outgoing /\ e.trace = t /\ e.tags = d.tags
    BY <2>2 DEF Sent, Outgoing
  <2> HIDE DEF e
  <2>4. Complete(t, e)
    BY <1>1, <2>1, <2>2, <2>3 DEF Complete, SeenHasLearned
  <2> QED BY <1>16, <2>1, <2>2, <2>3, <2>4
<1>19. ASSUME NEW d, NEW y, Holding(contexts, a, t, d, y) PROVE Inv'
  <2>1. /\ d \in Elems(contexts) /\ d.rid = RidOf[t] /\ ~d.seen /\ RidOf[t] # 0
        /\ y \in Contexts /\ y.rid = d.rid /\ ~y.seen /\ y.tags = d.tags /\ y.held = t
        /\ Elems(contexts') = (Elems(contexts) \ {d}) \cup {y} /\ a.out = <<>>
    BY <1>2, <1>19 DEF Holding
  <2>2. Elems(a.out) = {} /\ a.out \in Seq(Outgoing) /\ posted'[t] = "accepted" /\ outbox'[t] = <<>>
    BY <1>7, <2>1 DEF Elems
  <2>3. HeldBack(t)' /\ \A u \in Traces : u # t /\ u # d.held => (HeldBack(u)' <=> HeldBack(u))
    BY <2>1 DEF HeldBack
  <2>4. \A u \in Traces : u # t => (HeldBack(u)' => HeldBack(u))
    BY <2>1 DEF HeldBack
  <2>5. \A u \in Traces : u # t /\ u = d.held => t \in SameRequest(u)
    BY <1>1, <2>1, ProxyAssumption DEF SameRequest, HeldForItsRequest
  <2>6. \A u \in Traces : Followed(u)'
    <3> SUFFICES ASSUME NEW u \in Traces PROVE Followed(u)'
      OBVIOUS
    <3>1. CASE u = t
      <4>1. Len(store[t]) <= 1
        BY <1>6 DEF Nowhere, Stored
      <4> QED BY <1>2, <1>6, <1>9, <1>10, <2>2, <2>3, <3>1, <4>1 DEF Followed, Nowhere
    <3>2. CASE u # t /\ u # d.held
      BY <1>1, <1>2, <1>7, <1>9, <1>10, <1>15, <2>3, <3>2 DEF Followed, Nowhere
    <3>3. CASE u # t /\ u = d.held
      <4>1. posted[u] = "accepted"
        BY <1>1, <2>1, <3>3, ProxyAssumption DEF HeldForItsRequest
      <4>2. \E v \in SameRequest(u) : posted'[v] \in {"accepted", "dropped"}
        BY <2>2, <2>5, <3>3
      <4> QED BY <1>1, <1>2, <1>7, <1>9, <1>10, <2>4, <3>3, <4>1, <4>2 DEF Followed, Nowhere
    <3> QED BY <3>1, <3>2, <3>3
  <2>7. HeldForItsRequest'
    BY <1>1, <1>6, <1>7, <2>1, <2>2, ContextTypes DEF HeldForItsRequest
  <2>8. \A q \in Requests : AnalysedOnce(q)'
    BY <1>13, <2>1, HasFact
  <2>9. SeenHasLearned'
    BY <1>1, <1>2, <1>12, <2>1, ContextTypes DEF SeenHasLearned
  <2>10. AllComplete' /\ Types'
    BY <1>11, <1>14, <2>2
  <2> QED BY <1>4, <1>8, <1>9, <2>6, <2>7, <2>8, <2>9, <2>10 DEF Inv, PlaceInv, TagInv
<1> QED BY <1>3, <1>17, <1>18, <1>19

-----------------------------------------------------------------------------
(* The specification keeps the invariant *)

\* The invariant holds initially.
LEMMA InitInv == Init => Inv
<1> SUFFICES ASSUME Init PROVE Inv
  OBVIOUS
<1>1. Elems(<<>>) = {} /\ NoDup(<<>>)
  BY DEF Elems, NoDup
<1>2. /\ mutex = <<>> /\ contexts = <<>> /\ channel = <<>>
      /\ \A t \in Traces : posted[t] = "new" /\ outbox[t] = <<>> /\ store[t] = <<>>
      /\ \A r \in Requests : runtime[r] = "idle"
  BY DEF Init
<1>3. Types
  BY DEF Init, Types, Stages
<1>4. OneContextEach(contexts) /\ MutexOnce /\ HeldForItsRequest /\ ChannelOnce
  BY <1>1, <1>2 DEF OneContextEach, Distinct, MutexOnce, Waits, HeldForItsRequest, ChannelOnce
<1>5. \A t \in Traces : Followed(t)
  BY <1>1, <1>2 DEF Followed, Nowhere, OnChannel, Stored, HeldBack
<1>6. \A r \in Requests : AnalysedOnce(r)
  BY <1>1, <1>2 DEF AnalysedOnce, Waits, Started, Has
<1>7. SeenHasLearned /\ AllComplete
  BY <1>1, <1>2 DEF SeenHasLearned, AllComplete
<1> QED BY <1>3, <1>4, <1>5, <1>6, <1>7 DEF Inv, PlaceInv, TagInv

\* Every step keeps the invariant.
LEMMA StepInv == Inv /\ [Next]_vars => Inv'
<1> SUFFICES ASSUME Inv, [Next]_vars PROVE Inv'
  OBVIOUS
<1>1. ASSUME NEW t \in Traces, PostTrace(t) \/ SendTrace(t) \/ ProcessTrace(t) \/ TraceCallDropped(t)
      PROVE  Inv'
  BY <1>1, PostTraceStep, SendTraceStep, ProcessTraceStep, TraceDroppedStep
<1>2. ASSUME NEW r \in Requests,
             \/ AnalyseNext(r) \/ AnalyseResponse(r) \/ invocation_error_proxy(r)
             \/ ErrorCallDropped(r) \/ HandOverDropped(r)
      PROVE  Inv'
  BY <1>2, AnalyseNextStep, AnalyseResponseStep, ErrorStep, ErrorDroppedStep, HandOverDroppedStep
<1>3. ASSUME NEW r \in Requests,
             \/ CallNext(r) \/ NextFails(r) \/ NextBodyBreaks(r) \/ NextBodyRead(r)
             \/ CallResponse(r) \/ ResponseBodyDropped(r) \/ CallError(r) \/ RuntimeStops(r)
             \/ invocation_next_proxy(r) \/ invocation_response_proxy(r) \/ ResponseBodySent(r)
             \/ ResponseAnswered(r) \/ passthrough_proxy(r) \/ LockCallDropped(r)
      PROVE  Inv'
  BY <1>3, ProxyStep
<1>4. ASSUME NEW t \in tasks, Tell(t)
      PROVE  Inv'
  BY <1>4, IdleStep DEF Tell, aapState, traceState
<1>5. CASE Cancel \/ graceful_shutdown \/ UNCHANGED vars
  BY <1>5, IdleStep DEF Cancel, graceful_shutdown, vars, aapState, traceState
<1> QED BY <1>1, <1>2, <1>3, <1>4, <1>5, ForwardStep DEF Next, Work

\* The inductive invariant holds in every state of the proxy.
THEOREM ProxyInvariant == Spec => []Inv
BY InitInv, StepInv, PTL DEF Spec

\* A trace that was accepted is on the channel, stored or held, in one place
\* only, whatever happens to its request; only a second trace of the request can
\* take its place, and only a call that is dropped takes one along.
THEOREM TraceNeverVanishes == Spec => []NoTraceVanishes
<1>0. ASSUME Inv, NEW t \in Traces, posted[t] = "dropped" PROVE Places(t) = {}
  <2>1. ~OnChannel(t) /\ ~Stored(t) /\ ~HeldBack(t)
    BY <1>0 DEF Inv, PlaceInv, Followed, Nowhere
  <2>2. DOMAIN store[t] = {}
    BY <2>1 DEF Stored
  <2>3. {i \in DOMAIN channel : channel[i].trace = t} = {}
    BY <2>1 DEF OnChannel, Elems
  <2>4. {i \in DOMAIN contexts : contexts[i].held = t} = {}
    BY <2>1 DEF HeldBack, Elems
  <2> QED BY <2>2, <2>3, <2>4 DEF Places
<1>1. ASSUME Inv, NEW t \in Traces, posted[t] = "accepted"
      PROVE  /\ \A p, q \in Places(t) : p = q
             /\ Places(t) = {} => \E u \in SameRequest(t) : posted[u] \in {"accepted", "dropped"}
  <2>1. /\ Types /\ OneContextEach(contexts) /\ HeldForItsRequest /\ ChannelOnce /\ Followed(t)
    BY <1>1 DEF Inv, PlaceInv
  <2> DEFINE S == DOMAIN store[t]
             C == {i \in DOMAIN channel : channel[i].trace = t}
             H == {i \in DOMAIN contexts : contexts[i].held = t}
  <2>2. Places(t) = ({"stored"} \X S) \cup ({"sent"} \X C) \cup ({"held"} \X H)
    BY DEF Places
  <2>3. (S # {} <=> Stored(t)) /\ \A i, j \in S : i = j
    <3>1. store[t] \in Seq(Outgoing) /\ Len(store[t]) <= 1
      BY <1>1, <2>1 DEF Types, Followed
    <3>2. S = 1 .. Len(store[t]) /\ Len(store[t]) \in Nat /\ (Len(store[t]) = 0 <=> store[t] = <<>>)
      BY <3>1
    <3> HIDE DEF S
    <3>3. S # {} <=> store[t] # <<>>
      BY <3>2
    <3>4. \A i, j \in S : i = j
      BY <3>1, <3>2
    <3> QED BY <3>3, <3>4 DEF Stored
  <2>4. (C # {} <=> OnChannel(t)) /\ \A i, j \in C : i = j
    BY <2>1 DEF ChannelOnce, OnChannel, Elems, NoDup
  <2>5. (H # {} <=> HeldBack(t)) /\ \A i, j \in H : i = j
    <3>1. H # {} <=> HeldBack(t)
      BY DEF HeldBack, Elems
    <3>2. ASSUME NEW i \in H, NEW j \in H PROVE i = j
      <4>1. /\ contexts[i] \in Elems(contexts) /\ contexts[j] \in Elems(contexts)
            /\ contexts[i].held = t /\ contexts[j].held = t
        BY DEF Elems
      <4>2. contexts[i] = contexts[j]
        BY <2>1, <4>1, ProxyAssumption DEF HeldForItsRequest, OneContextEach
      <4> QED BY <2>1, <4>2 DEF OneContextEach, Distinct, NoDup
    <3> QED BY <3>1, <3>2
  <2> HIDE DEF S, C, H
  <2>6. \A p, q \in Places(t) : p = q
    <3>1. \A p \in Places(t) :
            \/ Stored(t) /\ \E i \in S : p = <<"stored", i>>
            \/ OnChannel(t) /\ \E i \in C : p = <<"sent", i>>
            \/ HeldBack(t) /\ \E i \in H : p = <<"held", i>>
      BY <2>2, <2>3, <2>4, <2>5
    <3>2. ~(OnChannel(t) /\ Stored(t)) /\ ~(OnChannel(t) /\ HeldBack(t)) /\ ~(Stored(t) /\ HeldBack(t))
      BY <1>1, <2>1 DEF Followed
    <3> QED BY <2>3, <2>4, <2>5, <3>1, <3>2
  <2>7. Places(t) = {} => Nowhere(t)
    <3>1. /\ \A i \in S : <<"stored", i>> \in Places(t)
          /\ \A i \in C : <<"sent", i>> \in Places(t)
          /\ \A i \in H : <<"held", i>> \in Places(t)
      BY <2>2
    <3> QED BY <2>3, <2>4, <2>5, <3>1 DEF Nowhere
  <2> QED BY <1>1, <2>1, <2>6, <2>7 DEF Followed
<1>2. Inv => NoTraceVanishes
  BY <1>0, <1>1 DEF NoTraceVanishes
<1> QED BY <1>2, ProxyInvariant, PTL

\* A trace that met the context of its request leaves with everything that was
\* learned from request and response, unless the context was pushed out first.
THEOREM TraceFullyTagged == Spec => []SentFullyTagged
<1>1. Inv => SentFullyTagged
  <2> SUFFICES ASSUME Inv, NEW t \in Traces, NEW e \in Emitted(t) PROVE Complete(t, e)
    BY DEF SentFullyTagged, Complete
  <2>1. AllComplete
    BY DEF Inv, TagInv
  <2>2. CASE e \in Elems(store[t])
    BY <2>1, <2>2 DEF AllComplete
  <2>3. CASE e \in Elems(channel) /\ e.trace = t
    BY <2>1, <2>3 DEF AllComplete
  <2> QED BY <2>2, <2>3 DEF Emitted, Elems
<1> QED BY <1>1, ProxyInvariant, PTL

=============================================================================
