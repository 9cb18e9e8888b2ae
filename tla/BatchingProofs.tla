--------------------------- MODULE BatchingProofs ---------------------------
(***************************************************************************)
(* Cutting a queue into batches loses, repeats and reorders no payload, for *)
(* any limits and sizes.  What get_batch takes a payload to weigh does not *)
(* matter for this: any cut of the queue at its front would do.            *)
(***************************************************************************)
EXTENDS Batching, SequenceTheorems, WellFoundedInduction, TLAPS

-----------------------------------------------------------------------------
(* Induction over the natural numbers up to a bound *)

\* A set of natural numbers has a least one.
LEMMA LeastNumber ==
  ASSUME NEW T \in SUBSET Nat, T # {}
  PROVE  \E x \in T : \A y \in T : x <= y
<1> DEFINE Below == {ss \in Nat \X Nat : ss[1] < ss[2]}
<1>1. IsWellFoundedOn(OpToRel(<, Nat), Nat)
  BY NatLessThanWellFounded
<1>2. OpToRel(<, Nat) = Below
  BY Zenon DEF OpToRel
<1> HIDE DEF Below
<1>3. IsWellFoundedOn(Below, Nat)
  BY <1>1, <1>2, Zenon
<1>4. PICK x \in T : \A y \in T : <<y, x>> \notin Below
  BY <1>3, WFMin
<1>5. ASSUME NEW y \in T, y < x PROVE FALSE
  <2>1. <<y, x>> \in Nat \X Nat /\ <<y, x>>[1] < <<y, x>>[2]
    BY <1>5
  <2>2. <<y, x>> \in Below
    BY <2>1 DEF Below
  <2> QED BY <2>2, <1>4
<1>6. \A y \in T : x <= y
  BY <1>5
<1> QED BY <1>6

\* A set that holds 0 and, with every number, the next one holds all of them.
LEMMA UpTo ==
  ASSUME NEW N \in Nat, NEW P, 0 \in P, \A n \in 1 .. N : n - 1 \in P => n \in P
  PROVE  \A n \in 0 .. N : n \in P
<1> DEFINE T == {n \in 0 .. N : n \notin P}
<1> SUFFICES ASSUME T # {} PROVE FALSE
  OBVIOUS
<1>1. T \in SUBSET Nat
  OBVIOUS
<1>2. PICK m \in T : \A y \in T : m <= y
  BY <1>1, LeastNumber
<1>3. m \in 1 .. N /\ m \notin P /\ m - 1 \in 0 .. N /\ ~(m <= m - 1)
  BY <1>2
<1>4. m - 1 \in P
  BY <1>2, <1>3
<1> QED BY <1>3, <1>4

-----------------------------------------------------------------------------
(* FlattenSeq *)

\* Concatenation, as an operator the provers leave alone.
Cat(s, t) == s \o t

\* What concatenation does.
LEMMA CatFact ==
  ASSUME NEW S, NEW s \in Seq(S), NEW t \in Seq(S)
  PROVE  /\ Cat(s, t) \in Seq(S)
         /\ Cat(s, <<>>) = s /\ Cat(<<>>, t) = t
         /\ Len(Cat(s, t)) = Len(s) + Len(t)
         /\ \A i \in 1 .. Len(s) + Len(t) : Cat(s, t)[i] = IF i <= Len(s) THEN s[i] ELSE t[i - Len(s)]
<1>1. /\ Cat(s, t) \in Seq(S) /\ Len(Cat(s, t)) = Len(s) + Len(t)
      /\ \A i \in 1 .. Len(s) + Len(t) : Cat(s, t)[i] = IF i <= Len(s) THEN s[i] ELSE t[i - Len(s)]
  BY ConcatProperties, Zenon DEF Cat
<1>2. Cat(s, <<>>) = s /\ Cat(<<>>, t) = t
  BY ConcatEmptySeq, Zenon DEF Cat
<1> QED BY <1>1, <1>2, Zenon

\* Concatenation is associative.
LEMMA CatAssociative ==
  ASSUME NEW S, NEW s \in Seq(S), NEW t \in Seq(S), NEW u \in Seq(S)
  PROVE  Cat(Cat(s, t), u) = Cat(s, Cat(t, u))
<1> DEFINE v == Cat(s, t)
           w == Cat(t, u)
           x == Cat(v, u)
           y == Cat(s, w)
<1>0. Len(s) \in Nat /\ Len(t) \in Nat /\ Len(u) \in Nat
  OBVIOUS
<1>1. /\ v \in Seq(S) /\ Len(v) = Len(s) + Len(t)
      /\ \A i \in 1 .. Len(s) + Len(t) : v[i] = IF i <= Len(s) THEN s[i] ELSE t[i - Len(s)]
  BY CatFact
<1>2. /\ w \in Seq(S) /\ Len(w) = Len(t) + Len(u)
      /\ \A i \in 1 .. Len(t) + Len(u) : w[i] = IF i <= Len(t) THEN t[i] ELSE u[i - Len(t)]
  BY CatFact
<1> HIDE DEF v, w
<1>3. /\ x \in Seq(S) /\ Len(x) = Len(s) + Len(t) + Len(u)
      /\ \A i \in 1 .. Len(s) + Len(t) + Len(u) :
           x[i] = IF i <= Len(s) + Len(t) THEN v[i] ELSE u[i - (Len(s) + Len(t))]
  <2>0. v \in Seq(S)
    BY <1>1
  <2>1. /\ x \in Seq(S) /\ Len(x) = Len(v) + Len(u)
        /\ \A i \in 1 .. Len(v) + Len(u) :
             x[i] = IF i <= Len(v) THEN v[i] ELSE u[i - Len(v)]
    BY <2>0, CatFact
  <2> HIDE DEF x
  <2> QED BY <1>0, <1>1, <2>1
<1>4. /\ y \in Seq(S) /\ Len(y) = Len(s) + Len(t) + Len(u)
      /\ \A i \in 1 .. Len(s) + Len(t) + Len(u) :
           y[i] = IF i <= Len(s) THEN s[i] ELSE w[i - Len(s)]
  <2>0. w \in Seq(S)
    BY <1>2
  <2>1. /\ y \in Seq(S) /\ Len(y) = Len(s) + Len(w)
        /\ \A i \in 1 .. Len(s) + Len(w) :
             y[i] = IF i <= Len(s) THEN s[i] ELSE w[i - Len(s)]
    BY <2>0, CatFact
  <2> HIDE DEF y
  <2> QED BY <1>0, <1>2, <2>1
<1> HIDE DEF x, y
<1>5. ASSUME NEW i \in 1 .. Len(s) + Len(t) + Len(u) PROVE x[i] = y[i]
  <2>1. CASE i <= Len(s)
    <3>1. i \in 1 .. Len(s) + Len(t)
      BY <1>0, <2>1
    <3>2. x[i] = v[i] /\ y[i] = s[i]
      BY <1>0, <1>3, <1>4, <2>1, <3>1
    <3>3. v[i] = s[i]
      BY <1>1, <2>1, <3>1
    <3> QED BY <3>2, <3>3
  <2>2. CASE i > Len(s) /\ i <= Len(s) + Len(t)
    <3>1. i \in 1 .. Len(s) + Len(t) /\ i - Len(s) \in 1 .. Len(t) + Len(u) /\ i - Len(s) <= Len(t)
      BY <1>0, <2>2
    <3> QED BY <1>0, <1>1, <1>2, <1>3, <1>4, <2>2, <3>1
  <2>3. CASE i > Len(s) + Len(t)
    <3>1. /\ i - Len(s) \in 1 .. Len(t) + Len(u) /\ ~(i - Len(s) <= Len(t)) /\ ~(i <= Len(s))
          /\ (i - Len(s)) - Len(t) = i - (Len(s) + Len(t))
      BY <1>0, <2>3
    <3>2. x[i] = u[i - (Len(s) + Len(t))] /\ y[i] = w[i - Len(s)]
      BY <1>0, <1>3, <1>4, <2>3, <3>1
    <3>3. w[i - Len(s)] = u[(i - Len(s)) - Len(t)]
      BY <1>2, <3>1
    <3> QED BY <3>1, <3>2, <3>3
  <2> QED BY <1>0, <2>1, <2>2, <2>3
<1>6. x = y
  BY <1>3, <1>4, <1>5, SeqEqual
<1> QED BY <1>6 DEF v, w, x, y

IsFlat(g, s) == g = [i \in 1 .. Len(s) |-> IF i = 1 THEN s[i] ELSE g[i-1] \o s[i]]

\* The function inside FlattenSeq exists.
LEMMA FlatExists ==
  ASSUME NEW s, Len(s) \in Nat
  PROVE  \E g : IsFlat(g, s)
<1> DEFINE Good(n) == \E g : g = [i \in 1 .. n |-> IF i = 1 THEN s[i] ELSE Cat(g[i-1], s[i])]
           P == {n \in Nat : Good(n)}
<1>1. Good(0)
  <2> DEFINE g == [i \in 1 .. 0 |-> <<>>]
  <2>1. g = [i \in 1 .. 0 |-> IF i = 1 THEN s[i] ELSE Cat(g[i-1], s[i])]
    OBVIOUS
  <2> QED BY <2>1
<1>2. ASSUME NEW m \in Nat, m # 0, Good(m - 1) PROVE Good(m)
  <2> PICK g : g = [i \in 1 .. m - 1 |-> IF i = 1 THEN s[i] ELSE Cat(g[i-1], s[i])]
    BY <1>2
  <2> DEFINE h == [i \in 1 .. m |-> IF i = m THEN (IF i = 1 THEN s[i] ELSE Cat(g[i-1], s[i])) ELSE g[i]]
  <2>1. \A i \in 1 .. m : h[i] = IF i = 1 THEN s[i] ELSE Cat(h[i-1], s[i])
    <3> SUFFICES ASSUME NEW i \in 1 .. m PROVE h[i] = IF i = 1 THEN s[i] ELSE Cat(h[i-1], s[i])
      OBVIOUS
    <3>1. CASE i = m
      <4>1. (i # 1 => h[i - 1] = g[i - 1]) /\ h[i] = IF i = 1 THEN s[i] ELSE Cat(g[i-1], s[i])
        BY <3>1, <1>2
      <4> HIDE DEF h
      <4> QED BY <4>1
    <3>2. CASE i # m
      <4>1. i \in 1 .. m - 1 /\ h[i] = g[i] /\ (i # 1 => h[i - 1] = g[i - 1])
        BY <3>2, <1>2
      <4>2. g[i] = IF i = 1 THEN s[i] ELSE Cat(g[i-1], s[i])
        BY <4>1
      <4> HIDE DEF h
      <4> QED BY <4>1, <4>2
    <3> QED BY <3>1, <3>2
  <2>2. h = [i \in 1 .. m |-> h[i]]
    OBVIOUS
  <2> HIDE DEF h
  <2>3. h = [i \in 1 .. m |-> IF i = 1 THEN s[i] ELSE Cat(h[i-1], s[i])]
    BY <2>1, <2>2
  <2> QED BY <2>3
<1> HIDE DEF Good
<1>3. 0 \in P /\ \A n \in 1 .. Len(s) : n - 1 \in P => n \in P
  BY <1>1, <1>2
<1> HIDE DEF P
<1>4. \A n \in 0 .. Len(s) : n \in P
  BY <1>3, UpTo
<1>5. Good(Len(s))
  <2>1. Len(s) \in 0 .. Len(s)
    OBVIOUS
  <2> QED BY <1>4, <2>1 DEF P
<1> QED BY <1>5, Zenon DEF Good, IsFlat, Cat

\* The first n sequences of s, flattened.
Flat(s, n) == IF n = 0 THEN <<>> ELSE (CHOOSE g : IsFlat(g, s))[n]

\* FlattenSeq by one sequence after the other.
LEMMA FlatFact ==
  ASSUME NEW S, NEW s \in Seq(Seq(S))
  PROVE  /\ Flat(s, 0) = <<>>
         /\ \A i \in 1 .. Len(s) : Flat(s, i) = Cat(Flat(s, i - 1), s[i])
         /\ FlattenSeq(s) = Flat(s, Len(s))
         /\ \A i \in 0 .. Len(s) : Flat(s, i) \in Seq(S)
<1> DEFINE f == CHOOSE g : IsFlat(g, s)
<1>0. Len(s) \in Nat /\ \A i \in 1 .. Len(s) : s[i] \in Seq(S)
  OBVIOUS
<1>1. IsFlat(f, s)
  BY <1>0, FlatExists, Zenon
<1>2. FlattenSeq(s) = IF Len(s) = 0 THEN s ELSE f[Len(s)]
  BY Zenon DEF FlattenSeq, IsFlat
<1>3. Flat(s, 0) = <<>> /\ \A i \in 1 .. Len(s) : Flat(s, i) = f[i]
  BY <1>0 DEF Flat
<1> HIDE DEF f
<1>4. f = [i \in 1 .. Len(s) |-> IF i = 1 THEN s[i] ELSE Cat(f[i-1], s[i])]
  BY <1>1, Zenon DEF IsFlat, Cat
<1>5. \A i \in 1 .. Len(s) : f[i] = IF i = 1 THEN s[i] ELSE Cat(f[i-1], s[i])
  <2> SUFFICES ASSUME NEW i \in 1 .. Len(s) PROVE f[i] = IF i = 1 THEN s[i] ELSE Cat(f[i-1], s[i])
    OBVIOUS
  <2> QED BY <1>4, Zenon
<1>6. ASSUME NEW i \in 1 .. Len(s) PROVE Flat(s, i) = Cat(Flat(s, i - 1), s[i])
  <2>1. CASE i = 1
    <3>1. Cat(<<>>, s[i]) = s[i]
      BY <1>0, CatFact
    <3> QED BY <1>3, <1>5, <2>1, <3>1
  <2>2. CASE i # 1
    <3>1. i - 1 \in 1 .. Len(s)
      BY <1>0, <2>2
    <3> QED BY <1>3, <1>5, <2>2, <3>1
  <2> QED BY <2>1, <2>2
<1>7. \A i \in 0 .. Len(s) : Flat(s, i) \in Seq(S)
  <2> DEFINE P == {i \in Int : Flat(s, i) \in Seq(S)}
  <2>1. 0 \in P
    <3>1. <<>> \in Seq(S)
      OBVIOUS
    <3>2. Flat(s, 0) \in Seq(S)
      BY <1>3, <3>1, Zenon
    <3> QED BY <3>2
  <2>2. ASSUME NEW n \in 1 .. Len(s), n - 1 \in P PROVE n \in P
    <3>1. Cat(Flat(s, n - 1), s[n]) \in Seq(S)
      BY <1>0, <2>2, CatFact
    <3> QED BY <1>0, <1>6, <3>1
  <2> HIDE DEF P
  <2>3. \A n \in 0 .. Len(s) : n \in P
    BY <1>0, <2>1, <2>2, UpTo
  <2> QED BY <2>3 DEF P
<1>8. FlattenSeq(s) = Flat(s, Len(s))
  <2>1. CASE Len(s) = 0
    <3>1. s = <<>>
      BY <2>1
    <3> QED BY <1>2, <1>3, <2>1, <3>1
  <2>2. CASE Len(s) # 0
    BY <1>0, <1>2, <1>3, <2>2
  <2> QED BY <2>1, <2>2
<1> QED BY <1>3, <1>6, <1>7, <1>8

\* Flattening two sequences of sequences after each other.
LEMMA FlattenCat ==
  ASSUME NEW S, NEW s \in Seq(Seq(S)), NEW t \in Seq(Seq(S))
  PROVE  FlattenSeq(Cat(s, t)) = Cat(FlattenSeq(s), FlattenSeq(t))
<1> DEFINE u == Cat(s, t)
<1>0. Len(s) \in Nat /\ Len(t) \in Nat /\ \A i \in 1 .. Len(t) : t[i] \in Seq(S)
  OBVIOUS
<1>1. /\ u \in Seq(Seq(S)) /\ Len(u) = Len(s) + Len(t)
      /\ \A i \in 1 .. Len(s) + Len(t) : u[i] = IF i <= Len(s) THEN s[i] ELSE t[i - Len(s)]
  BY CatFact
<1> HIDE DEF u
<1>2. /\ Flat(s, 0) = <<>> /\ \A i \in 1 .. Len(s) : Flat(s, i) = Cat(Flat(s, i - 1), s[i])
      /\ FlattenSeq(s) = Flat(s, Len(s)) /\ \A i \in 0 .. Len(s) : Flat(s, i) \in Seq(S)
  BY FlatFact
<1>3. /\ Flat(t, 0) = <<>> /\ \A i \in 1 .. Len(t) : Flat(t, i) = Cat(Flat(t, i - 1), t[i])
      /\ FlattenSeq(t) = Flat(t, Len(t)) /\ \A i \in 0 .. Len(t) : Flat(t, i) \in Seq(S)
  BY FlatFact
<1>4. /\ Flat(u, 0) = <<>> /\ \A i \in 1 .. Len(u) : Flat(u, i) = Cat(Flat(u, i - 1), u[i])
      /\ FlattenSeq(u) = Flat(u, Len(u))
  BY <1>1, FlatFact
<1> DEFINE a == Flat(s, Len(s))
<1>5. \A i \in 0 .. Len(s) : Flat(u, i) = Flat(s, i)
  <2> DEFINE P == {i \in Int : Flat(u, i) = Flat(s, i)}
  <2>1. 0 \in P
    BY <1>2, <1>4
  <2>2. ASSUME NEW n \in 1 .. Len(s), n - 1 \in P PROVE n \in P
    <3>1. n \in 1 .. Len(u) /\ u[n] = s[n]
      BY <1>0, <1>1
    <3> QED BY <1>0, <1>2, <1>4, <2>2, <3>1
  <2> HIDE DEF P
  <2>3. \A n \in 0 .. Len(s) : n \in P
    BY <1>0, <2>1, <2>2, UpTo
  <2> QED BY <2>3 DEF P
<1>6. a \in Seq(S)
  <2>1. Len(s) \in 0 .. Len(s)
    BY <1>0
  <2> QED BY <1>2, <2>1
<1>7. \A i \in 0 .. Len(t) : Flat(u, Len(s) + i) = Cat(a, Flat(t, i))
  <2> DEFINE P == {i \in Int : Flat(u, Len(s) + i) = Cat(a, Flat(t, i))}
  <2>1. 0 \in P
    <3>1. Cat(a, <<>>) = a /\ Len(s) + 0 = Len(s) /\ Len(s) \in 0 .. Len(s)
      BY <1>0, <1>6, CatFact
    <3>2. Flat(u, Len(s) + 0) = Cat(a, Flat(t, 0))
      BY <1>3, <1>5, <3>1
    <3> QED BY <3>2
  <2>2. ASSUME NEW n \in 1 .. Len(t), n - 1 \in P PROVE n \in P
    <3>1. /\ Len(s) + n \in 1 .. Len(u) /\ (Len(s) + n) - 1 = Len(s) + (n - 1)
          /\ u[Len(s) + n] = t[n] /\ n - 1 \in 0 .. Len(t)
      <4>1. /\ Len(s) + n \in 1 .. Len(s) + Len(t) /\ ~(Len(s) + n <= Len(s)) /\ (Len(s) + n) - Len(s) = n
            /\ (Len(s) + n) - 1 = Len(s) + (n - 1) /\ n - 1 \in 0 .. Len(t)
        BY <1>0
      <4>2. u[Len(s) + n] = t[(Len(s) + n) - Len(s)]
        BY <1>1, <4>1, Zenon
      <4> QED BY <1>1, <4>1, <4>2
    <3>2. Flat(u, Len(s) + n) = Cat(Flat(u, Len(s) + (n - 1)), t[n])
      BY <1>4, <3>1
    <3>3. Flat(u, Len(s) + (n - 1)) = Cat(a, Flat(t, n - 1))
      BY <2>2
    <3>4. Cat(Cat(a, Flat(t, n - 1)), t[n]) = Cat(a, Cat(Flat(t, n - 1), t[n]))
      <4>1. Flat(t, n - 1) \in Seq(S) /\ t[n] \in Seq(S)
        BY <1>0, <1>3, <3>1
      <4> HIDE DEF a
      <4> QED BY <1>6, <4>1, CatAssociative
    <3>5. Flat(u, Len(s) + n) = Cat(a, Flat(t, n))
      BY <1>3, <3>2, <3>3, <3>4
    <3> QED BY <1>0, <3>5
  <2> HIDE DEF P
  <2>3. \A n \in 0 .. Len(t) : n \in P
    BY <1>0, <2>1, <2>2, UpTo
  <2> QED BY <2>3 DEF P
<1>8. Len(t) \in 0 .. Len(t)
  BY <1>0
<1>9. Flat(u, Len(u)) = Cat(a, Flat(t, Len(t)))
  BY <1>1, <1>7, <1>8
<1> QED BY <1>2, <1>3, <1>4, <1>9 DEF u

\* Flattening one sequence.
LEMMA FlattenOne ==
  ASSUME NEW S, NEW x \in Seq(S)
  PROVE  FlattenSeq(<<x>>) = x
<1> DEFINE s == <<x>>
<1>1. s \in Seq(Seq(S)) /\ Len(s) = 1 /\ s[1] = x
  OBVIOUS
<1> HIDE DEF s
<1>2. /\ Flat(s, 0) = <<>> /\ \A i \in 1 .. Len(s) : Flat(s, i) = Cat(Flat(s, i - 1), s[i])
      /\ FlattenSeq(s) = Flat(s, Len(s))
  BY <1>1, FlatFact
<1>3. FlattenSeq(s) = Cat(<<>>, x)
  BY <1>1, <1>2
<1>4. Cat(<<>>, x) = x
  BY CatFact
<1> QED BY <1>3, <1>4 DEF s

\* Flattening nothing.
LEMMA FlattenNone == FlattenSeq(<<>>) = <<>>
BY DEF FlattenSeq

-----------------------------------------------------------------------------
(* Cutting a queue *)

\* A batch ends within the queue.
LEMMA BatchLenFact ==
  ASSUME NEW q, Len(q) \in Nat, NEW i \in 0 .. Len(q)
  PROVE  BatchLen(q, i) \in 0 .. Len(q) - i
<1> DEFINE N == Len(q) - i
           Cut(n) == /\ \A k \in 1 .. n : Fits(q, i, k)
                     /\ n = N \/ ~Fits(q, i, n + 1)
           fitting == CHOOSE n \in 0 .. N : Cut(n)
           T == {k \in 1 .. N : ~Fits(q, i, k)}
<1>0. N \in Nat /\ (i < Len(q) => N >= 1)
  OBVIOUS
<1>1. BatchLen(q, i) = IF fitting = 0 /\ kind = "traces" /\ i < Len(q) THEN 1 ELSE fitting
  BY Zenon DEF BatchLen
<1> HIDE DEF N
<1>2. \E n \in 0 .. N : Cut(n)
  <2>1. CASE T = {}
    <3>1. N \in 0 .. N /\ Cut(N)
      BY <1>0, <2>1
    <3> QED BY <3>1
  <2>2. CASE T # {}
    <3>1. T \in SUBSET Nat
      BY <1>0
    <3>2. PICK m \in T : \A y \in T : m <= y
      BY <2>2, <3>1, LeastNumber
    <3>3. m - 1 \in 0 .. N /\ (m - 1) + 1 = m /\ ~Fits(q, i, m)
      BY <1>0, <3>2
    <3>4. ASSUME NEW k \in 1 .. m - 1 PROVE Fits(q, i, k)
      <4>1. k \in 1 .. N /\ ~(m <= k)
        BY <1>0, <3>2
      <4> QED BY <3>2, <4>1
    <3>5. Cut(m - 1)
      BY <3>3, <3>4
    <3> QED BY <3>3, <3>5
  <2> QED BY <2>1, <2>2
<1>3. fitting \in 0 .. N
  <2> HIDE DEF Cut
  <2> QED BY <1>2
<1> HIDE DEF fitting
<1>4. BatchLen(q, i) \in 0 .. N
  BY <1>0, <1>1, <1>3
<1> QED BY <1>4 DEF N

\* One turn of the loop of get_batches, at position i.
Turn(q, g, i) ==
  IF BatchLen(q, i) = 0 THEN <<>>
  ELSE Cat(<<SubSeq(q, i + 1, i + BatchLen(q, i))>>, g[i + BatchLen(q, i)])

IsCut(g, q) == g = [i \in 0 .. Len(q) |-> Turn(q, g, i)]

\* The function inside Batches exists.
LEMMA CutExists ==
  ASSUME NEW q, Len(q) \in Nat
  PROVE  \E g : IsCut(g, q)
<1> DEFINE L == Len(q)
           Good(m) == \E g : g = [i \in L - m .. L |-> Turn(q, g, i)]
           P == {m \in Int : Good(m)}
<1>0. L \in Nat /\ \A i \in 0 .. L : BatchLen(q, i) \in 0 .. L - i
  BY BatchLenFact
<1> HIDE DEF L
<1>1. Good(0)
  <2> DEFINE g == [i \in L - 0 .. L |-> <<>>]
  <2>1. \A i \in L - 0 .. L : Turn(q, g, i) = <<>>
    <3> SUFFICES ASSUME NEW i \in L - 0 .. L PROVE Turn(q, g, i) = <<>>
      OBVIOUS
    <3>1. i \in 0 .. L /\ L - i = 0
      BY <1>0
    <3>2. BatchLen(q, i) = 0
      BY <1>0, <3>1
    <3> QED BY <3>2 DEF Turn
  <2>2. g = [i \in L - 0 .. L |-> Turn(q, g, i)]
    <3> HIDE DEF g
    <3>1. \A i \in L - 0 .. L : <<>> = Turn(q, g, i)
      BY <2>1
    <3> QED BY <3>1 DEF g
  <2> QED BY <2>2
<1>2. ASSUME NEW m \in 1 .. L, Good(m - 1) PROVE Good(m)
  <2> DEFINE D == L - (m - 1) .. L
             E == L - m .. L
  <2>0. /\ E \subseteq 0 .. L /\ \A i \in E : i = L - m \/ i \in D
        /\ \A i \in E : \A n \in 0 .. L - i : n # 0 => i + n \in E /\ i + n # L - m
    BY <1>0
  <2> PICK g : g = [i \in D |-> Turn(q, g, i)]
    BY <1>2
  <2> DEFINE h == [i \in E |-> IF i = L - m THEN Turn(q, g, i) ELSE g[i]]
  <2>1. ASSUME NEW i \in E PROVE Turn(q, h, i) = Turn(q, g, i)
    <3>1. CASE BatchLen(q, i) = 0
      BY <3>1 DEF Turn
    <3>2. CASE BatchLen(q, i) # 0
      <4> HIDE DEF E
      <4>0. BatchLen(q, i) \in 0 .. L - i
        BY <1>0, <2>0
      <4>1. i + BatchLen(q, i) \in E /\ i + BatchLen(q, i) # L - m
        BY <2>0, <3>2, <4>0
      <4>2. h[i + BatchLen(q, i)] = g[i + BatchLen(q, i)]
        BY <4>1
      <4> HIDE DEF h
      <4> QED BY <4>2 DEF Turn
    <3> QED BY <3>1, <3>2
  <2>2. \A i \in E : h[i] = Turn(q, g, i)
    <3> SUFFICES ASSUME NEW i \in E PROVE h[i] = Turn(q, g, i)
      OBVIOUS
    <3>1. CASE i = L - m
      BY <3>1
    <3>2. CASE i # L - m
      <4>1. i \in D /\ h[i] = g[i]
        BY <2>0, <3>2
      <4> HIDE DEF h, D
      <4>2. g[i] = Turn(q, g, i)
        BY <4>1
      <4> QED BY <4>1, <4>2
    <3> QED BY <3>1, <3>2
  <2>3. h = [i \in E |-> h[i]]
    OBVIOUS
  <2> HIDE DEF h, E
  <2>4. h = [i \in E |-> Turn(q, h, i)]
    BY <2>1, <2>2, <2>3
  <2> QED BY <2>4 DEF E
<1> HIDE DEF Good
<1>3. 0 \in P /\ \A m \in 1 .. L : m - 1 \in P => m \in P
  BY <1>0, <1>1, <1>2
<1> HIDE DEF P
<1>4. \A m \in 0 .. L : m \in P
  BY <1>0, <1>3, UpTo
<1>5. L \in 0 .. L /\ L - L = 0
  BY <1>0
<1>6. Good(L)
  BY <1>4, <1>5 DEF P
<1>7. \E g : g = [i \in L - L .. L |-> Turn(q, g, i)]
  BY <1>6, Zenon DEF Good
<1>8. \E g : g = [i \in 0 .. L |-> Turn(q, g, i)]
  BY <1>5, <1>7, Zenon
<1> QED BY <1>8, Zenon DEF IsCut, L

\* From position i on, the batches are the queue up to some position.
Cuts(S, q, i, batches) ==
  batches \in Seq(Seq(S)) /\ \E e \in i .. Len(q) : FlattenSeq(batches) = SubSeq(q, i + 1, e)

\* One batch more at the front.
LEMMA CutsOneMore ==
  ASSUME NEW S, NEW q \in Seq(S), NEW i \in 0 .. Len(q), NEW n \in 1 .. Len(q) - i,
         NEW rest, Cuts(S, q, i + n, rest)
  PROVE  Cuts(S, q, i, Cat(<<SubSeq(q, i + 1, i + n)>>, rest))
<1> DEFINE x == SubSeq(q, i + 1, i + n)
           one == <<x>>
<1>1. PICK e \in i + n .. Len(q) : FlattenSeq(rest) = SubSeq(q, i + n + 1, e)
  BY DEF Cuts
<1>2. Len(q) \in Nat /\ e \in i .. Len(q)
  OBVIOUS
<1>3. x \in Seq(S)
  <2>1. \A k \in i + 1 .. i + n : q[k] \in S
    BY <1>2
  <2> QED BY <1>2, <2>1, SubSeqProperties
<1>4. SubSeq(q, i + 1, i + n) \o SubSeq(q, (i + n) + 1, e) = SubSeq(q, i + 1, e)
  <2>1. i + 1 \in 1 .. Len(q) + 1 /\ i + n \in (i + 1) - 1 .. Len(q)
    BY <1>2
  <2> DEFINE m == i + 1
             k == i + n
  <2> HIDE DEF m, k
  <2>2. m \in 1 .. Len(q) + 1 /\ k \in m - 1 .. Len(q) /\ e \in k .. Len(q)
    BY <2>1 DEF m, k
  <2>3. SubSeq(q, m, k) \o SubSeq(q, k + 1, e) = SubSeq(q, m, e)
    BY <2>2, ConcatAdjacentSubSeq, Zenon
  <2> QED BY <2>3, Zenon DEF m, k
<1>5. Cat(x, FlattenSeq(rest)) = SubSeq(q, i + 1, e)
  BY <1>1, <1>4, Zenon DEF Cat
<1> HIDE DEF x
<1>6. one \in Seq(Seq(S)) /\ rest \in Seq(Seq(S))
  BY <1>3 DEF Cuts
<1>7. FlattenSeq(one) = x
  BY <1>3, FlattenOne
<1> HIDE DEF one
<1>8. Cat(one, rest) \in Seq(Seq(S)) /\ FlattenSeq(Cat(one, rest)) = SubSeq(q, i + 1, e)
  <2>1. Cat(one, rest) \in Seq(Seq(S))
    BY <1>6, CatFact
  <2>2. FlattenSeq(Cat(one, rest)) = Cat(FlattenSeq(one), FlattenSeq(rest))
    BY <1>6, FlattenCat
  <2> QED BY <1>5, <1>7, <2>1, <2>2, Zenon
<1>9. Cuts(S, q, i, Cat(one, rest))
  BY <1>2, <1>8 DEF Cuts
<1> QED BY <1>9 DEF one, x

\* What get_batches takes is the front of the queue.
LEMMA BatchesCut ==
  ASSUME NEW S, NEW q \in Seq(S)
  PROVE  Cuts(S, q, 0, Batches(q))
<1> DEFINE L == Len(q)
           f == CHOOSE g : IsCut(g, q)
           Good(i) == Cuts(S, q, i, f[i])
           P == {m \in Int : \A i \in L - m .. L : Good(i)}
<1>0. L \in Nat /\ \A i \in 0 .. L : BatchLen(q, i) \in 0 .. L - i
  BY BatchLenFact
<1>1. Batches(q) = f[0]
  BY Zenon DEF Batches, IsCut, Turn, Cat
<1>2. IsCut(f, q)
  BY <1>0, CutExists
<1> HIDE DEF f
<1>3. \A i \in 0 .. L : f[i] = Turn(q, f, i)
  BY <1>2 DEF IsCut
<1>4. ASSUME NEW i \in 0 .. L, BatchLen(q, i) = 0 PROVE Good(i)
  <2>1. f[i] = <<>>
    BY <1>3, <1>4 DEF Turn
  <2>2. <<>> \in Seq(Seq(S)) /\ i \in i .. L
    BY <1>0
  <2>3. SubSeq(q, i + 1, i) = <<>>
    BY <1>0, SubSeqEmpty
  <2> QED BY <2>1, <2>2, <2>3, FlattenNone DEF Cuts
<1>5. ASSUME NEW i \in 0 .. L, BatchLen(q, i) # 0, Good(i + BatchLen(q, i)) PROVE Good(i)
  <2> DEFINE n == BatchLen(q, i)
             rest == f[i + n]
  <2>1. n \in 1 .. L - i /\ Cuts(S, q, i + n, rest)
    BY <1>0, <1>5
  <2>2. f[i] = Cat(<<SubSeq(q, i + 1, i + n)>>, rest)
    BY <1>3, <1>5 DEF Turn
  <2> HIDE DEF n, rest
  <2>3. Cuts(S, q, i, Cat(<<SubSeq(q, i + 1, i + n)>>, rest))
    BY <2>1, CutsOneMore
  <2> QED BY <2>2, <2>3
<1> HIDE DEF Good, L
<1>6. 0 \in P
  <2>1. L \in 0 .. L /\ L - L = 0 /\ \A i \in L - 0 .. L : i = L
    BY <1>0
  <2>2. BatchLen(q, L) = 0
    BY <1>0, <2>1
  <2>3. Good(L)
    BY <1>4, <2>1, <2>2
  <2> QED BY <2>1, <2>3
<1>7. ASSUME NEW m \in 1 .. L, m - 1 \in P PROVE m \in P
  <2>1. \A i \in L - (m - 1) .. L : Good(i)
    BY <1>7
  <2>2. ASSUME NEW i \in L - m .. L PROVE Good(i)
    <3>1. i \in 0 .. L
      BY <1>0
    <3>2. CASE BatchLen(q, i) = 0
      BY <1>4, <3>1, <3>2
    <3>3. CASE BatchLen(q, i) # 0
      <4>0. BatchLen(q, i) \in 0 .. L - i
        BY <1>0, <3>1
      <4>1. i + BatchLen(q, i) \in L - (m - 1) .. L
        <5>1. L \in Nat
          BY <1>0
        <5>2. \A n \in 0 .. L - i : n # 0 => i + n \in L - (m - 1) .. L
          BY <5>1
        <5> QED BY <3>3, <4>0, <5>2
      <4> QED BY <1>5, <2>1, <3>1, <3>3, <4>1
    <3> QED BY <3>2, <3>3
  <2> QED BY <2>2
<1> HIDE DEF P
<1>8. \A m \in 0 .. L : m \in P
  BY <1>0, <1>6, <1>7, UpTo
<1>9. L \in 0 .. L /\ 0 \in L - L .. L
  BY <1>0
<1>10. Good(0)
  BY <1>8, <1>9 DEF P
<1>11. Cuts(S, q, 0, f[0])
  BY <1>10, Zenon DEF Good
<1> QED BY <1>1, <1>11, Zenon

-----------------------------------------------------------------------------
(* The invariant *)

Payloads == [n : Nat, size : Sizes]
All == Cat(FlattenSeq(taken), queue)

\* The payloads of s, in the order of arrival, and the cleared ones are all.
InOrder(s, gone, count) ==
  /\ \A j, k \in DOMAIN s : j < k => s[j].n < s[k].n
  /\ {s[j].n : j \in DOMAIN s} \cup gone = 1 .. count
  /\ {s[j].n : j \in DOMAIN s} \cap gone = {}

BatchInv ==
  /\ queue \in Seq(Payloads) /\ taken \in Seq(Seq(Payloads)) /\ inserted \in Nat
  /\ InOrder(All, cleared, inserted)

\* What was taken and is queued is a sequence of payloads.
LEMMA AllFact ==
  ASSUME NEW q \in Seq(Payloads), NEW t \in Seq(Seq(Payloads))
  PROVE  FlattenSeq(t) \in Seq(Payloads) /\ Cat(FlattenSeq(t), q) \in Seq(Payloads)
<1>1. FlattenSeq(t) \in Seq(Payloads)
  <2>1. Len(t) \in 0 .. Len(t)
    OBVIOUS
  <2>2. FlattenSeq(t) = Flat(t, Len(t)) /\ \A i \in 0 .. Len(t) : Flat(t, i) \in Seq(Payloads)
    BY FlatFact
  <2> QED BY <2>1, <2>2
<1> QED BY <1>1, CatFact

\* Nothing was inserted yet.
LEMMA BatchInit == Init => BatchInv
<1> SUFFICES ASSUME Init PROVE BatchInv
  OBVIOUS
<1>1. queue = <<>> /\ taken = <<>> /\ inserted = 0 /\ cleared = {}
  BY DEF Init
<1>2. <<>> \in Seq(Payloads) /\ <<>> \in Seq(Seq(Payloads)) /\ DOMAIN <<>> = {}
  OBVIOUS
<1>3. All = <<>>
  BY <1>1, <1>2, FlattenNone, CatFact DEF All
<1>4. InOrder(<<>>, {}, 0)
  BY <1>2 DEF InOrder
<1> QED BY <1>1, <1>2, <1>3, <1>4 DEF BatchInv

\* A payload comes last.
LEMMA InsertKeeps == ASSUME BatchInv, Insert PROVE BatchInv'
<1>1. PICK s \in Sizes : queue' = Append(queue, [n |-> inserted + 1, size |-> s])
  BY DEF Insert
<1> DEFINE p == [n |-> inserted + 1, size |-> s]
           done == FlattenSeq(taken)
           a == All
           N == Len(a)
<1>2. inserted' = inserted + 1 /\ taken' = taken /\ cleared' = cleared
  BY DEF Insert
<1>3. /\ queue \in Seq(Payloads) /\ taken \in Seq(Seq(Payloads)) /\ inserted \in Nat
      /\ InOrder(a, cleared, inserted)
  BY DEF BatchInv
<1>4. p \in Payloads /\ p.n = inserted + 1
  BY <1>3 DEF Payloads
<1> HIDE DEF p
<1>5. /\ done \in Seq(Payloads) /\ a \in Seq(Payloads)
  BY <1>3, AllFact DEF All
<1> HIDE DEF done
<1>6. <<p>> \in Seq(Payloads) /\ Append(queue, p) \in Seq(Payloads) /\ Append(queue, p) = Cat(queue, <<p>>)
  BY <1>3, <1>4 DEF Cat
<1>7. a = Cat(done, queue)
  BY DEF All, done
<1> HIDE DEF a
<1>8. All' = Cat(a, <<p>>)
  <2>1. queue' = Cat(queue, <<p>>)
    <3>1. queue' = Append(queue, p)
      BY <1>1 DEF p
    <3> QED BY <1>6, <3>1
  <2>2. All' = Cat(done, queue')
    <3>1. FlattenSeq(taken') = done
      BY <1>2 DEF done
    <3> QED BY <3>1 DEF All
  <2>3. Cat(Cat(done, queue), <<p>>) = Cat(done, Cat(queue, <<p>>))
    <3> DEFINE one == <<p>>
    <3>1. done \in Seq(Payloads) /\ queue \in Seq(Payloads) /\ one \in Seq(Payloads)
      BY <1>3, <1>5, <1>6
    <3> HIDE DEF one
    <3>2. Cat(Cat(done, queue), one) = Cat(done, Cat(queue, one))
      BY <3>1, CatAssociative
    <3> QED BY <3>2 DEF one
  <2> QED BY <1>7, <2>1, <2>2, <2>3
<1> DEFINE b == Cat(a, <<p>>)
<1>9. /\ N \in Nat /\ DOMAIN a = 1 .. N /\ b \in Seq(Payloads) /\ DOMAIN b = 1 .. N + 1
      /\ \A j \in 1 .. N : b[j] = a[j]
      /\ b[N + 1] = p
  BY <1>4, <1>5 DEF Cat
<1> HIDE DEF b, N
<1>10. {b[j].n : j \in DOMAIN b} = {a[j].n : j \in DOMAIN a} \cup {inserted + 1}
  <2>1. 1 .. N + 1 = (1 .. N) \cup {N + 1}
    BY <1>9
  <2> QED BY <1>4, <1>9, <2>1
<1>11. /\ \A j, k \in DOMAIN a : j < k => a[j].n < a[k].n
       /\ {a[j].n : j \in DOMAIN a} \cup cleared = 1 .. inserted
       /\ {a[j].n : j \in DOMAIN a} \cap cleared = {}
  BY <1>3 DEF InOrder
<1>12. \A j \in DOMAIN a : a[j].n < inserted + 1
  <2>1. \A j \in DOMAIN a : a[j].n \in 1 .. inserted
    BY <1>11
  <2> QED BY <1>3, <2>1
<1>13. ASSUME NEW j \in DOMAIN b, NEW k \in DOMAIN b, j < k PROVE b[j].n < b[k].n
  <2>1. j \in DOMAIN a /\ b[j] = a[j]
    BY <1>9, <1>13
  <2>2. CASE k = N + 1
    BY <1>4, <1>9, <1>12, <2>1, <2>2
  <2>3. CASE k # N + 1
    <3>1. k \in DOMAIN a /\ b[k] = a[k]
      BY <1>9, <2>3
    <3> QED BY <1>11, <1>13, <2>1, <3>1
  <2> QED BY <2>2, <2>3
<1>14. {b[j].n : j \in DOMAIN b} \cup cleared = 1 .. inserted + 1
  <2>1. 1 .. inserted + 1 = (1 .. inserted) \cup {inserted + 1}
    BY <1>3
  <2> QED BY <1>10, <1>11, <2>1
<1>15. {b[j].n : j \in DOMAIN b} \cap cleared = {}
  <2>1. inserted + 1 \notin cleared
    <3>1. inserted + 1 \notin 1 .. inserted
      BY <1>3
    <3> QED BY <1>11, <3>1
  <2> QED BY <1>10, <1>11, <2>1
<1>16. InOrder(b, cleared, inserted + 1)
  BY <1>13, <1>14, <1>15 DEF InOrder
<1>17. queue' \in Seq(Payloads) /\ inserted' \in Nat
  BY <1>1, <1>2, <1>3, <1>6 DEF p
<1> QED BY <1>2, <1>3, <1>8, <1>16, <1>17 DEF BatchInv, b

\* Taking batches moves the front of the queue behind what was taken before.
LEMMA GetKeeps == ASSUME BatchInv, GetBatches PROVE BatchInv'
<1> DEFINE batches == Batches(queue)
           done == FlattenSeq(taken)
<1>1. /\ taken' = Cat(taken, batches) /\ queue' = Rest(batches)
      /\ inserted' = inserted /\ cleared' = cleared
  BY Zenon DEF GetBatches, Cat
<1>2. /\ queue \in Seq(Payloads) /\ taken \in Seq(Seq(Payloads)) /\ inserted \in Nat
      /\ InOrder(All, cleared, inserted)
  BY DEF BatchInv
<1>3. Cuts(Payloads, queue, 0, batches)
  BY <1>2, BatchesCut
<1> HIDE DEF batches
<1>4. PICK e \in 0 .. Len(queue) : FlattenSeq(batches) = SubSeq(queue, 1, e)
  BY <1>3 DEF Cuts
<1> DEFINE x == SubSeq(queue, 1, e)
           y == SubSeq(queue, e + 1, Len(queue))
<1>5. Len(queue) \in Nat /\ \A k \in 1 .. Len(queue) : queue[k] \in Payloads
  BY <1>2
<1>6. x \in Seq(Payloads) /\ Len(x) = e
  BY <1>2, <1>5
<1>7. y \in Seq(Payloads)
  BY <1>2, <1>5
<1>8. Cat(x, y) = queue
  <2>1. 1 \in 1 .. Len(queue) + 1 /\ e \in 1 - 1 .. Len(queue) /\ Len(queue) \in e .. Len(queue)
    BY <1>5
  <2>2. SubSeq(queue, 1, e) \o SubSeq(queue, e + 1, Len(queue)) = SubSeq(queue, 1, Len(queue))
    BY <1>2, <2>1, ConcatAdjacentSubSeq, Zenon
  <2>3. SubSeq(queue, 1, Len(queue)) = queue
    BY <1>2, SubSeqFull, Zenon
  <2> QED BY <2>2, <2>3, Zenon DEF Cat
<1>9. queue' = y
  BY <1>1, <1>4, <1>6 DEF Rest
<1> HIDE DEF x, y
<1>10. FlattenSeq(batches) = x
  BY <1>4 DEF x
<1>11. done \in Seq(Payloads) /\ batches \in Seq(Seq(Payloads))
  BY <1>2, <1>3, AllFact DEF Cuts
<1>12. FlattenSeq(taken') = Cat(done, x)
  <2>1. FlattenSeq(Cat(taken, batches)) = Cat(FlattenSeq(taken), FlattenSeq(batches))
    BY <1>2, <1>11, FlattenCat
  <2> QED BY <1>1, <1>10, <2>1
<1> HIDE DEF done
<1>13. All' = All
  <2>1. Cat(Cat(done, x), y) = Cat(done, Cat(x, y))
    BY <1>6, <1>7, <1>11, CatAssociative
  <2> QED BY <1>8, <1>9, <1>12, <2>1 DEF All, done
<1>14. taken' \in Seq(Seq(Payloads))
  <2>1. Cat(taken, batches) \in Seq(Seq(Payloads))
    BY <1>2, <1>11, CatFact
  <2> QED BY <1>1, <2>1
<1> QED BY <1>1, <1>2, <1>7, <1>9, <1>13, <1>14 DEF BatchInv

\* What is queued is cleared; what was taken is not.
LEMMA ClearKeeps == ASSUME BatchInv, Clear PROVE BatchInv'
<1> DEFINE done == FlattenSeq(taken)
           a == All
           M == Len(done)
<1>1. /\ queue' = <<>> /\ taken' = taken /\ inserted' = inserted
      /\ cleared' = cleared \cup {queue[j].n : j \in DOMAIN queue}
  BY DEF Clear
<1>2. /\ queue \in Seq(Payloads) /\ taken \in Seq(Seq(Payloads)) /\ inserted \in Nat
      /\ InOrder(a, cleared, inserted)
  BY DEF BatchInv
<1>3. done \in Seq(Payloads) /\ a = Cat(done, queue)
  BY <1>2, AllFact DEF All
<1> HIDE DEF done, a
<1>4. /\ M \in Nat /\ Len(queue) \in Nat /\ DOMAIN done = 1 .. M /\ DOMAIN queue = 1 .. Len(queue)
      /\ a \in Seq(Payloads) /\ DOMAIN a = 1 .. M + Len(queue)
      /\ \A i \in 1 .. M + Len(queue) : a[i] = IF i <= M THEN done[i] ELSE queue[i - M]
  <2>1. /\ a \in Seq(Payloads) /\ Len(a) = M + Len(queue)
        /\ \A i \in 1 .. M + Len(queue) : a[i] = IF i <= M THEN done[i] ELSE queue[i - M]
    <3>1. /\ Cat(done, queue) \in Seq(Payloads) /\ Len(Cat(done, queue)) = Len(done) + Len(queue)
          /\ \A i \in 1 .. Len(done) + Len(queue) :
               Cat(done, queue)[i] = IF i <= Len(done) THEN done[i] ELSE queue[i - Len(done)]
      <4>1. done \in Seq(Payloads) /\ queue \in Seq(Payloads)
        BY <1>2, <1>3
      <4> QED BY <4>1, CatFact
    <3> QED BY <1>3, <3>1, Zenon DEF M
  <2>2. DOMAIN a = 1 .. Len(a) /\ M \in Nat /\ Len(queue) \in Nat /\ DOMAIN done = 1 .. M /\ DOMAIN queue = 1 .. Len(queue)
    BY <1>2, <1>3, <2>1
  <2> QED BY <2>1, <2>2
<1> HIDE DEF M
<1>5. All' = done
  BY <1>1, <1>3, CatFact DEF All, done
<1>6. /\ \A j \in DOMAIN done : j \in DOMAIN a /\ a[j] = done[j]
      /\ \A j \in DOMAIN queue : j + M \in DOMAIN a /\ a[j + M] = queue[j]
      /\ \A j \in DOMAIN a : \/ j \in DOMAIN done /\ a[j] = done[j]
                             \/ j - M \in DOMAIN queue /\ a[j] = queue[j - M]
      /\ \A j \in DOMAIN done, k \in DOMAIN queue : j < k + M
  <2>1. \A j \in DOMAIN done : j \in DOMAIN a /\ a[j] = done[j]
    BY <1>4
  <2>2. \A j \in DOMAIN queue : j + M \in DOMAIN a /\ a[j + M] = queue[j]
    <3> SUFFICES ASSUME NEW j \in DOMAIN queue PROVE j + M \in DOMAIN a /\ a[j + M] = queue[j]
      OBVIOUS
    <3>1. j + M \in 1 .. M + Len(queue) /\ ~(j + M <= M) /\ (j + M) - M = j
      BY <1>4
    <3>2. a[j + M] = queue[(j + M) - M]
      BY <1>4, <3>1, Zenon
    <3> QED BY <1>4, <3>1, <3>2
  <2>3. \A j \in DOMAIN a : \/ j \in DOMAIN done /\ a[j] = done[j]
                            \/ j - M \in DOMAIN queue /\ a[j] = queue[j - M]
    BY <1>4
  <2>4. \A j \in DOMAIN done, k \in DOMAIN queue : j < k + M
    BY <1>4
  <2> QED BY <2>1, <2>2, <2>3, <2>4
<1>7. /\ \A j, k \in DOMAIN a : j < k => a[j].n < a[k].n
      /\ {a[j].n : j \in DOMAIN a} \cup cleared = 1 .. inserted
      /\ {a[j].n : j \in DOMAIN a} \cap cleared = {}
  BY <1>2 DEF InOrder
<1> DEFINE D == {done[j].n : j \in DOMAIN done}
           Q == {queue[j].n : j \in DOMAIN queue}
<1>8. {a[j].n : j \in DOMAIN a} = D \cup Q
  BY <1>6
<1>9. D \cap Q = {}
  <2> SUFFICES ASSUME NEW j \in DOMAIN done, NEW k \in DOMAIN queue, done[j].n = queue[k].n PROVE FALSE
    OBVIOUS
  <2>1. a[j].n < a[k + M].n /\ a[j].n = a[k + M].n /\ a[j] \in Payloads
    BY <1>4, <1>6, <1>7
  <2>2. a[j].n \in Nat
    BY <2>1 DEF Payloads
  <2> QED BY <2>1, <2>2
<1> HIDE DEF D, Q
<1>10. D \cup (cleared \cup Q) = 1 .. inserted /\ D \cap (cleared \cup Q) = {}
  BY <1>7, <1>8, <1>9
<1>11. \A j, k \in DOMAIN done : j < k => done[j].n < done[k].n
  BY <1>6, <1>7
<1>12. InOrder(done, cleared \cup Q, inserted)
  BY <1>10, <1>11 DEF InOrder, D
<1>13. <<>> \in Seq(Payloads)
  OBVIOUS
<1> QED BY <1>1, <1>2, <1>5, <1>12, <1>13 DEF BatchInv, Q

\* Every step keeps the invariant.
LEMMA BatchStep == BatchInv /\ [Next]_vars => BatchInv'
<1> SUFFICES ASSUME BatchInv, [Next]_vars PROVE BatchInv'
  OBVIOUS
<1>1. CASE Insert
  BY <1>1, InsertKeeps
<1>2. CASE GetBatches
  BY <1>2, GetKeeps
<1>3. CASE Clear
  BY <1>3, ClearKeeps
<1>4. CASE Shutdown \/ UNCHANGED vars
  <2>1. queue' = queue /\ taken' = taken /\ inserted' = inserted /\ cleared' = cleared
    BY <1>4 DEF Shutdown, vars
  <2>2. All' = All
    BY <2>1 DEF All
  <2> QED BY <2>1, <2>2 DEF BatchInv
<1> QED BY <1>1, <1>2, <1>3, <1>4 DEF Next

\* The invariant is the property.
LEMMA InOrderFromInv == BatchInv => EachPayloadOnceInOrder
<1> SUFFICES ASSUME BatchInv PROVE EachPayloadOnceInOrder
  OBVIOUS
<1>1. InOrder(All, cleared, inserted)
  BY DEF BatchInv
<1> QED BY <1>1, Zenon DEF InOrder, All, Cat, EachPayloadOnceInOrder

\* For any limits, sizes and number of payloads, each payload is in one place,
\* and batches and queue keep the order of arrival.
THEOREM PayloadsInOrder == Spec => []EachPayloadOnceInOrder
<1>1. Spec => []BatchInv
  BY BatchInit, BatchStep, PTL DEF Spec
<1> QED BY <1>1, InOrderFromInv, PTL
=============================================================================
