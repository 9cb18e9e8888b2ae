-------------------------- MODULE LambdaLogsProofs --------------------------
(***************************************************************************)
(* The logs processor loses, duplicates and reorders no line, for any      *)
(* requests, buffer sizes, processing rules and number of events, context  *)
(* updates and runtime initialisations.                                    *)
(***************************************************************************)
EXTENDS LambdaLogs, FiniteSetTheorems, WellFoundedInduction, TLAPS

-----------------------------------------------------------------------------
(* The inductive invariant *)

\* Two lines of one request in this order, unless one may overtake.
Follows(a, b) ==
  a.context # "sdk" /\ b.context # "sdk" /\ ~a.orphan /\ ~b.orphan => a.n < b.n

\* What was shipped (s) and is held (h) of request i.  The held lines are the
\* later ones, and none is of the durable SDK.
Tidy(i, s, h) ==
  /\ s \in Seq(Lines) /\ h \in Seq(Lines)
  /\ \A j \in DOMAIN s : s[j].id = i
  /\ \A j \in DOMAIN h : h[j].id = i /\ h[j].context # "sdk"
  /\ \A j, k \in DOMAIN s : s[j].n = s[k].n => j = k
  /\ \A j, k \in DOMAIN h : h[j].n = h[k].n => j = k
  /\ \A j \in DOMAIN s, k \in DOMAIN h : s[j].n # h[k].n /\ Follows(s[j], h[k])
  /\ \A j, k \in DOMAIN s : j < k => Follows(s[j], s[k])
  /\ \A j, k \in DOMAIN h : j < k => Follows(h[j], h[k])

Numbers(s) == {s[j].n : j \in DOMAIN s}
Of(b, i) == Numbers(b.shipped[i]) \cup Numbers(b.held[i])
Known(b) == UNION {Of(b, i) : i \in Ids}

\* Lines are held only for requests whose context is unknown, and no longer than
\* the function may be durable.
HeldForReason(b, map) ==
  /\ BufferSize = 0 \/ b.durable = "false" => \A i \in Ids : b.held[i] = <<>>
  /\ b.held[NoId] = <<>>
  /\ b.durable = "true" => \A i \in map : b.held[i] = <<>>

BufferFields == {"held", "order", "durable", "shipped", "spinning"}
Sound(b, map) ==
  /\ DOMAIN b = BufferFields /\ DOMAIN b.held = Ids /\ DOMAIN b.shipped = Ids
  /\ b.spinning \in BOOLEAN
  /\ \A i \in Ids : Tidy(i, b.shipped[i], b.held[i])
  /\ \A i, j \in Ids : i # j => Of(b, i) \cap Of(b, j) = {}
  /\ HeldForReason(b, map)

\* Lines wait for an id in the order they came; none of them was queued.
OrphansWait ==
  /\ orphan_logs \in Seq(Lines)
  /\ \A j \in DOMAIN orphan_logs : orphan_logs[j].n \in 1 .. events /\ orphan_logs[j].n \notin kept
  /\ \A j, k \in DOMAIN orphan_logs : orphan_logs[j].n = orphan_logs[k].n => j = k

LogInv ==
  /\ managed \in BOOLEAN /\ events \in Nat /\ request_id \in RequestIds \cup {Empty}
  /\ durable_context_map \subseteq RequestIds /\ updates \in Seq(RequestIds)
  /\ Sound(Buffers, durable_context_map)
  /\ Known(Buffers) \subseteq kept /\ (~spinning => Known(Buffers) = kept)
  /\ kept \subseteq 1 .. events /\ events <= MaxEvents
  /\ OrphansWait

-----------------------------------------------------------------------------
(* Lines and sequences of lines *)

\* A set of natural numbers has a least one.  Induction rests on this: the
\* least counterexample is not 0 and its predecessor is none.
LEMMA LeastNumber ==
  ASSUME NEW T \in SUBSET Nat, T # {}
  PROVE  \E x \in T : \A y \in T : x <= y
<1> DEFINE Below == {ss \in Nat \X Nat : ss[1] < ss[2]}
<1>1. IsWellFoundedOn(OpToRel(<, Nat), Nat)
  BY NatLessThanWellFounded
<1>2. OpToRel(<, Nat) = Below
  BY Zenon DEF OpToRel
<1> HIDE DEF Below
<1>3. IsWellFoundedOn(Below, Nat)
  BY <1>1, <1>2, Zenon
<1>4. PICK x \in T : \A y \in T : <<y, x>> \notin Below
  BY <1>3, WFMin
<1>5. ASSUME NEW y \in T, y < x PROVE FALSE
  <2>1. <<y, x>> \in Nat \X Nat /\ <<y, x>>[1] < <<y, x>>[2]
    BY <1>5
  <2>2. <<y, x>> \in Below
    BY <2>1 DEF Below
  <2> QED BY <2>2, <1>4
<1>6. \A y \in T : x <= y
  BY <1>5
<1> QED BY <1>6

\* The fields of a line.
LEMMA LineFact ==
  ASSUME NEW l \in Lines
  PROVE  /\ l.n \in Nat /\ l.orphan \in BOOLEAN /\ l.id \in Ids
         /\ WithContext(l) \in Lines /\ WithContext(l).n = l.n /\ WithContext(l).id = l.id
         /\ WithContext(l).orphan = l.orphan /\ WithContext(l).context = "request"
BY BoundAssumption DEF Lines, WithContext

\* Nothing was shipped, nothing is held.
LEMMA TidyEmpty == ASSUME NEW i PROVE Tidy(i, <<>>, <<>>) /\ Numbers(<<>>) = {}
<1>1. <<>> \in Seq(Lines) /\ DOMAIN <<>> = {}
  OBVIOUS
<1> QED BY <1>1 DEF Tidy, Numbers

\* t is s and then h.
Joins(t, s, h) == t = s \o h

\* Shipping what is held keeps it tidy.
LEMMA TidyConcat ==
  ASSUME NEW i, NEW s, NEW h, NEW t, Tidy(i, s, h), Joins(t, s, h)
  PROVE  Tidy(i, t, <<>>) /\ Numbers(t) = Numbers(s) \cup Numbers(h)
<1>1. s \in Seq(Lines) /\ h \in Seq(Lines)
  BY DEF Tidy
<1>2. /\ t \in Seq(Lines) /\ Len(s) \in Nat /\ Len(h) \in Nat
      /\ DOMAIN s = 1 .. Len(s) /\ DOMAIN h = 1 .. Len(h) /\ DOMAIN t = 1 .. Len(s) + Len(h)
      /\ \A j \in 1 .. Len(s) + Len(h) : t[j] = IF j <= Len(s) THEN s[j] ELSE h[j - Len(s)]
  BY <1>1 DEF Joins
<1>3. \A j \in DOMAIN t : \/ j \in DOMAIN s /\ t[j] = s[j]
                          \/ j > Len(s) /\ j - Len(s) \in DOMAIN h /\ t[j] = h[j - Len(s)]
  BY <1>2
<1>4. \A j \in DOMAIN t : t[j].id = i
  BY <1>3 DEF Tidy
<1>5. ASSUME NEW j \in DOMAIN t, NEW k \in DOMAIN t, j < k
      PROVE  t[j].n # t[k].n /\ Follows(t[j], t[k])
  <2>1. CASE k \in DOMAIN s /\ t[k] = s[k]
    <3>1. j \in DOMAIN s /\ t[j] = s[j]
      BY <1>2, <1>3, <1>5, <2>1
    <3> QED BY <1>2, <1>5, <2>1, <3>1 DEF Tidy
  <2>2. CASE k > Len(s) /\ k - Len(s) \in DOMAIN h /\ t[k] = h[k - Len(s)]
    <3>1. CASE j \in DOMAIN s /\ t[j] = s[j]
      BY <2>2, <3>1 DEF Tidy
    <3>2. CASE j > Len(s) /\ j - Len(s) \in DOMAIN h /\ t[j] = h[j - Len(s)]
      <4>1. j - Len(s) < k - Len(s) /\ j - Len(s) # k - Len(s)
        BY <1>2, <1>5
      <4> QED BY <2>2, <3>2, <4>1 DEF Tidy
    <3> QED BY <1>3, <3>1, <3>2
  <2> QED BY <1>3, <2>1, <2>2
<1>6. \A j, k \in DOMAIN t : t[j].n = t[k].n => j = k
  BY <1>2, <1>5
<1>7. Tidy(i, t, <<>>)
  <2>1. <<>> \in Seq(Lines) /\ DOMAIN <<>> = {}
    OBVIOUS
  <2> QED BY <1>2, <1>4, <1>5, <1>6, <2>1 DEF Tidy
<1>8. Numbers(t) = Numbers(s) \cup Numbers(h)
  <2>1. ASSUME NEW j \in DOMAIN s PROVE s[j].n \in Numbers(t)
    <3>1. j \in DOMAIN t /\ t[j] = s[j]
      BY <1>2, <2>1
    <3> QED BY <3>1 DEF Numbers
  <2>2. ASSUME NEW j \in DOMAIN h PROVE h[j].n \in Numbers(t)
    <3>1. j + Len(s) \in DOMAIN t /\ t[j + Len(s)] = h[j]
      BY <1>2, <2>2
    <3> QED BY <3>1 DEF Numbers
  <2>3. \A j \in DOMAIN t : t[j].n \in Numbers(s) \cup Numbers(h)
    BY <1>3 DEF Numbers
  <2> QED BY <2>1, <2>2, <2>3 DEF Numbers
<1> QED BY <1>7, <1>8

\* What is held gets the context of its request.
LEMMA TidyDecorate ==
  ASSUME NEW i, NEW s, NEW h, Tidy(i, s, h)
  PROVE  LET d == [j \in DOMAIN h |-> WithContext(h[j])]
         IN Tidy(i, s, d) /\ Numbers(d) = Numbers(h) /\ (h = <<>> => d = <<>>)
<1> DEFINE d == [j \in DOMAIN h |-> WithContext(h[j])]
<1>1. h \in Seq(Lines) /\ s \in Seq(Lines) /\ DOMAIN h = 1 .. Len(h) /\ Len(h) \in Nat
      /\ \A j \in DOMAIN h : h[j] \in Lines
  BY DEF Tidy
<1>2. DOMAIN d = DOMAIN h /\ \A j \in DOMAIN h : d[j] = WithContext(h[j])
  OBVIOUS
<1>3. \A j \in DOMAIN h : /\ d[j] \in Lines /\ d[j].n = h[j].n /\ d[j].id = h[j].id
                          /\ d[j].orphan = h[j].orphan /\ d[j].context = "request"
  BY <1>1, <1>2, LineFact
<1>4. d = [j \in 1 .. Len(h) |-> d[j]]
  BY <1>1
<1> HIDE DEF d
<1>5. d \in Seq(Lines)
  BY <1>1, <1>3, <1>4
<1>6. \A j \in DOMAIN h : h[j].context # "sdk"
  BY DEF Tidy
<1>7. \A j, k \in DOMAIN h : j < k => Follows(d[j], d[k])
  BY <1>3, <1>6 DEF Tidy, Follows
<1>8. \A j \in DOMAIN s, k \in DOMAIN h : s[j].n # d[k].n /\ Follows(s[j], d[k])
  BY <1>3, <1>6 DEF Tidy, Follows
<1>9. Tidy(i, s, d)
  BY <1>2, <1>3, <1>5, <1>7, <1>8 DEF Tidy
<1>10. Numbers(d) = Numbers(h)
  BY <1>2, <1>3 DEF Numbers
<1>11. h = <<>> => d = <<>>
  BY <1>1, <1>2, <1>5
<1> QED BY <1>9, <1>10, <1>11 DEF d

\* May this line come behind lines with the numbers K?
Latest(line, K) == line.n \notin K /\ (line.orphan \/ line.context = "sdk" \/ \A x \in K : x < line.n)

\* What Append does to a sequence of lines.
LEMMA AppendLine ==
  ASSUME NEW s \in Seq(Lines), NEW line \in Lines
  PROVE  /\ Append(s, line) \in Seq(Lines) /\ Len(s) \in Nat
         /\ DOMAIN s = 1 .. Len(s) /\ DOMAIN Append(s, line) = 1 .. Len(s) + 1
         /\ \A j \in DOMAIN s : Append(s, line)[j] = s[j]
         /\ Append(s, line)[Len(s) + 1] = line
         /\ Numbers(Append(s, line)) = Numbers(s) \cup {line.n}
<1> DEFINE t == Append(s, line)
<1>1. /\ t \in Seq(Lines) /\ Len(s) \in Nat
      /\ DOMAIN s = 1 .. Len(s) /\ DOMAIN t = 1 .. Len(s) + 1
      /\ \A j \in DOMAIN s : t[j] = s[j]
      /\ t[Len(s) + 1] = line
  OBVIOUS
<1> HIDE DEF t
<1>2. \A j \in DOMAIN t : j \in DOMAIN s \/ j = Len(s) + 1
  BY <1>1
<1>3. Len(s) + 1 \in DOMAIN t /\ DOMAIN s \subseteq DOMAIN t
  BY <1>1
<1>4. Numbers(t) = Numbers(s) \cup {line.n}
  BY <1>1, <1>2, <1>3 DEF Numbers
<1> QED BY <1>1, <1>4 DEF t

\* A line is shipped past nothing it has to follow.
LEMMA TidyShip ==
  ASSUME NEW i, NEW s, NEW h, Tidy(i, s, h), NEW line \in Lines, line.id = i,
         Latest(line, Numbers(s) \cup Numbers(h)), line.context = "sdk" \/ h = <<>>
  PROVE  Tidy(i, Append(s, line), h)
<1> DEFINE t == Append(s, line)
<1>1. s \in Seq(Lines) /\ h \in Seq(Lines)
  BY DEF Tidy
<1>2. /\ t \in Seq(Lines) /\ Len(s) \in Nat /\ DOMAIN s = 1 .. Len(s) /\ DOMAIN t = 1 .. Len(s) + 1
      /\ \A j \in DOMAIN s : t[j] = s[j]
      /\ t[Len(s) + 1] = line
  BY <1>1, AppendLine
<1> HIDE DEF t
<1>3. \A j \in DOMAIN t : j \in DOMAIN s \/ j = Len(s) + 1
  BY <1>2
<1>4. \A j \in DOMAIN s : s[j].n # line.n /\ Follows(s[j], line)
  BY DEF Latest, Numbers, Follows
<1>5. \A k \in DOMAIN h : line.n # h[k].n /\ Follows(line, h[k])
  <2>1. DOMAIN <<>> = {}
    OBVIOUS
  <2> QED BY <2>1 DEF Latest, Numbers, Follows
<1>6. ASSUME NEW j \in DOMAIN t, NEW k \in DOMAIN t, j < k
      PROVE  t[j].n # t[k].n /\ Follows(t[j], t[k])
  <2>1. j \in DOMAIN s /\ t[j] = s[j]
    BY <1>2, <1>6
  <2>2. CASE k \in DOMAIN s
    BY <1>2, <1>6, <2>1, <2>2 DEF Tidy
  <2>3. CASE k = Len(s) + 1
    BY <1>2, <1>4, <2>1, <2>3
  <2> QED BY <1>3, <2>2, <2>3
<1>7. \A j, k \in DOMAIN t : t[j].n = t[k].n => j = k
  BY <1>2, <1>6
<1>8. \A j \in DOMAIN t, k \in DOMAIN h : t[j].n # h[k].n /\ Follows(t[j], h[k])
  BY <1>2, <1>3, <1>5 DEF Tidy
<1>9. \A j \in DOMAIN t : t[j].id = i
  BY <1>2, <1>3 DEF Tidy
<1> QED BY <1>1, <1>2, <1>6, <1>7, <1>8, <1>9 DEF Tidy, t

\* A line is held behind the others.
LEMMA TidyHold ==
  ASSUME NEW i, NEW s, NEW h, Tidy(i, s, h), NEW line \in Lines, line.id = i,
         Latest(line, Numbers(s) \cup Numbers(h)), line.context # "sdk"
  PROVE  Tidy(i, s, Append(h, line))
<1> DEFINE t == Append(h, line)
<1>1. s \in Seq(Lines) /\ h \in Seq(Lines)
  BY DEF Tidy
<1>2. /\ t \in Seq(Lines) /\ Len(h) \in Nat /\ DOMAIN h = 1 .. Len(h) /\ DOMAIN t = 1 .. Len(h) + 1
      /\ \A j \in DOMAIN h : t[j] = h[j]
      /\ t[Len(h) + 1] = line
  BY <1>1, AppendLine
<1> HIDE DEF t
<1>3. \A j \in DOMAIN t : j \in DOMAIN h \/ j = Len(h) + 1
  BY <1>2
<1>4. /\ \A j \in DOMAIN h : h[j].n # line.n /\ Follows(h[j], line)
      /\ \A j \in DOMAIN s : s[j].n # line.n /\ Follows(s[j], line)
  BY DEF Latest, Numbers, Follows
<1>5. ASSUME NEW j \in DOMAIN t, NEW k \in DOMAIN t, j < k
      PROVE  t[j].n # t[k].n /\ Follows(t[j], t[k])
  <2>1. j \in DOMAIN h /\ t[j] = h[j]
    BY <1>2, <1>5
  <2>2. CASE k \in DOMAIN h
    BY <1>2, <1>5, <2>1, <2>2 DEF Tidy
  <2>3. CASE k = Len(h) + 1
    BY <1>2, <1>4, <2>1, <2>3
  <2> QED BY <1>3, <2>2, <2>3
<1>6. \A j, k \in DOMAIN t : t[j].n = t[k].n => j = k
  BY <1>2, <1>5
<1>7. \A j \in DOMAIN s, k \in DOMAIN t : s[j].n # t[k].n /\ Follows(s[j], t[k])
  BY <1>2, <1>3, <1>4 DEF Tidy
<1>8. \A j \in DOMAIN t : t[j].id = i /\ t[j].context # "sdk"
  BY <1>2, <1>3 DEF Tidy
<1> QED BY <1>1, <1>2, <1>5, <1>6, <1>7, <1>8 DEF Tidy, t

-----------------------------------------------------------------------------
(* Moving lines *)

\* The lines of every request stay the same ones, and none becomes held.
Moved(b, c) ==
  /\ DOMAIN c = BufferFields /\ DOMAIN c.held = Ids /\ DOMAIN c.shipped = Ids
  /\ c.durable = b.durable
  /\ \A i \in Ids : /\ Tidy(i, c.shipped[i], c.held[i]) /\ Of(c, i) = Of(b, i)
                    /\ b.held[i] = <<>> => c.held[i] = <<>>

\* Moving lines keeps the buffers sound and what is known.
LEMMA MovedSound ==
  ASSUME NEW b, NEW c, NEW map, Sound(b, map), Moved(b, c), map \subseteq Ids, c.spinning \in BOOLEAN
  PROVE  Sound(c, map) /\ Known(c) = Known(b)
<1>1. HeldForReason(c, map)
  BY DEF Sound, Moved, HeldForReason, Ids
<1>2. Known(c) = Known(b)
  BY DEF Known, Moved
<1> QED BY <1>1, <1>2 DEF Sound, Moved

\* Moves compose.
LEMMA MovedTwice ==
  ASSUME NEW b, NEW c, NEW d, Moved(b, c), Moved(c, d)
  PROVE  Moved(b, d)
BY DEF Moved

\* The order of eviction does not matter to the lines.
LEMMA MovedOrder ==
  ASSUME NEW b, NEW c, Moved(b, c), NEW o
  PROVE  /\ Moved(b, [c EXCEPT !.order = o]) /\ [c EXCEPT !.order = o].spinning = c.spinning
         /\ [c EXCEPT !.order = o].held = c.held /\ [c EXCEPT !.order = o].shipped = c.shipped
         /\ [c EXCEPT !.order = o].durable = c.durable
<1> DEFINE d == [c EXCEPT !.order = o]
<1>1. /\ DOMAIN d = BufferFields /\ d.held = c.held /\ d.shipped = c.shipped /\ d.durable = c.durable
      /\ d.spinning = c.spinning
  BY DEF Moved, BufferFields
<1> HIDE DEF d
<1>2. Moved(b, d)
  BY <1>1 DEF Moved, Of
<1> QED BY <1>1, <1>2 DEF d

Shaped(b) ==
  /\ DOMAIN b = BufferFields /\ DOMAIN b.held = Ids /\ DOMAIN b.shipped = Ids
  /\ \A i \in Ids : Tidy(i, b.shipped[i], b.held[i])

\* What is held for the keys K is shipped.
LEMMA ShipHeldMoves ==
  ASSUME NEW b, Shaped(b), NEW K
  PROVE  LET c == ShipHeld(b, K)
         IN /\ Moved(b, c) /\ Shaped(c) /\ c.spinning = b.spinning
            /\ \A i \in Ids \cap K : c.held[i] = <<>>
            /\ \A i \in Ids \ K : c.held[i] = b.held[i]
<1> DEFINE c == ShipHeld(b, K)
<1>1. /\ DOMAIN c = BufferFields /\ c.durable = b.durable /\ c.spinning = b.spinning
      /\ c.shipped = [i \in Ids |-> IF i \in K THEN b.shipped[i] \o b.held[i] ELSE b.shipped[i]]
      /\ c.held = [i \in Ids |-> IF i \in K THEN <<>> ELSE b.held[i]]
  BY DEF ShipHeld, Shaped, BufferFields
<1> HIDE DEF c
<1>2. ASSUME NEW i \in Ids
      PROVE  /\ Tidy(i, c.shipped[i], c.held[i]) /\ Of(c, i) = Of(b, i)
             /\ b.held[i] = <<>> => c.held[i] = <<>>
  <2>1. CASE i \in K
    <3>1. c.shipped[i] = b.shipped[i] \o b.held[i] /\ c.held[i] = <<>>
      BY <1>1, <2>1
    <3>2. /\ Tidy(i, c.shipped[i], <<>>)
          /\ Numbers(c.shipped[i]) = Numbers(b.shipped[i]) \cup Numbers(b.held[i])
      <4>1. Tidy(i, b.shipped[i], b.held[i])
        BY DEF Shaped
      <4>2. Joins(c.shipped[i], b.shipped[i], b.held[i])
        BY <3>1 DEF Joins
      <4> QED BY <4>1, <4>2, TidyConcat
    <3>3. Numbers(<<>>) = {}
      BY TidyEmpty
    <3> QED BY <3>1, <3>2, <3>3 DEF Of
  <2>2. CASE i \notin K
    <3>1. c.shipped[i] = b.shipped[i] /\ c.held[i] = b.held[i]
      BY <1>1, <2>2
    <3> QED BY <3>1 DEF Shaped, Of
  <2> QED BY <2>1, <2>2
<1>3. DOMAIN c.held = Ids /\ DOMAIN c.shipped = Ids
  BY <1>1
<1>4. Moved(b, c) /\ Shaped(c)
  BY <1>1, <1>2, <1>3 DEF Moved, Shaped
<1>5. (\A i \in Ids \cap K : c.held[i] = <<>>) /\ (\A i \in Ids \ K : c.held[i] = b.held[i])
  BY <1>1
<1> QED BY <1>1, <1>4, <1>5 DEF c

\* What is held for the keys K gets its context.
LEMMA DecorateMoves ==
  ASSUME NEW b, Shaped(b), NEW K
  PROVE  LET c == Decorate(b, K) IN Moved(b, c) /\ Shaped(c) /\ c.spinning = b.spinning
<1> DEFINE c == Decorate(b, K)
<1>1. /\ DOMAIN c = BufferFields /\ c.durable = b.durable /\ c.spinning = b.spinning
      /\ c.shipped = b.shipped
      /\ c.held = [i \in Ids |-> IF i \in K THEN [j \in DOMAIN b.held[i] |-> WithContext(b.held[i][j])]
                                            ELSE b.held[i]]
  BY DEF Decorate, Shaped, BufferFields
<1> HIDE DEF c
<1>2. ASSUME NEW i \in Ids
      PROVE  /\ Tidy(i, c.shipped[i], c.held[i]) /\ Of(c, i) = Of(b, i)
             /\ b.held[i] = <<>> => c.held[i] = <<>>
  <2> DEFINE d == [j \in DOMAIN b.held[i] |-> WithContext(b.held[i][j])]
  <2>1. CASE i \in K
    <3>1. c.shipped[i] = b.shipped[i] /\ c.held[i] = d
      BY <1>1, <2>1
    <3>2. /\ Tidy(i, b.shipped[i], d) /\ Numbers(d) = Numbers(b.held[i])
          /\ b.held[i] = <<>> => d = <<>>
      BY TidyDecorate DEF Shaped
    <3> HIDE DEF d
    <3> QED BY <3>1, <3>2 DEF Of
  <2>2. CASE i \notin K
    <3>1. c.shipped[i] = b.shipped[i] /\ c.held[i] = b.held[i]
      BY <1>1, <2>2
    <3> QED BY <3>1 DEF Shaped, Of
  <2> QED BY <2>1, <2>2
<1>3. DOMAIN c.held = Ids /\ DOMAIN c.shipped = Ids
  BY <1>1 DEF Shaped
<1>4. Moved(b, c) /\ Shaped(c)
  BY <1>1, <1>2, <1>3 DEF Moved, Shaped
<1> QED BY <1>1, <1>4 DEF c

\* Both.
LEMMA ShipHeldDecoratedMoves ==
  ASSUME NEW b, Shaped(b), NEW K
  PROVE  LET c == ShipHeldDecorated(b, K)
         IN /\ Moved(b, c) /\ Shaped(c) /\ c.spinning = b.spinning
            /\ \A i \in Ids \cap K : c.held[i] = <<>>
<1> DEFINE d == Decorate(b, K)
<1>1. Moved(b, d) /\ Shaped(d) /\ d.spinning = b.spinning
  BY DecorateMoves
<1> HIDE DEF d
<1>2. LET c == ShipHeld(d, K)
      IN /\ Moved(d, c) /\ Shaped(c) /\ c.spinning = d.spinning
         /\ \A i \in Ids \cap K : c.held[i] = <<>>
  BY <1>1, ShipHeldMoves
<1> QED BY <1>1, <1>2, MovedTwice DEF ShipHeldDecorated, d

\* The eviction loop ships, or spins and moves nothing.
LEMMA MakeRoomMoves ==
  ASSUME NEW b, Shaped(b), b.spinning \in BOOLEAN
  PROVE  LET c == MakeRoom(b) IN Moved(b, c) /\ Shaped(c) /\ c.spinning \in BOOLEAN
<1> DEFINE Room == \E k \in 0 .. Len(b.order) : RoomAfter(b, k)
           k1 == CHOOSE k \in 0 .. Len(b.order) :
                   RoomAfter(b, k) /\ \A j \in 0 .. k - 1 : ~RoomAfter(b, j)
           K == ToSet(SubSeq(b.order, 1, k1))
           d == ShipHeld(b, K)
           o == SubSeq(d.order, k1 + 1, Len(d.order))
           spun == [b EXCEPT !.spinning = TRUE]
<1>1. MakeRoom(b) = IF Room THEN [d EXCEPT !.order = o] ELSE spun
  BY Zenon DEF MakeRoom
<1> HIDE DEF Room, K, o
<1>2. Moved(b, d) /\ d.spinning = b.spinning
  BY ShipHeldMoves
<1> HIDE DEF d
<1> DEFINE e == [d EXCEPT !.order = o]
<1>3. Moved(b, e) /\ e.spinning = b.spinning
  BY <1>2, MovedOrder
<1> HIDE DEF e
<1>4. /\ DOMAIN spun = BufferFields /\ spun.held = b.held /\ spun.shipped = b.shipped
      /\ spun.durable = b.durable /\ spun.spinning = TRUE
  BY DEF Shaped, BufferFields
<1> HIDE DEF spun
<1>5. Moved(b, spun)
  BY <1>4 DEF Moved, Of, Shaped
<1>6. Moved(b, MakeRoom(b)) /\ MakeRoom(b).spinning \in BOOLEAN
  BY <1>1, <1>3, <1>4, <1>5 DEF e
<1> QED BY <1>6 DEF Moved, Shaped

-----------------------------------------------------------------------------
(* Queueing lines *)

\* One line, of number n, comes to the lines of request i.
Put(b, c, i, n) ==
  /\ DOMAIN c = BufferFields /\ DOMAIN c.held = Ids /\ DOMAIN c.shipped = Ids
  /\ c.spinning \in BOOLEAN
  /\ Tidy(i, c.shipped[i], c.held[i]) /\ Of(c, i) = Of(b, i) \cup {n}
  /\ \A j \in Ids \ {i} : c.shipped[j] = b.shipped[j] /\ c.held[j] = b.held[j]

\* The buffers stay sound.
LEMMA PutSound ==
  ASSUME NEW b, NEW c, NEW map, NEW i \in Ids, NEW n,
         Sound(b, map), n \notin Known(b), HeldForReason(c, map), Put(b, c, i, n)
  PROVE  Sound(c, map) /\ Known(c) = Known(b) \cup {n}
<1>1. \A j \in Ids \ {i} : Of(c, j) = Of(b, j)
  BY DEF Of, Put
<1>2. Known(c) = Known(b) \cup {n}
  BY <1>1 DEF Known, Put
<1>3. \A j \in Ids : Tidy(j, c.shipped[j], c.held[j])
  BY DEF Sound, Put
<1>4. \A j \in Ids : n \notin Of(b, j)
  BY DEF Known
<1>5. \A j, k \in Ids : j # k => Of(c, j) \cap Of(c, k) = {}
  BY <1>1, <1>4 DEF Sound, Put
<1> QED BY <1>2, <1>3, <1>5 DEF Sound, Put

\* A line that may follow all lines may follow those of its request.
LEMMA LatestOfRequest ==
  ASSUME NEW b, NEW line, NEW i \in Ids, Latest(line, Known(b))
  PROVE  Latest(line, Numbers(b.shipped[i]) \cup Numbers(b.held[i]))
BY DEF Latest, Known, Of

\* A line is shipped when nothing is held that it has to follow.
LEMMA ShipSound ==
  ASSUME NEW b, NEW map, NEW line \in Lines, Sound(b, map), Latest(line, Known(b)),
         line.context = "sdk" \/ b.held[line.id] = <<>>
  PROVE  LET c == Ship(b, line)
         IN Sound(c, map) /\ Known(c) = Known(b) \cup {line.n} /\ c.spinning = b.spinning
<1> DEFINE c == Ship(b, line)
           i == line.id
<1>0. i \in Ids
  BY LineFact
<1>1. /\ DOMAIN c = BufferFields /\ c.held = b.held /\ c.durable = b.durable
      /\ c.spinning = b.spinning /\ DOMAIN c.shipped = Ids
      /\ c.shipped[i] = Append(b.shipped[i], line)
      /\ \A j \in Ids \ {i} : c.shipped[j] = b.shipped[j]
  BY <1>0 DEF Ship, Sound, BufferFields
<1> HIDE DEF c
<1>2. Tidy(i, b.shipped[i], b.held[i]) /\ b.shipped[i] \in Seq(Lines)
  BY <1>0 DEF Sound, Tidy
<1>3. Latest(line, Numbers(b.shipped[i]) \cup Numbers(b.held[i]))
  BY <1>0, LatestOfRequest
<1>4. Tidy(i, c.shipped[i], c.held[i])
  BY <1>1, <1>2, <1>3, TidyShip
<1>5. Numbers(c.shipped[i]) = Numbers(b.shipped[i]) \cup {line.n}
  BY <1>1, <1>2, AppendLine
<1>6. Of(c, i) = Of(b, i) \cup {line.n}
  BY <1>1, <1>5 DEF Of
<1>7. HeldForReason(c, map)
  BY <1>1 DEF Sound, HeldForReason
<1>8. DOMAIN c.held = Ids /\ c.spinning \in BOOLEAN /\ line.n \notin Known(b)
  BY <1>1 DEF Sound, Latest
<1>9. \A j \in Ids \ {i} : c.shipped[j] = b.shipped[j] /\ c.held[j] = b.held[j]
  BY <1>1
<1> HIDE DEF i
<1>10. Put(b, c, i, line.n)
  BY <1>1, <1>4, <1>6, <1>8, <1>9 DEF Put
<1>11. Sound(c, map) /\ Known(c) = Known(b) \cup {line.n}
  BY <1>0, <1>7, <1>8, <1>10, PutSound
<1> QED BY <1>1, <1>11 DEF c

\* May a line of request i be held?
MayHold(b, map, i) ==
  BufferSize # 0 /\ b.durable # "false" /\ i # NoId /\ ~(b.durable = "true" /\ i \in map)

\* A line is held behind those of its request.
LEMMA HoldSound ==
  ASSUME NEW b, NEW c, NEW map, NEW line \in Lines, Sound(b, map), Latest(line, Known(b)),
         line.context # "sdk", MayHold(b, map, line.id), map \subseteq Ids,
         DOMAIN c = BufferFields, c.shipped = b.shipped, c.durable = b.durable, c.spinning \in BOOLEAN,
         c.held = [b.held EXCEPT ![line.id] = Append(@, line)]
  PROVE  Sound(c, map) /\ Known(c) = Known(b) \cup {line.n}
<1> DEFINE i == line.id
<1>0. i \in Ids
  BY LineFact
<1>1. /\ DOMAIN c.held = Ids /\ c.held[i] = Append(b.held[i], line)
      /\ \A j \in Ids \ {i} : c.held[j] = b.held[j]
  BY <1>0 DEF Sound
<1>2. Tidy(i, b.shipped[i], b.held[i]) /\ b.held[i] \in Seq(Lines)
  BY <1>0 DEF Sound, Tidy
<1>3. Latest(line, Numbers(b.shipped[i]) \cup Numbers(b.held[i]))
  BY <1>0, LatestOfRequest
<1>4. Tidy(i, c.shipped[i], c.held[i])
  BY <1>1, <1>2, <1>3, TidyHold
<1>5. Numbers(c.held[i]) = Numbers(b.held[i]) \cup {line.n}
  BY <1>1, <1>2, AppendLine
<1>6. Of(c, i) = Of(b, i) \cup {line.n}
  BY <1>5 DEF Of
<1>7. HeldForReason(c, map)
  <2>1. NoId \in Ids
    BY DEF Ids
  <2>2. /\ BufferSize # 0 /\ c.durable # "false" /\ i # NoId
        /\ c.durable = "true" => \A j \in map : j # i /\ b.held[j] = <<>>
    BY DEF MayHold, Sound, HeldForReason
  <2>3. c.held[NoId] = <<>>
    BY <1>1, <2>1, <2>2 DEF Sound, HeldForReason
  <2>4. \A j \in map : j # i => c.held[j] = b.held[j]
    BY <1>1
  <2> HIDE DEF i
  <2>5. c.durable = "true" => \A j \in map : c.held[j] = <<>>
    BY <2>2, <2>4
  <2> QED BY <2>2, <2>3, <2>5 DEF HeldForReason
<1>8. DOMAIN c.shipped = Ids /\ line.n \notin Known(b)
  BY DEF Sound, Latest
<1>9. \A j \in Ids \ {i} : c.shipped[j] = b.shipped[j] /\ c.held[j] = b.held[j]
  BY <1>1
<1> HIDE DEF i
<1>10. Put(b, c, i, line.n)
  BY <1>1, <1>4, <1>6, <1>8, <1>9 DEF Put
<1> QED BY <1>0, <1>7, <1>8, <1>10, PutSound

\* What queueing a line does: the line is known afterwards, unless the rules
\* exclude it or the processor spins.
Queued(b, c, map, line) ==
  /\ Sound(c, map) /\ (b.spinning => c.spinning)
  /\ Known(b) \subseteq Known(c) /\ Known(c) \subseteq Known(b) \cup {line.n}
  /\ Excluded(line) => Known(c) = Known(b)
  /\ ~c.spinning /\ ~Excluded(line) => Known(c) = Known(b) \cup {line.n}

\* hold_log holds the line, after evicting other requests where it has to.
LEMMA HoldLog ==
  ASSUME NEW b, NEW map, NEW line \in Lines, Sound(b, map), Latest(line, Known(b)), ~b.spinning,
         line.context # "sdk", MayHold(b, map, line.id), map \subseteq Ids, ~Excluded(line)
  PROVE  Queued(b, hold_log(b, line), map, line)
<1> DEFINE i == line.id
           more == [b EXCEPT !.held[line.id] = Append(@, line)]
           room == MakeRoom(b)
           kept1 == [room EXCEPT !.order = Append(@, line.id), !.held[line.id] = <<line>>]
<1>0. i \in Ids
  BY LineFact
<1>1. hold_log(b, line) = IF b.held[i] # <<>> THEN more ELSE IF room.spinning THEN room ELSE kept1
  BY Zenon DEF hold_log
<1>2. CASE b.held[i] # <<>>
  <2>1. /\ DOMAIN more = BufferFields /\ more.shipped = b.shipped /\ more.durable = b.durable
        /\ more.spinning = b.spinning
        /\ more.held = [b.held EXCEPT ![line.id] = Append(@, line)]
    BY DEF Sound, BufferFields
  <2> HIDE DEF more
  <2>2. more.spinning \in BOOLEAN
    BY <2>1 DEF Sound
  <2>3. Sound(more, map) /\ Known(more) = Known(b) \cup {line.n}
    BY <2>1, <2>2, HoldSound
  <2> QED BY <1>1, <1>2, <2>1, <2>3 DEF Queued
<1>3. CASE b.held[i] = <<>>
  <2>1. Shaped(b) /\ b.spinning \in BOOLEAN
    BY DEF Sound, Shaped
  <2>2. Moved(b, room) /\ room.spinning \in BOOLEAN
    BY <2>1, MakeRoomMoves
  <2> HIDE DEF room
  <2>3. Sound(room, map) /\ Known(room) = Known(b)
    BY <2>2, MovedSound
  <2>4. CASE room.spinning
    BY <1>1, <1>3, <2>3, <2>4 DEF Queued
  <2>5. CASE ~room.spinning
    <3>1. room.held[i] = <<>> /\ room.durable = b.durable
      BY <1>0, <1>3, <2>2 DEF Moved
    <3>2. MayHold(room, map, line.id) /\ Latest(line, Known(room))
      BY <2>3, <3>1 DEF MayHold
    <3>3. <<line>> = Append(<<>>, line)
      OBVIOUS
    <3>4. /\ DOMAIN kept1 = BufferFields /\ kept1.shipped = room.shipped /\ kept1.durable = room.durable
          /\ kept1.spinning = room.spinning
          /\ kept1.held = [room.held EXCEPT ![line.id] = <<line>>]
      BY <2>3 DEF Sound, BufferFields
    <3>5. kept1.held = [room.held EXCEPT ![line.id] = Append(@, line)]
      BY <3>1, <3>3, <3>4
    <3> HIDE DEF kept1
    <3>6. kept1.spinning \in BOOLEAN
      BY <3>4, <2>2
    <3>7. Sound(kept1, map) /\ Known(kept1) = Known(room) \cup {line.n}
      BY <2>3, <3>2, <3>4, <3>5, <3>6, HoldSound
    <3> QED BY <1>1, <1>3, <2>3, <2>5, <3>4, <3>7 DEF Queued
  <2> QED BY <2>4, <2>5
<1> QED BY <1>2, <1>3

\* A line with the context of its request is as late as it was.
LEMMA LatestWithContext ==
  ASSUME NEW line \in Lines, NEW K, Latest(line, K), line.context # "sdk"
  PROVE  Latest(WithContext(line), K)
BY LineFact DEF Latest

\* process_and_queue_log queues the line.
LEMMA QueueLog ==
  ASSUME NEW b, NEW line \in Lines, Sound(b, durable_context_map), Latest(line, Known(b)),
         durable_context_map \subseteq Ids
  PROVE  Queued(b, process_and_queue_log(b, line), durable_context_map, line)
<1> DEFINE map == durable_context_map
           i == line.id
<1>0. i \in Ids
  BY LineFact
<1>1. CASE b.spinning \/ Excluded(line)
  <2>1. process_and_queue_log(b, line) = b
    BY <1>1 DEF process_and_queue_log
  <2> QED BY <1>1, <2>1 DEF Queued
<1>2. CASE ~b.spinning /\ ~Excluded(line)
  <2> DEFINE c == queue_log_after_rules(b, line)
  <2>0. process_and_queue_log(b, line) = c
    BY <1>2 DEF process_and_queue_log
  <2>1. CASE line.context = "sdk" \/ BufferSize = 0 \/ b.durable = "false" \/ i = NoId
    <3>1. c = Ship(b, line)
      BY <2>1, Zenon DEF queue_log_after_rules
    <3>2. line.context = "sdk" \/ b.held[line.id] = <<>>
      BY <1>0, <2>1 DEF Sound, HeldForReason
    <3> HIDE DEF c
    <3>3. Sound(c, map) /\ Known(c) = Known(b) \cup {line.n} /\ c.spinning = b.spinning
      BY <3>1, <3>2, ShipSound
    <3> QED BY <2>0, <3>3, <1>2 DEF Queued
  <2>2. CASE ~(line.context = "sdk" \/ BufferSize = 0 \/ b.durable = "false" \/ i = NoId)
    <3>1. CASE b.durable = "true" /\ i \in map
      <4>1. c = Ship(b, WithContext(line))
        BY <2>2, <3>1, Zenon DEF queue_log_after_rules
      <4>2. /\ WithContext(line) \in Lines /\ WithContext(line).n = line.n
            /\ WithContext(line).id = i /\ Latest(WithContext(line), Known(b))
        BY <2>2, LineFact, LatestWithContext
      <4>3. b.held[WithContext(line).id] = <<>>
        BY <3>1, <4>2 DEF Sound, HeldForReason
      <4> HIDE DEF c
      <4>4. Sound(c, map) /\ Known(c) = Known(b) \cup {line.n} /\ c.spinning = b.spinning
        BY <4>1, <4>2, <4>3, ShipSound
      <4> QED BY <2>0, <4>4, <1>2 DEF Queued
    <3>2. CASE ~(b.durable = "true" /\ i \in map)
      <4>1. c = hold_log(b, line)
        BY <2>2, <3>2, Zenon DEF queue_log_after_rules
      <4>2. MayHold(b, map, line.id)
        BY <2>2, <3>2 DEF MayHold
      <4> HIDE DEF c
      <4>3. Queued(b, c, map, line)
        BY <1>2, <2>2, <4>1, <4>2, HoldLog
      <4> QED BY <2>0, <4>3
    <3> QED BY <3>1, <3>2
  <2> QED BY <2>1, <2>2
<1> QED BY <1>1, <1>2

-----------------------------------------------------------------------------
(* The lines of one event *)

\* g is what the loop of QueueAll computes, line by line.
IsQueueLoop(g, b, batch) ==
  g = [n \in 0 .. Len(batch) |-> IF n = 0 THEN b ELSE process_and_queue_log(g[n - 1], batch[n])]

\* The loop has a value at every line.
LEMMA QueueLoopExists ==
  ASSUME NEW b, NEW batch, Len(batch) \in Nat
  PROVE  \E g : IsQueueLoop(g, b, batch)
<1> DEFINE Good(n) == \E g : g = [i \in 0 .. n |-> IF i = 0 THEN b ELSE process_and_queue_log(g[i - 1], batch[i])]
           T == {n \in 0 .. Len(batch) : ~Good(n)}
<1>1. Good(0)
  <2> DEFINE g == [i \in 0 .. 0 |-> b]
  <2>1. g = [i \in 0 .. 0 |-> IF i = 0 THEN b ELSE process_and_queue_log(g[i - 1], batch[i])]
    OBVIOUS
  <2> QED BY <2>1
<1>2. ASSUME NEW m \in Nat, m # 0, Good(m - 1) PROVE Good(m)
  <2> PICK g : g = [i \in 0 .. m - 1 |-> IF i = 0 THEN b ELSE process_and_queue_log(g[i - 1], batch[i])]
    BY <1>2
  <2> DEFINE h == [i \in 0 .. m |-> IF i = m THEN process_and_queue_log(g[m - 1], batch[m]) ELSE g[i]]
  <2>1. \A i \in 0 .. m : h[i] = IF i = 0 THEN b ELSE process_and_queue_log(h[i - 1], batch[i])
    <3> SUFFICES ASSUME NEW i \in 0 .. m
                 PROVE  h[i] = IF i = 0 THEN b ELSE process_and_queue_log(h[i - 1], batch[i])
      OBVIOUS
    <3>1. CASE i = m
      <4>1. h[i - 1] = g[m - 1] /\ h[i] = process_and_queue_log(g[m - 1], batch[m])
        BY <3>1, <1>2
      <4> QED BY <3>1, <4>1, <1>2
    <3>2. CASE i # m
      <4>1. i \in 0 .. m - 1 /\ h[i] = g[i] /\ (i # 0 => h[i - 1] = g[i - 1])
        BY <3>2, <1>2
      <4>2. g[i] = IF i = 0 THEN b ELSE process_and_queue_log(g[i - 1], batch[i])
        BY <4>1
      <4> HIDE DEF h
      <4> QED BY <4>1, <4>2
    <3> QED BY <3>1, <3>2
  <2>2. h = [i \in 0 .. m |-> h[i]]
    OBVIOUS
  <2> HIDE DEF h
  <2>3. h = [i \in 0 .. m |-> IF i = 0 THEN b ELSE process_and_queue_log(h[i - 1], batch[i])]
    BY <2>1, <2>2
  <2> QED BY <2>3
<1> HIDE DEF Good
<1>3. T = {}
  <2> SUFFICES ASSUME T # {} PROVE FALSE
    OBVIOUS
  <2>1. T \in SUBSET Nat
    OBVIOUS
  <2>2. PICK m \in T : \A y \in T : m <= y
    BY <2>1, LeastNumber
  <2>3. m \in 0 .. Len(batch) /\ ~Good(m) /\ m # 0
    BY <1>1, <2>2
  <2>4. m - 1 \in 0 .. Len(batch) /\ ~(m <= m - 1)
    BY <2>3
  <2>5. Good(m - 1)
    BY <2>2, <2>4
  <2> QED BY <1>2, <2>3, <2>5
<1>4. Good(Len(batch))
  BY <1>3
<1> QED BY <1>4, Zenon DEF Good, IsQueueLoop

\* The numbers of the first m lines that pass the rules.
Passing(batch, m) == {batch[j].n : j \in {k \in 1 .. m : ~Excluded(batch[k])}}

\* Lines that may be queued: new ones, of which only the first may be no orphan.
Fits(b, batch) ==
  /\ batch \in Seq(Lines)
  /\ \A j \in DOMAIN batch : /\ batch[j].n \notin Known(b)
                             /\ IF j = 1 THEN Latest(batch[j], Known(b)) ELSE batch[j].orphan
  /\ \A j, k \in DOMAIN batch : batch[j].n = batch[k].n => j = k

\* After some of the lines.
QueuedUpTo(b, c, map, batch, m) ==
  /\ Sound(c, map)
  /\ Known(c) \subseteq Known(b) \cup Passing(batch, m)
  /\ ~c.spinning => Known(c) = Known(b) \cup Passing(batch, m)

\* The loop, one more line.
LEMMA QueueOneMore ==
  ASSUME NEW b, NEW c, NEW batch, NEW m \in DOMAIN batch,
         Fits(b, batch), durable_context_map \subseteq Ids, m = 1 => c = b,
         QueuedUpTo(b, c, durable_context_map, batch, m - 1)
  PROVE  QueuedUpTo(b, process_and_queue_log(c, batch[m]), durable_context_map, batch, m)
<1> DEFINE line == batch[m]
           d == process_and_queue_log(c, line)
           map == durable_context_map
<1>0. /\ batch \in Seq(Lines) /\ DOMAIN batch = 1 .. Len(batch) /\ Len(batch) \in Nat /\ line \in Lines
      /\ m \in Nat /\ m >= 1
  BY DEF Fits
<1>1. line.n \notin Passing(batch, m - 1)
  BY <1>0 DEF Fits, Passing
<1>2. line.n \notin Known(c)
  BY <1>1 DEF QueuedUpTo, Fits
<1>3. Latest(line, Known(c))
  <2>1. CASE m = 1
    BY <2>1 DEF Fits
  <2>2. CASE m # 1
    BY <1>2, <2>2 DEF Fits, Latest
  <2> QED BY <2>1, <2>2
<1> HIDE DEF d
<1>4. Queued(c, d, map, line)
  BY <1>0, <1>3, QueueLog DEF QueuedUpTo, d
<1>5. Passing(batch, m) = Passing(batch, m - 1) \cup (IF Excluded(line) THEN {} ELSE {line.n})
  <2>1. 1 .. m = (1 .. m - 1) \cup {m}
    BY <1>0
  <2> QED BY <2>1 DEF Passing
<1>6. Sound(d, map) /\ (c.spinning => d.spinning)
  BY <1>4 DEF Queued
<1> HIDE DEF line
<1>7. Known(d) \subseteq Known(b) \cup Passing(batch, m)
  <2>1. CASE Excluded(line)
    BY <1>4, <1>5, <2>1 DEF Queued, QueuedUpTo
  <2>2. CASE ~Excluded(line)
    BY <1>4, <1>5, <2>2 DEF Queued, QueuedUpTo
  <2> QED BY <2>1, <2>2
<1>8. ~d.spinning => Known(d) = Known(b) \cup Passing(batch, m)
  <2>1. CASE Excluded(line)
    BY <1>4, <1>5, <2>1 DEF Queued, QueuedUpTo
  <2>2. CASE ~Excluded(line)
    BY <1>4, <1>5, <2>2 DEF Queued, QueuedUpTo
  <2> QED BY <2>1, <2>2
<1> QED BY <1>6, <1>7, <1>8 DEF QueuedUpTo, d, line

\* All lines of an event.
LEMMA QueueAllSound ==
  ASSUME NEW b, NEW batch, Fits(b, batch), Sound(b, durable_context_map),
         durable_context_map \subseteq Ids
  PROVE  QueuedUpTo(b, QueueAll(b, batch), durable_context_map, batch, Len(batch))
<1> DEFINE map == durable_context_map
           loop == CHOOSE g : IsQueueLoop(g, b, batch)
           Made(n) == QueuedUpTo(b, loop[n], map, batch, n)
           T == {n \in 0 .. Len(batch) : ~Made(n)}
<1>0. Len(batch) \in Nat /\ DOMAIN batch = 1 .. Len(batch)
  BY DEF Fits
<1>1. QueueAll(b, batch) = loop[Len(batch)]
  BY Zenon DEF QueueAll, IsQueueLoop
<1>2. IsQueueLoop(loop, b, batch)
  BY <1>0, QueueLoopExists, Zenon
<1>3. loop[0] = b /\ \A n \in 1 .. Len(batch) : loop[n] = process_and_queue_log(loop[n - 1], batch[n])
  <2> HIDE DEF loop
  <2> QED BY <1>0, <1>2 DEF IsQueueLoop
<1> HIDE DEF loop
<1>4. Made(0)
  <2>1. Passing(batch, 0) = {}
    BY DEF Passing
  <2> QED BY <1>3, <2>1 DEF QueuedUpTo
<1>5. ASSUME NEW n \in 1 .. Len(batch), Made(n - 1) PROVE Made(n)
  <2>1. n \in DOMAIN batch /\ (n = 1 => loop[n - 1] = b)
    BY <1>0, <1>3
  <2>2. QueuedUpTo(b, process_and_queue_log(loop[n - 1], batch[n]), map, batch, n)
    BY <1>5, <2>1, QueueOneMore
  <2> QED BY <1>3, <2>2
<1> HIDE DEF Made
<1>6. T = {}
  <2> SUFFICES ASSUME T # {} PROVE FALSE
    OBVIOUS
  <2>1. T \in SUBSET Nat
    BY <1>0
  <2>2. PICK m \in T : \A y \in T : m <= y
    BY <2>1, LeastNumber
  <2>3. m \in 0 .. Len(batch) /\ ~Made(m) /\ m # 0
    BY <1>4, <2>2
  <2>4. m - 1 \in 0 .. Len(batch) /\ ~(m <= m - 1) /\ m \in 1 .. Len(batch)
    BY <1>0, <2>3
  <2>5. Made(m - 1)
    BY <2>2, <2>4
  <2> QED BY <1>5, <2>3, <2>4, <2>5
<1>7. Made(Len(batch))
  BY <1>0, <1>6
<1> QED BY <1>1, <1>7 DEF Made

-----------------------------------------------------------------------------
(* The buffers as they are stored *)

\* Buffers with the same lines are equally sound.
LEMMA SameLines ==
  ASSUME NEW b, NEW c, NEW map, Sound(c, map), DOMAIN b = BufferFields,
         b.held = c.held, b.shipped = c.shipped, b.durable = c.durable, b.spinning = c.spinning
  PROVE  Sound(b, map) /\ Known(b) = Known(c)
<1>1. \A i \in Ids : Of(b, i) = Of(c, i)
  BY DEF Of
<1>2. Known(b) = Known(c)
  BY <1>1 DEF Known
<1> QED BY <1>1, <1>2 DEF Sound, HeldForReason

\* SetBuffers stores what it is given.
LEMMA Stored ==
  ASSUME NEW c, NEW map, Sound(c, map), SetBuffers(c)
  PROVE  Sound(Buffers', map) /\ Known(Buffers') = Known(c) /\ spinning' = c.spinning
<1> DEFINE b == Buffers'
<1>1. /\ DOMAIN b = BufferFields /\ b.held = c.held /\ b.shipped = c.shipped
      /\ b.durable = c.durable /\ b.spinning = c.spinning
  BY DEF Buffers, SetBuffers, BufferFields
<1> HIDE DEF b
<1>2. Sound(b, map) /\ Known(b) = Known(c)
  BY <1>1, SameLines
<1> QED BY <1>2 DEF b, SetBuffers

\* Sound buffers have the shape the moves need.
LEMMA SoundShaped ==
  ASSUME NEW b, NEW map, Sound(b, map)
  PROVE  Shaped(b) /\ b.spinning \in BOOLEAN
BY DEF Sound, Shaped

-----------------------------------------------------------------------------
(* LambdaProcessor::process *)

\* A line adopted by the current request.
LEMMA AdoptedFact ==
  ASSUME NEW l \in Lines, NEW current \in Ids
  PROVE  Adopted(l, current) \in Lines /\ Adopted(l, current).n = l.n /\ Adopted(l, current).orphan
BY DEF Lines, Adopted

\* The lines that Process queues.
IsBatch(batch, line, current) ==
  batch = <<line>> \o [j \in DOMAIN orphan_logs |-> Adopted(orphan_logs[j], current)]

\* A new line and the orphans that follow it may be queued.
LEMMA BatchFits ==
  ASSUME NEW b, NEW line \in Lines, NEW current \in Ids, NEW batch,
         orphan_logs \in Seq(Lines), Latest(line, Known(b)),
         \A j \in DOMAIN orphan_logs : orphan_logs[j].n # line.n /\ orphan_logs[j].n \notin Known(b),
         \A j, k \in DOMAIN orphan_logs : orphan_logs[j].n = orphan_logs[k].n => j = k,
         IsBatch(batch, line, current)
  PROVE  /\ Fits(b, batch)
         /\ \A j \in DOMAIN batch : batch[j].n = line.n \/ \E k \in DOMAIN orphan_logs : batch[j].n = orphan_logs[k].n
<1> DEFINE ad == [j \in DOMAIN orphan_logs |-> Adopted(orphan_logs[j], current)]
           N == Len(orphan_logs)
<1>1. N \in Nat /\ DOMAIN orphan_logs = 1 .. N /\ \A j \in 1 .. N : orphan_logs[j] \in Lines
  OBVIOUS
<1>2. DOMAIN ad = 1 .. N /\ \A j \in 1 .. N : ad[j] = Adopted(orphan_logs[j], current)
  BY <1>1
<1>3. \A j \in 1 .. N : ad[j] \in Lines /\ ad[j].n = orphan_logs[j].n /\ ad[j].orphan
  BY <1>1, <1>2, AdoptedFact
<1>4. ad = [j \in 1 .. N |-> ad[j]]
  BY <1>1
<1> HIDE DEF ad, N
<1>5. ad \in Seq(Lines) /\ Len(ad) = N
  BY <1>1, <1>2, <1>3, <1>4
<1>6. batch = <<line>> \o ad
  BY DEF ad, IsBatch
<1>7. /\ batch \in Seq(Lines) /\ DOMAIN batch = 1 .. N + 1 /\ batch[1] = line
      /\ \A j \in 2 .. N + 1 : batch[j] = ad[j - 1]
  BY <1>1, <1>5, <1>6
<1>8. \A j \in 1 .. N + 1 : j # 1 => j - 1 \in 1 .. N /\ batch[j] = ad[j - 1]
  BY <1>1, <1>7
<1>9. \A j \in DOMAIN batch : j # 1 => /\ batch[j].n = orphan_logs[j - 1].n /\ j - 1 \in DOMAIN orphan_logs
                                       /\ batch[j].orphan
  BY <1>1, <1>3, <1>7, <1>8
<1>10. \A j \in DOMAIN batch : /\ batch[j].n \notin Known(b)
                               /\ IF j = 1 THEN Latest(batch[j], Known(b)) ELSE batch[j].orphan
  BY <1>7, <1>9 DEF Latest
<1>11. ASSUME NEW j \in DOMAIN batch, NEW k \in DOMAIN batch, batch[j].n = batch[k].n PROVE j = k
  <2>1. CASE j = 1
    BY <1>7, <1>9, <1>11, <2>1
  <2>2. CASE k = 1
    BY <1>7, <1>9, <1>11, <2>2
  <2>3. CASE j # 1 /\ k # 1
    <3>1. j - 1 = k - 1
      BY <1>9, <1>11, <2>3
    <3> QED BY <1>1, <1>7, <3>1
  <2> QED BY <2>1, <2>2, <2>3
<1>12. \A j \in DOMAIN batch : batch[j].n = line.n \/ \E k \in DOMAIN orphan_logs : batch[j].n = orphan_logs[k].n
  BY <1>7, <1>9
<1> QED BY <1>7, <1>10, <1>11, <1>12 DEF Fits

\* What the lines of an event leave behind.
EventStored ==
  /\ Sound(Buffers', durable_context_map)
  /\ Known(Buffers') \subseteq kept' /\ (~spinning' => Known(Buffers') = kept')
  /\ kept' \subseteq 1 .. events + 1
  /\ orphan_logs' \in Seq(Lines)
  /\ \A j \in DOMAIN orphan_logs' : orphan_logs'[j].n \in 1 .. events + 1 /\ orphan_logs'[j].n \notin kept'
  /\ \A j, k \in DOMAIN orphan_logs' : orphan_logs'[j].n = orphan_logs'[k].n => j = k

\* Process queues the line and all orphans, or makes the line an orphan.
LEMMA ProcessStores ==
  ASSUME LogInv, ~spinning, events < MaxEvents,
         NEW b, Sound(b, durable_context_map), Known(b) = kept, ~b.spinning,
         NEW line \in Lines, line.n = events + 1, NEW current \in RequestIds \cup {Empty},
         Process(b, line, current)
  PROVE  EventStored
<1> DEFINE batch == <<line>> \o [j \in DOMAIN orphan_logs |-> Adopted(orphan_logs[j], current)]
           orphan == line.id = NoId /\ ~managed
<1>0. /\ events \in Nat /\ kept \subseteq 1 .. events /\ durable_context_map \subseteq Ids
      /\ current \in Ids /\ OrphansWait
  BY DEF LogInv, Ids
<1>1. /\ orphan_logs' = IF orphan THEN Append(orphan_logs, line) ELSE <<>>
      /\ SetBuffers(IF orphan THEN b ELSE QueueAll(b, batch))
      /\ kept' = IF orphan THEN kept ELSE kept \cup {l.n : l \in {m \in ToSet(batch) : ~Excluded(m)}}
  BY Zenon DEF Process
<1>2. line.n \notin kept /\ \A x \in kept : x < line.n
  BY <1>0
<1>3. Latest(line, Known(b))
  BY <1>2 DEF Latest
<1> HIDE DEF batch
<1>4. CASE orphan
  <2>1. orphan_logs' = Append(orphan_logs, line) /\ SetBuffers(b) /\ kept' = kept
    BY <1>1, <1>4
  <2>2. Sound(Buffers', durable_context_map) /\ Known(Buffers') = kept
    BY <2>1, Stored
  <2>3. kept' \subseteq 1 .. events + 1
    BY <1>0, <2>1
  <2>4. /\ orphan_logs' \in Seq(Lines) /\ Len(orphan_logs) \in Nat
        /\ DOMAIN orphan_logs = 1 .. Len(orphan_logs) /\ DOMAIN orphan_logs' = 1 .. Len(orphan_logs) + 1
        /\ \A j \in DOMAIN orphan_logs : orphan_logs'[j] = orphan_logs[j]
        /\ orphan_logs'[Len(orphan_logs) + 1] = line
    BY <1>0, <2>1, AppendLine DEF OrphansWait
  <2>5. \A j \in DOMAIN orphan_logs' : j \in DOMAIN orphan_logs \/ j = Len(orphan_logs) + 1
    BY <2>4
  <2>6. \A j \in DOMAIN orphan_logs : orphan_logs[j].n \in 1 .. events /\ orphan_logs[j].n \notin kept
    BY <1>0 DEF OrphansWait
  <2>7. \A j \in DOMAIN orphan_logs : orphan_logs[j].n # line.n /\ orphan_logs[j].n \in 1 .. events + 1
    BY <1>0, <2>6
  <2>8. line.n \in 1 .. events + 1
    BY <1>0
  <2>9. \A j \in DOMAIN orphan_logs' : orphan_logs'[j].n \in 1 .. events + 1 /\ orphan_logs'[j].n \notin kept'
    BY <1>2, <2>1, <2>4, <2>5, <2>6, <2>7, <2>8
  <2>10. \A j, k \in DOMAIN orphan_logs' : orphan_logs'[j].n = orphan_logs'[k].n => j = k
    <3>1. \A j, k \in DOMAIN orphan_logs : orphan_logs[j].n = orphan_logs[k].n => j = k
      BY <1>0 DEF OrphansWait
    <3> QED BY <2>4, <2>5, <2>7, <3>1
  <2> QED BY <2>1, <2>2, <2>3, <2>4, <2>9, <2>10 DEF EventStored
<1>5. CASE ~orphan
  <2> DEFINE c == QueueAll(b, batch)
  <2>1. /\ orphan_logs' = <<>> /\ SetBuffers(c)
        /\ kept' = kept \cup {l.n : l \in {m \in ToSet(batch) : ~Excluded(m)}}
    BY <1>1, <1>5
  <2> HIDE DEF c
  <2>2. /\ Fits(b, batch)
        /\ \A j \in DOMAIN batch : batch[j].n = line.n \/ \E k \in DOMAIN orphan_logs : batch[j].n = orphan_logs[k].n
    <3>1. /\ orphan_logs \in Seq(Lines)
          /\ \A j \in DOMAIN orphan_logs : orphan_logs[j].n \in 1 .. events /\ orphan_logs[j].n \notin Known(b)
          /\ \A j, k \in DOMAIN orphan_logs : orphan_logs[j].n = orphan_logs[k].n => j = k
      BY <1>0 DEF OrphansWait
    <3>2. \A j \in DOMAIN orphan_logs : orphan_logs[j].n # line.n /\ orphan_logs[j].n \notin Known(b)
      BY <1>0, <3>1
    <3>3. IsBatch(batch, line, current)
      BY Zenon DEF batch, IsBatch
    <3> QED BY <1>0, <1>3, <3>1, <3>2, <3>3, BatchFits
  <2>3. QueuedUpTo(b, c, durable_context_map, batch, Len(batch))
    BY <1>0, <2>2, QueueAllSound DEF c
  <2>4. Sound(Buffers', durable_context_map) /\ Known(Buffers') = Known(c) /\ spinning' = c.spinning
    BY <2>1, <2>3, Stored DEF QueuedUpTo
  <2>5. DOMAIN batch = 1 .. Len(batch) /\ Len(batch) \in Nat
    BY <2>2 DEF Fits
  <2>6. {l.n : l \in {m \in ToSet(batch) : ~Excluded(m)}} = Passing(batch, Len(batch))
    BY <2>5 DEF ToSet, Passing
  <2>7. kept' = Known(b) \cup Passing(batch, Len(batch))
    BY <2>1, <2>6
  <2>8. Known(Buffers') \subseteq kept' /\ (~spinning' => Known(Buffers') = kept')
    BY <2>3, <2>4, <2>7 DEF QueuedUpTo
  <2>9. \A j \in DOMAIN batch : batch[j].n \in 1 .. events + 1
    <3>1. line.n \in 1 .. events + 1
      BY <1>0
    <3>2. \A j \in DOMAIN orphan_logs : orphan_logs[j].n \in 1 .. events
      BY <1>0 DEF OrphansWait
    <3>3. \A j \in DOMAIN orphan_logs : orphan_logs[j].n \in 1 .. events + 1
      BY <1>0, <3>2
    <3> QED BY <2>2, <3>1, <3>3
  <2>10. Passing(batch, Len(batch)) \subseteq 1 .. events + 1
    BY <2>5, <2>9 DEF Passing
  <2>11. kept \subseteq 1 .. events + 1
    BY <1>0
  <2>12. kept' \subseteq 1 .. events + 1
    BY <2>7, <2>10, <2>11
  <2>13. orphan_logs' \in Seq(Lines) /\ DOMAIN orphan_logs' = {}
    BY <2>1
  <2> QED BY <2>4, <2>8, <2>12, <2>13 DEF EventStored
<1> QED BY <1>4, <1>5

\* What platform.initStart does to the lines that are held.
Resolved(b, durable) ==
  [Resolve(b, durable) EXCEPT !.durable = IF durable THEN "true" ELSE "false"]

\* Resolving loses no line and keeps held what may still need a context.
LEMMA ResolveSound ==
  ASSUME NEW b, NEW durable \in BOOLEAN, Sound(b, durable_context_map), durable_context_map \subseteq Ids
  PROVE  LET c == Resolved(b, durable)
         IN Sound(c, durable_context_map) /\ Known(c) = Known(b) /\ c.spinning = b.spinning
<1> DEFINE map == durable_context_map
           known == HeldKeys(b.held) \cap map
           decorated == ShipHeldDecorated(b, known)
           plain == ShipHeld(b, Ids)
           d == IF durable THEN decorated ELSE plain
           e == [d EXCEPT !.order = <<>>]
           c == [e EXCEPT !.durable = IF durable THEN "true" ELSE "false"]
<1>0. Resolved(b, durable) = c
  BY Zenon DEF Resolved, Resolve
<1>1. Shaped(b) /\ b.spinning \in BOOLEAN
  BY SoundShaped
<1>2. /\ Moved(b, decorated) /\ decorated.spinning = b.spinning
      /\ \A i \in Ids \cap known : decorated.held[i] = <<>>
  BY <1>1, ShipHeldDecoratedMoves
<1>3. /\ Moved(b, plain) /\ plain.spinning = b.spinning
      /\ \A i \in Ids \cap Ids : plain.held[i] = <<>>
  BY <1>1, ShipHeldMoves
<1> HIDE DEF decorated, plain
<1>4. Moved(b, d) /\ d.spinning = b.spinning
  BY <1>2, <1>3
<1>5. ~durable => \A i \in Ids : d.held[i] = <<>>
  BY <1>3
<1>6. durable => \A i \in map : d.held[i] = <<>>
  <2> SUFFICES ASSUME durable, NEW i \in map PROVE d.held[i] = <<>>
    OBVIOUS
  <2>1. CASE i \in known
    BY <1>2, <2>1
  <2>2. CASE i \notin known
    <3>1. i \in Ids /\ b.held[i] = <<>>
      BY <2>2 DEF HeldKeys
    <3> QED BY <1>4, <3>1 DEF Moved
  <2> QED BY <2>1, <2>2
<1> HIDE DEF d
<1>7. /\ Moved(b, e) /\ e.spinning = b.spinning /\ e.held = d.held
  BY <1>4, MovedOrder
<1> HIDE DEF e
<1>8. Sound(e, map) /\ Known(e) = Known(b)
  BY <1>1, <1>7, MovedSound
<1>9. /\ DOMAIN c = BufferFields /\ c.held = e.held /\ c.shipped = e.shipped /\ c.spinning = e.spinning
      /\ c.durable = IF durable THEN "true" ELSE "false"
  BY <1>8 DEF Sound, BufferFields
<1> HIDE DEF c
<1>10. HeldForReason(c, map)
  <2>1. BufferSize = 0 => \A i \in Ids : c.held[i] = <<>>
    BY <1>8, <1>9 DEF Sound, HeldForReason
  <2>2. c.held[NoId] = <<>>
    BY <1>8, <1>9 DEF Sound, HeldForReason
  <2>3. CASE durable
    <3>1. c.durable = "true" /\ \A i \in map : c.held[i] = <<>>
      BY <1>6, <1>7, <1>9, <2>3
    <3> QED BY <2>1, <2>2, <3>1 DEF HeldForReason
  <2>4. CASE ~durable
    <3>1. c.durable = "false" /\ \A i \in Ids : c.held[i] = <<>>
      BY <1>5, <1>7, <1>9, <2>4
    <3> QED BY <2>2, <3>1 DEF HeldForReason
  <2> QED BY <2>3, <2>4
<1>11. \A i \in Ids : Of(c, i) = Of(e, i)
  BY <1>9 DEF Of
<1>12. Known(c) = Known(e)
  BY <1>11 DEF Known
<1>13. Sound(c, map)
  BY <1>8, <1>9, <1>10, <1>11 DEF Sound
<1> QED BY <1>0, <1>7, <1>8, <1>9, <1>12, <1>13

-----------------------------------------------------------------------------
(* Durable execution contexts *)

ContextFields == {"map", "order", "buffers"}

\* Known contexts and buffers that hold nothing for them.
SoundContexts(c) ==
  DOMAIN c = ContextFields /\ c.map \subseteq RequestIds /\ Sound(c.buffers, c.map)

\* A context ships the lines that waited for it.
LEMMA InsertSound ==
  ASSUME NEW c, SoundContexts(c), NEW r \in RequestIds
  PROVE  LET d == insert_to_durable_context_map(c, r)
         IN /\ SoundContexts(d) /\ Known(d.buffers) = Known(c.buffers)
            /\ d.buffers.spinning = c.buffers.spinning
<1> DEFINE full == Len(c.order) >= DURABLE_CONTEXT_MAP_CAPACITY
           drained == ShipHeldDecorated(c.buffers, {r})
           o == SelectSeq(drained.order, LAMBDA x : x # r)
           b == [drained EXCEPT !.order = o]
           map == (IF full THEN c.map \ {Head(c.order)} ELSE c.map) \cup {r}
           order == Append(IF full THEN Tail(c.order) ELSE c.order, r)
           d == [c EXCEPT !.map = map, !.order = order, !.buffers = b]
<1>1. insert_to_durable_context_map(c, r) = IF r \in c.map THEN c ELSE d
  BY Zenon DEF insert_to_durable_context_map
<1>2. r \in Ids /\ c.map \subseteq Ids
  BY DEF Ids, SoundContexts
<1>3. Shaped(c.buffers) /\ c.buffers.spinning \in BOOLEAN
  BY SoundShaped DEF SoundContexts
<1>4. /\ Moved(c.buffers, drained) /\ drained.spinning = c.buffers.spinning
      /\ \A i \in Ids \cap {r} : drained.held[i] = <<>>
  BY <1>3, ShipHeldDecoratedMoves
<1> HIDE DEF drained, o
<1>5. Moved(c.buffers, b) /\ b.spinning = drained.spinning /\ b.held = drained.held
  BY <1>4, MovedOrder
<1> HIDE DEF b
<1>6. Sound(b, c.map) /\ Known(b) = Known(c.buffers)
  BY <1>2, <1>3, <1>4, <1>5, MovedSound DEF SoundContexts
<1>7. map \subseteq RequestIds /\ \A i \in map : i \in c.map \/ i = r
  BY DEF SoundContexts
<1> HIDE DEF map, order
<1>8. DOMAIN d = ContextFields /\ d.map = map /\ d.buffers = b
  BY DEF SoundContexts, ContextFields
<1> HIDE DEF d
<1>9. HeldForReason(b, map)
  <2>1. b.held[r] = <<>>
    BY <1>2, <1>4, <1>5
  <2> QED BY <1>6, <1>7, <2>1 DEF Sound, HeldForReason
<1>10. Sound(b, map)
  BY <1>6, <1>9 DEF Sound
<1>11. SoundContexts(d)
  BY <1>7, <1>8, <1>10 DEF SoundContexts
<1> QED BY <1>1, <1>4, <1>5, <1>6, <1>8, <1>11

\* g is what the loop of InsertAll computes, update by update.
IsInsertLoop(g, c, rs) ==
  g = [n \in 0 .. Len(rs) |-> IF n = 0 THEN c ELSE insert_to_durable_context_map(g[n - 1], rs[n])]

\* The loop has a value at every update.
LEMMA InsertLoopExists ==
  ASSUME NEW c, NEW rs, Len(rs) \in Nat
  PROVE  \E g : IsInsertLoop(g, c, rs)
<1> DEFINE Good(n) == \E g : g = [i \in 0 .. n |-> IF i = 0 THEN c ELSE insert_to_durable_context_map(g[i - 1], rs[i])]
           T == {n \in 0 .. Len(rs) : ~Good(n)}
<1>1. Good(0)
  <2> DEFINE g == [i \in 0 .. 0 |-> c]
  <2>1. g = [i \in 0 .. 0 |-> IF i = 0 THEN c ELSE insert_to_durable_context_map(g[i - 1], rs[i])]
    OBVIOUS
  <2> QED BY <2>1
<1>2. ASSUME NEW m \in Nat, m # 0, Good(m - 1) PROVE Good(m)
  <2> PICK g : g = [i \in 0 .. m - 1 |-> IF i = 0 THEN c ELSE insert_to_durable_context_map(g[i - 1], rs[i])]
    BY <1>2
  <2> DEFINE h == [i \in 0 .. m |-> IF i = m THEN insert_to_durable_context_map(g[m - 1], rs[m]) ELSE g[i]]
  <2>1. \A i \in 0 .. m : h[i] = IF i = 0 THEN c ELSE insert_to_durable_context_map(h[i - 1], rs[i])
    <3> SUFFICES ASSUME NEW i \in 0 .. m
                 PROVE  h[i] = IF i = 0 THEN c ELSE insert_to_durable_context_map(h[i - 1], rs[i])
      OBVIOUS
    <3>1. CASE i = m
      <4>1. h[i - 1] = g[m - 1] /\ h[i] = insert_to_durable_context_map(g[m - 1], rs[m])
        BY <3>1, <1>2
      <4> QED BY <3>1, <4>1, <1>2
    <3>2. CASE i # m
      <4>1. i \in 0 .. m - 1 /\ h[i] = g[i] /\ (i # 0 => h[i - 1] = g[i - 1])
        BY <3>2, <1>2
      <4>2. g[i] = IF i = 0 THEN c ELSE insert_to_durable_context_map(g[i - 1], rs[i])
        BY <4>1
      <4> HIDE DEF h
      <4> QED BY <4>1, <4>2
    <3> QED BY <3>1, <3>2
  <2>2. h = [i \in 0 .. m |-> h[i]]
    OBVIOUS
  <2> HIDE DEF h
  <2>3. h = [i \in 0 .. m |-> IF i = 0 THEN c ELSE insert_to_durable_context_map(h[i - 1], rs[i])]
    BY <2>1, <2>2
  <2> QED BY <2>3
<1> HIDE DEF Good
<1>3. T = {}
  <2> SUFFICES ASSUME T # {} PROVE FALSE
    OBVIOUS
  <2>1. T \in SUBSET Nat
    OBVIOUS
  <2>2. PICK m \in T : \A y \in T : m <= y
    BY <2>1, LeastNumber
  <2>3. m \in 0 .. Len(rs) /\ ~Good(m) /\ m # 0
    BY <1>1, <2>2
  <2>4. m - 1 \in 0 .. Len(rs) /\ ~(m <= m - 1)
    BY <2>3
  <2>5. Good(m - 1)
    BY <2>2, <2>4
  <2> QED BY <1>2, <2>3, <2>5
<1>4. Good(Len(rs))
  BY <1>3
<1> QED BY <1>4, Zenon DEF Good, IsInsertLoop

\* All updates.
LEMMA InsertAllSound ==
  ASSUME NEW c, SoundContexts(c), NEW rs \in Seq(RequestIds)
  PROVE  LET d == InsertAll(c, rs)
         IN /\ SoundContexts(d) /\ Known(d.buffers) = Known(c.buffers)
            /\ d.buffers.spinning = c.buffers.spinning
<1> DEFINE loop == CHOOSE g : IsInsertLoop(g, c, rs)
           Made(n) == /\ SoundContexts(loop[n]) /\ Known(loop[n].buffers) = Known(c.buffers)
                      /\ loop[n].buffers.spinning = c.buffers.spinning
           T == {n \in 0 .. Len(rs) : ~Made(n)}
<1>0. Len(rs) \in Nat /\ \A n \in 1 .. Len(rs) : rs[n] \in RequestIds
  OBVIOUS
<1>1. InsertAll(c, rs) = loop[Len(rs)]
  BY Zenon DEF InsertAll, IsInsertLoop
<1>2. IsInsertLoop(loop, c, rs)
  BY <1>0, InsertLoopExists, Zenon
<1>3. loop[0] = c /\ \A n \in 1 .. Len(rs) : loop[n] = insert_to_durable_context_map(loop[n - 1], rs[n])
  <2> HIDE DEF loop
  <2> QED BY <1>0, <1>2 DEF IsInsertLoop
<1> HIDE DEF loop
<1>4. Made(0)
  BY <1>3
<1>5. ASSUME NEW n \in 1 .. Len(rs), Made(n - 1) PROVE Made(n)
  <2> DEFINE x == loop[n - 1]
  <2>1. SoundContexts(x) /\ rs[n] \in RequestIds
    BY <1>0, <1>5
  <2>2. loop[n] = insert_to_durable_context_map(x, rs[n])
    BY <1>3
  <2>3. Known(x.buffers) = Known(c.buffers) /\ x.buffers.spinning = c.buffers.spinning
    BY <1>5
  <2> HIDE DEF x
  <2>4. /\ SoundContexts(loop[n]) /\ Known(loop[n].buffers) = Known(x.buffers)
        /\ loop[n].buffers.spinning = x.buffers.spinning
    BY <2>1, <2>2, InsertSound
  <2> QED BY <2>3, <2>4
<1> HIDE DEF Made
<1>6. T = {}
  <2> SUFFICES ASSUME T # {} PROVE FALSE
    OBVIOUS
  <2>1. T \in SUBSET Nat
    BY <1>0
  <2>2. PICK m \in T : \A y \in T : m <= y
    BY <2>1, LeastNumber
  <2>3. m \in 0 .. Len(rs) /\ ~Made(m) /\ m # 0
    BY <1>4, <2>2
  <2>4. m - 1 \in 0 .. Len(rs) /\ ~(m <= m - 1) /\ m \in 1 .. Len(rs)
    BY <1>0, <2>3
  <2>5. Made(m - 1)
    BY <2>2, <2>4
  <2> QED BY <1>5, <2>3, <2>4, <2>5
<1>7. Made(Len(rs))
  BY <1>0, <1>6
<1> QED BY <1>1, <1>7 DEF Made

-----------------------------------------------------------------------------
(* The invariant is inductive *)

\* It holds when the processor starts.
LEMMA LogInit == Init => LogInv
<1> SUFFICES ASSUME Init PROVE LogInv
  OBVIOUS
<1> DEFINE b == Buffers
<1>1. /\ DOMAIN b = BufferFields /\ b.spinning = FALSE /\ b.durable = "None"
      /\ DOMAIN b.held = Ids /\ DOMAIN b.shipped = Ids
      /\ \A i \in Ids : b.held[i] = <<>> /\ b.shipped[i] = <<>>
  BY DEF Init, Buffers, BufferFields
<1> HIDE DEF b
<1>2. \A i \in Ids : Tidy(i, b.shipped[i], b.held[i]) /\ Of(b, i) = {}
  BY <1>1, TidyEmpty DEF Of
<1>3. Known(b) = {}
  BY <1>2 DEF Known
<1>4. HeldForReason(b, {})
  <2>1. NoId \in Ids
    BY DEF Ids
  <2> QED BY <1>1, <2>1 DEF HeldForReason
<1>5. Sound(b, {})
  BY <1>1, <1>2, <1>4 DEF Sound
<1>6. OrphansWait
  <2>1. orphan_logs \in Seq(Lines) /\ DOMAIN orphan_logs = {}
    BY DEF Init
  <2> QED BY <2>1 DEF OrphansWait
<1>7. /\ managed \in BOOLEAN /\ events \in Nat /\ request_id \in RequestIds \cup {Empty}
      /\ durable_context_map = {} /\ updates \in Seq(RequestIds) /\ kept = {}
      /\ 1 .. events = {} /\ events <= MaxEvents
  BY ModeAssumption, BoundAssumption DEF Init
<1> QED BY <1>3, <1>5, <1>6, <1>7 DEF LogInv, b

\* An event of the platform or of the function.
LEMMA EventKeeps ==
  ASSUME LogInv, NextEvent, EventStored, request_id' \in RequestIds \cup {Empty}
  PROVE  LogInv'
<1>1. /\ managed' = managed /\ durable_context_map' = durable_context_map /\ updates' = updates
      /\ events' = events + 1 /\ events < MaxEvents
  BY DEF NextEvent
<1>2. OrphansWait'
  BY <1>1 DEF EventStored, OrphansWait
<1>3. Sound(Buffers', durable_context_map') /\ kept' \subseteq 1 .. events'
      /\ Known(Buffers') \subseteq kept' /\ (~spinning' => Known(Buffers') = kept')
  BY <1>1 DEF EventStored
<1>4. events' \in Nat /\ events' <= MaxEvents
  BY <1>1, BoundAssumption DEF LogInv
<1>5. managed' \in BOOLEAN /\ durable_context_map' \subseteq RequestIds /\ updates' \in Seq(RequestIds)
  BY <1>1 DEF LogInv
<1> QED BY <1>2, <1>3, <1>4, <1>5 DEF LogInv

\* A line of the next event.
LEMMA NewLine ==
  ASSUME LogInv, events < MaxEvents, NEW kind \in Kinds, NEW id \in Ids, NEW context \in {"none", "sdk"}
  PROVE  LET line == [Line(events + 1, kind, id) EXCEPT !.context = context]
         IN line \in Lines /\ line.n = events + 1
<1>1. events + 1 \in 1 .. MaxEvents
  BY BoundAssumption DEF LogInv
<1> QED BY <1>1 DEF Line, Lines

\* The same, for a line without a context.
LEMMA PlainLine ==
  ASSUME LogInv, events < MaxEvents, NEW kind \in Kinds, NEW id \in Ids
  PROVE  Line(events + 1, kind, id) \in Lines /\ Line(events + 1, kind, id).n = events + 1
<1>1. events + 1 \in 1 .. MaxEvents
  BY BoundAssumption DEF LogInv
<1> QED BY <1>1 DEF Line, Lines

\* What every event finds.
LEMMA EventFinds ==
  ASSUME LogInv, NextEvent
  PROVE  /\ ~spinning /\ events < MaxEvents /\ request_id \in RequestIds \cup {Empty}
         /\ Sound(Buffers, durable_context_map) /\ Known(Buffers) = kept /\ ~Buffers.spinning
         /\ durable_context_map \subseteq Ids
         /\ \A own \in RequestIds \cup {NoId} : IdOf(own, request_id) \in Ids
<1>1. Buffers.spinning = spinning
  BY DEF Buffers
<1>2. \A own \in RequestIds \cup {NoId} : IdOf(own, request_id) \in Ids
  BY DEF LogInv, IdOf, Ids
<1>3. durable_context_map \subseteq Ids
  BY DEF LogInv, Ids
<1> QED BY <1>1, <1>2, <1>3 DEF LogInv, NextEvent

\* A log line of the function or of an extension.
LEMMA FunctionLogKeeps == ASSUME LogInv, FunctionLog PROVE LogInv'
<1>0. NextEvent /\ request_id' = request_id
  BY DEF FunctionLog
<1>1. PICK own \in RequestIds \cup {NoId}, sdk \in BOOLEAN :
        LET kind == IF sdk THEN "sdk" ELSE IF own = NoId THEN "text" ELSE "json"
            line == [Line(events + 1, kind, IdOf(own, request_id)) EXCEPT
                       !.context = IF sdk THEN "sdk" ELSE "none"]
        IN  Process(Buffers, line, request_id)
  BY Zenon DEF FunctionLog
<1> DEFINE kind == IF sdk THEN "sdk" ELSE IF own = NoId THEN "text" ELSE "json"
           context == IF sdk THEN "sdk" ELSE "none"
           id == IdOf(own, request_id)
           line == [Line(events + 1, kind, id) EXCEPT !.context = context]
<1>2. Process(Buffers, line, request_id)
  BY <1>1, Zenon
<1>3. kind \in Kinds /\ context \in {"none", "sdk"}
  BY DEF Kinds
<1>4. id \in Ids /\ events < MaxEvents
  BY <1>0, EventFinds
<1> HIDE DEF kind, context, id
<1>5. line \in Lines /\ line.n = events + 1
  BY <1>3, <1>4, NewLine
<1> HIDE DEF line
<1>6. EventStored
  BY <1>0, <1>2, <1>5, EventFinds, ProcessStores
<1> QED BY <1>0, <1>6, EventFinds, EventKeeps

\* A runtime initialisation resolves what is held.
LEMMA InitStartKeeps ==
  ASSUME LogInv, NEW durable \in BOOLEAN, PlatformInitStart(durable) PROVE LogInv'
<1> DEFINE b == Resolved(Buffers, durable)
           line == Line(events + 1, "INIT", IdOf(NoId, request_id))
<1>0. NextEvent /\ request_id' = request_id
  BY DEF PlatformInitStart
<1>1. Process(b, line, request_id)
  BY Zenon DEF PlatformInitStart, Resolved
<1>2. "INIT" \in Kinds /\ NoId \in RequestIds \cup {NoId}
  BY DEF Kinds
<1>3. line \in Lines /\ line.n = events + 1
  BY <1>0, <1>2, EventFinds, PlainLine
<1>4. Sound(b, durable_context_map) /\ Known(b) = kept /\ ~b.spinning
  BY <1>0, EventFinds, ResolveSound
<1> HIDE DEF b, line
<1>5. EventStored
  BY <1>0, <1>1, <1>3, <1>4, EventFinds, ProcessStores
<1> QED BY <1>0, <1>5, EventFinds, EventKeeps

\* The lines the platform writes for an invocation.
LEMMA InvocationKeeps ==
  ASSUME LogInv, NEW r \in RequestIds, PlatformStart(r) \/ PlatformRuntimeDone(r) \/ PlatformReport(r)
  PROVE  LogInv'
<1>1. /\ NextEvent /\ request_id' \in RequestIds \cup {Empty}
      /\ \E kind \in Kinds : Process(Buffers, Line(events + 1, kind, r), request_id')
  <2>0. {"START", "END", "REPORT"} \subseteq Kinds
    BY DEF Kinds
  <2>1. CASE PlatformStart(r)
    BY <2>0, <2>1 DEF PlatformStart
  <2>2. CASE PlatformRuntimeDone(r)
    BY <2>0, <2>2 DEF PlatformRuntimeDone
  <2>3. CASE PlatformReport(r)
    BY <2>0, <2>3 DEF PlatformReport, LogInv
  <2> QED BY <2>1, <2>2, <2>3
<1>2. PICK kind \in Kinds : Process(Buffers, Line(events + 1, kind, r), request_id')
  BY <1>1
<1> DEFINE line == Line(events + 1, kind, r)
<1>3. r \in Ids
  BY DEF Ids
<1>4. line \in Lines /\ line.n = events + 1
  BY <1>1, <1>3, EventFinds, PlainLine
<1>5. Process(Buffers, line, request_id')
  BY <1>2
<1> HIDE DEF line
<1> DEFINE current == request_id'
<1>6. current \in RequestIds \cup {Empty} /\ Process(Buffers, line, current)
  BY <1>1, <1>5
<1> HIDE DEF current
<1>7. EventStored
  BY <1>1, <1>4, <1>6, EventFinds, ProcessStores
<1> QED BY <1>1, <1>7, EventKeeps

\* Steps that store what they know already.
LEMMA StoreKeeps ==
  ASSUME LogInv, ~spinning, NEW c, NEW map, Sound(c, map), map \subseteq RequestIds,
         Known(c) = Known(Buffers), SetBuffers(c), durable_context_map' = map,
         updates' \in Seq(RequestIds),
         UNCHANGED <<managed, request_id, orphan_logs, events, kept>>
  PROVE  LogInv'
<1>1. Sound(Buffers', map) /\ Known(Buffers') = Known(c)
  BY Stored
<1>2. Known(Buffers') = kept'
  BY <1>1 DEF LogInv
<1>3. OrphansWait'
  BY DEF LogInv, OrphansWait
<1> QED BY <1>1, <1>2, <1>3 DEF LogInv

\* The contexts and the buffers as they are stored are sound.
LEMMA ContextsSound ==
  ASSUME LogInv
  PROVE  SoundContexts(Contexts) /\ Contexts.buffers = Buffers
<1>1. DOMAIN Contexts = ContextFields /\ Contexts.map = durable_context_map /\ Contexts.buffers = Buffers
  BY DEF Contexts, ContextFields
<1> QED BY <1>1 DEF SoundContexts, LogInv

\* A context update.
LEMMA UpdateKeeps == ASSUME LogInv, ProcessDurableContextUpdate PROVE LogInv'
<1> DEFINE c == insert_to_durable_context_map(Contexts, Head(updates))
<1>1. /\ ~spinning /\ updates # <<>> /\ updates' = Tail(updates)
      /\ durable_context_map' = c.map /\ SetBuffers(c.buffers)
      /\ UNCHANGED <<managed, request_id, orphan_logs, events, kept>>
  BY Zenon DEF ProcessDurableContextUpdate
<1>2. Head(updates) \in RequestIds /\ Tail(updates) \in Seq(RequestIds)
  BY <1>1 DEF LogInv
<1>3. SoundContexts(c) /\ Known(c.buffers) = Known(Buffers)
  BY <1>2, ContextsSound, InsertSound
<1> HIDE DEF c
<1> QED BY <1>1, <1>2, <1>3, StoreKeeps DEF SoundContexts

\* The shutdown ships everything that is held.
LEMMA DrainKeeps == ASSUME LogInv, Drain PROVE LogInv'
<1> DEFINE c == InsertAll(Contexts, updates)
           d == ShipHeld(c.buffers, Ids)
           e == [d EXCEPT !.order = <<>>]
<1>1. /\ ~spinning /\ updates' = <<>> /\ durable_context_map' = c.map /\ SetBuffers(e)
      /\ UNCHANGED <<managed, request_id, orphan_logs, events, kept>>
  BY Zenon DEF Drain
<1>2. updates \in Seq(RequestIds) /\ <<>> \in Seq(RequestIds)
  BY DEF LogInv
<1>3. SoundContexts(c) /\ Known(c.buffers) = Known(Buffers)
  BY <1>2, ContextsSound, InsertAllSound
<1> HIDE DEF c
<1>4. Sound(c.buffers, c.map) /\ c.map \subseteq RequestIds
  BY <1>3 DEF SoundContexts
<1>5. Shaped(c.buffers) /\ c.buffers.spinning \in BOOLEAN /\ c.map \subseteq Ids
  BY <1>4, SoundShaped DEF Ids
<1>6. Moved(c.buffers, d) /\ d.spinning = c.buffers.spinning
  BY <1>5, ShipHeldMoves
<1> HIDE DEF d
<1>7. Moved(c.buffers, e) /\ e.spinning = c.buffers.spinning
  BY <1>6, MovedOrder
<1> HIDE DEF e
<1>8. Sound(e, c.map) /\ Known(e) = Known(Buffers)
  BY <1>3, <1>4, <1>5, <1>7, MovedSound
<1> QED BY <1>1, <1>2, <1>4, <1>8, StoreKeeps

\* A context update is sent; the processor does not notice.
LEMMA ForwardKeeps ==
  ASSUME LogInv, NEW r \in RequestIds, ForwardDurableContext(r) PROVE LogInv'
<1>1. UNCHANGED <<managed, request_id, orphan_logs, held_logs, held_logs_order, is_durable_function,
                  durable_context_map, shipped, spinning, events, kept>>
  BY DEF ForwardDurableContext, processor
<1>2. updates' \in Seq(RequestIds)
  BY DEF ForwardDurableContext, LogInv
<1>3. Buffers' = Buffers
  BY <1>1 DEF Buffers
<1>4. OrphansWait'
  BY <1>1 DEF LogInv, OrphansWait
<1> QED BY <1>1, <1>2, <1>3, <1>4 DEF LogInv

\* Every step keeps the invariant.
LEMMA LogStep == LogInv /\ [Next]_vars => LogInv'
<1> SUFFICES ASSUME LogInv, [Next]_vars PROVE LogInv'
  OBVIOUS
<1>1. CASE FunctionLog
  BY <1>1, FunctionLogKeeps
<1>2. CASE \E durable \in BOOLEAN : PlatformInitStart(durable)
  BY <1>2, InitStartKeeps
<1>3. ASSUME NEW r \in RequestIds,
             PlatformStart(r) \/ PlatformRuntimeDone(r) \/ PlatformReport(r) \/ ForwardDurableContext(r)
      PROVE  LogInv'
  BY <1>3, InvocationKeeps, ForwardKeeps
<1>4. CASE ProcessDurableContextUpdate
  BY <1>4, UpdateKeeps
<1>5. CASE Drain
  BY <1>5, DrainKeeps
<1>6. CASE UNCHANGED vars
  <2>1. UNCHANGED <<managed, request_id, orphan_logs, held_logs, held_logs_order, is_durable_function,
                    durable_context_map, shipped, spinning, events, kept, updates>>
    BY <1>6 DEF vars, processor
  <2>2. Buffers' = Buffers
    BY <2>1 DEF Buffers
  <2>3. OrphansWait'
    BY <2>1 DEF LogInv, OrphansWait
  <2> QED BY <2>1, <2>2, <2>3 DEF LogInv
<1> QED BY <1>1, <1>2, <1>3, <1>4, <1>5, <1>6, Zenon DEF Next

\* The invariant of the logs processor, for every instance.
THEOREM LogsInvariant == Spec => []LogInv
BY LogInit, LogStep, PTL DEF Spec

-----------------------------------------------------------------------------
(* Nothing lost, duplicated or reordered *)

\* How often a line is in a sequence without repetitions.
LEMMA TimesFact ==
  ASSUME NEW s \in Seq(Lines), NEW n, \A j, k \in DOMAIN s : s[j].n = s[k].n => j = k
  PROVE  Times(s, n) = IF n \in Numbers(s) THEN 1 ELSE 0
<1> DEFINE T == {j \in DOMAIN s : s[j].n = n}
<1>1. CASE n \in Numbers(s)
  <2>1. PICK j \in DOMAIN s : s[j].n = n
    BY <1>1 DEF Numbers
  <2>2. T = {j}
    BY <2>1
  <2>3. Cardinality(T) = 1
    BY <2>2, FS_Singleton
  <2> QED BY <1>1, <2>3 DEF Times
<1>2. CASE n \notin Numbers(s)
  <2>1. T = {}
    BY <1>2 DEF Numbers
  <2>2. Cardinality(T) = 0
    BY <2>1, FS_EmptySet
  <2> QED BY <1>2, <2>2 DEF Times
<1> QED BY <1>1, <1>2

\* The invariant says that every kept line is somewhere, once.
LEMMA OnceFromInv == LogInv => EveryLineOnce
<1> SUFFICES ASSUME LogInv, ~spinning PROVE
      /\ \A n \in kept :
           \E i \in Ids : /\ Times(held_logs[i], n) + Times(shipped[i], n) = 1
                          /\ \A j \in Ids \ {i} : Times(held_logs[j], n) + Times(shipped[j], n) = 0
      /\ \A i \in Ids : \A s \in {held_logs[i], shipped[i]} :
           \A j \in DOMAIN s : s[j].id = i /\ s[j].n \in kept
  BY DEF EveryLineOnce
<1>1. \A i \in Ids : Tidy(i, shipped[i], held_logs[i])
  BY DEF LogInv, Sound, Buffers
<1>2. \A i \in Ids : Of(Buffers, i) = Numbers(shipped[i]) \cup Numbers(held_logs[i])
  BY DEF Of, Buffers
<1>3. /\ kept = UNION {Of(Buffers, i) : i \in Ids}
      /\ \A i, j \in Ids : i # j => Of(Buffers, i) \cap Of(Buffers, j) = {}
  BY DEF LogInv, Known, Sound
<1>4. ASSUME NEW i \in Ids, NEW n
      PROVE  /\ n \in Of(Buffers, i) => Times(held_logs[i], n) + Times(shipped[i], n) = 1
             /\ n \notin Of(Buffers, i) => Times(held_logs[i], n) + Times(shipped[i], n) = 0
  <2>1. /\ shipped[i] \in Seq(Lines) /\ held_logs[i] \in Seq(Lines)
        /\ \A j, k \in DOMAIN shipped[i] : shipped[i][j].n = shipped[i][k].n => j = k
        /\ \A j, k \in DOMAIN held_logs[i] : held_logs[i][j].n = held_logs[i][k].n => j = k
        /\ \A j \in DOMAIN shipped[i], k \in DOMAIN held_logs[i] : shipped[i][j].n # held_logs[i][k].n
    BY <1>1 DEF Tidy
  <2>2. Times(shipped[i], n) = IF n \in Numbers(shipped[i]) THEN 1 ELSE 0
    BY <2>1, TimesFact
  <2>3. Times(held_logs[i], n) = IF n \in Numbers(held_logs[i]) THEN 1 ELSE 0
    BY <2>1, TimesFact
  <2>4. ~(n \in Numbers(shipped[i]) /\ n \in Numbers(held_logs[i]))
    BY <2>1 DEF Numbers
  <2> QED BY <1>2, <2>2, <2>3, <2>4
<1>5. ASSUME NEW n \in kept
      PROVE  \E i \in Ids : /\ Times(held_logs[i], n) + Times(shipped[i], n) = 1
                            /\ \A j \in Ids \ {i} : Times(held_logs[j], n) + Times(shipped[j], n) = 0
  <2>1. PICK i \in Ids : n \in Of(Buffers, i)
    BY <1>3
  <2>2. \A j \in Ids \ {i} : n \notin Of(Buffers, j)
    BY <1>3, <2>1
  <2>3. Times(held_logs[i], n) + Times(shipped[i], n) = 1
    BY <1>4, <2>1
  <2>4. \A j \in Ids \ {i} : Times(held_logs[j], n) + Times(shipped[j], n) = 0
    BY <1>4, <2>2
  <2> QED BY <2>3, <2>4
<1>6. ASSUME NEW i \in Ids, NEW s \in {held_logs[i], shipped[i]}, NEW j \in DOMAIN s
      PROVE  s[j].id = i /\ s[j].n \in kept
  <2>1. s[j].id = i
    BY <1>1 DEF Tidy
  <2>2. s[j].n \in Of(Buffers, i)
    BY <1>2 DEF Numbers
  <2> QED BY <1>3, <2>1, <2>2
<1> QED BY <1>5, <1>6

\* What was shipped of a request is in the order of its lines.
LEMMA OrderFromInv == LogInv => OrderWithinRequest
<1> SUFFICES ASSUME LogInv, NEW i \in Ids, NEW j \in DOMAIN shipped[i], NEW k \in DOMAIN shipped[i]
             PROVE  LET a == shipped[i][j]
                        b == shipped[i][k]
                    IN  (j < k /\ a.context # "sdk" /\ b.context # "sdk" /\ ~a.orphan /\ ~b.orphan) => a.n < b.n
  BY DEF OrderWithinRequest
<1>1. Tidy(i, shipped[i], held_logs[i])
  BY DEF LogInv, Sound, Buffers
<1> QED BY <1>1 DEF Tidy, Follows

\* For any requests, buffer sizes and rules, every line that passed the rules is
\* held or with the aggregator, once and under its own request.
THEOREM EveryLineKept == Spec => []EveryLineOnce
BY LogsInvariant, OnceFromInv, PTL

\* The lines of one request reach the aggregator in the order they were logged.
THEOREM LinesInOrder == Spec => []OrderWithinRequest
BY LogsInvariant, OrderFromInv, PTL
=============================================================================
