------------------------------- MODULE Stitch -------------------------------
(***************************************************************************)
(* extension/telemetry/stitch.rs: putting log records together again that  *)
(* the platform cut into pieces, within one POST and across POSTs.         *)
(*                                                                         *)
(* A body is a sequence of events [type, value].  A value is a sequence of *)
(* pieces <<record, i, n>>: piece i of the n a record was cut into.  The   *)
(* cuts lie inside a JSON string, so the text of an opening piece, any     *)
(* middle ones and a closing piece parses, whichever records they are of.  *)
(* An event of type "foreign" is whole but no TelemetryEvent.              *)
(*                                                                         *)
(* Definitions whose name starts with Mut are plausible wrong versions of  *)
(* the definition that follows them; the runs' properties are shown to     *)
(* reject them.                                                            *)
(***************************************************************************)
EXTENDS Integers, Sequences, SequencesExt, FiniteSets

CONSTANTS MAX_FRAGMENT, MAX_SEAMS    \* MAX_FRAGMENT_BYTES, in pieces, and MAX_SEAMS

PIECE_TYPES == {"function", "extension"}
Opens(piece) == piece[2] = 1
Closes(piece) == piece[2] = piece[3]

\* The value on its own: parses, runs out, or is no JSON.
parse_record(value) ==
  LET inner == {i \in DOMAIN value : i > 1 /\ i < Len(value)}
      middles == \A i \in inner : ~Opens(value[i]) /\ ~Closes(value[i])
      first == Opens(Head(value))
  IN CASE Len(value) = 1 /\ first -> IF Closes(Head(value)) THEN "Whole" ELSE "Cut"
       [] Len(value) > 1 /\ first /\ ~Closes(Head(value)) /\ middles /\ ~Opens(Last(value)) ->
            IF Closes(Last(value)) THEN "Whole" ELSE "Cut"
       [] OTHER -> "Broken"

\* serde_json::from_slice on the body: the first error decides its category.
from_slice(body) ==
  LET Bad(e) == parse_record(e.value) # "Whole" \/ e.type = "foreign"
      i == SelectInSeq(body, Bad)
  IN IF i = 0 THEN "Ok" ELSE IF parse_record(body[i].value) # "Whole" THEN "Syntax" ELSE "Data"
-----------------------------------------------------------------------------
\* drop_seams, one event of its loop.  acc: [ok, joined, cut, seams].
DropSeam(acc, event) ==
  LET value == Head(acc.cut).value \o event.value
  IN CASE ~acc.ok -> acc
       [] acc.ok /\ acc.cut = <<>> ->
            CASE parse_record(event.value) = "Whole" -> [acc EXCEPT !.joined = Append(@, event)]
              [] parse_record(event.value) = "Cut" /\ event.type \in PIECE_TYPES -> [acc EXCEPT !.cut = <<event>>]
              [] OTHER -> [acc EXCEPT !.ok = FALSE]
       [] acc.ok /\ acc.cut # <<>> /\ event.type # Head(acc.cut).type ->
            IF parse_record(event.value) = "Whole" THEN [acc EXCEPT !.joined = Append(@, event)]
                                                    ELSE [acc EXCEPT !.ok = FALSE]
       [] OTHER ->
            CASE acc.seams = MAX_SEAMS \/ parse_record(value) = "Broken" -> [acc EXCEPT !.ok = FALSE]
              [] acc.seams # MAX_SEAMS /\ parse_record(value) = "Whole" ->
                   [acc EXCEPT !.joined = Append(@, [Head(acc.cut) EXCEPT !.value = value]),
                               !.cut = <<>>, !.seams = @ + 1]
              [] OTHER -> [acc EXCEPT !.cut = <<[@[1] EXCEPT !.value = value]>>, !.seams = @ + 1]

\* The body with the pieces of each cut record joined, and does it end on one?
\* A cut piece comes last, after the whole events that followed it.
drop_seams(body) ==
  LET r == FoldLeft(DropSeam, [ok |-> TRUE, joined |-> <<>>, cut |-> <<>>, seams |-> 0], body)
  IN IF r.ok THEN [body |-> r.joined \o r.cut, cut |-> r.cut # <<>>]
             ELSE [body |-> body, cut |-> FALSE]

Pieces(body) == Len(FlattenSeq([i \in DOMAIN body |-> body[i].value]))

\* The result, the events it completed and the fragment held from now on.
Outcome(stitch, events, held) == [stitch |-> stitch, events |-> events, held |-> held]

MutHoldsAsReceived(body) ==
  CASE from_slice(body) = "Ok" -> Outcome("Complete", body, <<>>)
    [] from_slice(body) = "Data" -> Outcome("Discarded", <<>>, <<>>)
    [] OTHER -> IF parse_record(Last(body).value) = "Cut" THEN Outcome("Pending", <<>>, body)
                ELSE IF from_slice(drop_seams(body).body) = "Ok" THEN Outcome("Complete", drop_seams(body).body, <<>>)
                ELSE Outcome("Discarded", <<>>, <<>>)
\* d: the body without its seams.
WithoutSeams(d) ==
  CASE d.cut /\ Pieces(d.body) <= MAX_FRAGMENT -> Outcome("Pending", <<>>, d.body)
    [] OTHER -> IF from_slice(d.body) = "Ok" THEN Outcome("Complete", d.body, <<>>)
                                             ELSE Outcome("Discarded", <<>>, <<>>)
parse_or_hold(body) ==
  LET parsed == from_slice(body)
  IN CASE parsed = "Ok" -> Outcome("Complete", body, <<>>)
       [] parsed = "Data" -> Outcome("Discarded", <<>>, <<>>)
       [] OTHER -> WithoutSeams(drop_seams(body))

\* Fragment::resumed_bytes: does the body continue a fragment?
resumed_bytes(body) == Head(body).type \in PIECE_TYPES

\* Fragment::join
join(held, body) ==
  Front(held) \o <<[Last(held) EXCEPT !.value = @ \o Head(body).value]>> \o Tail(body)

\* FragmentBuffer::stitch.  late: the fragment has been held for FRAGMENT_TTL.
stitch(held, body, late) ==
  LET continued == parse_or_hold(join(held, body))
  IN IF held # <<>> /\ ~late /\ resumed_bytes(body) /\ continued.stitch # "Discarded"
       THEN continued
       ELSE parse_or_hold(body)

\* TelemetryListener::handle, up to the events it sends on.  A body that parses
\* leaves the fragment alone.
handle(acc, post) ==
  IF from_slice(post.body) = "Ok"
    THEN [acc EXCEPT !.out = @ \o post.body]
    ELSE LET r == stitch(acc.held, post.body, post.late)
         IN [out |-> acc.out \o r.events, held |-> r.held]

Received(posts) == FoldLeft(handle, [out |-> <<>>, held |-> <<>>], posts)
-----------------------------------------------------------------------------
\* The stream of a sandbox: its records in the order in which they end, and the
\* events they were cut into.  Events of other types may stand between pieces.
WholeRecord(value) ==
  \A i \in DOMAIN value : value[i][1] = value[1][1] /\ value[i][2] = i /\ value[i][3] = Len(value)
Open(events, k) ==    \* the record cut at position k, if any
  {events[i].value[1][1] : i \in {j \in 1 .. k : ~Closes(events[j].value[1])
     /\ ~\E h \in j + 1 .. k : events[h].value[1][1] = events[j].value[1][1] /\ Closes(events[h].value[1])}}

\* "The rest of it arrives in the next POST, under the next piece's envelope."
Continues(events, k) ==
  Open(events, k) # {} =>
    LET next == events[k + 1].value[1]
    IN next[1] \in Open(events, k) /\ \E i \in 1 .. k : events[i].value[1] = [next EXCEPT ![2] = @ - 1]

Values(out) == [i \in DOMAIN out |-> out[i].value]

\* A stream is [events, cuts, late, order]: its events, the positions after which a
\* POST ends, those after which the next one is late, and the POSTs in the order
\* in which they arrive, if they do.
PostsOf(s) ==
  LET ends == SetToSortSeq(s.cuts \cup {Len(s.events)}, <)
      posts == [i \in DOMAIN ends |->
                 [body |-> SubSeq(s.events, IF i = 1 THEN 1 ELSE ends[i - 1] + 1, ends[i]),
                  late |-> i > 1 /\ ends[i - 1] \in s.late]]
  IN [i \in DOMAIN s.order |-> posts[s.order[i]]]

\* out: the values that came out.  No piece comes out twice, whatever arrives.  What
\* comes out is one whole record as long as each POST that arrives goes on with the
\* next piece of a record the one before left cut; otherwise the halves of two
\* records may be joined, since nothing but the joined text parsing pairs them.
\* And if besides no two records are cut at a time, and all POSTs arrive in order, in
\* time and short enough, every record comes out.
RecordsRecovered(s, out) ==
  LET last == {s.events[i].value[1][1] : i \in {j \in DOMAIN s.events : Closes(s.events[j].value[1])}}
      whole == {s.events[i].value[1][1] : i \in {j \in DOMAIN s.events : s.events[j].type # "foreign"}}
      bodies == [i \in DOMAIN s.order |-> PostsOf(s)[i].body]
      arrived == FlattenSeq(bodies)
      ordered == \A i \in 1 .. Len(bodies) - 1 : Continues(arrived, Len(FlattenSeq(SubSeq(bodies, 1, i))))
      inTurn == s.order = [i \in 1 .. Cardinality(s.cuts) + 1 |-> i]
  IN /\ \A i, j \in DOMAIN out : \A k \in DOMAIN out[i], l \in DOMAIN out[j] :
          out[i][k] = out[j][l] => i = j /\ k = l
     /\ ordered => \A i \in DOMAIN out : WholeRecord(out[i])
     /\ (inTurn /\ ordered /\ s.late = {} /\ last = whole
           /\ (\A k \in DOMAIN s.events : Cardinality(Open(s.events, k)) <= 1)
           /\ Len(s.events) - Cardinality(last) <= MAX_SEAMS
           /\ \A k \in s.cuts : k <= MAX_FRAGMENT)
          => {out[i][1][1] : i \in DOMAIN out} = last
=============================================================================
