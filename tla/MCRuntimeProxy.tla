--------------------------- MODULE MCRuntimeProxy ---------------------------
(* Values for model checking module RuntimeProxy. *)
EXTENDS RuntimeProxy

Setup(aap, lwa, dsm, budget, known, traces, workers, stops) ==
  [aap |-> aap, lwa |-> lwa, experimental |-> FALSE, dsm |-> dsm, budget |-> budget, known |-> known,
   traces |-> traces, workers |-> workers, stops |-> stops]
\* Two requests at once that compete for one context; the same with the web
\* adapter and a shutdown; no time for the rules; two traces of one request; no
\* protection.
MCSetups == {
  Setup(TRUE, FALSE, FALSE, 1, {1, 2}, {"t1", "t2"}, 2, FALSE),
  Setup(TRUE, TRUE, FALSE, 1, {1, 2}, {"t1"}, 2, TRUE),
  Setup(TRUE, FALSE, TRUE, 0, {1}, {"t1", "other"}, 1, FALSE),
  Setup(TRUE, FALSE, FALSE, 1, {1}, {"t1", "again"}, 1, FALSE),
  Setup(FALSE, FALSE, TRUE, 1, {}, {"other"}, 1, TRUE)}
MCTraces == {"t1", "t2", "again", "other"}
MCRidOf == [t \in MCTraces |-> CASE t \in {"t1", "again"} -> 1 [] t = "t2" -> 2 [] OTHER -> 0]
=============================================================================
