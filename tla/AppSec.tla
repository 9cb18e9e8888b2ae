------------------------------- MODULE AppSec -------------------------------
(***************************************************************************)
(* appsec/processor: the buffer of security contexts, as operators on a    *)
(* sequence of contexts, oldest first.                                     *)
(*                                                                         *)
(* A context is [rid, known, budget, tags, seen, held]: was the format of  *)
(* the response recognised, is time left for the rule engine, what was     *)
(* learned ("request", "response", "schema"), was the response seen, and   *)
(* the trace held for it (NoTrace: none).  A sent trace is [trace, tags,   *)
(* context]: with what it was tagged, and by a context or by none.         *)
(*                                                                         *)
(* Definitions whose name starts with Mut are plausible wrong versions of  *)
(* the definition that follows them; the runs' properties are shown to     *)
(* reject them.                                                            *)
(***************************************************************************)
EXTENDS Integers, Sequences, SequencesExt, FiniteSets

CONSTANTS ContextCapacity,    \* contexts kept (5)
          NoTrace

ASSUME ContextAssumption == ContextCapacity \in Nat \ {0}

Sent(trace, tags, context) == [trace |-> trace, tags |-> tags, context |-> context]

\* Context::new
Context(rid, budget) ==
  [rid |-> rid, known |-> FALSE, budget |-> budget, tags |-> {}, seen |-> FALSE, held |-> NoTrace]

Has(ctxs, rid) == \E i \in DOMAIN ctxs : ctxs[i].rid = rid
position(ctxs, rid) ==
  CHOOSE i \in DOMAIN ctxs : ctxs[i].rid = rid /\ \A j \in 1 .. i - 1 : ctxs[j].rid # rid
get_context(ctxs, rid) == ctxs[position(ctxs, rid)]
delete_context(ctxs, rid) == IF Has(ctxs, rid) THEN RemoveAt(ctxs, position(ctxs, rid)) ELSE ctxs
Update(ctxs, ctx) == [ctxs EXCEPT ![position(ctxs, ctx.rid)] = ctx]

\* Context::run, with the tags of process_result.  spent: the call used up the
\* time that was left.
run(ctx, what, spent) ==
  IF ctx.budget = 0
    THEN ctx
    ELSE [ctx EXCEPT !.known = TRUE, !.tags = @ \cup {what}, !.budget = IF spent THEN 0 ELSE @]

\* The engine runs for the schemas whatever is left of the budget.
extract_schemas(ctx) == [ctx EXCEPT !.tags = @ \cup {"schema"}]

\* Context::set_response_seen: the context, and the held trace on its way.
set_response_seen(ctx) ==
  [ctx |-> [ctx EXCEPT !.seen = TRUE, !.held = NoTrace],
   out |-> IF ~ctx.seen /\ ctx.held # NoTrace THEN <<Sent(ctx.held, ctx.tags, TRUE)>> ELSE <<>>]

hold_trace(ctx, trace) == IF ctx.seen THEN ctx ELSE [ctx EXCEPT !.held = trace]

\* new_context: the one to be dropped is the request's own or, with the buffer
\* full, the oldest; its trace is sent first.
MutEvictionDropsTrace(ctxs, rid, budget) ==
  LET rest == IF Has(ctxs, rid) THEN delete_context(ctxs, rid)
              ELSE IF Len(ctxs) = ContextCapacity THEN Tail(ctxs) ELSE ctxs
  IN [ctxs |-> Append(rest, Context(rid, budget)), out |-> <<>>]
new_context(ctxs, rid, budget) ==
  LET full == ~Has(ctxs, rid) /\ Len(ctxs) = ContextCapacity
      dropped == IF Has(ctxs, rid) THEN <<get_context(ctxs, rid)>> ELSE IF full THEN <<Head(ctxs)>> ELSE <<>>
      rest == IF full THEN Tail(ctxs) ELSE delete_context(ctxs, rid)
  IN [ctxs |-> Append(rest, Context(rid, budget)),
      out |-> IF dropped = <<>> THEN <<>> ELSE set_response_seen(dropped[1]).out]

\* known: the trigger was identified, if only as one that is not analysed.
process_invocation_next(ctxs, rid, known, budget, spent) ==
  IF ~known
    THEN [ctxs |-> ctxs, out |-> <<>>]
    ELSE LET n == new_context(ctxs, rid, budget)
         IN [ctxs |-> Update(n.ctxs, run(get_context(n.ctxs, rid), "request", spent)), out |-> n.out]

\* parses: the response has the expected format, if any is; sample: the sampler's decision.
Analysed(ctx, parses, sample, spent) ==
  LET analysed == IF ctx.known /\ parses THEN run(ctx, "response", spent) ELSE ctx
  IN IF sample THEN extract_schemas(analysed) ELSE analysed
MutResultFlushesFirst(ctxs, rid, parses, sample, spent) ==
  IF ~Has(ctxs, rid)
    THEN [ctxs |-> ctxs, out |-> <<>>]
    ELSE LET s == set_response_seen(get_context(ctxs, rid))
             analysed == IF s.ctx.known /\ parses THEN run(s.ctx, "response", spent) ELSE s.ctx
         IN [ctxs |-> Update(ctxs, analysed), out |-> s.out]
process_invocation_result(ctxs, rid, parses, sample, spent) ==
  IF ~Has(ctxs, rid)
    THEN [ctxs |-> ctxs, out |-> <<>>]
    ELSE LET s == set_response_seen(Analysed(get_context(ctxs, rid), parses, sample, spent))
         IN [ctxs |-> Update(ctxs, s.ctx), out |-> s.out]

\* Processor::process_span and what send_processed_traces does with its answer.
\* rid 0: the trace has no service entry span, or that has no request id.
process_span(ctxs, trace, rid) ==
  CASE rid = 0 \/ ~Has(ctxs, rid) -> [ctxs |-> ctxs, out |-> <<Sent(trace, {}, FALSE)>>]
    [] rid # 0 /\ Has(ctxs, rid) /\ get_context(ctxs, rid).seen ->
         [ctxs |-> delete_context(ctxs, rid), out |-> <<Sent(trace, get_context(ctxs, rid).tags, TRUE)>>]
    [] OTHER -> [ctxs |-> Update(ctxs, hold_trace(get_context(ctxs, rid), trace)), out |-> <<>>]
=============================================================================
