-------------------------- MODULE InvocationLedger --------------------------
(***************************************************************************)
(* What the invocation processor promises for one request, whatever the    *)
(* order in which the events of the invocation reach it: its account is    *)
(* opened once, closed once and never opened again, and its invocation     *)
(* span falls due at most once, while the account is open, and is paid at  *)
(* most once after that.                                                   *)
(***************************************************************************)
EXTENDS Integers

CONSTANT Requests

VARIABLE account   \* per request: [phase, span]

Phases == <<"unseen", "open", "closed">>
Debts == <<"none", "due", "sent">>

Accounts == [phase : {"unseen", "open", "closed"}, span : {"none", "due", "sent"}]

\* x comes no later than y in the order of the sequence.
NoLater(order, x, y) ==
  \E i, j \in DOMAIN order : i <= j /\ order[i] = x /\ order[j] = y

Legal(a, b) ==
  /\ NoLater(Phases, a.phase, b.phase)
  /\ NoLater(Debts, a.span, b.span)
  /\ (a.span = "none" /\ b.span # "none") => a.phase = "open"

Init == account = [r \in Requests |-> [phase |-> "unseen", span |-> "none"]]

Next ==
  /\ account' \in [Requests -> Accounts]
  /\ \A r \in Requests : account'[r] = account[r] \/ Legal(account[r], account'[r])

Spec == Init /\ [][Next]_account
=============================================================================
