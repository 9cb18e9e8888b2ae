---------------------------- MODULE MCInvocation ----------------------------
(* Values for model checking module Invocation. *)
EXTENDS Invocation

OnDemand(tracer, kinds) == [managed |-> FALSE, tracer |-> tracer, with |-> kinds]
Managed(tracer, kinds) == [managed |-> TRUE, tracer |-> tracer, with |-> kinds]

MCSetups ==
  {OnDemand("none", {"init", "trace", "restore"}),
   OnDemand("none", {"usage", "Timeout"}),
   OnDemand("none", {"OutOfMemory", "dsm"}),
   OnDemand("fifo", {"loss", "init"}),
   OnDemand("id", {"loss", "dsm"}),
   OnDemand("id", {"init", "Timeout"}),
   OnDemand("lwa", {"trace", "Timeout"}),
   Managed("none", {"init", "usage"}),
   Managed("id", {"init"}),
   Managed("id", {"loss", "OutOfMemory"}),
   Managed("lwa", {"trace", "dsm"})}
=============================================================================
