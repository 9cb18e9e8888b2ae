---------------------------- MODULE MCManagedLoop ----------------------------
(* Instances of ManagedLoop with one endpoint per kind.                     *)
EXTENDS ManagedLoop

CONSTANTS t1, x1

MCKindOf == [p \in Payload |-> IF p = t1 THEN "traces" ELSE "proxy"]
MCEndpoints == [k \in Kinds |-> {k}]
=============================================================================
