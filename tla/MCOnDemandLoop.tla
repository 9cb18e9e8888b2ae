--------------------------- MODULE MCOnDemandLoop ---------------------------
(* Instances of OnDemandLoop with one flusher and one endpoint. *)
EXTENDS OnDemandLoop

CONSTANTS p1, intake

MCKindOf == [p \in Payload |-> CHOOSE k \in Kinds : TRUE]
MCEndpoints == [k \in Kinds |-> {intake}]
=============================================================================
