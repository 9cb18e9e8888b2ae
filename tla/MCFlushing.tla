----------------------------- MODULE MCFlushing -----------------------------
(* Instances of Flushing: a log, shipped to two endpoints, and Data Streams *)
(* stats for the proxy.                                                     *)
EXTENDS Flushing

CONSTANTS l1, x1, main, dual

MCKindOf == [p \in Payload |-> IF p = l1 THEN "logs" ELSE "proxy"]
DualLogs == [k \in Kinds |-> IF k = "logs" THEN {main, dual} ELSE {main}]
=============================================================================
