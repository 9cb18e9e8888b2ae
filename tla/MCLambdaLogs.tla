--------------------------- MODULE MCLambdaLogs ---------------------------
(* Instances of LambdaLogs for TLC. *)
EXTENDS LambdaLogs

\* No definition looks at a particular request id.
Symmetry == Permutations(RequestIds)
=============================================================================
