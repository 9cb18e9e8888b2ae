----------------------- MODULE MCTelemetryPipeline -----------------------
(* Instances of TelemetryPipeline for TLC. *)
EXTENDS TelemetryPipeline, TLC

CONSTANTS p1, p2

\* One POST with three platform events and a log line, one with a log line: one
\* event more than the channels, the agent and the main loop hold together.
MCEventCount == p1 :> 4 @@ p2 :> 1
MCForwarded == {<<p1, 1>>, <<p1, 2>>, <<p1, 3>>}
\* Two runtimeDone.
MCAnswered == {<<p1, 1>>, <<p1, 3>>}
=============================================================================
