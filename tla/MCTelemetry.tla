----------------------------- MODULE MCTelemetry -----------------------------
(* TLC instance of Telemetry: two turns of different sessions. *)
EXTENDS Telemetry

MCSessionOf == [t \in Turns |-> t % 2]
=============================================================================
