------------------------- MODULE MCTelemetryUplink -------------------------
(* Fault budgets for model-checking TelemetryUplink. *)
EXTENDS TelemetryUplink

MCEachOnce == [f \in Faults |-> 1]
=============================================================================
