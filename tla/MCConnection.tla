----------------------------- MODULE MCConnection -----------------------------
(* Callers and faults for model-checking Connection. *)
EXTENDS Connection

CONSTANTS k1, k2

MCCalls == {k1, k2}
=============================================================================
