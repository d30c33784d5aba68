----------------------------- MODULE MCPreview ------------------------------
(* Sessions of one task for model-checking Preview. *)
EXTENDS Preview

MCOneTask == [s \in 1 .. Sessions |-> 1]

=============================================================================
