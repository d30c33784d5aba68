------------------------------ MODULE MCMerge -------------------------------
(* Two tasks of one project for model-checking Merge. *)
EXTENDS Merge

CONSTANTS t1, t2

=============================================================================
