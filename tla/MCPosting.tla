------------------------------ MODULE MCPosting ------------------------------
(* Requests and budgets for model-checking Posting. *)
EXTENDS Posting

CONSTANTS p1, p2, h1, k, u1, none

MCPosts == {p1, p2}
MCHumans == {h1}
MCKeys == {k}
MCSameKey == [p \in MCPosts |-> k]
MCNoKey == [p \in MCPosts |-> none]
MCUploads == {u1}
MCBodies == {{}, MCUploads}
MCNoFiles == {{}}
MCBoth == [f \in Faults |-> 1]
MCNone == [f \in Faults |-> 0]
=============================================================================
