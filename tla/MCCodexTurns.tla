---------------------------- MODULE MCCodexTurns ----------------------------
(* Turns and channels for model-checking CodexTurns. *)
EXTENDS CodexTurns

CONSTANTS a, none

MCChannels == {a, none}
MCChannelOf == [t \in 1 .. Turns |-> IF t = 2 THEN none ELSE a]

=============================================================================
