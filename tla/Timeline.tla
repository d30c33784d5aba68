------------------------------ MODULE Timeline ------------------------------
(***************************************************************************)
(* What readers of a channel are promised: a message appears together with *)
(* all its attachments, and what can be read stays readable.               *)
(***************************************************************************)
CONSTANTS Messages, Uploads

VARIABLES
  shown,                 \* messages in the channel
  readable               \* <<message, upload>>: attachments that can be opened

Init == shown = {} /\ readable = {}

\* A message appears with its attachments, none of which another message has.
Show(m, attached) ==
  /\ m \notin shown
  /\ \A n \in shown, u \in attached : <<n, u>> \notin readable
  /\ shown' = shown \cup {m}
  /\ readable' = readable \cup ({m} \X attached)

Next == \E m \in Messages, attached \in SUBSET Uploads : Show(m, attached)

Spec == Init /\ [][Next]_<<shown, readable>>
=============================================================================
