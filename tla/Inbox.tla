-------------------------------- MODULE Inbox --------------------------------
(***************************************************************************)
(* What one agent may expect of a channel: messages are handed to it in    *)
(* order, with no gap, and the read position is at a message that was      *)
(* handed to it. Handing a message over again, and reading from an earlier *)
(* one again, are allowed.                                                 *)
(***************************************************************************)
EXTENDS Integers

CONSTANT MaxMsg

VARIABLES
  posted,                \* ids of the messages in the channel
  handed,                \* those the agent was given
  read                   \* read_positions (0: no row)

vars == <<posted, handed, read>>

Init == posted = {} /\ handed = {} /\ read = 0

Post(m) ==
  /\ \A n \in posted : n < m
  /\ posted' = posted \cup {m}
  /\ UNCHANGED <<handed, read>>

\* Everything up to m has been given once m has.
Hand(m) ==
  /\ m \in posted
  /\ handed' = handed \cup {n \in posted : n <= m}
  /\ UNCHANGED <<posted, read>>

Read(m) ==
  /\ m \in handed
  /\ read' = m
  /\ UNCHANGED <<posted, handed>>

Next == \E m \in 1..MaxMsg : Post(m) \/ Hand(m) \/ Read(m)

Spec == Init /\ [][Next]_vars
=============================================================================
