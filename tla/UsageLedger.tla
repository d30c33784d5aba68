---------------------------- MODULE UsageLedger ----------------------------
(***************************************************************************)
(* What the platform promises about token-usage events, with no daemon, no *)
(* buffer and no link: an adapter produces numbered events, the server     *)
(* records each, broadcasts it at most once and only after recording it,   *)
(* and nothing that was recorded is ever taken back.                       *)
(***************************************************************************)
EXTENDS Naturals

CONSTANT MaxUsage        \* how many events the adapters produce (a TLC bound)

VARIABLES
  produced,              \* the number of the last event produced
  ledger,                \* the events the server has a row for
  reported               \* event |-> how often it was broadcast

vars == <<produced, ledger, reported>>

Events == 1..MaxUsage

Init ==
  /\ produced = 0
  /\ ledger = {}
  /\ reported = [u \in Events |-> 0]

Produce ==
  /\ produced < MaxUsage
  /\ produced' = produced + 1
  /\ UNCHANGED <<ledger, reported>>

Record(new) ==
  /\ new \subseteq (1..produced) \ ledger
  /\ ledger' = ledger \cup new
  /\ UNCHANGED <<produced, reported>>

Broadcast(u) ==
  /\ u \in ledger /\ reported[u] = 0
  /\ reported' = [reported EXCEPT ![u] = 1]
  /\ UNCHANGED <<produced, ledger>>

Next ==
  \/ Produce
  \/ \E new \in SUBSET Events : Record(new)
  \/ \E u \in Events : Broadcast(u)

Spec == Init /\ [][Next]_vars
=============================================================================
