---------------------------- MODULE DeployBoard ----------------------------
(***************************************************************************)
(* What users of a project see of its deployments: rows that open queued,  *)
(* may be seen running, and are closed once with a verdict and one result  *)
(* card per deployment; at most one row of the project is open.            *)
(***************************************************************************)
EXTENDS Naturals

CONSTANT Deps            \* the deployments requested over time

VARIABLES
  status,                \* deployments.status ("none": no row yet)
  cards                  \* result cards posted for the row

vars == <<status, cards>>

Active   == {"queued", "running"}
Verdicts == {"success", "failed"}

Init == status = [d \in Deps |-> "none"] /\ cards = [d \in Deps |-> 0]

Open(d) ==
  /\ status[d] = "none"
  /\ \A e \in Deps : status[e] \notin Active
  /\ status' = [status EXCEPT ![d] = "queued"]
  /\ UNCHANGED cards

Begin(d) ==
  /\ status[d] = "queued"
  /\ status' = [status EXCEPT ![d] = "running"]
  /\ UNCHANGED cards

Close(d, verdict) ==
  /\ status[d] \in Active
  /\ status' = [status EXCEPT ![d] = verdict]
  /\ cards' = [cards EXCEPT ![d] = @ + 1]

Next == \E d \in Deps : Open(d) \/ Begin(d) \/ \E v \in Verdicts : Close(d, v)

Spec == Init /\ [][Next]_vars

\* A row closed has its one card, a row still open has none.
OneCardPerVerdict ==
  \A d \in Deps : cards[d] = IF status[d] \in Verdicts THEN 1 ELSE 0

\* A project has at most one deployment in progress.
OneActive ==
  \A d, e \in Deps : status[d] \in Active /\ status[e] \in Active => d = e
=============================================================================
