----------------------------- MODULE MCDelivery -----------------------------
(* Messages and budgets for model-checking Delivery. *)
EXTENDS Delivery

MCFirst == {1}
MCSecond == {2}
MCBoth == {1, 2}

Times(some) == [e \in Events |-> IF e \in some THEN 1 ELSE 0]

MCLocal == Times({"error", "stop", "restart"})
MCDeaths == Times({"cut", "crash", "server", "exit"})
=============================================================================
