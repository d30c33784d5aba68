---------------------------- MODULE MCDeployment ----------------------------
(* The deployment and the fault budgets for model-checking Deployment. *)
EXTENDS Deployment

CONSTANT only

MCDeps == {only}

Strikes(some) == [f \in Faults |-> IF f \in some THEN 1 ELSE 0]

MCLosses == Strikes({"cut", "crash", "restart"})
MCNoCrash == Strikes(Faults \ {"crash"})
=============================================================================
