----------------------------- MODULE MC_CheqdTx -----------------------------
(* Three concurrent commands on one alias: enough for an add to race a     *)
(* create-nym that uses the alias, and for two create-nyms of the same     *)
(* account to race for one sequence.                                       *)
EXTENDS CheqdTx

MC_AccountNumber == [k \in Keys |-> IF k \in Funded THEN 5 ELSE 6]

MC_TimeoutInputs == {Omitted, 0, 2, 5}

=============================================================================
