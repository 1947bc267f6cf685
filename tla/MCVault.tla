------------------------------- MODULE MCVault -------------------------------
(* An instance of VaultOperator for TLC. *)
EXTENDS VaultOperator

CONSTANTS p1, p2

Once == [period |-> FALSE, merge |-> TRUE, role |-> FALSE]
Often == [period |-> TRUE, merge |-> FALSE, role |-> FALSE]
WithRole == [period |-> FALSE, merge |-> FALSE, role |-> TRUE]
ThreeConfigs == {Once, Often, WithRole}
==============================================================================
