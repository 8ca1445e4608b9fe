------------------------ MODULE MCDeployTransaction ------------------------
(* Instances of DeployTransaction, with its mapping to ComponentSlot, for TLC. *)
EXTENDS DeployRefinement

\* The second version renames a file of the first, the third has both names.
MCPackageFiles ==
    [v \in Versions |-> IF v = 1 THEN {1, 2, 3} ELSE IF v = 2 THEN {1, 2, 4} ELSE {1, 2, 3, 4}]

=============================================================================
