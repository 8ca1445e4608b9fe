---------------------------- MODULE MCDeployLock ----------------------------
(* Instances of DeployLock for TLC. *)
EXTENDS DeployLock, TLC

\* Server processes are interchangeable.
Symmetry == Permutations(Deployers)

=============================================================================
