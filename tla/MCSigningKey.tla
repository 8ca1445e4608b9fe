---------------------------- MODULE MCSigningKey ----------------------------
EXTENDS SigningKey, TLC

ServerSymmetry == Permutations(Servers)
=============================================================================
