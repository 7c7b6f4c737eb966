---------------------------- MODULE MCDelegation ----------------------------
EXTENDS Delegation, TLC
CONSTANTS r1, r2
RunSymmetry == Permutations(Runs)
=============================================================================
