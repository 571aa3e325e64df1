------------------------------ MODULE BuildMC ------------------------------
EXTENDS Build, TLC
Symmetry == Permutations(PFs)
=============================================================================
