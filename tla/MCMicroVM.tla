----------------------------- MODULE MCMicroVM -----------------------------
EXTENDS MicroVM, TLC

CONSTANTS i1, i2, i3

MCInv == {i1, i2, i3}
Symmetry == Permutations(MCInv)
=============================================================================
