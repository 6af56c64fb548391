----------------------------- MODULE MCHwTimer ------------------------------
EXTENDS HwTimer, TLC

CONSTANTS t1, t2, t3

Symmetry == Permutations(Timers)
=============================================================================
