----------------------------- MODULE MCBehaviour -----------------------------
EXTENDS Behaviour, TLC

Symmetry == Permutations(Pid)
=============================================================================
