---------------------------- MODULE MCEtwMonitor -----------------------------
EXTENDS EtwMonitor, TLC

\* The IDs other than the sample's are interchangeable.
Symmetry == Permutations(Pid \ {Sample})
=============================================================================
