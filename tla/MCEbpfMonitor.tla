---------------------------- MODULE MCEbpfMonitor ----------------------------
EXTENDS EbpfMonitor, TLC

CONSTANTS p1

CPUs     == Permutations(CPU)
FewCalls == {<<"ptrace", Sample>>} \cup ({"openat", "write", "connect"} \X {p1})
=============================================================================
