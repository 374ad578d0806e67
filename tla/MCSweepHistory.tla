-------------------------- MODULE MCSweepHistory --------------------------
EXTENDS SweepHistory, SessionManager_refines, TLC
Symmetric == Permutations(Tasks) \cup Permutations(Sessions)
=============================================================================
