-------------------------- MODULE MCSessionManager --------------------------
EXTENDS SessionManager_refines
Symmetric == Permutations(Tasks) \cup Permutations(Sessions)
=============================================================================
