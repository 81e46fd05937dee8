-------------------------- MODULE MCLoginSessions --------------------------
EXTENDS LoginSessions, TLC

Symmetry == Permutations(Ids) \cup Permutations(Reqs)
=============================================================================
