---------------------------- MODULE MCWorkbench ----------------------------
EXTENDS Workbench, TLC

Symmetry == Permutations(Conns) \cup Permutations(Handles) \cup Permutations(DBs)
            \cup Permutations(Txs) \cup Permutations(Jobs) \cup Permutations(Reqs)
=============================================================================
