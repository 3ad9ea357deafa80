---------------------------- MODULE MCWorkingSet ----------------------------
EXTENDS WorkingSet

CONSTANTS c1, c2, ws1, ws2

Symmetry == Permutations({c1, c2}) \union Permutations({ws1, ws2})
=============================================================================
