-------------------------- MODULE MCPropertyWrites --------------------------
\* Small instances of PropertyWrites for TLC.
EXTENDS PropertyWrites, TLC

Symmetry == Permutations(Op) \cup Permutations(Id)
=============================================================================
