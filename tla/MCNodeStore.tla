------------------------------ MODULE MCNodeStore ------------------------------
(* NodeStore for TLC: the symmetric sets of a small instance.              *)
EXTENDS NodeStore, TLC

Symmetry == Permutations(Uids) \cup Permutations(Editors)
=============================================================================
