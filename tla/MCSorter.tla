------------------------------- MODULE MCSorter -------------------------------
(* Four objects with three keys: room for rotations in both trees, for      *)
(* equal keys, and for a node with two children to be removed.              *)
EXTENDS Sorter, TLC

Interchangeable == Permutations(Nodes)
==============================================================================
