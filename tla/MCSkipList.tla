----------------------------- MODULE MCSkipList -----------------------------
(* The skip list with a few keys and iterators.                              *)
EXTENDS SkipList, TLC

SlSymmetry == Permutations(Readers)
=============================================================================
