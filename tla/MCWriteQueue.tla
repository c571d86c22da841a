---------------------------- MODULE MCWriteQueue ----------------------------
(* The write path on small instances: batches of one or two keys, memtables  *)
(* that are full after one entry too many, groups that reach their limit.    *)
EXTENDS WriteQueue, TLC

CONSTANTS k1, k2

TwoKeys == {k1, k2}
OneKey == {k1}
SmallBatches == {<<k1>>, <<k1, k2>>}
PairBatch == {<<k1, k2>>}
OneBatch == {<<k1>>}

(* Clients, and readers, are interchangeable.                                *)
WqSymmetry == Permutations(Clients) \cup Permutations(Readers)
=============================================================================
