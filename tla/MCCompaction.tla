---------------------------- MODULE MCCompaction ----------------------------
(* The tree on small instances: see the configurations.                      *)
EXTENDS Compaction
=============================================================================
