--------------------------- MODULE MCCrashRecovery ---------------------------
(* Crash recovery on small instances: a few writes, one or two crashes, and  *)
(* file numbers enough for every open, flush and compaction in between.      *)
EXTENDS CrashRecovery
=============================================================================
