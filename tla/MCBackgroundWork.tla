-------------------------- MODULE MCBackgroundWork --------------------------
(* The scheduler of background work on a small instance: the limits of       *)
(* level 0 scaled down, two callers of TEST_CompactRange.                    *)
EXTENDS BackgroundWork
=============================================================================
