---------------------------- MODULE MCRankWorkers ----------------------------
(* Runs by count and by a minimum of one tick, in all modes or in sparse   *)
(* training alone.                                                         *)
EXTENDS RankWorkers

MCSparseMode == {"sparse_sync_training"}
=============================================================================
