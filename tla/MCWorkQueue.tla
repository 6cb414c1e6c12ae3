---------------------------- MODULE MCWorkQueue ----------------------------
(* Instances of WorkQueue for TLC.                                         *)
EXTENDS WorkQueue, TLC

CONSTANTS t1, t2, j1, j2, j3

HighOnly  == {0}
HighLow   == {0, 2}
ReplyOnly == {Reply}
ReplyOrError == {Reply, "WQ_RPL_ERROR"}
Symmetry  == Permutations(Threads) \cup Permutations(Work)
=============================================================================
