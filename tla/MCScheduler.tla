----------------------------- MODULE MCScheduler -----------------------------
(* Instances of Scheduler for TLC. *)
EXTENDS Scheduler, TLC

CONSTANTS ch1, ch2, k1, k2

Sym == Permutations({ch1, ch2}) \cup Permutations({k1, k2})
=============================================================================
