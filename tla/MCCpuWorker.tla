---------------------------- MODULE MCCpuWorker ----------------------------
(* Instances of CpuWorker for TLC.                                         *)
EXTENDS CpuWorker, TLC

CONSTANTS c1, c2, c3, c4, j1, j2, ch1, ch2

(* Circuits, jobs and channels are only ever compared.                     *)
Symmetry == Permutations(Circuits) \cup Permutations(Work) \cup
            Permutations(Channels)
=============================================================================
