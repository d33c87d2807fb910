---------------------------- MODULE MCCpuShare -----------------------------
(* Instances of CpuShare for TLC. *)
EXTENDS CpuShare, TLC

WorkerSymmetry == Permutations(Workers)
=============================================================================
