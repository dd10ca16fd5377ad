------------------------------ MODULE MCLifecycle ------------------------------
(* Lifecycle with symmetric pids. *)
EXTENDS Lifecycle, TLC

PidSymmetry == Permutations(Pids)
===============================================================================
