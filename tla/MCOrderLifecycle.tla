-------------------------- MODULE MCOrderLifecycle --------------------------
(* OrderLifecycle with two executions that TLC may exchange.                *)
EXTENDS OrderLifecycle, TLC

CONSTANTS p1, p2

Symmetry == Permutations(Procs)
=============================================================================
