------------------------ MODULE MCVoucherFulfilment ------------------------
(* Model values and symmetry of VoucherFulfilment for TLC. *)
EXTENDS VoucherFulfilment, TLC

CONSTANTS p1, p2

\* Executions differ in nothing but their names.
Symmetry == Permutations(Procs)
=============================================================================
