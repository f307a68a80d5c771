--------------------------- MODULE MCSelfService ---------------------------
(* SelfService on two executions.                                           *)
EXTENDS SelfService, TLC

CONSTANTS p1, p2, k1
=============================================================================
