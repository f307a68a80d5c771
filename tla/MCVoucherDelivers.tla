--------------------------- MODULE MCVoucherDelivers ---------------------------
(* One voucher order, bought and delivered by two executions, with orders of  *)
(* the old scheduler among them; or failed, and refunded by one after another.*)
EXTENDS MCVoucherFulfilment

VARIABLE returned     \* chosen in the initial state: whether it is refunded

Refunds == INSTANCE VoucherFulfilment WITH
              Quantity <- 1, LegacyOrders <- FALSE,
              Roles <- {"worker", "confirm", "refund", "reconcile"}

\* The two execute different handlers, each pair of them once: two of the same
\* are in MCVoucherOutcomes.
Assigned ==
    /\ role[p1] # "reconcile" /\ role[p2] # "worker"
    /\ role[p1] = role[p2] => role[p1] = "none"

DeliversInit ==
    /\ returned \in BOOLEAN
    /\ \/ returned /\ Refunds!Init
       \/ ~returned /\ Init

DeliversNext ==
    /\ UNCHANGED returned
    /\ \/ returned /\ Refunds!Next /\ pc'[p2] = "idle"
       \/ ~returned /\ Next /\ Assigned'

EitherStep(p) == (returned /\ Refunds!Step(p)) \/ (~returned /\ Step(p))

EitherGiveUp(p) == (returned /\ Refunds!GiveUp(p)) \/ (~returned /\ GiveUp(p))

EitherReconciles ==
    \E p \in Procs : (returned /\ Refunds!ReconcileStart(p)) \/ (~returned /\ ReconcileStart(p))

\* Fairness of VoucherFulfilment, whichever of the two it is.
Delivers ==
    /\ DeliversInit /\ [][DeliversNext]_<<vars, returned>>
    /\ \A p \in Procs : WF_vars(EitherStep(p)) /\ SF_vars(EitherGiveUp(p))
    /\ SF_vars(EitherReconciles)
=============================================================================
