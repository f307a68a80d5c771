--------------------------- MODULE MCVoucherOutcomes ---------------------------
(* One voucher order in two executions of any handler that knows of vouchers; *)
(* or refunded while the recovery scheduler, which does not, takes it up.     *)
EXTENDS MCVoucherFulfilment

VARIABLE recovering     \* chosen in the initial state: which of the two

Recoveries == INSTANCE VoucherFulfilment WITH
                 MaxAborts <- 0,
                 Roles <- {"worker", "confirm", "refund", "reconcile", "recovery"}

OutcomesInit ==
    /\ recovering \in BOOLEAN
    /\ \/ recovering /\ Recoveries!Init
       \/ ~recovering /\ Init

OutcomesNext ==
    /\ UNCHANGED recovering
    /\ \/ recovering /\ Recoveries!Next
       \/ ~recovering /\ Next

Outcomes == OutcomesInit /\ [][OutcomesNext]_<<vars, recovering>>
=============================================================================
