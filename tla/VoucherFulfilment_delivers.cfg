\* Any execution may die; the reconciler finishes what was begun, repairs legacy expiries and pays
\* what two refunds planned (MCVoucherDelivers!Refunds sets the roles of that case).
SPECIFICATION Delivers
CHECK_DEADLOCK FALSE
CONSTANTS
    p1 = p1
    p2 = p2
    Procs = {p1, p2}
    Quantity = 2
    Price = 2
    Roles = {"worker", "poll", "reconcile", "expire"}
    LegacyOrders = TRUE
    MaxAborts = 1
PROPERTIES
    OrderCompletes
    RefundCompletes
