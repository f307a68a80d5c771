\* A timed-out order delivered by the recovery scheduler.
SPECIFICATION FairSpec
CHECK_DEADLOCK FALSE
CONSTANTS
    p1 = p1
    p2 = p2
    Procs = {p1, p2}
    Quantity = 2
    Price = 2
    Roles = {"worker", "reconcile", "recovery"}
    LegacyOrders = FALSE
    MaxAborts = 0
PROPERTIES
    DeliveredIsUsed
