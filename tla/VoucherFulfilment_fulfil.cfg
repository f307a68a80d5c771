\* Every handler that knows of vouchers on one order, of which one execution may die or throw; or the
\* recovery scheduler beside four of them, without deaths (MCVoucherOutcomes!Recoveries).
SPECIFICATION Outcomes
CHECK_DEADLOCK FALSE
CONSTANTS
    p1 = p1
    p2 = p2
    Procs = {p1, p2}
    Quantity = 2
    Price = 2
    Roles = {"worker", "poll", "sync", "confirm", "refund", "reconcile", "expire"}
    LegacyOrders = FALSE
    MaxAborts = 1
SYMMETRY Symmetry
INVARIANTS
    BuysAlone
    FailureIsFinal
    RefundFollowsPlan
    OutcomesAgree
PROPERTIES
    ResolutionIsOneWay
