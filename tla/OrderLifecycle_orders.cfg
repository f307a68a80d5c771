\* Every handler, two at a time; two requests of the administrator; one lock expiry.
SPECIFICATION Spec
CHECK_DEADLOCK FALSE
CONSTANTS
    p1 = p1
    p2 = p2
    Procs = {p1, p2}
    Quantity = 2
    UnitPrice = 1
    MaxAttempts = 1
    MaxPolls = 1
    Roles = {"worker", "repush", "poll", "recovery", "expire", "approve", "refund", "missing", "retry", "import", "sync"}
    MaxAborts = 0
    MaxLapses = 1
    MaxRequests = 2
SYMMETRY Symmetry
INVARIANTS
    BuysOnce
    RefundIsCredited
    SoldIsStored
