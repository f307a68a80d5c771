\* The workers and the schedulers that refill their lists; one crash or lost list, one retry.
SPECIFICATION FairSpec
CHECK_DEADLOCK FALSE
CONSTANTS
    p1 = p1
    p2 = p2
    Procs = {p1, p2}
    Quantity = 1
    UnitPrice = 1
    MaxAttempts = 1
    MaxPolls = 2
    Roles = {"worker", "repush", "poll", "repoll", "expire", "retry"}
    MaxAborts = 1
    MaxLapses = 0
    MaxRequests = 1
PROPERTIES
    OrderResolves
