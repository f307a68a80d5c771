\* Two requests at once of one key or of none, two schedulers; one failure, edit or lapse.
SPECIFICATION FairSpec
CHECK_DEADLOCK FALSE
CONSTANTS
    p1 = p1
    p2 = p2
    k1 = k1
    Procs = {p1, p2}
    Keys = {k1}
    Quota = 1
    Price = 1
    StartMoney = 2
    Gateway = TRUE
    Schedulers = 2
    MaxRequests = 2
    MaxTroubles = 1
INVARIANTS
    TopUpsPaid
    ShownIsTrue
    DepletedIsSpent
PROPERTIES
    SpentIsDepleted
