\* Two orders, two executions, two instances of the scheduler, two days; one failure, edit or lapse.
SPECIFICATION RenewalSpec
CHECK_DEADLOCK FALSE
CONSTANTS
    o1 = o1
    o2 = o2
    s1 = s1
    s2 = s2
    b1 = b1
    Orders = {o1, o2}
    Slots = {s1, s2}
    Selections = {b1}
    p1 = p1
    p2 = p2
    Executions = {p1, p2}
    Kind <- AnyKind
    Owned <- TwoOrders
    Ids <- TwoOrders
    Chosen <- OneOfEach
    Threshold = 1
    Term = 1
    FirstEnd = 1
    StartMoney = 3
    Instances = 2
    Kept = {"user", "admin", "bulk"}
    MaxDay = 1
    MaxRequests = 2
    MaxTroubles = 1
SYMMETRY Symmetry
ACTION_CONSTRAINTS
    SecondAfterFailure
INVARIANTS
    RenewalsPaid
    PromiseKept
    ScheduleServes
