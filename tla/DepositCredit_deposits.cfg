\* Two transfers of any kind, two executions of which one may die, two users.
SPECIFICATION FairSpec
CHECK_DEADLOCK FALSE
CONSTANTS
    t1 = t1
    t2 = t2
    u1 = u1
    u2 = u2
    c1 = c1
    NoUser = NoUser
    NoIntent = NoIntent
    NoTransfer = NoTransfer
    Transfers = {t1, t2}
    Users = {u1, u2}
    Intents = {c1}
    Procs = {"p1", "p2"}
    Owner <- OneIntent
    Wires <- BonusAndAny
    MaxSafe = 2
    MaxAborts = 1
    MaxSpends = 1
ACTION_CONSTRAINTS
    OneDisturbance
INVARIANTS
    TypeOK
    WalletMatches
    BonusPaidOnce
    StatusIsTrue
PROPERTIES
    CreditResolves
