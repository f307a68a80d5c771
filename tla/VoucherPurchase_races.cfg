\* Two purchases in two executions: one place or one place each, with a foreign wallet move; or one
\* reservation left, with an edit (MCVoucherRaces!Crowded sets the smaller caps).
SPECIFICATION Races
CONSTANTS
    i1 = i1
    i2 = i2
    u1 = u1
    p1 = p1
    p2 = p2
    NoIntent = NoIntent
    Intents = {i1, i2}
    Users = {u1}
    Procs = {p1, p2}
    Owner <- OneOwner
    Subtotal <- Prices
    Configs <- AllConfigs
    ReservationCap = 3
    ReceiptCap = 4
    AuditCap = 1
    MaxSafe = 4
    StartMoney = {0}
    MaxAborts = 0
    MaxMoves = 1
SYMMETRY FullSymmetry
INVARIANTS
    TypeOK
    CountersMatch
    PurchasesSettled
    WalletBalanced
PROPERTIES
    KeepsPromise
    PriceInForce
