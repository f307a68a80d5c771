\* One purchase in two executions, the queue may be lost; a death, a foreign wallet move or an edit.
SPECIFICATION FairSpec
CONSTANTS
    i1 = i1
    i2 = i2
    u1 = u1
    p1 = p1
    p2 = p2
    NoIntent = NoIntent
    Intents = {i1}
    Users = {u1}
    Procs = {p1, p2}
    Owner <- SoleOwner
    Subtotal <- Prices
    Configs <- OneRoomyConfig
    ReservationCap = 2
    ReceiptCap = 2
    AuditCap = 2
    MaxSafe = 4
    StartMoney = {2}
    MaxAborts = 1
    MaxMoves = 1
ACTION_CONSTRAINT
    OneDisturbance
PROPERTIES
    PurchaseCompletes
