\* Two requests at once: of a buyer with two keys, or of a referrer with two commissions.
SPECIFICATION Wallets
CHECK_DEADLOCK FALSE
CONSTANTS
    c1 = c1
    c2 = c2
    p1 = p1
    p2 = p2
    k1 = k1
    k2 = k2
    Procs = {p1, p2}
    Commissions = {c1, c2}
    Amount <- MCAmount
    MaxWithdrawals = 2
    MaxCrashes = 1
    Keys = {k1, k2}
    VoucherKeys = {k2}
    Price = 1
    StartMoney = 2
    MaxRequests = 3
    MaxOrders = 2
    MaxTroubles = 1
SYMMETRY Symmetry
INVARIANTS
    PurchasesPaid
    RetryIsFree
    WithdrawalsBacked
