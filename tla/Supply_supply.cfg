\* Two checkouts at once of any service, with edits by the administrator and the provider; or one order
\* through any adapter; or two administrators at the promotions.
SPECIFICATION Supply
CONSTANTS
    b1 = b1
    b2 = b2
    Buyers = {b1, b2}
    Countries = {"us", "de"}
    Isps = {"fpt"}
    Products = {"pa", "pb", "fpt"}
    Codes = {"gpnip", "homeproxy", "twoproxy", "proxyseller"}
    ServiceConfigs <- MCServices
    PartnerConfigs <- MCPartners
    Checkouts <- MCCheckouts
    TTL = 1
    MaxOrders = 1
    MaxEdits = 1
    Adapters <- MCAdapters
    Days <- MCDays
    TierDays <- MCTiers
    MaxQuantity = 2
    Gigabytes = 5
    PageSize = 1
    MaxPages = 2
    MaxCalls = 2
    Programs = {"g1", "g2"}
    Editors = {"a1", "a2"}
    Horizon = 2
    MaxTries = 2
    MaxRequests = 3
SYMMETRY Symmetry
INVARIANTS
    CheckedIsBought
    QuotedAsSold
    BilledIsDone
    OrdersReachable
    CatalogueHolds
PROPERTIES
    CountryIsCovered
    KeepsContract
CHECK_DEADLOCK FALSE
