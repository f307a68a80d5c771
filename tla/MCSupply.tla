------------------------------ MODULE MCSupply ------------------------------
(* From the catalogue to the provider: two checkouts of Procurement, the    *)
(* calls of one order through ProviderAdapters, or two edits of Promotions. *)
(* They share no variable, so one acts while the others rest in an initial  *)
(* state.                                                                   *)
EXTENDS Procurement, TLC

CONSTANTS b1, b2,
          Adapters, MaxQuantity, TierDays, Gigabytes, PageSize, MaxPages, MaxCalls,
          Programs, Editors, Horizon, MaxTries, MaxRequests

VARIABLES adapter, request, sold, cleared, id, held, op, at, tries, page, left, done, failed,
          terms, bought, renewed, ready, late, calls, named, seen, served,
          catalog, given, step, task, requests, granted,
          acting     \* chosen in the initial state: which of the three acts

Adapter == INSTANCE ProviderAdapters

Catalogue == INSTANCE Promotions
    WITH issued <- given, at <- step, edits <- requests, MaxEdits <- MaxRequests

ASSUME SupplyAssumption == Adapter!AdapterAssumption /\ Catalogue!PromotionAssumption

Day(x, y) == 30 :> x @@ 60 :> y

NoDay == Day("", "")

Plain == [open |-> TRUE, mode |-> "duration", plans |-> 30 :> 3 @@ 60 :> 5, tiers |-> <<>>,
          maxGb |-> 0, isps |-> <<>>, durations |-> NoDay, idService |-> "pa", template |-> "",
          source |-> "", sales |-> "all", allowed |-> {}, options |-> {}, valued |-> FALSE]

\* Products by ISP, by duration, by template or by the service; every source of countries; two
\* tables of tiers, one in no order and with a row that does not count, one with two rows that
\* begin at the same GB; one list that validation refuses.
MCServices ==
    {[Plain EXCEPT !.template = "pb"],
     [Plain EXCEPT !.source = "api", !.durations = Day("pa", "pb")],
     [Plain EXCEPT !.source = "api", !.sales = "allowlist", !.allowed = {"us"}, !.template = "pb"],
     [Plain EXCEPT !.source = "inherit", !.isps = "fpt" :> Day("pb", "")],
     [Plain EXCEPT !.source = "manual", !.options = {"us"}, !.valued = TRUE],
     [Plain EXCEPT !.source = "manual", !.options = {"us"}, !.sales = "allowlist", !.allowed = {"de"}],
     [Plain EXCEPT !.source = "none", !.isps = "fpt" :> <<>>],
     [Plain EXCEPT !.mode = "bandwidth", !.maxGb = 6, !.durations = Day("pb", ""),
                   !.tiers = <<<<3, 4, 60>>, <<1, 5, 30>>, <<4, 0, 30>>, <<5, 2, 60>>>>],
     [Plain EXCEPT !.mode = "bandwidth", !.maxGb = 6, !.idService = "pb",
                   !.tiers = <<<<4, 2, 60>>, <<2, 5, 30>>, <<4, 3, 30>>>>]}

MCPartners ==
    {[ready |-> TRUE, source |-> "", options |-> {}],
     [ready |-> TRUE, source |-> "api", options |-> {}],
     [ready |-> FALSE, source |-> "manual", options |-> {"us", "de"}]}

MCCheckouts ==
    {[isp |-> "", country |-> "us", days |-> 30, gb |-> 4],
     [isp |-> "", country |-> "", days |-> 60, gb |-> 9],
     [isp |-> "fpt", country |-> "de", days |-> 30, gb |-> 1]}

Symmetry == Permutations(Buyers)

\* Every adapter; three days a tier can be off, and one by which it is refused.
MCAdapters == {"gpnip", "omoproxy", "proxyseller", "homeproxy", "twoproxy", "proxyvn",
               "proxysieutoc", "proxyv6"}
MCDays  == {30, 60}
MCTiers == {27, 30, 34, 60, 63}

AdapterVars == <<adapter, request, sold, cleared, id, held, op, at, tries, page, left, done,
                 failed, terms, bought, renewed, ready, late, calls, named, seen, served>>

CatalogueVars == <<catalog, given, step, task, requests, granted>>

OneOf(S) == CHOOSE x \in S : TRUE

SupplyInit ==
    /\ acting \in {"checkouts", "calls", "promotions"}
    /\ Init /\ Adapter!Init /\ Catalogue!Init
    /\ acting # "calls" => adapter = "proxyv6" /\ request = OneOf(Adapter!Requests(adapter))
    /\ acting = "calls" /\ adapter = "gpnip" =>     \* the packages vary there
         request.days # 60 /\ (request.country = "us" \/ request.quantity = 1)
    /\ acting # "checkouts" =>
         code = "gpnip" /\ service = OneOf(ServiceConfigs) /\ partner = OneOf(PartnerConfigs)

SupplyNext ==
    /\ UNCHANGED acting
    /\ \/ acting = "checkouts" /\ Next /\ UNCHANGED <<AdapterVars, CatalogueVars>>
       \/ acting = "calls" /\ Adapter!Next /\ UNCHANGED <<vars, CatalogueVars>>
       \/ acting = "promotions" /\ Catalogue!Next /\ UNCHANGED <<vars, AdapterVars>>

Supply == SupplyInit /\ [][SupplyNext]_<<vars, AdapterVars, CatalogueVars, acting>>

\* Promotions: two administrators editing at once never leave two programmes in force at one
\* moment, and neither undoes the edit of the other.
CatalogueHolds == acting = "promotions" => Catalogue!CatalogueHolds

\* ProviderAdapters: every adapter keeps the contract its callers are modelled with: a request
\* that may have arrived is never sent again, and only what the provider did is claimed.
KeepsContract == Adapter!KeepsContract

\* ProviderAdapters: the provider does what the customer paid for, where its template fits.
BilledIsDone == acting = "calls" => Adapter!BilledIsDone

\* ProviderAdapters: what was bought can be fetched, whole.
OrdersReachable == acting = "calls" => Adapter!OrdersReachable
=============================================================================
