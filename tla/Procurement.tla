---------------------------- MODULE Procurement ----------------------------
(***************************************************************************)
(* From the catalogue to the request a provider gets: what a checkout      *)
(* (buy(), buyVoucher(), quote() of src/src/orders/orders.service.ts)      *)
(* reads of a service and its partner, the price, product and country it   *)
(* settles on, the coverage it may have to ask the provider for            *)
(* (src/src/countries/country-policy.service.ts), the snapshot it leaves   *)
(* in the order, and what the worker makes of that snapshot when the       *)
(* administrator has edited, closed or deleted the service meanwhile.      *)
(*                                                                         *)
(* One action is one database read or provider call with what follows it   *)
(* until the next.  Debit and queue are DirectPurchase and VoucherPurchase.*)
(*                                                                         *)
(* Abstractions.  One service and its partner, whose adapter and key do    *)
(* not change.  Names of countries and of ISPs are their codes; a template *)
(* is the package it names, or "" when it names none.  A product that a    *)
(* connector derives from an ISP is called as the ISP.  Options of a       *)
(* manual list all have a provider_value, or none has.                     *)
(***************************************************************************)
EXTENDS Integers, Sequences, FiniteSets, SequencesExt

CONSTANTS
    Countries, Isps, Days,
    Products,                        \* ids of products, ISP names among them
    Codes,                           \* the adapters a partner may have
    ServiceConfigs, PartnerConfigs,  \* what the administrator may save
    Checkouts,                        \* what customers ask for
    Buyers,                          \* checkouts under way at once
    TTL,                             \* ticks coverage is kept
    MaxOrders, MaxEdits              \* bounds

ASSUME ProcurementAssumption ==
    /\ {TTL, MaxOrders, MaxEdits} \subseteq Nat /\ TTL > 0
    /\ IsFiniteSet(Countries) /\ "" \notin Countries \cup Isps \cup Products
    /\ Isps \subseteq Products

\* The documents of services, as saved, and of partners; what a customer may ask for.
Ids == Products \cup {""}

IsService(c) ==
    /\ c \in [open : {TRUE}, mode : {"duration", "bandwidth"}, plans : {c.plans},
              tiers : {c.tiers}, maxGb : Nat, isps : {c.isps},
              durations : [Days -> Ids], idService : Ids, template : Ids,
              source : {"", "inherit", "manual", "api", "none"}, sales : {"all", "allowlist"},
              allowed : SUBSET Countries, options : SUBSET Countries, valued : BOOLEAN]
    /\ DOMAIN c.plans \subseteq Days /\ c.plans \in [DOMAIN c.plans -> Nat]
    /\ c.tiers \in Seq(Nat \X Nat \X Days)
    /\ DOMAIN c.isps \subseteq Isps
    /\ \A i \in DOMAIN c.isps : c.isps[i] = <<>> \/ c.isps[i] \in [Days -> Ids]

Partners == [ready : BOOLEAN, source : {"", "manual", "api", "none"}, options : SUBSET Countries]

Requests == [isp : Isps \cup {""}, country : Countries \cup {""}, days : Nat, gb : Nat]

ASSUME DocumentAssumption ==
    /\ \A c \in ServiceConfigs : IsService(c)
    /\ PartnerConfigs \subseteq Partners /\ Checkouts \subseteq Requests

VARIABLES
    code,             \* partner.code
    service, partner, \* their documents; the service may be deleted
    coverage,         \* at the provider: the countries of each product
    since,            \*   and ticks since each was covered
    cache,            \* answers kept on coverage, with their age
    inflight,         \* questions under way
    pc, job,          \* checkouts
    orders,           \* the orders sold: what was checked, kept, sent
    edits             \* bound

provider == <<coverage, since>>
asked    == <<cache, inflight>>
checkout == <<pc, job>>
vars == <<code, service, partner, provider, asked, checkout, orders, edits>>

None == ""   \* no ISP, no country, no product

(***************************************************************************)
(* The price (resolvePricing, resolveBandwidthTier, quoteBandwidth).       *)
(* A tier is <<least GB, price per GB, days>>, in whole GB, in the order   *)
(* saved; nothing keeps two of them from having the same least GB.         *)
(***************************************************************************)
\* The places of the rows that count.
Tiers(c) == {i \in DOMAIN c.tiers : c.tiers[i][1] > 0 /\ c.tiers[i][2] > 0}

\* They are sorted by their least GB, and stay as saved where that is the same.
Before(c, i, j) ==
    c.tiers[i][1] < c.tiers[j][1] \/ (c.tiers[i][1] = c.tiers[j][1] /\ i < j)

\* The one after it, if there is one.
NextTier(c, i) ==
    {j \in Tiers(c) : Before(c, i, j) /\ \A k \in Tiers(c) : Before(c, i, k) => ~Before(c, k, j)}

\* Mutant: the tier begins above its least GB.
TierAtBeyond(c, gb) ==
    CHOOSE i \in Tiers(c) : /\ c.tiers[i][1] < gb \/ \A j \in Tiers(c) : ~Before(c, j, i)
                            /\ \A j \in Tiers(c) : c.tiers[j][1] < gb => ~Before(c, i, j)

\* The last tier that begins at no more than gb.
TierAt(c, gb) ==
    CHOOSE i \in Tiers(c) : /\ c.tiers[i][1] <= gb
                            /\ \A j \in Tiers(c) : c.tiers[j][1] <= gb => ~Before(c, i, j)

TierOf(c, gb) == c.tiers[TierAt(c, gb)]

MinGb(c) == Min({c.tiers[i][1] : i \in Tiers(c)})

\* What is bought lasts as long as the tier, or as the customer says.
DaysOf(c, r) == IF c.mode = "bandwidth" THEN TierOf(c, r.gb)[3] ELSE r.days

CanSellGb(c, gb) == c.mode = "bandwidth" /\ Tiers(c) # {} /\ gb >= MinGb(c) /\ gb <= c.maxGb

\* What gb cost a customer with the discount d per GB.
TierPrice(c, gb, d) == gb * (TierOf(c, gb)[2] - Min({TierOf(c, gb)[2], d}))

\* What a unit for a plan costs a customer with the discount d.
PlanPrice(price, d) == price - Min({price, d})

\* What the list of services shows for it.
ListedPrice(price, d) == Max({0, price - d})

\* The rows quoteBandwidth() displays: from, to (none: and more), price, in force.
QuoteRows(c, gb) ==
    [i \in Tiers(c) |-> [from |-> c.tiers[i][1], to |-> {c.tiers[j][1] - 1 : j \in NextTier(c, i)},
                         price |-> c.tiers[i][2], active |-> c.tiers[i][1] = TierOf(c, gb)[1]]]

\* The hint of the tier after the first that begins where the tier in force does, if it can be
\* bought: its least GB and what they cost there.
QuoteHints(c, gb) ==
    LET same == {i \in Tiers(c) : c.tiers[i][1] = TierOf(c, gb)[1]}
    IN  {[from |-> c.tiers[j][1], total |-> c.tiers[j][1] * c.tiers[j][2]] :
            j \in {j \in Tiers(c) : /\ c.tiers[j][1] <= c.maxGb
                                    /\ \E i \in same : /\ \A k \in same : i <= k
                                                       /\ j \in NextTier(c, i)}}

\* resolvePricing() finds a plan.
Priced(c, r) == IF c.mode = "bandwidth" THEN CanSellGb(c, r.gb) ELSE r.days \in DOMAIN c.plans

(***************************************************************************)
(* The product (resolveProduct).                                           *)
(***************************************************************************)
ByIsp == {"proxyvn", "twoproxy"}

\* Connectors that make products of ISPs when none is configured.
DerivesProduct == ByIsp \cup {"homeproxy"}

Choice(c, isp) ==
    CASE isp \in DOMAIN c.isps -> isp
      [] isp = None /\ Cardinality(DOMAIN c.isps) = 1 -> CHOOSE i \in DOMAIN c.isps : TRUE
      [] OTHER -> None

Mapped(c, isp) == Choice(c, isp) # None /\ c.isps[Choice(c, isp)] # <<>>

IsConfigured(c, r) == Mapped(c, r.isp) \/ c.durations[DaysOf(c, r)] # None

IspOf(c, r) == IF Choice(c, r.isp) # None THEN Choice(c, r.isp) ELSE r.isp

ResolveProduct(c, r) ==
    IF Mapped(c, r.isp) THEN c.isps[Choice(c, r.isp)][DaysOf(c, r)]
    ELSE IF c.durations[DaysOf(c, r)] # None THEN c.durations[DaysOf(c, r)]
    ELSE IF code \in ByIsp \/ (code = "homeproxy" /\ IspOf(c, r) # None) THEN IspOf(c, r)
    ELSE IF code = "gpnip" /\ c.template # None THEN c.template
    ELSE c.idService

Resolves(c, r) ==
    /\ DOMAIN c.isps # {} => Choice(c, r.isp) # None
    /\ Mapped(c, r.isp) => ResolveProduct(c, r) # None

\* Mutant: coverage is asked of the service's own package.
PackageIdOfService(c, r) == c.idService

\* The package whose coverage counts (CountryPolicyService.packageId).
PackageId(c, r) == ResolveProduct(c, r)

(***************************************************************************)
(* The country (CountryPolicyService.resolve, select).                     *)
(***************************************************************************)
Selectable == {"gpnip", "proxyseller", "proxyv6"}

Source(c, p) ==
    CASE c.source = None -> "legacy"
      [] c.source = "inherit" -> IF p.source = None THEN "legacy" ELSE p.source
      [] OTHER -> c.source

\* A list of options can be made at all.
CanList(c, p, r) ==
    CASE Source(c, p) = "manual" -> code \in Selectable
      [] Source(c, p) = "api" -> code = "gpnip" /\ PackageId(c, r) # None
      [] OTHER -> TRUE

Manual(c, p) == IF c.source = "inherit" THEN p.options ELSE c.options

OnSale(c, options) == IF c.sales = "allowlist" THEN options \cap c.allowed ELSE options

Pick(options, country) ==
    CASE country \in options -> country
      [] country = None /\ Cardinality(options) = 1 -> CHOOSE o \in options : TRUE
      [] OTHER -> None

\* select() refuses.
Refused(c, p, r, options) ==
    CASE Source(c, p) = "legacy" -> FALSE
      [] Source(c, p) = "none" -> r.country # None \/ code = "proxyseller"
      [] OTHER -> \/ Pick(OnSale(c, options), r.country) = None
                  \/ code = "proxyseller" /\ ~c.valued

(***************************************************************************)
(* What a checkout keeps, and what it and the worker ask the provider for. *)
(***************************************************************************)
HasPolicy(c, p) == Source(c, p) # "legacy"

\* A package of the policy is a product of its own, unless the connector derives products.
Adopts(c, p, r) ==
    /\ ~IsConfigured(c, r) /\ HasPolicy(c, p) /\ PackageId(c, r) # None
    /\ code \notin DerivesProduct

\* countryProviderParams, productProviderParams
BuyParams(c, p, r, options) ==
    [product    |-> ResolveProduct(c, r),
     configured |-> IF Adopts(c, p, r) THEN code = "gpnip" ELSE IsConfigured(c, r),
     isp        |-> IspOf(c, r),
     policy     |-> HasPolicy(c, p),
     country    |-> IF Source(c, p) \in {"manual", "api"}
                    THEN Pick(OnSale(c, options), r.country) ELSE None,
     template   |-> c.template]

Deleted == [open |-> FALSE, template |-> None, idService |-> None]

\* Mutant: the worker takes product and template from the service as it is by now.
WorkerParamsLive(o, s) == [o.kept EXCEPT !.template = s.template, !.product = s.idService]

\* Only GPNIP's template is kept in the order.
WorkerParams(o, s) == IF code = "gpnip" THEN o.kept ELSE [o.kept EXCEPT !.template = s.template]

\* The id later calls about the order give (deriveIdService).
DeriveIdService(o, s) == o.kept.product

\* The package GPNIP sells for such parameters.
PackageSold(q) ==
    IF code = "gpnip" /\ ~q.configured /\ q.template # None THEN q.template ELSE q.product

(***************************************************************************)
(* State.                                                                  *)
(***************************************************************************)
NoJob == [request |-> <<>>, service |-> <<>>, partner |-> <<>>, params |-> <<>>]

Sent == [product : Products \cup {None}, configured : BOOLEAN, isp : Isps \cup {None},
         policy : BOOLEAN, country : Countries \cup {None}, template : Products \cup {None}]

TypeOK ==
    /\ code \in Codes
    /\ service = Deleted \/ [service EXCEPT !.open = TRUE] \in ServiceConfigs
    /\ partner \in PartnerConfigs
    /\ coverage \in [Products -> SUBSET Countries]
    /\ since \in [Products -> [Countries -> 0..TTL]]
    /\ \A k \in DOMAIN cache : cache[k].age \in 0..TTL /\ cache[k].options \subseteq Countries
    /\ inflight \subseteq Products
    /\ pc \in [Buyers -> {"idle", "partner", "select", "coverage", "check"}]
    /\ \A b \in Buyers : pc[b] = "check" => job[b].params \in Sent
    /\ \A i \in 1..Len(orders) :
        /\ orders[i].kept \in Sent
        /\ orders[i].kept.configured => orders[i].kept.product # None
    /\ Len(orders) <= MaxOrders /\ edits \in 0..MaxEdits

Init ==
    /\ code \in Codes
    /\ service \in ServiceConfigs /\ partner \in PartnerConfigs
    /\ coverage \in [Products -> {Countries}]
    /\ since = [k \in Products |-> [n \in Countries |-> 0]]
    /\ cache = <<>> /\ inflight = {}
    /\ pc = [b \in Buyers |-> "idle"] /\ job = [b \in Buyers |-> NoJob]
    /\ orders = <<>> /\ edits = 0

(***************************************************************************)
(* A checkout.                                                             *)
(***************************************************************************)
Give(b) == pc' = [pc EXCEPT ![b] = "idle"] /\ job' = [job EXCEPT ![b] = NoJob]

\* The service is read; price, product and country follow this reading.
ReadService(b, r) ==
    /\ pc[b] = "idle" /\ Len(orders) < MaxOrders
    /\ service.open /\ Priced(service, r)
    /\ pc' = [pc EXCEPT ![b] = "partner"]
    /\ job' = [job EXCEPT ![b] = [NoJob EXCEPT !.request = r, !.service = service]]
    /\ UNCHANGED <<code, service, partner, provider, asked, orders, edits>>

\* The partner is read, and the product resolved; either may refuse.
ReadPartner(b) ==
    /\ pc[b] = "partner"
    /\ IF partner.ready /\ Resolves(job[b].service, job[b].request)
       THEN /\ pc' = [pc EXCEPT ![b] = "select"]
            /\ job' = [job EXCEPT ![b].partner = partner]
       ELSE Give(b)
    /\ UNCHANGED <<code, service, partner, provider, asked, orders, edits>>

Settles(j, options) == ~Refused(j.service, j.partner, j.request, options)

\* The checkouts in B have their options: each goes on to the preflight, or ends.
Settle(B, options) ==
    /\ pc' = [b \in Buyers |-> IF b \notin B THEN pc[b]
                               ELSE IF Settles(job[b], options) THEN "check" ELSE "idle"]
    /\ job' = [b \in Buyers |->
                IF b \notin B THEN job[b]
                ELSE IF ~Settles(job[b], options) THEN NoJob
                ELSE [job[b] EXCEPT !.params = BuyParams(job[b].service, job[b].partner,
                                                         job[b].request, options)]]

NeedsCoverage(j) == Source(j.service, j.partner) = "api" /\ CanList(j.service, j.partner, j.request)

Package(j) == PackageId(j.service, j.request)

IsKept(k) == k \in DOMAIN cache /\ cache[k].age < TTL

SelectNow(b) ==
    /\ pc[b] = "select" /\ ~NeedsCoverage(job[b])
    /\ IF CanList(job[b].service, job[b].partner, job[b].request)
       THEN Settle({b}, Manual(job[b].service, job[b].partner))
       ELSE Give(b)
    /\ UNCHANGED <<code, service, partner, provider, asked, orders, edits>>

SelectKept(b) ==
    /\ pc[b] = "select" /\ NeedsCoverage(job[b]) /\ IsKept(Package(job[b]))
    /\ Settle({b}, cache[Package(job[b])].options)
    /\ UNCHANGED <<code, service, partner, provider, asked, orders, edits>>

\* The provider is asked; checkouts of the same package wait for the same answer.
SelectAsks(b) ==
    /\ pc[b] = "select" /\ NeedsCoverage(job[b]) /\ ~IsKept(Package(job[b]))
    /\ inflight' = inflight \cup {Package(job[b])}
    /\ pc' = [pc EXCEPT ![b] = "coverage"]
    /\ UNCHANGED <<code, service, partner, provider, cache, job, orders, edits>>

Waiting(k) == {b \in Buyers : pc[b] = "coverage" /\ Package(job[b]) = k}

CoverageAnswers(k) ==
    /\ k \in inflight
    /\ inflight' = inflight \ {k}
    /\ cache' = [x \in DOMAIN cache \cup {k} |->
                    IF x = k THEN [options |-> coverage[k], age |-> 0] ELSE cache[x]]
    /\ Settle(Waiting(k), coverage[k])
    /\ UNCHANGED <<code, service, partner, provider, orders, edits>>

CoverageFails(k) ==
    /\ k \in inflight
    /\ inflight' = inflight \ {k}
    /\ pc' = [b \in Buyers |-> IF b \in Waiting(k) THEN "idle" ELSE pc[b]]
    /\ job' = [b \in Buyers |-> IF b \in Waiting(k) THEN NoJob ELSE job[b]]
    /\ UNCHANGED <<code, service, partner, provider, cache, orders, edits>>

\* validateBuy() and preflightBuy() passed, the debit too: the order is stored.
Sell(b) ==
    /\ pc[b] = "check" /\ Len(orders) < MaxOrders
    /\ orders' = Append(orders, [kept |-> job[b].params, sent |-> <<>>, later |-> <<>>])
    /\ Give(b)
    /\ UNCHANGED <<code, service, partner, provider, asked, edits>>

\* They refused, or the customer only asked for a quote.
Refuse(b) ==
    /\ pc[b] = "check"
    /\ Give(b)
    /\ UNCHANGED <<code, service, partner, provider, asked, orders, edits>>

(***************************************************************************)
(* The worker, and later calls about an order.                             *)
(***************************************************************************)
Dispatch(i) ==
    /\ orders[i].sent = <<>> /\ partner.ready
    /\ orders' = [orders EXCEPT ![i].sent = <<WorkerParams(orders[i], service)>>]
    /\ UNCHANGED <<code, service, partner, provider, asked, checkout, edits>>

\* A top-up, or proxies read again.
FollowUp(i) ==
    /\ orders[i].sent # <<>> /\ orders[i].later = <<>>
    /\ orders' = [orders EXCEPT ![i].later = <<DeriveIdService(orders[i], service)>>]
    /\ UNCHANGED <<code, service, partner, provider, asked, checkout, edits>>

(***************************************************************************)
(* The administrator, the provider, time, and a restart of the process.    *)
(***************************************************************************)
Edit == edits < MaxEdits /\ edits' = edits + 1

\* validateCountryConfig
ValidCountries(c) ==
    /\ c.source = "manual" => c.options # {}
    /\ c.source = "manual" /\ c.sales = "allowlist" => c.allowed \subseteq c.options

\* validateProductMapping: ids are not empty where they are stated.
ValidProducts(c) ==
    \A i \in DOMAIN c.isps : c.isps[i] # <<>> => \E d \in Days : c.isps[i][d] # None

UpdateService(c) ==
    /\ Edit /\ service # Deleted /\ c # service /\ ValidCountries(c) /\ ValidProducts(c)
    /\ service' = c
    /\ UNCHANGED <<code, partner, provider, asked, checkout, orders>>

ToggleStatus ==
    /\ Edit /\ service # Deleted
    /\ service' = [service EXCEPT !.open = ~@]
    /\ UNCHANGED <<code, partner, provider, asked, checkout, orders>>

DeleteService ==
    /\ Edit /\ service # Deleted
    /\ service' = Deleted
    /\ UNCHANGED <<code, partner, provider, asked, checkout, orders>>

UpdatePartner(p) ==
    /\ Edit /\ p # partner
    /\ partner' = p
    /\ UNCHANGED <<code, service, provider, asked, checkout, orders>>

\* External: the provider covers other countries with a package.
ChangeCoverage(k, S) ==
    /\ Edit /\ S # coverage[k]
    /\ coverage' = [coverage EXCEPT ![k] = S]
    /\ since' = [since EXCEPT ![k] = [n \in Countries |-> IF n \in S THEN 0 ELSE @[n]]]
    /\ UNCHANGED <<code, service, partner, asked, checkout, orders>>

Capped(n) == Min({n + 1, TTL})

Tick ==
    /\ since' = [k \in Products |-> [n \in Countries |->
                    IF n \in coverage[k] THEN 0 ELSE Capped(since[k][n])]]
    /\ cache' = [k \in DOMAIN cache |-> [cache[k] EXCEPT !.age = Capped(@)]]
    /\ <<since, cache>>' # <<since, cache>>
    /\ UNCHANGED <<code, service, partner, coverage, inflight, checkout, orders, edits>>

\* Checkouts end with the process, before they have taken any money.
Restart ==
    /\ Edit
    /\ cache' = <<>> /\ inflight' = {}
    /\ pc' = [b \in Buyers |-> "idle"] /\ job' = [b \in Buyers |-> NoJob]
    /\ UNCHANGED <<code, service, partner, provider, orders>>

Next ==
    \/ \E b \in Buyers :
        \/ \E r \in Checkouts : ReadService(b, r)
        \/ ReadPartner(b) \/ SelectNow(b) \/ SelectKept(b) \/ SelectAsks(b)
        \/ Sell(b) \/ Refuse(b)
    \/ \E k \in Products : CoverageAnswers(k) \/ CoverageFails(k)
    \/ \E i \in 1..Len(orders) : Dispatch(i) \/ FollowUp(i)
    \/ \E c \in ServiceConfigs : UpdateService(c)
    \/ \E p \in PartnerConfigs : UpdatePartner(p)
    \/ \E k \in Products, S \in SUBSET Countries : ChangeCoverage(k, S)
    \/ ToggleStatus \/ DeleteService \/ Tick \/ Restart

Spec == Init /\ [][Next]_vars

(***************************************************************************)
(* Properties.                                                             *)
(***************************************************************************)
\* What the worker buys is what the checkout had checked, whatever the administrator did to
\* the service in between; only the template of other adapters than GPNIP's is read live.
\* Later calls name the product that was bought.
CheckedIsBought ==
    /\ TypeOK
    /\ \A i \in 1..Len(orders) : LET o == orders[i] IN
           /\ o.sent # <<>> =>
                /\ [o.sent[1] EXCEPT !.template = None] = [o.kept EXCEPT !.template = None]
                /\ code = "gpnip" => o.sent[1] = o.kept
           /\ o.later # <<>> => o.later[1] = o.kept.product

\* A country settled on from the provider's own list was covered by the package that will be
\* bought, less than TTL ago, and is on sale by the service the checkout read.
CountryIsCovered ==
    [][\A b \in Buyers :
        /\ pc[b] # "check" /\ pc'[b] = "check" /\ Source(job[b].service, job[b].partner) = "api"
        => LET q == job'[b].params IN
            /\ since[PackageSold(q)][q.country] < TTL
            /\ job[b].service.sales = "allowlist" => q.country \in job[b].service.allowed]_vars

\* No two tiers begin at the same GB.
Distinct(c) == \A i, j \in Tiers(c) : i # j => c.tiers[i][1] # c.tiers[j][1]

\* A customer pays what the list shows, and what a quote says of each number of gigabytes is
\* what that number costs, whatever the table holds and in whatever order it was saved: one row
\* holds it, a row in force.  The hint is the price there, if no two tiers begin at the same GB
\* (where two do, the last is sold and the hint names the other).
QuotedAsSold ==
    service # Deleted =>
        /\ \A k \in DOMAIN service.plans, d \in 0..6 :
              ListedPrice(service.plans[k], d) = PlanPrice(service.plans[k], d)
        /\ \A gb \in {gb \in 1..service.maxGb : CanSellGb(service, gb)} :
              LET rows == QuoteRows(service, gb)
                  holds == {i \in DOMAIN rows : /\ rows[i].from <= gb
                                                /\ \A last \in rows[i].to : gb <= last}
              IN  /\ Cardinality(holds) = 1
                  /\ \A i \in holds :
                        rows[i].active /\ TierPrice(service, gb, 0) = gb * rows[i].price
                  /\ Distinct(service) =>
                        \A h \in QuoteHints(service, gb) :
                            TierPrice(service, h.from, 0) = h.total
=============================================================================
