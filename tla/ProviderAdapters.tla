-------------------------- MODULE ProviderAdapters --------------------------
(***************************************************************************)
(* The eight adapters under src/src/proxy-providers/impl: what each sends  *)
(* its provider for one order, in how many HTTP requests, what it makes of *)
(* the answers, and what is left at the provider when a request or its     *)
(* answer is lost or late.  One action is one request with its answer, and *)
(* what the adapter does until the next request.                           *)
(*                                                                         *)
(* The session is that of one order: preflight, purchase, listing of its   *)
(* proxies, renewal, more gigabytes, edits, readings, in any order that    *)
(* callers may choose; callers are modelled in OrderLifecycle, Renewal and *)
(* SelfService, which take ProviderContract as given.                      *)
(*                                                                         *)
(* Abstractions.  A template (service.body_api) is the set of the fields   *)
(* it fills in, all with the value Stale, or "junk" when it cannot be      *)
(* parsed.  Proxies are numbered as the provider lists them.  Package IDs, *)
(* credentials, hosts, ports, protocols and prices are left out, and so is *)
(* a serviceOptions object written in the template itself.                 *)
(***************************************************************************)
EXTENDS Integers, Sequences, FiniteSets, FiniteSetsExt

CONSTANTS
    Adapters,             \* codes under which adapters are registered
    MaxQuantity,          \* proxies of an order
    Days,                 \* days sold, renewed, or served
    TierDays,             \* days a tier of OmoProxy may turn out to be
    Gigabytes,            \* what a bandwidth order sells
    PageSize, MaxPages,   \* of HomeProxy's listing
    MaxCalls              \* bound on the calls that cost money

\* The adapters of the registry.
Registered == {"gpnip", "omoproxy", "proxyseller", "homeproxy", "twoproxy", "proxyvn",
               "proxysieutoc", "proxyv6"}

\* What the instances assume of the constants.
AdapterAssumption ==
    /\ Adapters \subseteq Registered
    /\ {MaxQuantity, Gigabytes, PageSize, MaxPages, MaxCalls} \subseteq Nat \ {0}
    /\ Days \cup TierDays \subseteq Nat \ {0} /\ IsFiniteSet(Days)
    /\ MaxQuantity <= PageSize * MaxPages

VARIABLES
    adapter, request,   \* the partner's adapter, the order as billed
    sold,               \* the package at the provider (GPNIP)
    cleared,            \* preflightBuy() passed
    id,                 \* provider_order_id: "none", "usable" or "unusable" in a path
    held,               \* proxies the shop stored
    op, at,             \* call under way, request it waits for
    tries, page,        \* attempts at that request, page of the listing
    left, done, failed, \* a renewal proxy by proxy
    terms,              \* days asked of a renewal, days it is worth
    bought, renewed,    \* at the provider: orders placed, renewals carried out
    ready,              \*   proxies of the order it lists by now
    late,               \* requests given up that the provider may still get
    calls,              \* history: the calls that may cost money
    named,              \* history: an answer to a purchase named a usable id
    seen, served        \* history: proxies listed when the last listing began, by it

session == <<adapter, request, sold>>
order   == <<cleared, id, held>>
progress == <<tries, page, left, done, failed, terms>>
call    == <<op, at, progress>>
remote  == <<bought, renewed, ready>>
history == <<named, seen, served>>
vars == <<session, order, call, remote, late, calls, history>>

Units == 0..MaxQuantity   \* the order as a whole, and each proxy
Stale == 7
Anywhere == "any"            \* no country asked for

(***************************************************************************)
(* Capabilities.                                                           *)
(***************************************************************************)
Extends == {"gpnip", "omoproxy"}

Readings == [a \in Adapters |->
    CASE a = "gpnip" -> {"account", "packages", "orders", "usage", "geo", "coverage"}
      [] a = "omoproxy" -> {"account", "usage"}
      [] a = "homeproxy" -> {"account"}
      [] OTHER -> {}]

\* Adapters that answer a purchase with its proxies.
Immediate == {"proxyvn", "proxysieutoc", "proxyv6"}

\* Adapters that renew an order, not its proxies one by one.
WholeOrder == {"gpnip", "omoproxy", "proxyv6"}

\* Mutant: GPNIP sends every request again.
RetriesAll(step) == IF adapter = "gpnip" THEN 2 ELSE 0

\* Requests GPNIP sends again when nothing came back: readings only.
Retries(step) == IF adapter = "gpnip" /\ step \in {"package", "stock", "price", "account", "packages"}
                 THEN 2 ELSE 0

(***************************************************************************)
(* GPNIP's body for a purchase, from the billed order and the template.    *)
(***************************************************************************)
IsStatic(r) == "period" \in r.template

BodyAccepted(r) ==
    /\ "junk" \notin r.template
    /\ "gb" \in r.template => r.mode = "bandwidth"
    /\ IsStatic(r) => r.days >= 1

Country(r) ==
    IF r.configured \/ "country" \notin r.template THEN r.country ELSE Anywhere

\* Fields beside the package ID; a static package's are nested in serviceOptions.
Body(r) ==
    LET fields == {f \in {"ips", "period", "country", "gb", "duration"} :
            CASE f = "ips" -> f \in r.template
              [] f = "period" -> IsStatic(r)
              [] f = "country" -> Country(r) # Anywhere
              [] f = "gb" -> r.mode = "bandwidth"
              [] f = "duration" -> ~IsStatic(r) /\ r.days > 0}
        value == [ips |-> r.quantity, period |-> r.days, country |-> Country(r),
                  gb |-> r.gb, duration |-> r.days]
        nested == IF IsStatic(r) THEN {"ips", "period", "country"} ELSE {}
    IN  [top     |-> [f \in fields \ nested |-> value[f]],
         options |-> [f \in fields \cap nested |-> value[f]]]

Has(f, name) == name \in DOMAIN f

Field(f, name, default) == IF Has(f, name) THEN f[name] ELSE default

\* Mutant: the figures of a static package are not compared with the order.
PackageFitsByMode(p, r, body) ==
    /\ p.static => r.mode # "bandwidth" /\ Has(body.options, "period")
    /\ (p.mode = "tiered_per_gb") = (r.mode = "bandwidth")
    /\ p.mode = "per_ip" => Has(body.top, "ips")

\* What the adapter compares with the provider's package before the wallet is debited.
PackageFits(p, r, body) ==
    /\ p.static =>
         /\ r.mode # "bandwidth"
         /\ Field(body.options, "ips", 0) = r.quantity
         /\ Field(body.options, "period", 0) = r.days
         /\ p.listed => body.options.period \in p.periods
    /\ p.mode \in {"tiered_per_gb", "per_ip", "time", "fixed"}
    /\ (p.mode = "tiered_per_gb") = (r.mode = "bandwidth")
    /\ p.mode = "fixed" => p.days = r.days
    /\ p.mode = "per_ip" => Has(body.top, "ips")
    /\ ~p.static /\ p.mode # "per_ip" => r.quantity = 1

\* External: what the provider delivers for a body.  A period it does not sell becomes 30 days;
\* days that are not asked for, 0, are left to it.
Delivers(p, body) ==
    [quantity |-> CASE p.static -> Field(body.options, "ips", 1)
                    [] p.mode = "per_ip" -> Field(body.top, "ips", 1)
                    [] OTHER -> 1,
     days     |-> CASE p.static -> IF Field(body.options, "period", 0) \in p.periods
                                   THEN body.options.period ELSE 30
                    [] p.mode = "fixed" -> p.days
                    [] OTHER -> Field(body.top, "duration", 0),
     gb       |-> IF p.mode = "tiered_per_gb" THEN Field(body.top, "gb", 0) ELSE 0,
     country  |-> Field(IF p.static THEN body.options ELSE body.top, "country", Anywhere)]

\* A static package is quoted for what it delivers: the catalogue's row must agree.
QuoteFits(p, body) ==
    p.static => /\ body.options.period \in p.periods
                /\ Delivers(p, body).days = body.options.period

(***************************************************************************)
(* The other adapters' purchases.                                          *)
(***************************************************************************)
\* ProxySeller's periods, for the days it knows.
Periods == {1, 7, 14, 30, 60, 90, 180, 365}

OmoproxyAccepts(r) == r.template # {} /\ "junk" \notin r.template

\* A template that cannot be parsed is ignored.
ProxysellerAccepts(r) ==
    /\ IF r.configured THEN r.country # Anywhere ELSE "countryId" \in r.template
    /\ "periodId" \in r.template \/ r.days \in Periods

ProxysieutocAccepts(r) == r.mapped \/ "id_product" \in r.template

ProxyV6Accepts(r) == ~r.mapped

Accepted(r) ==
    CASE adapter = "gpnip" -> BodyAccepted(r)
      [] adapter = "omoproxy" -> OmoproxyAccepts(r)
      [] adapter = "proxyseller" -> ProxysellerAccepts(r)
      [] adapter = "proxysieutoc" -> ProxysieutocAccepts(r)
      [] adapter = "proxyv6" -> ProxyV6Accepts(r)
      [] OTHER -> TRUE

Billed(r) == [quantity |-> r.quantity, days |-> r.days, gb |-> 0, country |-> Anywhere]

OmoproxyAsks(r) == [Billed(r) EXCEPT !.days = Stale, !.quantity = 1]

ProxysellerAsks(r) ==
    [Billed(r) EXCEPT !.days = IF "periodId" \in r.template THEN Stale ELSE @,
                      !.country = IF r.configured THEN r.country ELSE @]

ProxysieutocAsks(r) == [Billed(r) EXCEPT !.days = Stale]

ProxyV6Asks(r) == [Billed(r) EXCEPT !.country = r.country]

HomeproxyAsks(r) == Billed(r)

TwoProxyAsks(r) == Billed(r)

ProxyvnAsks(r) == Billed(r)

\* What the purchase asks the provider for.
Asks(r) ==
    CASE adapter = "gpnip" -> Delivers(sold, Body(r))
      [] adapter = "omoproxy" -> OmoproxyAsks(r)
      [] adapter = "proxyseller" -> ProxysellerAsks(r)
      [] adapter = "proxysieutoc" -> ProxysieutocAsks(r)
      [] adapter = "proxyv6" -> ProxyV6Asks(r)
      [] adapter = "homeproxy" -> HomeproxyAsks(r)
      [] adapter = "twoproxy" -> TwoProxyAsks(r)
      [] adapter = "proxyvn" -> ProxyvnAsks(r)

Templates == [a \in Adapters |->
    CASE a = "gpnip" -> (SUBSET {"ips", "gb", "period", "country"}) \cup {{"junk"}}
      [] a = "omoproxy" -> {{}, {"gb"}, {"junk"}}
      [] a = "proxyseller" -> (SUBSET {"countryId", "periodId"}) \cup {{"junk"}}
      [] a = "proxysieutoc" -> {{}, {"id_product"}}
      [] OTHER -> {{}}]

\* Orders as resolvePricing() bills them, with whatever template the administrator wrote.
Requests(a) ==
    {r \in [mode : {"duration", "bandwidth"}, quantity : 1..MaxQuantity, days : Days \cup {0},
            gb : {0, Gigabytes}, template : Templates[a], mapped : BOOLEAN,
            configured : BOOLEAN, country : {Anywhere, "us"}] :
        /\ IF r.mode = "bandwidth"
           THEN a = "gpnip" /\ r.quantity = 1 /\ r.gb = Gigabytes
           ELSE r.days # 0 /\ r.gb = 0
        /\ r.mapped => a \in {"proxysieutoc", "proxyv6"}
        /\ r.configured \/ r.country = "us" => a \in {"gpnip", "proxyseller", "proxyv6"}}

NoTerms == [asked |-> 0, days |-> 0]

NoPackage == [mode |-> "none", static |-> FALSE, days |-> 0, periods |-> {}, listed |-> FALSE]

Packages ==
    {[NoPackage EXCEPT !.mode = m] : m \in {"tiered_per_gb", "per_ip", "time", "other"}}
    \cup {[NoPackage EXCEPT !.mode = "fixed", !.days = d] : d \in Days}
    \cup [mode : {"time"}, static : {TRUE}, days : {0}, periods : (SUBSET Days) \ {{}},
          listed : BOOLEAN]

Statics == [mode : {"none", "tiered_per_gb", "per_ip", "time", "other", "fixed"},
            static : BOOLEAN, days : Days \cup {0}, periods : SUBSET Days, listed : BOOLEAN]

TypeOK ==
    /\ adapter \in Adapters /\ sold \in Statics /\ request \in Requests(adapter)
    /\ cleared \in BOOLEAN /\ named \in BOOLEAN /\ failed \in BOOLEAN
    /\ id \in {"none", "usable", "unusable"}
    /\ {held, ready, seen, served} \subseteq 0..MaxQuantity
    /\ tries \in 0..2 /\ page \in 1..MaxPages
    /\ {left, done} \subseteq SUBSET Units
    /\ Len(calls) <= MaxCalls
    /\ \A l \in late : l.call \in 1..Len(calls) /\ l.units \subseteq Units

Idle == op = "none"

Init ==
    /\ adapter \in Adapters
    /\ sold \in IF adapter = "gpnip" THEN Packages ELSE {NoPackage}
    /\ request \in Requests(adapter)
    /\ cleared = FALSE /\ id = "none" /\ held = 0
    /\ op = "none" /\ at = "none" /\ tries = 0 /\ page = 1
    /\ left = {} /\ done = {} /\ failed = FALSE /\ terms = NoTerms
    /\ bought = <<>> /\ renewed = {} /\ ready = 0
    /\ late = {} /\ calls = <<>>
    /\ named = FALSE /\ seen = 0 /\ served = 0

(***************************************************************************)
(* Calls: how they begin and end.                                          *)
(***************************************************************************)
Paid == {"buy", "renew", "extend", "edit"}

Begin(o, step) ==
    /\ Idle
    /\ o \in Paid => Len(calls) < MaxCalls
    /\ op' = o /\ at' = step
    /\ calls' = IF o \in Paid
                THEN Append(calls, [state |-> "open", spent |-> [u \in Units |-> 0], claimed |-> {}])
                ELSE calls

\* calls with units U charged once more to call i.
Charged(l, i, U) ==
    [l EXCEPT ![i].spent = [u \in Units |-> IF u \in U THEN @[u] + 1 ELSE @[u]]]

\* l, with the call under way over.
Over(l, state, claimed) ==
    IF op \in Paid
    THEN [l EXCEPT ![Len(l)].state = state, ![Len(l)].claimed = claimed]
    ELSE l

Rest == op' = "none" /\ at' = "none" /\ tries' = 0 /\ page' = 1 /\ left' = {} /\ done' = {}
        /\ failed' = FALSE /\ terms' = NoTerms

Returns(claimed) == Rest /\ calls' = Over(calls, "returned", claimed)

Throws == Rest /\ calls' = Over(calls, "threw", {})

GoOn(step) == at' = step /\ tries' = 0 /\ UNCHANGED <<op, page, left, done, failed, terms, calls>>

(***************************************************************************)
(* What one request that costs money does when the provider gets it.       *)
(***************************************************************************)
Request(U) == [call |-> Len(calls), op |-> op, units |-> U, terms |-> terms]

\* Units of the one request that a purchase, an extension, an edit or a renewal makes.
Whole == IF op = "renew" /\ adapter \notin WholeOrder THEN 1..held ELSE {0}

Effect(w) ==
    /\ bought' = IF w.op = "buy" THEN Append(bought, Asks(request)) ELSE bought
    /\ renewed' = IF w.op = "renew" THEN renewed \cup {w.terms} ELSE renewed

NoEffect == UNCHANGED <<bought, renewed>>

\* A request given up reaches its provider after all, or never does.
Arrive(w) ==
    /\ Effect(w)
    /\ calls' = Charged(calls, w.call, w.units)
    /\ late' = late \ {w}
    /\ UNCHANGED <<session, order, call, ready, history>>

Vanish(w) ==
    /\ late' = late \ {w}
    /\ UNCHANGED <<session, order, call, remote, calls, history>>

\* The provider makes another proxy of the order available.
Provision ==
    /\ id # "none" /\ ready < request.quantity
    /\ ready' = ready + 1
    /\ UNCHANGED <<session, order, call, bought, renewed, late, calls, history>>

(***************************************************************************)
(* Preflight and purchase.                                                 *)
(***************************************************************************)
Preflight ==
    /\ adapter = "gpnip" /\ ~cleared /\ BodyAccepted(request)
    /\ Begin("preflight", "package")
    /\ UNCHANGED <<session, order, progress, remote, late, history>>

AnswerPackage ==
    /\ at = "package"
    /\ IF PackageFits(sold, request, Body(request)) THEN GoOn("stock") ELSE Throws
    /\ UNCHANGED <<session, order, remote, late, history>>

AnswerStock(healthy) ==
    /\ at = "stock"
    /\ IF healthy THEN GoOn("price") ELSE Throws
    /\ UNCHANGED <<session, order, remote, late, history>>

\* `fair`: the price is a number, and the catalogue's when it is looked up there.
AnswerPrice(fair) ==
    /\ at = "price"
    /\ cleared' = (fair /\ QuoteFits(sold, Body(request)))
    /\ Rest
    /\ UNCHANGED <<session, id, held, calls, remote, late, history>>

\* The order is placed once its preflight passed.
Buy ==
    /\ id = "none" /\ Accepted(request)
    /\ adapter = "gpnip" => cleared
    /\ Begin("buy", "order")
    /\ UNCHANGED <<session, order, progress, remote, late, history>>

\* The ids an answer may hold, in the order the adapter reads them.
Answers == {<<>>, <<"usable">>} \cup
    IF adapter = "gpnip" THEN {<<"unusable">>, <<"unusable", "usable">>} ELSE {}

\* Mutant: GPNIP reads the first id there is.
PickOrderIdFirst(ids) == IF ids = <<>> THEN "none" ELSE ids[1]

\* GPNIP reads the first id it can use in a path, or else the first.
PickOrderId(ids) ==
    IF adapter = "proxyvn" THEN "usable"   \* ProxyVN has no order ids: '' is stored
    ELSE IF ids = <<>> THEN IF adapter = "proxyv6" THEN "unusable" ELSE "none"
    ELSE IF "usable" \in {ids[i] : i \in 1..Len(ids)} THEN "usable" ELSE ids[1]

AnswerOrder(ids) ==
    /\ at = "order"
    /\ Effect(Request({0}))
    /\ id' = PickOrderId(ids)
    /\ named' = (\E i \in 1..Len(ids) : ids[i] = "usable")
    /\ ready' = IF adapter \in Immediate /\ id' # "none" THEN request.quantity ELSE 0
    /\ held' = ready'
    /\ LET charged == Charged(calls, Len(calls), {0})
       IN  IF id' = "none"
           THEN Rest /\ calls' = Over(charged, "threw", {})
           ELSE IF adapter = "omoproxy"
           THEN /\ at' = "attached" /\ calls' = charged
                /\ UNCHANGED <<op, progress>>
           ELSE Rest /\ calls' = Over(charged, "returned", {0})
    /\ UNCHANGED <<session, cleared, late, seen, served>>

\* ProxyVN's answer mixes proxies with an error: bought, and thrown away.
AnswerOrderPartly ==
    /\ at = "order" /\ adapter = "proxyvn"
    /\ Effect(Request({0}))
    /\ Rest /\ calls' = Over(Charged(calls, Len(calls), {0}), "threw", {})
    /\ UNCHANGED <<session, order, ready, late, history>>

\* OmoProxy reads the proxies of the order it just placed.
AnswerAttached ==
    /\ at = "attached"
    /\ held' = ready
    /\ Returns({0})
    /\ UNCHANGED <<session, cleared, id, remote, late, history>>

(***************************************************************************)
(* Listing the order's proxies.                                            *)
(***************************************************************************)
Listing(step, present) ==
    /\ id # "none"
    /\ Begin("fetch", step)
    /\ seen' = present /\ served' = 0
    /\ UNCHANGED <<session, order, progress, remote, late, named>>

FetchDetail == adapter = "gpnip" /\ Listing("detail", ready)

FetchPages == adapter = "homeproxy" /\ Listing("page", ready)

FetchList == adapter = "omoproxy" /\ Listing("list", ready)

\* An answer that says no is taken for an order without proxies yet.
FetchOrNone == adapter \in {"proxyseller", "twoproxy"} /\ Listing("list", ready)

FetchByIds == adapter = "proxyvn" /\ held > 0 /\ Listing("list", held)

Serve(n) ==
    /\ served' = n
    /\ held' = IF n > 0 THEN n ELSE held
    /\ Rest
    /\ UNCHANGED <<session, cleared, id, calls, remote, late, named, seen>>

Reachable == id = "usable"

\* GPNIP lists an order's proxies once the order is active.
AnswerDetail(embedded) ==
    /\ at = "detail" /\ Reachable
    /\ IF ready < request.quantity THEN Serve(0)
       ELSE IF embedded THEN Serve(ready)
       ELSE GoOn("list") /\ UNCHANGED <<session, order, remote, late, history>>

AnswerList ==
    /\ at = "list" /\ Reachable
    /\ Serve(IF adapter = "proxyvn" THEN held ELSE ready)

LastListed == IF page * PageSize < ready THEN page * PageSize ELSE ready

\* HomeProxy lists page by page, while there is a next one.
AnswerPage ==
    /\ at = "page"
    /\ IF page * PageSize < ready /\ page < MaxPages
       THEN page' = page + 1 /\ UNCHANGED <<session, order, op, at, tries, left, done, failed,
                                            terms, calls, remote, late, history>>
       ELSE Serve(LastListed)

(***************************************************************************)
(* Renewal, top-up, edits.                                                 *)
(***************************************************************************)
Renewing(step, d, units) ==
    /\ id # "none"
    /\ adapter \notin WholeOrder => held > 0
    /\ Begin("renew", step)
    /\ terms' = [asked |-> d, days |-> d] /\ left' = units
    /\ UNCHANGED <<session, order, tries, page, done, failed, remote, late, history>>

RenewPriced(d)   == adapter = "gpnip" /\ Renewing("preview", d, {})
RenewByTier(d)   == adapter = "omoproxy" /\ Renewing("preview", d, {})
RenewByPeriod(d) == adapter = "proxyseller" /\ Renewing("reference", d, {})
RenewTogether(d) == adapter = "twoproxy" /\ Renewing("all", d, 1..held)
RenewInTurn(d)   == adapter = "proxyvn" /\ Renewing("one", d, 1..held)
RenewAtOnce(d)   == adapter = "homeproxy" /\ Renewing("commit", d, {})
RenewOrder(d)    == adapter = "proxyv6" /\ Renewing("commit", d, {})

Commit(worth) ==
    /\ at' = "commit" /\ terms' = [terms EXCEPT !.days = worth]
    /\ UNCHANGED <<op, tries, page, left, done, failed, calls>>

Months(n) == IF n < 45 THEN 1 ELSE (n + 15) \div 30   \* Math.max(1, Math.round(n / 30))

CloseTo(n, asked) ==
    LET tolerance == Max({3, Months(asked)})
    IN  n - asked <= tolerance /\ asked - n <= tolerance

\* GPNIP's preview names a price only.
AnswerPrices ==
    /\ at = "preview" /\ adapter = "gpnip" /\ Reachable
    /\ Commit(terms.asked)
    /\ UNCHANGED <<session, order, remote, late, history>>

\* OmoProxy's names the days of the tier.
AnswerTier(n) ==
    /\ at = "preview" /\ adapter = "omoproxy"
    /\ IF CloseTo(n, terms.asked) THEN Commit(n) ELSE Throws
    /\ UNCHANGED <<session, order, remote, late, history>>

\* A period of ProxySeller's catalogue: the durations its row states, and the true one.
Rows == {e \in [valid : BOOLEAN, durations : SUBSET Days, means : Days] :
            e.durations # {} => e.means \in e.durations}

\* The rows that may stand for n days; one that also states another duration settles nothing.
Matches(rows, n) == {i \in 1..Len(rows) : n \in rows[i].durations}

Settled(rows, n) ==
    \E i \in Matches(rows, n) :
        Matches(rows, n) = {i} /\ rows[i].valid /\ rows[i].durations = {n}

AnswerReference(rows) ==
    /\ at = "reference"
    /\ IF Settled(rows, terms.asked)
       THEN Commit(rows[CHOOSE i \in Matches(rows, terms.asked) : TRUE].means)
       ELSE Throws
    /\ UNCHANGED <<session, order, remote, late, history>>

Extend ==
    /\ adapter \in Extends /\ id # "none"
    /\ Begin("extend", "commit")
    /\ UNCHANGED <<session, order, progress, remote, late, history>>

Editing(adapters) ==
    /\ adapter \in adapters /\ id # "none"
    /\ Begin("edit", "commit")
    /\ UNCHANGED <<session, order, progress, remote, late, history>>

ChangePassword == Editing({"gpnip"})
SetAllowedIps  == Editing({"gpnip"})
Rotate         == Editing({"homeproxy", "proxyv6"})
Cancel         == Editing({"homeproxy", "proxyv6"})

AnswerCommit ==
    /\ at = "commit" /\ Reachable
    /\ Effect(Request(Whole))
    /\ Rest /\ calls' = Over(Charged(calls, Len(calls), Whole), "returned", Whole)
    /\ UNCHANGED <<session, order, ready, late, history>>

\* The answer says that nothing was done, with a status that says all is well.
AnswerUndone ==
    /\ at = "commit" /\ Reachable /\ NoEffect
    /\ CASE adapter \in {"homeproxy", "proxyv6"} /\ op = "renew" -> Returns({})
         [] adapter = "gpnip" /\ op = "edit" -> Throws
         [] OTHER -> FALSE
    /\ UNCHANGED <<session, order, ready, late, history>>

(***************************************************************************)
(* Renewal proxy by proxy: ProxyVN one after another, 2Proxy all at once.  *)
(***************************************************************************)
\* Proxy p's request was answered; the last one ends the renewal.
Heard(p, ok, charged) ==
    LET good == IF ok THEN done \cup {p} ELSE done
        fine == IF adapter = "twoproxy" THEN ok /\ ~failed ELSE good # {}
    IN  IF left = {p}
        THEN Rest /\ calls' = IF fine THEN Over(charged, "returned", good)
                                      ELSE Over(charged, "threw", {})
        ELSE /\ left' = left \ {p} /\ done' = good /\ failed' = (failed \/ ~ok)
             /\ calls' = charged
             /\ UNCHANGED <<op, at, tries, page, terms>>

InTurn(p) == p \in left /\ (at = "one" => p = Min(left))

AnswerProxy(p) ==
    /\ at \in {"one", "all"} /\ InTurn(p)
    /\ Effect(Request({p}))
    /\ Heard(p, TRUE, Charged(calls, Len(calls), {p}))
    /\ UNCHANGED <<session, order, ready, late, history>>

RefuseProxy(p) ==
    /\ at \in {"one", "all"} /\ InTurn(p) /\ NoEffect
    /\ Heard(p, FALSE, calls)
    /\ UNCHANGED <<session, order, ready, late, history>>

\* Nothing comes back.  ProxyVN goes on with the next; 2Proxy gives the others up.
LoseProxy(p, arrived) ==
    /\ at \in {"one", "all"} /\ InTurn(p)
    /\ LET charged == IF arrived THEN Charged(calls, Len(calls), {p}) ELSE calls
           others == IF at = "all" THEN left \ {p} ELSE {}
       IN  /\ IF arrived THEN Effect(Request({p})) ELSE NoEffect
           /\ late' = late \cup {Request({q}) : q \in others \cup (IF arrived THEN {} ELSE {p})}
           /\ IF at = "one" THEN Heard(p, FALSE, charged)
              ELSE Rest /\ calls' = Over(charged, "threw", {})
    /\ UNCHANGED <<session, order, ready, history>>

(***************************************************************************)
(* Readings for the schedulers, the admin and the customer.                *)
(***************************************************************************)
Reading(what) ==
    /\ what \in Readings[adapter]
    /\ Begin("read", what)
    /\ UNCHANGED <<session, order, progress, remote, late, history>>

CheckConnection    == Reading("account")
ListPackages       == Reading("packages")
ListProviderOrders == Reading("orders")
ListCountries      == Reading("coverage")
FetchUsage         == id # "none" /\ Reading("usage")
FetchGeo           == id # "none" /\ Reading("geo")

\* A package's countries are those of its product, which is read first.
AnswerReading ==
    /\ op = "read"
    /\ at \in {"usage", "geo"} => Reachable
    /\ IF at = "coverage" THEN GoOn("countries") ELSE Returns({})
    /\ UNCHANGED <<session, order, remote, late, history>>

(***************************************************************************)
(* A request refused by its provider, or lost with nothing coming back.    *)
(***************************************************************************)
\* Steps whose failure the adapter survives.
Excused == \/ at = "stock" /\ GoOn("price") /\ UNCHANGED order
           \/ at = "attached" /\ Returns({0}) /\ UNCHANGED order

Gives == Throws /\ UNCHANGED order

Single == op # "none" /\ at \notin {"one", "all"}

Refuse ==
    /\ Single
    /\ IF at \in {"stock", "attached"}
       THEN Excused /\ UNCHANGED <<session, remote, late, history>>
       ELSE IF at = "list" /\ adapter \in {"twoproxy", "proxyseller"}
       THEN Serve(0)
       ELSE Gives /\ UNCHANGED <<session, remote, late, history>>

\* A reading is lost.
Lose ==
    /\ Single /\ at \notin {"order", "commit"}
    /\ IF tries < Retries(at)
       THEN tries' = tries + 1 /\ UNCHANGED <<order, op, at, page, left, done, failed, terms, calls>>
       ELSE IF at \in {"stock", "attached"} THEN Excused ELSE Gives
    /\ UNCHANGED <<session, remote, late, history>>

\* A request that costs money is lost: with its answer, or itself for now.
LoseWrite(arrived) ==
    /\ at \in {"order", "commit"} /\ (arrived => op = "buy" \/ Reachable)
    /\ LET w == Request(Whole)
           charged == IF arrived THEN Charged(calls, w.call, w.units) ELSE calls
           again == tries < Retries(at)
       IN  /\ IF arrived THEN Effect(w) ELSE NoEffect
           /\ late' = IF arrived \/ ~(op = "buy" \/ Reachable) THEN late ELSE late \cup {w}
           /\ IF again
              THEN /\ tries' = tries + 1 /\ calls' = charged
                   /\ UNCHANGED <<op, at, page, left, done, failed, terms>>
              ELSE Rest /\ calls' = Over(charged, "threw", {})
    /\ UNCHANGED <<session, order, ready, history>>

Next ==
    \/ Preflight \/ AnswerPackage \/ Buy \/ AnswerOrderPartly \/ AnswerAttached
    \/ \E ok \in BOOLEAN : AnswerStock(ok) \/ AnswerPrice(ok)
    \/ \E ids \in Answers : AnswerOrder(ids)
    \/ FetchDetail \/ FetchPages \/ FetchList \/ FetchOrNone \/ FetchByIds
    \/ AnswerList \/ AnswerPage \/ \E b \in BOOLEAN : AnswerDetail(b)
    \/ \E d \in Days : \/ RenewPriced(d) \/ RenewByTier(d) \/ RenewByPeriod(d)
                     \/ RenewTogether(d) \/ RenewInTurn(d) \/ RenewAtOnce(d) \/ RenewOrder(d)
    \/ AnswerPrices \/ \E n \in TierDays : AnswerTier(n)
    \/ \E n \in 0..2 : \E rows \in [1..n -> Rows] : AnswerReference(rows)
    \/ Extend \/ ChangePassword \/ SetAllowedIps \/ Rotate \/ Cancel
    \/ AnswerCommit \/ AnswerUndone
    \/ \E p \in Units : \/ AnswerProxy(p) \/ RefuseProxy(p)
                         \/ \E b \in BOOLEAN : LoseProxy(p, b)
    \/ CheckConnection \/ ListPackages \/ ListProviderOrders \/ ListCountries \/ FetchUsage
    \/ FetchGeo
    \/ AnswerReading \/ Refuse \/ Lose
    \/ \E b \in BOOLEAN : LoseWrite(b)
    \/ Provision
    \/ \E w \in late : Arrive(w) \/ Vanish(w)

Spec == Init /\ [][Next]_vars

(***************************************************************************)
(* Properties.                                                             *)
(***************************************************************************)
\* Every adapter keeps the contract its callers are modelled with: a request that may have
\* arrived is never sent again, and only what the provider did is claimed.
Contract == INSTANCE ProviderContract

KeepsContract == Contract!Spec

\* Adapters whose template, not the order, says how many or for how long.
Decided == adapter \in {"omoproxy", "proxysieutoc"} \/ "periodId" \in request.template

\* A template with a period was written for a static package, as docs/gpnip-setup.md asks.
TemplateFits == IsStatic(request) => sold.static

\* What is bought is what was billed, whatever stale figures the template holds and whatever
\* package the admin pointed it at; the days and the country only where the template is one for
\* that kind of package, for nothing in the adapter sees to it.
BilledIsBought ==
    \A i \in 1..Len(bought) : LET o == bought[i] IN
        /\ ~Decided => o.quantity = request.quantity
        /\ ~Decided /\ TemplateFits => o.days = request.days
        /\ request.mode = "bandwidth" => o.gb = request.gb
        /\ request.configured /\ TemplateFits => o.country = request.country

\* A renewal that is carried out lasts the days paid for, up to a calendar month's vagaries
\* at OmoProxy.
RenewedAsBilled ==
    \A t \in renewed : IF adapter = "omoproxy" THEN CloseTo(t.days, t.asked)
                       ELSE t.days = t.asked

\* A listing hands out nothing, or all that was there when it began, and nothing else: the
\* poller delivers what it gets and never comes back for the rest.
ListedWhole == served = 0 \/ (seen <= served /\ served <= ready)

\* An order whose purchase was answered with an id that can be polled is polled by it.
StaysReachable == named => Reachable

\* The provider does what the customer paid for: the two conditions above, on well-typed states.
BilledIsDone == TypeOK /\ BilledIsBought /\ RenewedAsBilled

\* What was bought can be fetched, whole: ListedWhole and StaysReachable.
OrdersReachable == ListedWhole /\ StaysReachable
=============================================================================
