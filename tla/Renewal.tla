------------------------------ MODULE Renewal ------------------------------
(***************************************************************************)
(* Renewals of delivered orders: by the user (one order, or chosen proxies *)
(* of several), by the administrator, and by the daily scheduler of the    *)
(* saved selections (src/src/orders/orders.service.ts, src/src/renew/).    *)
(*                                                                         *)
(* One action is one database, Redis or provider call.  The documents an   *)
(* execution read stay in its task; save() writes the fields that differ   *)
(* from that copy and no others, whatever the order holds by then.         *)
(*                                                                         *)
(* Abstractions.  Orders are delivered in full and sold by duration, end   *)
(* dates are days, PURCHASE_ENABLED is on.  renew_count and last_renewed_* *)
(* of a proxy, notifications and the unnamed "last time" selection, which  *)
(* cannot be scheduled, are left out.  A scan reads all schedules at once: *)
(* fewer than BATCH_SIZE are due on a day.                                 *)
(***************************************************************************)
EXTENDS Integers, FiniteSets, Functions

CONSTANTS
    Orders, Slots, Selections, Executions,
    Kind,            \* the adapter of an order: one of Kinds
    Owned,           \* proxies delivered to an order
    Ids,             \* those with a provider_proxy_id (imported ones have none)
    Chosen,          \* proxy_ids of a selection, by order
    Threshold,       \* threshold_days of every selection
    Term,            \* duration_days of every renewal
    FirstEnd,        \* end_date of the orders at the start
    StartMoney,      \* the wallet at the start
    Instances,       \* processes whose cron fires each morning
    Kept,            \* which requests users and administrators send
    MaxDay, MaxRequests, MaxTroubles \* bounds

\* GPNIP and some proxyseller types renew whole orders only; proxyv6 is never
\* part of a bulk renewal; proxysieutoc renews nothing.  ProxyVN answers with the
\* latest end of the proxies it renewed ("latest").
Kinds == {"slots", "latest", "gpnip", "whole", "alone", "never"}

ASSUME RenewalAssumption ==
    /\ Kind \in [Orders -> Kinds]
    /\ Owned \in [Orders -> (SUBSET Slots) \ {{}}] /\ Ids \in [Orders -> SUBSET Slots]
    /\ Chosen \in [Selections -> [Orders -> SUBSET Slots]]
    /\ {Threshold, Term, FirstEnd, Instances} \subseteq Nat \ {0}
    /\ {StartMoney, MaxDay, MaxRequests, MaxTroubles} \subseteq Nat
    /\ Kept \subseteq {"user", "admin", "bulk"}
    /\ IsFiniteSet(Orders) /\ IsFiniteSet(Slots) /\ IsFiniteSet(Executions)

VARIABLES
    now,         \* today
    fired,       \* crons of today that have fired
    order,       \* the order documents
    open,        \* partner switched on and service.allow_renew
    live,        \* proxies of an order that are not soft-deleted
    remote,      \* the day until which the provider keeps each proxy
    wallet,      \* users.money
    booked,      \* wallet_transactions of type RENEW, summed
    selection,   \* renewal_selections
    scanLock,    \* holder of lock:auto_renew_scan, or None
    dayLocks,    \* lock:auto_renew:<selection>:<day> that exist
    stage, task, \* executions
    \* history and bounds
    acked,       \* renewals of an order that its provider acknowledged
    overlap,     \* two executions renewed the order at the same time
    behind,      \* proxies not renewed with others of their order, nor pruned
    unsaved,     \* a renewal of the order that was never saved
    drained,     \* debits of executions that died, or failed to save
    charged,     \* debits of an order by a selection on a day
    requests, troubles

docVars   == <<order, open, live, remote>>
moneyVars == <<wallet, booked>>
lockVars  == <<selection, scanLock, dayLocks>>
timeVars  == <<now, fired>>
histVars  == <<acked, overlap, behind, unsaved, drained, charged>>
bounds    == <<requests, troubles>>
renewalVars == <<docVars, moneyVars, lockVars, timeVars, stage, task, histVars, bounds>>

None == -1

OrderStatuses == {"ACTIVE", "EXPIRED"}
Document == [status: OrderStatuses, end: Int, renews: Nat, quantity: Nat]
Results  == {"renewed", "partial", "failed", "broke"}
Runs     == {"none", "success", "partial", "failed", "disabled"}
Stages   == {"idle", "find", "select", "load", "wallet", "debit", "provider", "refund",
             "save", "prune", "count", "list", "run", "claim", "record"}

NoProxies == [o \in Orders |-> {}]
NoDocuments == [o \in Orders |-> [status |-> "EXPIRED", end |-> 0, renews |-> 0, quantity |-> 0]]

\* What an execution holds: who asked, the selection and day of an automatic
\* run, the proxies picked in each order, the documents read, the orders still
\* to do, the one at hand with its price and the provider's answer, the results.
Idle == [who |-> "none", runs |-> {}, sel |-> None, day |-> None,
         picked |-> NoProxies, docs |-> NoDocuments, todo |-> {}, at |-> None,
         price |-> 0, end |-> None, short |-> FALSE, results |-> {}]

Engaged(j) == {o \in Orders : j.picked[o] # {}}

RenewalTypes ==
    /\ now \in 0..MaxDay /\ fired \in 0..Instances
    /\ order \in [Orders -> Document] /\ open \in [Orders -> BOOLEAN]
    /\ live \in [Orders -> SUBSET Slots] /\ remote \in [Orders -> [Slots -> Nat]]
    /\ wallet \in Nat /\ booked \in Nat
    /\ selection \in [Selections -> [state: {"none", "saved", "deleted"},
                                      auto: BOOLEAN, last: Runs]]
    /\ scanLock \in Executions \cup {None} /\ dayLocks \subseteq Selections \X (0..MaxDay)
    /\ stage \in [Executions -> Stages]
    /\ \A p \in Executions : task[p].who = "none" <=> stage[p] = "idle"

RenewalInit ==
    /\ now = 0 /\ fired = 0
    /\ order = [o \in Orders |-> [status |-> "ACTIVE", end |-> FirstEnd, renews |-> 0,
                                  quantity |-> Cardinality(Owned[o])]]
    /\ open = [o \in Orders |-> TRUE]
    /\ live = Owned
    /\ remote = [o \in Orders |-> [s \in Slots |-> FirstEnd]]
    /\ wallet = StartMoney /\ booked = 0
    /\ selection \in [Selections -> {[state |-> "none", auto |-> FALSE, last |-> "none"],
                                       [state |-> "saved", auto |-> TRUE, last |-> "none"]}]
    /\ scanLock = None /\ dayLocks = {}
    /\ stage = [p \in Executions |-> "idle"] /\ task = [p \in Executions |-> Idle]
    /\ acked = [o \in Orders |-> 0] /\ overlap = [o \in Orders |-> FALSE]
    /\ behind = NoProxies /\ unsaved = [o \in Orders |-> FALSE]
    /\ drained = 0 /\ charged = [s \in Selections |-> [d \in 0..MaxDay |-> [o \in Orders |-> 0]]]
    /\ requests = 0 /\ troubles = 0

-----------------------------------------------------------------------------
(* Control of one execution.                                               *)

GoTo(p, l, j) ==
    /\ stage' = [stage EXCEPT ![p] = l]
    /\ task' = [task EXCEPT ![p] = j]

Leave(p) == GoTo(p, "idle", Idle)

\* The order at hand is done, with a result: on to the orders of todo, if any;
\* an automatic run records the results.
Settle(p, result, todo) ==
    IF todo = {} /\ task[p].who # "auto"
    THEN Leave(p)
    ELSE GoTo(p, IF todo = {} THEN "record" ELSE "debit",
              [task[p] EXCEPT !.todo = todo, !.at = None, !.price = 0, !.end = None,
                             !.short = FALSE, !.results = @ \cup {result}])

\* bulkRenewByUser() threw: the automatic run notes it, the user is told.
Fail(p, result) ==
    IF task[p].who = "auto"
    THEN GoTo(p, "record", [task[p] EXCEPT !.results = {result}])
    ELSE Leave(p)

\* Executions p and some other renew the same orders from now on.
Meets(p, orders) ==
    overlap' = [o \in Orders |->
        overlap[o] \/ (o \in orders /\ \E q \in Executions \ {p} : o \in Engaged(task[q]))]

\* What save() leaves in a field that was read as "was" and is set to "new".
Saved(current, was, new) == IF new = was THEN current ELSE new

-----------------------------------------------------------------------------
(* Which orders may be renewed.                                            *)

\* The fields populate() reads of a partner: a field left out is undefined.
WholePartner == {"code", "token_api", "status"}

\* checkOrderRenewable(), on a document and the fields read of its partner.
Renewable(o, doc, fields) ==
    /\ doc.status = "ACTIVE"
    /\ "status" \in fields /\ open[o]
    /\ Kind[o] = "gpnip" => doc.end > now

\* getRenewableOrders(): the orders its user is offered.
Listed(o) ==
    /\ Renewable(o, order[o], {"code", "token_api"})
    /\ Kind[o] \notin {"alone", "never"}
    /\ live[o] \cap Ids[o] # {}

\* The conditions of renewOrderProxies() before it debits anything.
Accepted(o, doc, picks, charge) ==
    /\ Kind[o] # "never"
    /\ Kind[o] = "gpnip" => charge = doc.quantity
    /\ Kind[o] = "whole" => Cardinality(picks) = doc.quantity
    /\ charge > 0

\* Those of renewByAdmin(), who pays nothing, before the provider is called.
AcceptedFromAdmin(o, doc, picks) ==
    Kind[o] = "whole" => Cardinality(picks) = doc.quantity

\* Whether a bulk renewal takes the order on.
BulkTakes(o, doc, picks) ==
    /\ Renewable(o, doc, WholePartner)
    /\ Kind[o] \notin {"alone", "never"}
    /\ Kind[o] = "gpnip" => Cardinality(picks) = doc.quantity

\* Proxies of the picked ones that a provider can renew.
WithId(j, o) == j.picked[o] \cap Ids[o]

\* Single renewals charge the quantity of the order, bulk ones each proxy.
Charge(j, o) ==
    IF j.who = "user" THEN j.docs[o].quantity ELSE Cardinality(WithId(j, o))

Price(j, o) == Charge(j, o) * Term

-----------------------------------------------------------------------------
(* One order, renewed by its user or by an administrator.                  *)

RenewStart(p, o, who) ==
    /\ stage[p] = "idle" /\ who \in Kept \cap {"user", "admin"}
    /\ requests < MaxRequests
    /\ Renewable(o, order[o], WholePartner)
    /\ LET picked == [NoProxies EXCEPT ![o] = Owned[o]]
       IN GoTo(p, "find", [Idle EXCEPT !.who = who, !.at = o, !.picked = picked,
                                       !.docs = [NoDocuments EXCEPT ![o] = order[o]]])
    /\ Meets(p, {o})
    /\ requests' = requests + 1
    /\ UNCHANGED <<docVars, moneyVars, lockVars, timeVars, acked, behind, unsaved, drained,
                   charged, troubles>>

\* The proxies of the order that its provider knows.
RenewFind(p) ==
    /\ stage[p] = "find"
    /\ LET o == task[p].at
           j == [task[p] EXCEPT !.picked[o] = live[o] \cap Ids[o]]
       IN \/ /\ j.picked[o] # {} /\ j.who = "user"
             /\ GoTo(p, "debit", [j EXCEPT !.at = None, !.todo = {o}])
          \/ /\ j.picked[o] # {} /\ j.who = "admin"
             /\ AcceptedFromAdmin(o, j.docs[o], j.picked[o])
             /\ GoTo(p, "provider", j)
          \/ /\ j.picked[o] = {} \/ (j.who = "admin" /\ ~AcceptedFromAdmin(o, j.docs[o], j.picked[o]))
             /\ Leave(p)
    /\ UNCHANGED <<docVars, moneyVars, lockVars, timeVars, histVars, bounds>>

-----------------------------------------------------------------------------
(* Chosen proxies of several orders.                                       *)

BulkStart(p, picked) ==
    /\ stage[p] = "idle" /\ "bulk" \in Kept /\ requests < MaxRequests
    /\ \E o \in Orders : picked[o] # {}
    /\ GoTo(p, "select", [Idle EXCEPT !.who = "bulk", !.picked = picked])
    /\ Meets(p, {o \in Orders : picked[o] # {}})
    /\ requests' = requests + 1
    /\ UNCHANGED <<docVars, moneyVars, lockVars, timeVars, acked, behind, unsaved, drained,
                   charged, troubles>>

\* The picked proxies that still exist, by order.
BulkSelect(p) ==
    /\ stage[p] = "select"
    /\ LET j == [task[p] EXCEPT !.picked = [o \in Orders |-> @[o] \cap live[o]]]
       IN IF \E o \in Orders : WithId(j, o) # {} THEN GoTo(p, "load", j) ELSE Fail(p, "failed")
    /\ UNCHANGED <<docVars, moneyVars, lockVars, timeVars, histVars, bounds>>

\* The orders, all read before the first is renewed; those that cannot be
\* renewed are results already.
BulkLoad(p) ==
    /\ stage[p] = "load"
    /\ LET asked == {o \in Orders : WithId(task[p], o) # {}}
           taken == {o \in asked : BulkTakes(o, order[o], WithId(task[p], o))}
       IN IF taken = {}
          THEN Fail(p, "failed")
          ELSE GoTo(p, "wallet",
                    [task[p] EXCEPT !.todo = taken,
                                   !.docs = [o \in Orders |-> IF o \in taken THEN order[o] ELSE @[o]],
                                   !.results = IF taken = asked THEN {} ELSE {"failed"}])
    /\ UNCHANGED <<docVars, moneyVars, lockVars, timeVars, histVars, bounds>>

\* Enough for all of them, or none is begun.
BulkWallet(p) ==
    /\ stage[p] = "wallet"
    /\ IF SumFunctionOnSet([o \in Orders |-> Price(task[p], o)], task[p].todo) <= wallet
       THEN GoTo(p, "debit", task[p])
       ELSE Fail(p, "broke")
    /\ UNCHANGED <<docVars, moneyVars, lockVars, timeVars, histVars, bounds>>

-----------------------------------------------------------------------------
(* renewOrderProxies(), on each order: debit, renew at the provider, save. *)

Debit(p) ==
    /\ stage[p] = "debit"
    /\ \E o \in task[p].todo :
         LET j == task[p]
             left == task[p].todo \ {o}
         IN \/ /\ ~Accepted(o, j.docs[o], WithId(j, o), Charge(j, o))
               /\ Settle(p, "failed", left)
               /\ UNCHANGED <<wallet, charged>>
            \/ /\ Accepted(o, j.docs[o], WithId(j, o), Charge(j, o))
               /\ Price(j, o) > wallet
               /\ Settle(p, "broke", left)
               /\ UNCHANGED <<wallet, charged>>
            \/ /\ Accepted(o, j.docs[o], WithId(j, o), Charge(j, o))
               /\ Price(j, o) <= wallet
               /\ wallet' = wallet - Price(j, o)
               /\ GoTo(p, "provider", [j EXCEPT !.todo = left, !.at = o, !.price = Price(j, o)])
               /\ charged' = IF j.who = "auto"
                             THEN [charged EXCEPT ![j.sel][j.day][o] = @ + 1]
                             ELSE charged
    /\ UNCHANGED <<docVars, booked, lockVars, timeVars, acked, overlap, behind, unsaved,
                   drained, bounds>>

\* The provider's clock moves for these proxies.
Extend(o, slots) ==
    remote' = [remote EXCEPT ![o] = [s \in Slots |-> @[s] + (IF s \in slots THEN Term ELSE 0)]]

\* Proxies of the order that execution j leaves behind, when its provider
\* renews "some" of them.  A bulk renewal prunes those it did not pick.
LeftBehind(j, o, some) ==
    (IF j.who = "bulk" THEN WithId(j, o) ELSE live[o] \cap Ids[o]) \ some

\* The end date of an answer, if it carries one.
Answers(o, renewed) ==
    {None} \cup {remote'[o][s] : s \in
        IF Kind[o] = "latest"
        THEN {s \in renewed : \A t \in renewed : remote'[o][t] <= remote'[o][s]}
        ELSE renewed}

\* All renewed.
Acknowledge(p) ==
    /\ stage[p] = "provider" /\ Kind[task[p].at] # "never"
    /\ LET j == task[p] o == task[p].at IN
       /\ Extend(o, WithId(j, o))
       /\ \E end \in Answers(o, WithId(j, o)) :
            GoTo(p, "save", [j EXCEPT !.end = end])
       /\ acked' = [acked EXCEPT ![o] = @ + 1]
       /\ behind' = [behind EXCEPT ![o] = @ \cup LeftBehind(j, o, WithId(j, o))]
    /\ UNCHANGED <<order, open, live, moneyVars, lockVars, timeVars, overlap, unsaved,
                   drained, charged, bounds>>

\* Some renewed: the answer counts the others as failures, also one whose own
\* answer was lost.
AcknowledgeSome(p) ==
    /\ stage[p] = "provider" /\ troubles < MaxTroubles
    /\ LET j == task[p] o == task[p].at IN
       /\ Kind[o] \in {"slots", "latest"}
       /\ \E told \in (SUBSET WithId(j, o)) \ {{}, WithId(j, o)}, renewed \in SUBSET WithId(j, o) :
            /\ told \subseteq renewed /\ Extend(o, renewed)
            /\ behind' = [behind EXCEPT ![o] = @ \cup LeftBehind(j, o, renewed)]
            /\ \E end \in Answers(o, told) :
                 GoTo(p, "save", [j EXCEPT !.end = end, !.short = TRUE])
       /\ acked' = [acked EXCEPT ![o] = @ + 1]
    /\ troubles' = troubles + 1
    /\ UNCHANGED <<order, open, live, moneyVars, lockVars, timeVars, overlap, unsaved,
                   drained, charged, requests>>

\* The call threw: nothing was renewed, or all with the answer lost, or, by an
\* adapter that asks for each proxy, some before another one failed.
Refuse(p) ==
    /\ stage[p] = "provider" /\ troubles < MaxTroubles
    /\ LET j == task[p] o == task[p].at IN
       /\ \E renewed \in IF Kind[o] = "never" THEN {{}} ELSE SUBSET WithId(j, o) :
            IF renewed = {}
            THEN UNCHANGED <<remote, unsaved, behind>>
            ELSE /\ Extend(o, renewed)
                 /\ unsaved' = [unsaved EXCEPT ![o] = TRUE]
                 /\ behind' = [behind EXCEPT ![o] = @ \cup ((live[o] \cap Ids[o]) \ renewed)]
       /\ IF j.who = "admin" THEN Leave(p) ELSE GoTo(p, "refund", j)
    /\ troubles' = troubles + 1
    /\ UNCHANGED <<order, open, live, moneyVars, lockVars, timeVars, acked, overlap,
                   drained, charged, requests>>

Refund(p) ==
    /\ stage[p] = "refund"
    /\ wallet' = wallet + task[p].price
    /\ Settle(p, "failed", task[p].todo)
    /\ UNCHANGED <<docVars, booked, lockVars, timeVars, histVars, bounds>>

\* The new end date counts from the document read before the call.
SaveRenewal(p) ==
    /\ stage[p] = "save"
    /\ LET j == task[p]
           o == task[p].at
           was == task[p].docs[o]
           new == [was EXCEPT !.end = IF j.end = None THEN @ + Term ELSE j.end,
                              !.renews = @ + 1]
       IN /\ order' = [order EXCEPT ![o].end = Saved(@, was.end, new.end),
                                    ![o].renews = Saved(@, was.renews, new.renews)]
          /\ booked' = booked + j.price
          /\ IF j.who = "bulk"
             THEN GoTo(p, "prune", [j EXCEPT !.docs[o] = new])
             ELSE Settle(p, IF j.short THEN "partial" ELSE "renewed", task[p].todo)
    /\ UNCHANGED <<open, live, remote, wallet, lockVars, timeVars, acked, overlap, behind, unsaved,
                   drained, charged, bounds>>

\* save() failed: the wallet keeps the debit and the order its old end date.
SaveFails(p) ==
    /\ stage[p] = "save" /\ troubles < MaxTroubles
    /\ troubles' = troubles + 1
    /\ drained' = drained + task[p].price
    /\ unsaved' = [unsaved EXCEPT ![task[p].at] = TRUE]
    /\ behind' = [behind EXCEPT ![task[p].at] = @ \cup (live[task[p].at] \ task[p].picked[task[p].at])]
    /\ Settle(p, "failed", task[p].todo)
    /\ UNCHANGED <<docVars, moneyVars, lockVars, timeVars, acked, overlap, charged, requests>>

\* Mutant: the proxies that were not renewed stay in the order.
PruneNothing(p) ==
    /\ stage[p] = "prune"
    /\ Settle(p, "renewed", task[p].todo)
    /\ UNCHANGED <<docVars, moneyVars, lockVars, timeVars, histVars, bounds>>

\* pruneUnrenewedProxies(): soft-delete what a bulk renewal did not pick.
Prune(p) ==
    /\ stage[p] = "prune"
    /\ LET j == task[p] o == task[p].at IN
       IF live[o] \subseteq j.picked[o]
       THEN /\ Settle(p, "renewed", task[p].todo)
            /\ UNCHANGED live
       ELSE /\ live' = [live EXCEPT ![o] = @ \cap j.picked[o]]
            /\ GoTo(p, "count", j)
    /\ UNCHANGED <<order, open, remote, moneyVars, lockVars, timeVars, histVars, bounds>>

\* Mutant: the quantity still counts the pruned proxies.
PruneCountKept(p) ==
    /\ stage[p] = "count"
    /\ Settle(p, "renewed", task[p].todo)
    /\ UNCHANGED <<docVars, moneyVars, lockVars, timeVars, histVars, bounds>>

\* The quantity of the order becomes the proxies it keeps.
PruneCount(p) ==
    /\ stage[p] = "count"
    /\ LET o == task[p].at IN
       order' = [order EXCEPT ![o].quantity =
                    Saved(@, task[p].docs[o].quantity, Cardinality(live[o]))]
    /\ Settle(p, "renewed", task[p].todo)
    /\ UNCHANGED <<open, live, remote, moneyVars, lockVars, timeVars, histVars, bounds>>

-----------------------------------------------------------------------------
(* The scheduler of the selections, every morning on every instance.       *)

ScanStart(p) ==
    /\ stage[p] = "idle" /\ fired < Instances
    /\ fired' = fired + 1
    /\ IF scanLock = None
       THEN /\ scanLock' = p
            /\ GoTo(p, "list", [Idle EXCEPT !.who = "auto"])
       ELSE UNCHANGED <<scanLock, stage, task>>
    /\ UNCHANGED <<docVars, moneyVars, selection, dayLocks, now, histVars, bounds>>

ScanList(p) ==
    /\ stage[p] = "list"
    /\ GoTo(p, "run", [task[p] EXCEPT !.runs = {s \in Selections : selection[s].auto}])
    /\ UNCHANGED <<docVars, moneyVars, lockVars, timeVars, histVars, bounds>>

\* Mutant: an order that ends on the last day of the threshold waits.
DueLate(s) ==
    {o \in Orders : /\ Chosen[s][o] \cap live[o] \cap Ids[o] # {}
                    /\ order[o].status = "ACTIVE"
                    /\ order[o].end < now + Threshold}

\* Orders of selection s that end within the threshold.
Due(s) ==
    {o \in Orders : /\ Chosen[s][o] \cap live[o] \cap Ids[o] # {}
                    /\ order[o].status = "ACTIVE"
                    /\ order[o].end <= now + Threshold}

\* The proxies of the due orders of the next selection.
RunFind(p) ==
    /\ stage[p] = "run" /\ task[p].runs # {}
    /\ \E s \in task[p].runs :
         LET j == [Idle EXCEPT !.who = "auto", !.runs = task[p].runs \ {s}]
             picked == [o \in Orders |-> IF o \in Due(s)
                                         THEN Chosen[s][o] \cap live[o] \cap Ids[o] ELSE {}]
         IN IF Due(s) = {}
            THEN /\ GoTo(p, "run", j)
                 /\ UNCHANGED overlap
            ELSE /\ GoTo(p, "claim", [j EXCEPT !.sel = s, !.day = now, !.picked = picked])
                 /\ Meets(p, Due(s))
    /\ UNCHANGED <<docVars, moneyVars, lockVars, timeVars, acked, behind, unsaved, drained,
                   charged, bounds>>

\* One run of a selection a day, whoever holds the scan lock.
RunClaim(p) ==
    /\ stage[p] = "claim"
    /\ LET key == <<task[p].sel, task[p].day>> IN
       IF key \in dayLocks
       THEN /\ GoTo(p, "run", [Idle EXCEPT !.who = "auto", !.runs = task[p].runs])
            /\ UNCHANGED dayLocks
       ELSE /\ dayLocks' = dayLocks \cup {key}
            /\ GoTo(p, "select", task[p])
    /\ UNCHANGED <<docVars, moneyVars, selection, scanLock, timeVars, histVars, bounds>>

\* last_run_status of the results of a run.
Outcome(results) ==
    IF "broke" \in results THEN "disabled"
    ELSE IF results \cap {"renewed", "partial"} = {} THEN "failed"
    ELSE IF results = {"renewed"} THEN "success" ELSE "partial"

\* saveRun(), or disableSchedule() for want of money.
RunRecord(p) ==
    /\ stage[p] = "record"
    /\ LET last == Outcome(task[p].results)
           s == task[p].sel
       IN selection' = IF selection[s].state = "deleted" THEN selection
                       ELSE [selection EXCEPT ![s].last = last,
                                              ![s].auto = @ /\ last # "disabled"]
    /\ GoTo(p, "run", [Idle EXCEPT !.who = "auto", !.runs = task[p].runs])
    /\ UNCHANGED <<docVars, moneyVars, scanLock, dayLocks, timeVars, histVars, bounds>>

\* DEL: the lock is gone whoever holds it.
ScanUnlock(p) ==
    /\ stage[p] = "run" /\ task[p].runs = {}
    /\ scanLock' = None
    /\ Leave(p)
    /\ UNCHANGED <<docVars, moneyVars, selection, dayLocks, timeVars, histVars, bounds>>

-----------------------------------------------------------------------------
(* Users' and administrators' edits, time and failures.                    *)

\* A new selection renews nothing by itself.
CreateSelection(s) ==
    /\ selection[s].state = "none"
    /\ selection' = [selection EXCEPT ![s].state = "saved"]
    /\ UNCHANGED <<docVars, moneyVars, scanLock, dayLocks, timeVars, stage, task, histVars, bounds>>

\* updateSelection() with auto_renew_enabled.
SwitchSchedule(s) ==
    /\ selection[s].state = "saved" /\ troubles < MaxTroubles
    /\ selection' = [selection EXCEPT ![s].auto = ~@, ![s].last = "none"]
    /\ troubles' = troubles + 1
    /\ UNCHANGED <<docVars, moneyVars, scanLock, dayLocks, timeVars, stage, task, histVars,
                   requests>>

\* A running scan renews what a deleted selection held all the same.
DeleteSelection(s) ==
    /\ selection[s].state = "saved" /\ troubles < MaxTroubles
    /\ selection' = [selection EXCEPT ![s] = [state |-> "deleted", auto |-> FALSE, last |-> "none"]]
    /\ troubles' = troubles + 1
    /\ UNCHANGED <<docVars, moneyVars, scanLock, dayLocks, timeVars, stage, task, histVars,
                   requests>>

\* An administrator switches the partner, or allow_renew of the service.
SwitchPartner(o) ==
    /\ troubles < MaxTroubles
    /\ open' = [open EXCEPT ![o] = ~@]
    /\ troubles' = troubles + 1
    /\ UNCHANGED <<order, live, remote, moneyVars, lockVars, timeVars, stage, task, histVars,
                   requests>>

\* A scan takes minutes: it ends on the day it began.
NextDay ==
    /\ now < MaxDay /\ fired > 0
    /\ \A p \in Executions : task[p].who # "auto"
    /\ now' = now + 1 /\ fired' = 0
    /\ UNCHANGED <<docVars, moneyVars, lockVars, stage, task, histVars, bounds>>

\* The expiration scheduler; an execution that renews the order saves too late.
Expire(o) ==
    /\ order[o].status = "ACTIVE" /\ order[o].end <= now
    /\ order' = [order EXCEPT ![o].status = "EXPIRED"]
    /\ overlap' = [overlap EXCEPT ![o] = @ \/ \E p \in Executions : o \in Engaged(task[p])]
    /\ UNCHANGED <<open, live, remote, moneyVars, lockVars, timeVars, stage, task, acked, behind,
                   unsaved, drained, charged, bounds>>

\* The lock's time to live: it may pass under a running scan.
LockLapse ==
    /\ scanLock # None
    /\ IF task[scanLock].who = "auto"
       THEN /\ troubles < MaxTroubles
            /\ troubles' = troubles + 1
       ELSE UNCHANGED troubles
    /\ scanLock' = None
    /\ UNCHANGED <<docVars, moneyVars, selection, dayLocks, timeVars, stage, task, histVars,
                   requests>>

\* What an execution has debited and neither refunded nor booked yet.
InHand(p) == IF stage[p] \in {"provider", "refund", "save"} THEN task[p].price ELSE 0

\* The process dies: its debit is lost, and what it did at the provider unsaved.
Die(p) ==
    /\ stage[p] # "idle" /\ troubles < MaxTroubles
    /\ troubles' = troubles + 1
    /\ drained' = drained + InHand(p)
    /\ unsaved' = [o \in Orders |-> unsaved[o] \/ (stage[p] = "save" /\ task[p].at = o)]
    /\ behind' = [o \in Orders |-> behind[o] \cup
                    (IF stage[p] \in {"save", "prune"} /\ task[p].at = o THEN live[o] \ task[p].picked[o] ELSE {})]
    /\ Leave(p)
    /\ UNCHANGED <<docVars, moneyVars, lockVars, timeVars, acked, overlap, charged,
                   requests>>

-----------------------------------------------------------------------------

Renew(p) == Debit(p) \/ Acknowledge(p) \/ AcknowledgeSome(p) \/ Refuse(p) \/ Refund(p) \/ SaveRenewal(p)
            \/ SaveFails(p)

Single(p) == RenewFind(p) \/ \E o \in Orders, who \in {"user", "admin"} : RenewStart(p, o, who)

Bulk(p) ==
    \/ \E picked \in [Orders -> SUBSET Slots] :
         (\A o \in Orders : picked[o] \subseteq Owned[o]) /\ BulkStart(p, picked)
    \/ BulkSelect(p) \/ BulkLoad(p) \/ BulkWallet(p)
    \/ Prune(p) \/ PruneCount(p)

Scan(p) ==
    ScanStart(p) \/ ScanList(p) \/ RunFind(p) \/ RunClaim(p) \/ RunRecord(p) \/ ScanUnlock(p)

Environment ==
    \/ \E s \in Selections : CreateSelection(s) \/ SwitchSchedule(s) \/ DeleteSelection(s)
    \/ \E o \in Orders : SwitchPartner(o) \/ Expire(o)
    \/ NextDay \/ LockLapse

RenewalNext ==
    \/ \E p \in Executions : Renew(p) \/ Single(p) \/ Bulk(p) \/ Scan(p) \/ Die(p)
    \/ Environment

RenewalSpec == RenewalInit /\ [][RenewalNext]_renewalVars

-----------------------------------------------------------------------------
(* Properties.                                                             *)

\* The debits under way.
Hands == [p \in Executions |-> InHand(p)]

\* The wallet has lost what the booked renewals cost, plus the debits under
\* way and those of executions that died or failed to save: a renewal the
\* provider refused is paid back once.
WalletRenews == wallet + booked + SumFunctionOnSet(Hands, Executions) + drained = StartMoney

\* An order never promises a proxy longer than its provider keeps it, but for
\* the proxies that a renewal of others left behind (an automatic one, one the
\* provider did in part, whether it answered or threw, one that failed after
\* it), and those a bulk renewal is about to prune.
PromiseKept ==
    \A o \in Orders : \A s \in (live[o] \cap Ids[o]) \ behind[o] :
        \/ order[o].end <= remote[o][s]
        \/ \E p \in Executions : stage[p] \in {"save", "prune"} /\ task[p].at = o /\ s \notin task[p].picked[o]

\* Executions that do not overlap lose no renewal: each one acknowledged is
\* counted, moves the end date by its term and leaves the quantity at the
\* proxies that remain.
RenewalsCounted ==
    \A o \in Orders :
        ~overlap[o] /\ ~unsaved[o] /\ (\A p \in Executions : o \notin Engaged(task[p]))
        => /\ order[o].renews = acked[o]
           /\ behind[o] = {} => order[o].end = FirstEnd + acked[o] * Term
           /\ troubles = 0 => order[o].quantity = Cardinality(live[o])

\* A selection debits an order at most once a day, even when the scan lock
\* lapses under a running scan and a second instance scans too.
OncePerDay ==
    \A s \in Selections, d \in 0..MaxDay, o \in Orders : charged[s][d][o] <= 1

\* What a renewal takes, it gives, once: the three conditions above, on well-typed states.
RenewalsPaid == RenewalTypes /\ WalletRenews /\ RenewalsCounted /\ OncePerDay

\* Orders whose end date selection s alone moves on: no other holds proxies of
\* them, and what a provider answers is the latest end, or s holds all proxies.
Serves(s, o) ==
    /\ \A t \in Selections \ {s} : Chosen[t][o] = {}
    /\ \/ Kind[o] = "latest"
       \/ Kind[o] = "slots" /\ Owned[o] \cap Ids[o] \subseteq Chosen[s][o]

\* Unless a provider, a process or an edit got in the way, an order that one
\* schedule serves expires only when the schedule was switched off for want of
\* money.
ScheduleServes ==
    troubles = 0 =>
        \A s \in Selections, o \in Orders :
            /\ order[o].status = "EXPIRED" /\ ~overlap[o] /\ Serves(s, o)
            /\ Chosen[s][o] \cap live[o] \cap Ids[o] # {} /\ selection[s].state = "saved"
            => ~selection[s].auto
=============================================================================
