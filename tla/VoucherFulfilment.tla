-------------------------- MODULE VoucherFulfilment --------------------------
(***************************************************************************)
(* What happens to one voucher order after recover() inserted it: the      *)
(* provider purchase, the delivery of the proxies, the confirmed failure,  *)
(* the refund and the settlement of the voucher place                      *)
(* (src/src/vouchers/vouchers.service.ts, orders.worker.service.ts,        *)
(* orders-processing.worker.service.ts, orders.service.ts,                 *)
(* orders-recovery.scheduler.ts, orders-expiration.scheduler.ts).          *)
(*                                                                         *)
(* Any number of executions of the worker, the poller, the manual sync,    *)
(* the refund, the reconciler and the two schedulers work on the order at  *)
(* once.  One action is one database or provider call; what a read         *)
(* returned lives on in held, seen and frame and may be stale when it is   *)
(* used.  The queues only decide when a worker or poller starts: here it   *)
(* may start at any time and as often as it likes, as a queue with lost    *)
(* and duplicated entries allows.                                          *)
(*                                                                         *)
(* Abstractions.  One reservation and one wallet receipt stand for the     *)
(* voucher and the wallet (VoucherPurchase has many).  A wallet that       *)
(* cannot take the credit is an execution that throws (Abort).  Proxies    *)
(* are counted; the upserts of materialize() have deterministic ids, so    *)
(* what is stored is always a prefix of the frozen result.                 *)
(***************************************************************************)
EXTENDS Integers

CONSTANTS
    Quantity,       \* proxies ordered
    Price,          \* order.total_price, net of the discount
    Procs,          \* concurrent executions
    Roles,          \* which handlers run: a bound of the instance
    LegacyOrders,   \* whether orders expired by the old scheduler exist
    MaxAborts       \* bound: executions that die or throw

AllRoles == {"worker", "poll", "sync", "confirm", "refund", "reconcile", "expire", "recovery"}

ASSUME FulfilmentAssumption ==
    /\ Quantity \in Nat \ {0}
    /\ Price \in Nat
    /\ Roles \subseteq AllRoles
    /\ LegacyOrders \in BOOLEAN
    /\ MaxAborts \in Nat

VARIABLES
    \* the order document
    status, resolution,
    claimed, source, finished,  \* voucher_dispatch_claimed, _source, voucher_buy_finished
    result,                     \* proxies in voucher_provider_result, or Nameless, or None
    frozen,                     \* proxies in voucher_fulfilment, 0 if null
    providerId,                 \* provider_order_id is set
    plan, refunded,             \* voucher_refund_plan, refunded_amount
    actual,                     \* actual_quantity, or None
    affiliate,                  \* voucher_affiliate_pending
    \* other documents
    stored, found,              \* proxies inserted by materialize() and by tryRecover()
    place,                      \* status of the voucher reservation
    credit, ledger,             \* amount of the refund receipt; its projections
    commission,                 \* affiliate commission of the order
    \* executions
    role, pc, held, seen, frame, aborts,
    \* history
    buying, buys,               \* executions inside provider.buy(), calls made
    recovered                   \* the recovery scheduler has written

dispatchVars == <<claimed, source, finished, result, providerId>>
outcomeVars  == <<resolution, frozen, actual, affiliate>>
refundVars   == <<plan, refunded, credit, ledger>>
proxyVars    == <<stored, found>>
procVars     == <<role, pc, held, seen, frame, aborts>>
callVars     == <<buying, buys, recovered>>
vars == <<status, dispatchVars, outcomeVars, refundVars, proxyVars, place, commission,
          procVars, callVars>>

None == -1

\* A saved answer with neither proxies nor an order id.
Nameless == -2

NoPlan == [amount |-> None, missing |-> FALSE]

Statuses == {"PENDING", "PROCESSING", "ACTIVE", "PARTIAL", "EXPIRED", "PENDING_REFUND",
             "PARTIAL_REFUNDED", "REFUNDED"}

\* The statuses in which materialize() still publishes.
Unpublished == {"PENDING", "PROCESSING", "PENDING_REFUND"}

Proxies == 0..Quantity

\* The fields of the order that some execution uses after reading them.
Document == [status: Statuses, resolution: {"open", "fulfilled", "failed"},
             claimed: BOOLEAN, result: Proxies \cup {None, Nameless}, frozen: Proxies,
             plan: [amount: (0..Price) \cup {None}, missing: BOOLEAN],
             refunded: 0..Price, actual: Nat \cup {None}, affiliate: BOOLEAN]

Snapshot == [status |-> status, resolution |-> resolution, claimed |-> claimed,
             result |-> result, frozen |-> frozen, plan |-> plan, refunded |-> refunded,
             actual |-> actual, affiliate |-> affiliate]

Blank == [status |-> "PENDING", resolution |-> "open", claimed |-> FALSE, result |-> None,
          frozen |-> 0, plan |-> NoPlan, refunded |-> 0, actual |-> None, affiliate |-> FALSE]

\* n: proxies or money in hand; after, next: where the subroutine returns to.
EmptyFrame == [n |-> 0, missing |-> FALSE, after |-> "idle", next |-> "idle"]

\* Where materialize(), settle() and recoverAffiliate() are.
DeliveryLabels == {"mFreeze", "mRead", "mStore", "mCount", "mPublish", "use", "release",
                   "commission", "confirm", "clear"}

Labels == DeliveryLabels \cup
          {"idle", "wRead", "wClaim", "wBuy", "wBuying", "wSave", "wProcessing", "wFail",
           "wDone", "wAbandon", "pRead", "pFetch", "pTimeout", "sFence", "sFetch",
           "rPlan", "rRead", "rCredit", "rStatus",
           "rFresh", "project", "cAct", "cReverse", "cReopen", "cReread", "cRefund", "cSettle", "eUpdate", "eConfirm", "vCount", "vHeal",
           "vFetch", "vInsert", "vRecount", "vPublish", "vCommission"}

TypeOK ==
    /\ Snapshot \in Document
    /\ source \in {"none", "worker", "reconciliation"}
    /\ finished \in BOOLEAN /\ providerId \in BOOLEAN
    /\ stored \in Proxies /\ found \in Nat
    /\ place \in {"reserved", "used", "released"}
    /\ credit \in (0..Price) \cup {None} /\ ledger \in BOOLEAN
    /\ commission \in {"none", "pending", "confirmed"}
    /\ role \in [Procs -> AllRoles \cup {"none"}]
    /\ pc \in [Procs -> Labels]
    /\ held \in [Procs -> Document] /\ seen \in [Procs -> Document]
    /\ frame \in [Procs -> [n: Nat, missing: BOOLEAN, after: Labels, next: Labels]]
    /\ aborts \in Nat /\ buying \subseteq Procs /\ buys \in Nat /\ recovered \in BOOLEAN

\* An order as recover() inserts it.
NewOrder ==
    /\ status = "PENDING" /\ resolution = "open"
    /\ claimed = FALSE /\ source = "none" /\ finished = FALSE
    /\ result = None /\ providerId = FALSE
    /\ frozen = 0 /\ stored = 0 /\ actual = None /\ affiliate = FALSE
    /\ place = "reserved"

\* Orders the old scheduler expired: one never delivered, whose place it may
\* have used up, and one delivered but not settled yet.
LegacyOrder ==
    /\ status = "EXPIRED"
    /\ place \in {"reserved", "used"}
    /\ \/ /\ claimed = TRUE /\ source = "worker" /\ finished = TRUE
          /\ result \in {0, Nameless} /\ providerId = (result = 0)
       \/ /\ claimed = FALSE /\ source = "none" /\ finished = FALSE
          /\ result = None /\ providerId = FALSE
    /\ \/ /\ resolution = "open" /\ frozen = 0 /\ stored = 0
          /\ actual = None /\ affiliate = FALSE
       \/ /\ claimed /\ resolution = "fulfilled" /\ frozen = Quantity /\ stored = Quantity
          /\ actual = Quantity /\ affiliate = TRUE

Init ==
    /\ NewOrder \/ (LegacyOrders /\ LegacyOrder)
    /\ plan = NoPlan /\ refunded = 0 /\ credit = None /\ ledger = FALSE
    /\ found = 0 /\ commission = "none"
    /\ role = [p \in Procs |-> "none"] /\ pc = [p \in Procs |-> "idle"]
    /\ held = [p \in Procs |-> Blank] /\ seen = [p \in Procs |-> Blank]
    /\ frame = [p \in Procs |-> EmptyFrame]
    /\ aborts = 0 /\ buying = {} /\ buys = 0 /\ recovered = FALSE

-----------------------------------------------------------------------------
(* Control of one execution.                                               *)

Goto(p, l) ==
    /\ pc' = [pc EXCEPT ![p] = l]
    /\ UNCHANGED <<role, held, seen, frame, aborts>>

Finish(p) ==
    /\ role' = [role EXCEPT ![p] = "none"]
    /\ pc' = [pc EXCEPT ![p] = "idle"]
    /\ held' = [held EXCEPT ![p] = Blank]
    /\ seen' = [seen EXCEPT ![p] = Blank]
    /\ frame' = [frame EXCEPT ![p] = EmptyFrame]
    /\ UNCHANGED aborts

\* Return from a subroutine to l; the end of a handler is "idle".
Resume(p, l) == IF l = "idle" THEN Finish(p) ELSE Goto(p, l)

\* Go to l with n in hand.
Carry(p, l, n) ==
    /\ pc' = [pc EXCEPT ![p] = l]
    /\ frame' = [frame EXCEPT ![p].n = n]
    /\ UNCHANGED <<role, held, seen, aborts>>

\* Call l, which comes back to after; n in hand.
Call(p, l, n, after) ==
    /\ pc' = [pc EXCEPT ![p] = l]
    /\ frame' = [frame EXCEPT ![p] = [EmptyFrame EXCEPT !.n = n, !.after = after]]
    /\ UNCHANGED <<role, held, seen, aborts>>

\* Call settle(doc), which goes on at next.
Settle(p, doc, next) ==
    /\ pc' = [pc EXCEPT ![p] = "use"]
    /\ seen' = [seen EXCEPT ![p] = doc]
    /\ frame' = [frame EXCEPT ![p].next = next]
    /\ UNCHANGED <<role, held, aborts>>

Documents == <<status, dispatchVars, outcomeVars, refundVars, proxyVars, place, commission>>

ReadOnly == UNCHANGED <<Documents, callVars>>

\* An execution of r starts with the order it read in hand.
StartWith(p, r, l, doc) ==
    /\ r \in Roles /\ pc[p] = "idle"
    /\ role' = [role EXCEPT ![p] = r]
    /\ pc' = [pc EXCEPT ![p] = l]
    /\ held' = [held EXCEPT ![p] = doc]
    /\ UNCHANGED <<seen, frame, aborts>>
    /\ ReadOnly

Start(p, r, l) == StartWith(p, r, l, Blank)

\* A cron handler with a running flag.
NotRunning(r) == \A p \in Procs : role[p] # r

-----------------------------------------------------------------------------
(* OrdersWorkerService.processOrder                                        *)

\* findOne({status: PENDING})
WorkerRead(p) ==
    /\ pc[p] = "wRead"
    /\ Resume(p, IF status = "PENDING" THEN "wClaim" ELSE "idle")
    /\ ReadOnly

\* Mutant: the claim does not look at the fence.
CanClaim_Unfenced == status = "PENDING" /\ resolution = "open"

CanClaim == status = "PENDING" /\ resolution = "open" /\ ~claimed

WorkerClaim(p) ==
    /\ pc[p] = "wClaim"
    /\ \/ /\ CanClaim
          /\ claimed' = TRUE /\ source' = "worker"
          /\ Goto(p, "wBuy")
       \/ /\ ~CanClaim
          /\ Finish(p)
          /\ UNCHANGED <<claimed, source>>
    /\ UNCHANGED <<finished, result, providerId, status, outcomeVars, refundVars, proxyVars,
                   place, commission, callVars>>

\* The order has no usable partner, or the one attempt is made (maxAttempts = 1).
WorkerBuy(p) ==
    /\ pc[p] = "wBuy"
    /\ \/ /\ Goto(p, "wFail")
          /\ UNCHANGED callVars
       \/ /\ Goto(p, "wBuying")
          /\ buying' = buying \cup {p} /\ buys' = buys + 1
          /\ UNCHANGED recovered
    /\ UNCHANGED Documents

\* The provider answers with proxies, with none of them yet (0), or not usefully.
WorkerAnswer(p) ==
    /\ pc[p] = "wBuying"
    /\ \/ \E n \in Proxies : Carry(p, "wSave", n)
       \/ Goto(p, "wFail")
    /\ buying' = buying \ {p}
    /\ UNCHANGED <<Documents, buys, recovered>>

\* The answer is saved as it is; provider_order_id ?? '' replaces the id of the
\* order, and an answer need not have one (ProxyVN's never has).
WorkerSave(p) ==
    /\ pc[p] = "wSave"
    /\ providerId' \in BOOLEAN
    /\ result' = IF frame[p].n = 0 /\ ~providerId' THEN Nameless ELSE frame[p].n
    /\ \/ frame[p].n > 0 /\ Call(p, "mFreeze", frame[p].n, "wDone")
       \/ frame[p].n = 0 /\ Goto(p, "wProcessing")
    /\ UNCHANGED <<claimed, source, finished, status, outcomeVars, refundVars, proxyVars,
                   place, commission, callVars>>

WorkerProcessing(p) ==
    /\ pc[p] = "wProcessing"
    /\ status' = IF status = "PENDING" /\ resolution = "open" THEN "PROCESSING" ELSE status
    /\ \/ Goto(p, "wDone")
       \/ Goto(p, "wFail")        \* the lpush throws
    /\ UNCHANGED <<dispatchVars, outcomeVars, refundVars, proxyVars, place, commission, callVars>>

ToPendingRefund ==
    status' = IF status \in {"PENDING", "PROCESSING"} THEN "PENDING_REFUND" ELSE status

\* The catch block; before the claim there is nothing more to sign off.
WorkerFail(p) ==
    /\ pc[p] \in {"wFail", "wAbandon"}
    /\ ToPendingRefund
    /\ Resume(p, IF pc[p] = "wFail" THEN "wDone" ELSE "idle")
    /\ UNCHANGED <<dispatchVars, outcomeVars, refundVars, proxyVars, place, commission, callVars>>

\* The finally block of the owner of the dispatch.
WorkerDone(p) ==
    /\ pc[p] = "wDone"
    /\ finished' = (finished \/ source = "worker")
    /\ Finish(p)
    /\ UNCHANGED <<claimed, source, result, providerId, status, outcomeVars, refundVars,
                   proxyVars, place, commission, callVars>>

\* A database or Redis call of the worker throws.
WorkerThrow(p) ==
    /\ role[p] = "worker" /\ aborts < MaxAborts
    /\ \/ pc[p] \in {"wRead", "wClaim"} /\ pc' = [pc EXCEPT ![p] = "wAbandon"]
       \/ pc[p] \in {"wBuy", "wSave", "wProcessing"} /\ pc' = [pc EXCEPT ![p] = "wFail"]
       \/ pc[p] \in DeliveryLabels /\ pc' = [pc EXCEPT ![p] = "wFail"]
       \/ pc[p] = "wFail" /\ pc' = [pc EXCEPT ![p] = "wDone"]
    /\ aborts' = aborts + 1
    /\ UNCHANGED <<role, held, seen, frame, Documents, callVars>>

Worker(p) ==
    \/ WorkerRead(p) \/ WorkerClaim(p) \/ WorkerBuy(p) \/ WorkerAnswer(p) \/ WorkerSave(p)
    \/ WorkerProcessing(p) \/ WorkerFail(p) \/ WorkerDone(p)

-----------------------------------------------------------------------------
(* OrdersProcessingWorkerService.pollUntilActive and syncProviderOrder     *)

PollRead(p) ==
    /\ pc[p] = "pRead"
    /\ Resume(p, IF \/ status = "PROCESSING"
                    \/ resolution = "open" /\ status = "PENDING_REFUND"
                 THEN "pFetch" ELSE "idle")
    /\ ReadOnly

\* Some attempt returns proxies, or no attempt does.
PollFetch(p) ==
    /\ pc[p] = "pFetch"
    /\ \/ \E n \in Proxies \ {0} : Call(p, "mFreeze", n, "idle")
       \/ Goto(p, "pTimeout")
    /\ ReadOnly

\* An attempt that throws in materialize() is followed by the next one.
PollRetry(p) ==
    /\ role[p] = "poll" /\ pc[p] \in DeliveryLabels /\ aborts < MaxAborts
    /\ pc' = [pc EXCEPT ![p] = "pFetch"]
    /\ frame' = [frame EXCEPT ![p] = EmptyFrame]
    /\ aborts' = aborts + 1
    /\ UNCHANGED <<role, held, seen, Documents, callVars>>

PollTimeout(p) ==
    /\ pc[p] = "pTimeout"
    /\ status' = IF resolution = "open" /\ status \in {"PROCESSING", "PENDING_REFUND"}
                 THEN "PENDING_REFUND" ELSE status
    /\ Finish(p)
    /\ UNCHANGED <<dispatchVars, outcomeVars, refundVars, proxyVars, place, commission, callVars>>

SyncStart(p) ==
    /\ resolution # "failed" /\ plan = NoPlan
    /\ Start(p, "sync", "sFence")

CanFence ==
    /\ resolution = "open" /\ plan = NoPlan
    /\ \/ ~claimed
       \/ source = "reconciliation"
       \/ status = "PROCESSING"
       \/ status = "PENDING_REFUND" /\ finished

SyncFence(p) ==
    /\ pc[p] = "sFence"
    /\ \/ /\ CanFence
          /\ claimed' = TRUE /\ source' = "reconciliation" /\ providerId' = TRUE
          /\ status' = "PROCESSING"
          /\ Goto(p, "sFetch")
       \/ /\ ~CanFence
          /\ Finish(p)
          /\ UNCHANGED <<claimed, source, providerId, status>>
    /\ UNCHANGED <<finished, result, outcomeVars, refundVars, proxyVars, place, commission,
                   callVars>>

SyncFetch(p) ==
    /\ pc[p] = "sFetch"
    /\ \/ \E n \in Proxies \ {0} : Call(p, "mFreeze", n, "idle")
       \/ Finish(p)
    /\ ReadOnly

PollOrSync(p) ==
    PollRead(p) \/ PollFetch(p) \/ PollTimeout(p) \/ SyncFence(p) \/ SyncFetch(p)

-----------------------------------------------------------------------------
(* VouchersService.materialize, settle, recoverAffiliate                   *)

\* Mutant: the result is frozen whatever the resolution.
CanFreeze_Always == TRUE

CanFreeze == resolution = "open"

Freeze(p) ==
    /\ pc[p] = "mFreeze"
    /\ IF CanFreeze
       THEN resolution' = "fulfilled" /\ frozen' = frame[p].n
       ELSE UNCHANGED <<resolution, frozen>>
    /\ Goto(p, "mRead")
    /\ UNCHANGED <<actual, affiliate, status, dispatchVars, refundVars, proxyVars, place,
                   commission, callVars>>

\* Mutant: the caller's own result is stored, not the one that was frozen.
ToStore_Incoming(p) == frame[p].n

ToStore(p) == frozen

FrozenRead(p) ==
    /\ pc[p] = "mRead"
    /\ \/ /\ resolution # "fulfilled"
          /\ Resume(p, frame[p].after)
       \/ /\ resolution = "fulfilled" /\ status \notin Unpublished
          /\ Settle(p, Snapshot, "commission")
       \/ /\ resolution = "fulfilled" /\ status \in Unpublished
          /\ Carry(p, "mStore", ToStore(p))
    /\ ReadOnly

\* One upsert; of the proxies that are already there it changes nothing.
StoreProxy(p) ==
    /\ pc[p] = "mStore"
    /\ \/ /\ stored < frame[p].n
          /\ stored' = stored + 1
          /\ UNCHANGED procVars
       \/ /\ stored >= frame[p].n
          /\ Goto(p, "mCount")
          /\ UNCHANGED stored
    /\ UNCHANGED <<found, status, dispatchVars, outcomeVars, refundVars, place, commission,
                   callVars>>

CountProxies(p) ==
    /\ pc[p] = "mCount"
    /\ Carry(p, "mPublish", stored + found)
    /\ ReadOnly

Outbox(s) == s = "ACTIVE"

CanPublish == resolution = "fulfilled" /\ plan = NoPlan /\ status \in Unpublished

\* The id of the frozen result is copied to the order, where nobody needs it
\* any more.
Publish(p) ==
    /\ pc[p] = "mPublish"
    /\ UNCHANGED <<resolution, frozen, dispatchVars, refundVars, proxyVars, place, commission,
                   callVars>>
    /\ \/ /\ CanPublish
          /\ status' = IF frame[p].n < Quantity THEN "PARTIAL" ELSE "ACTIVE"
          /\ actual' = frame[p].n
          /\ affiliate' = Outbox(status')
          /\ Settle(p, Snapshot', "commission")
       \/ /\ ~CanPublish
          /\ UNCHANGED <<status, actual, affiliate>>
          /\ Resume(p, frame[p].after)

IsUse(doc) == doc.resolution = "fulfilled" /\ doc.actual > 0

Use(p) ==
    /\ pc[p] = "use"
    /\ place' = IF IsUse(seen[p]) /\ place = "reserved" THEN "used" ELSE place
    /\ Goto(p, "release")
    /\ UNCHANGED <<status, dispatchVars, outcomeVars, refundVars, proxyVars, commission, callVars>>

\* voucher_provider_confirmed_failed is set together with resolution "failed".
IsReturn(doc) == doc.resolution = "failed" /\ doc.refunded = Price /\ ~(doc.actual > 0)

\* release(i, 'reserved') and release(i, 'used')
Release(p) ==
    /\ pc[p] = "release"
    /\ place' = IF IsReturn(seen[p]) THEN "released" ELSE place
    /\ Resume(p, frame[p].next)
    /\ UNCHANGED <<status, dispatchVars, outcomeVars, refundVars, proxyVars, commission, callVars>>

OwesCommission(doc) ==
    doc.affiliate /\ doc.resolution = "fulfilled" /\ doc.actual >= Quantity

\* handleOrderActive: the unique order_id makes a second insert a success.
CreateCommission(p) ==
    /\ pc[p] = "commission"
    /\ \/ /\ OwesCommission(seen[p])
          /\ commission' = IF commission = "none" THEN "pending" ELSE commission
          /\ Goto(p, IF seen[p].status = "EXPIRED" THEN "confirm" ELSE "clear")
       \/ /\ ~OwesCommission(seen[p])
          /\ Resume(p, frame[p].after)
          /\ UNCHANGED commission
    /\ UNCHANGED <<status, dispatchVars, outcomeVars, refundVars, proxyVars, place, callVars>>

Confirmed == commission' = IF commission = "pending" THEN "confirmed" ELSE commission

ConfirmCommission(p) ==
    /\ pc[p] = "confirm"
    /\ Confirmed
    /\ Goto(p, "clear")
    /\ UNCHANGED <<status, dispatchVars, outcomeVars, refundVars, proxyVars, place, callVars>>

ClearAffiliate(p) ==
    /\ pc[p] = "clear"
    /\ affiliate' = FALSE
    /\ Resume(p, frame[p].after)
    /\ UNCHANGED <<resolution, frozen, actual, status, dispatchVars, refundVars, proxyVars,
                   place, commission, callVars>>

Materialize(p) ==
    \/ Freeze(p) \/ FrozenRead(p) \/ StoreProxy(p) \/ CountProxies(p) \/ Publish(p)
    \/ Use(p) \/ Release(p) \/ CreateCommission(p) \/ ConfirmCommission(p) \/ ClearAffiliate(p)

-----------------------------------------------------------------------------
(* VouchersService.confirmFailure and refund                               *)

\* Mutant: a confirmed failure does not look at the resolution.
CanConfirmFailure_AnyResolution ==
    /\ status = "PENDING_REFUND" /\ resolution # "failed"
    /\ plan = NoPlan /\ actual = None

CanConfirmFailure ==
    /\ status = "PENDING_REFUND" /\ resolution = "open"
    /\ plan = NoPlan /\ actual = None /\ ~(result > 0)

ConfirmFailure ==
    /\ "confirm" \in Roles
    /\ CanConfirmFailure
    /\ resolution' = "failed" /\ claimed' = TRUE
    /\ UNCHANGED <<frozen, actual, affiliate, source, finished, result, providerId, status,
                   refundVars, proxyVars, place, commission, procVars, callVars>>

\* missingRefund: the net price of the missing proxies, rounded down.
MissingRefund(received) == (Price * (Quantity - received)) \div Quantity

RefundAllowed(doc, target, missing) ==
    /\ target \in 0..Price
    /\ IF missing
       THEN /\ doc.status \in {"PARTIAL", "PARTIAL_REFUNDED"}
            /\ doc.actual \in 0..Quantity /\ target = MissingRefund(doc.actual)
       ELSE doc.resolution = "failed" /\ ~(doc.actual > 0)

\* approveRefund (the whole price), adminRefund (any amount), refundMissingQuantity.
RefundStart(p) ==
    \E missing \in BOOLEAN :
      \E target \in 0..Price :
        /\ "refund" \in Roles /\ pc[p] = "idle"
        /\ RefundAllowed(Snapshot, target, missing)
        /\ role' = [role EXCEPT ![p] = "refund"]
        /\ pc' = [pc EXCEPT ![p] = "rPlan"]
        /\ held' = [held EXCEPT ![p] = Snapshot]
        /\ frame' = [frame EXCEPT ![p] = [EmptyFrame EXCEPT !.n = target, !.missing = missing]]
        /\ UNCHANGED <<seen, aborts>>
        /\ ReadOnly

\* The plan is set once: null -> plan.
PlanRefund(p) ==
    /\ pc[p] = "rPlan"
    /\ plan' = IF plan = NoPlan THEN [amount |-> frame[p].n, missing |-> frame[p].missing]
               ELSE plan
    /\ Goto(p, "rRead")
    /\ UNCHANGED <<refunded, credit, ledger, status, dispatchVars, outcomeVars, proxyVars,
                   place, commission, callVars>>

\* Mutant: whatever plan is there, this refund goes on.
PlanMatches_Any(p) == plan # NoPlan

PlanMatches(p) == plan = [amount |-> frame[p].n, missing |-> frame[p].missing]

CheckPlan(p) ==
    /\ pc[p] = "rRead"
    /\ Resume(p, IF PlanMatches(p) THEN "rCredit" ELSE "idle")
    /\ ReadOnly

\* The wallet takes one receipt of this token.
CreditWallet(p) ==
    /\ pc[p] = "rCredit"
    /\ credit' = IF credit = None THEN frame[p].n ELSE credit
    /\ Goto(p, "rStatus")
    /\ UNCHANGED <<plan, refunded, ledger, status, dispatchVars, outcomeVars, proxyVars,
                   place, commission, callVars>>

SetRefunded(p) ==
    /\ pc[p] = "rStatus"
    /\ refunded' = frame[p].n
    /\ status' = IF frame[p].missing THEN "PARTIAL_REFUNDED"
                 ELSE IF frame[p].n = Price THEN "REFUNDED" ELSE "PENDING_REFUND"
    /\ Goto(p, "rFresh")
    /\ UNCHANGED <<plan, credit, ledger, dispatchVars, outcomeVars, proxyVars, place,
                   commission, callVars>>

SettleRefund(p) ==
    /\ pc[p] = "rFresh"
    /\ Settle(p, Snapshot, "project")
    /\ ReadOnly

ProjectRefund(p) ==
    /\ pc[p] = "project"
    /\ ledger' = TRUE
    /\ Resume(p, frame[p].after)
    /\ UNCHANGED <<plan, refunded, credit, status, dispatchVars, outcomeVars, proxyVars,
                   place, commission, callVars>>

Refund(p) ==
    \/ PlanRefund(p) \/ CheckPlan(p) \/ CreditWallet(p) \/ SetRefunded(p)
    \/ SettleRefund(p) \/ ProjectRefund(p)

-----------------------------------------------------------------------------
(* VouchersService.reconcile, one intent; recover() is in VoucherPurchase.  *)

\* Mutant: null is not taken for nothing delivered.
IsLegacyExpiry_NotNull(doc) ==
    doc.status = "EXPIRED" /\ doc.resolution = "open" /\ doc.actual = 0

IsLegacyExpiry(doc) ==
    doc.status = "EXPIRED" /\ doc.resolution = "open" /\ ~(doc.actual > 0)

ReconcileStart(p) ==
    /\ NotRunning("reconcile")
    /\ StartWith(p, "reconcile", IF IsLegacyExpiry(Snapshot) THEN "cReverse" ELSE "cAct",
                 Snapshot)

ReverseUsage(p) ==
    /\ pc[p] = "cReverse"
    /\ place' = IF place = "used" THEN "reserved" ELSE place
    /\ Goto(p, "cReopen")
    /\ UNCHANGED <<status, dispatchVars, outcomeVars, refundVars, proxyVars, commission, callVars>>

Reopen(p) ==
    /\ pc[p] = "cReopen"
    /\ status' = IF status = "EXPIRED" /\ resolution = "open" THEN "PENDING_REFUND" ELSE status
    /\ Goto(p, "cReread")
    /\ UNCHANGED <<dispatchVars, outcomeVars, refundVars, proxyVars, place, commission, callVars>>

Reread(p) ==
    /\ pc[p] = "cReread"
    /\ pc' = [pc EXCEPT ![p] = "cAct"]
    /\ held' = [held EXCEPT ![p] = Snapshot]
    /\ UNCHANGED <<role, seen, frame, aborts>>
    /\ ReadOnly

\* What materialize() is called with, 0 if it is not.
Redelivered(doc) ==
    IF doc.frozen > 0 THEN doc.frozen ELSE IF doc.result > 0 THEN doc.result ELSE 0

\* voucher_provider_result has no proxies but a provider_order_id.
IsAnswered(doc) == doc.result = 0 /\ doc.resolution = "open" /\ doc.status = "PENDING"

IsInterrupted(doc) ==
    doc.claimed /\ doc.result = None /\ doc.resolution = "open" /\ doc.status = "PENDING"

\* The branches that write at most the outcome of the provider call.
Redeliver(p) ==
    /\ pc[p] = "cAct"
    /\ \/ Redelivered(held[p]) > 0 /\ Call(p, "mFreeze", Redelivered(held[p]), "cRefund")
       \/ Redelivered(held[p]) = 0 /\ ~IsAnswered(held[p]) /\ Goto(p, "cRefund")
    /\ ReadOnly

ResumeAnswered(p) ==
    /\ pc[p] = "cAct" /\ Redelivered(held[p]) = 0 /\ IsAnswered(held[p])
    /\ \/ status = "PENDING" /\ status' = "PROCESSING" /\ providerId' = TRUE
       \/ status # "PENDING" /\ UNCHANGED <<status, providerId>>
    /\ Goto(p, "cRefund")
    /\ UNCHANGED <<claimed, source, finished, result, outcomeVars, refundVars, proxyVars,
                   place, commission, callVars>>

\* The order has not changed for ten minutes.
GiveUp(p) ==
    /\ pc[p] = "cAct" /\ Redelivered(held[p]) = 0 /\ IsInterrupted(held[p])
    /\ status' = IF status = "PENDING" /\ resolution = "open" THEN "PENDING_REFUND" ELSE status
    /\ Goto(p, "cRefund")
    /\ UNCHANGED <<dispatchVars, outcomeVars, refundVars, proxyVars, place, commission, callVars>>

\* Mutant: a refund whose amount is on the order is taken for finished.
OwesRefund_NotMarked(doc) == doc.plan # NoPlan /\ doc.refunded = 0

OwesRefund(doc) == doc.plan # NoPlan

\* refund(order, plan...) throws when the order in hand does not allow it.
ResumeRefund(p) ==
    LET doc == held[p] IN
    /\ pc[p] = "cRefund"
    /\ \/ /\ OwesRefund(doc) /\ RefundAllowed(doc, doc.plan.amount, doc.plan.missing)
          /\ pc' = [pc EXCEPT ![p] = "rPlan"]
          /\ frame' = [frame EXCEPT ![p] = [n |-> doc.plan.amount, missing |-> doc.plan.missing,
                                            after |-> "cSettle", next |-> "idle"]]
          /\ UNCHANGED <<role, held, seen, aborts>>
       \/ /\ OwesRefund(doc) /\ ~RefundAllowed(doc, doc.plan.amount, doc.plan.missing)
          /\ Finish(p)
       \/ /\ ~OwesRefund(doc)
          /\ Goto(p, "cSettle")
    /\ ReadOnly

SettleOrder(p) ==
    /\ pc[p] = "cSettle"
    /\ pc' = [pc EXCEPT ![p] = "use"]
    /\ seen' = [seen EXCEPT ![p] = held[p]]
    /\ frame' = [frame EXCEPT ![p] = [EmptyFrame EXCEPT !.next = "commission"]]
    /\ UNCHANGED <<role, held, aborts>>
    /\ ReadOnly

Reconcile(p) ==
    \/ ReverseUsage(p) \/ Reopen(p) \/ Reread(p) \/ Redeliver(p) \/ ResumeAnswered(p)
    \/ GiveUp(p) \/ ResumeRefund(p) \/ SettleOrder(p)

-----------------------------------------------------------------------------
(* OrdersExpirationScheduler.checkExpiredOrders                            *)

\* end_date is in the past whenever the scheduler finds it so.
CanExpire ==
    /\ status \in {"ACTIVE", "PROCESSING"}
    /\ resolution = "fulfilled" /\ actual > 0 /\ ~affiliate

ExpireStart(p) ==
    /\ CanExpire /\ NotRunning("expire")
    /\ Start(p, "expire", "eUpdate")

ExpireOrder(p) ==
    /\ pc[p] = "eUpdate"
    /\ status' = IF CanExpire THEN "EXPIRED" ELSE status
    /\ Goto(p, "eConfirm")
    /\ UNCHANGED <<dispatchVars, outcomeVars, refundVars, proxyVars, place, commission, callVars>>

ExpireCommission(p) ==
    /\ pc[p] = "eConfirm"
    /\ Confirmed
    /\ Finish(p)
    /\ UNCHANGED <<status, dispatchVars, outcomeVars, refundVars, proxyVars, place, callVars>>

Expire(p) == ExpireOrder(p) \/ ExpireCommission(p)

-----------------------------------------------------------------------------
(* OrdersRecoveryScheduler.tryRecover, which does not know of vouchers.     *)

RecoverStart(p) ==
    /\ status = "PENDING_REFUND" /\ providerId
    /\ Start(p, "recovery", "vCount")

CountRecovered(p) ==
    /\ pc[p] = "vCount"
    /\ Carry(p, IF stored + found > 0 THEN "vHeal" ELSE "vFetch", stored + found)
    /\ ReadOnly

\* The provider is asked once; on an error or an empty answer nothing happens.
FetchRecovered(p) ==
    /\ pc[p] = "vFetch"
    /\ \/ \E n \in Proxies \ {0} : Carry(p, "vInsert", n)
       \/ Finish(p)
    /\ ReadOnly

\* Random ids: nothing stops a second copy of the proxies.
InsertRecovered(p) ==
    /\ pc[p] = "vInsert"
    /\ found' = found + frame[p].n
    /\ recovered' = TRUE
    /\ Goto(p, "vRecount")
    /\ UNCHANGED <<stored, status, dispatchVars, outcomeVars, refundVars, place, commission,
                   buying, buys>>

RecountRecovered(p) ==
    /\ pc[p] = "vRecount"
    /\ Carry(p, "vPublish", stored + found)
    /\ ReadOnly

\* findByIdAndUpdate without a condition: proxies found in the database (vHeal)
\* or just inserted (vPublish).
PublishRecovered(p) ==
    /\ pc[p] \in {"vHeal", "vPublish"}
    /\ status' = IF frame[p].n < Quantity THEN "PARTIAL" ELSE "ACTIVE"
    /\ actual' = IF frame[p].n < Quantity THEN frame[p].n ELSE None
    /\ recovered' = TRUE
    /\ Resume(p, IF pc[p] = "vPublish" /\ status' = "ACTIVE" THEN "vCommission" ELSE "idle")
    /\ UNCHANGED <<resolution, frozen, affiliate, dispatchVars, refundVars, proxyVars, place,
                   commission, buying, buys>>

RecoveredCommission(p) ==
    /\ pc[p] = "vCommission"
    /\ commission' = IF commission = "none" THEN "pending" ELSE commission
    /\ Finish(p)
    /\ UNCHANGED <<status, dispatchVars, outcomeVars, refundVars, proxyVars, place, callVars>>

Recover(p) ==
    \/ CountRecovered(p) \/ FetchRecovered(p) \/ InsertRecovered(p) \/ RecountRecovered(p)
    \/ PublishRecovered(p) \/ RecoveredCommission(p)

-----------------------------------------------------------------------------
(* The specification.                                                      *)

\* The queue may deliver an order late, twice or after it was dealt with.
WorkerStart(p) == Start(p, "worker", "wRead")

\* Schedulers push orders that have a provider order id, the worker also others.
PollStart(p) == (providerId \/ result = Nameless) /\ Start(p, "poll", "pRead")

StartAny(p) ==
    \/ WorkerStart(p) \/ PollStart(p) \/ SyncStart(p) \/ RefundStart(p)
    \/ ReconcileStart(p) \/ ExpireStart(p) \/ RecoverStart(p)

\* An execution dies with its process, or throws past its last handler.
Abort(p) ==
    /\ pc[p] # "idle" /\ aborts < MaxAborts
    /\ role' = [role EXCEPT ![p] = "none"]
    /\ pc' = [pc EXCEPT ![p] = "idle"]
    /\ held' = [held EXCEPT ![p] = Blank]
    /\ seen' = [seen EXCEPT ![p] = Blank]
    /\ frame' = [frame EXCEPT ![p] = EmptyFrame]
    /\ aborts' = aborts + 1
    /\ buying' = buying \ {p}
    /\ UNCHANGED <<Documents, buys, recovered>>

Step(p) ==
    \/ Worker(p) \/ PollOrSync(p) \/ Materialize(p) \/ Refund(p) \/ Reconcile(p)
    \/ Expire(p) \/ Recover(p)

Next ==
    \/ ConfirmFailure
    \/ \E p \in Procs :
         Step(p) \/ StartAny(p) \/ WorkerThrow(p) \/ PollRetry(p) \/ Abort(p)

Spec == Init /\ [][Next]_vars

\* What runs goes on running; the cron job starts again and again; and an order
\* nobody touches is at last ten minutes old.
Fairness ==
    /\ \A p \in Procs : WF_vars(Step(p)) /\ SF_vars(GiveUp(p))
    /\ SF_vars(\E p \in Procs : ReconcileStart(p))

FairSpec == Spec /\ Fairness

-----------------------------------------------------------------------------
(* Properties.                                                             *)

\* The provider is asked to deliver the order at most once, however often the
\* queue hands it out and whichever execution dies (OrdersWorkerService
\* .processOrder, the permanent fence).
SingleBuy == buys <= 1

\* The manual sync never takes an order over while a worker is still inside
\* provider.buy() for it (syncProviderOrder, the voucher fence).
NoSyncDuringBuy == source = "reconciliation" => buying = {}

\* The order is bought by one execution, once: the two conditions above, on well-typed states.
BuysAlone == TypeOK /\ SingleBuy /\ NoSyncDuringBuy

\* An order is resolved once: a fulfilment is never replaced by another one, a
\* confirmed failure never by a fulfilment (materialize and confirmFailure).
ResolutionIsOneWay == [][resolution # "open" => UNCHANGED <<resolution, frozen>>]_vars

\* No proxy is stored for an order whose failure was confirmed, so that money
\* goes back only for what was not delivered (materialize, confirmFailure,
\* tryRecover).
FailedGetsNothing == resolution = "failed" => stored + found = 0

\* FailedGetsNothing, of orders that the recovery scheduler, which does not look at the resolution,
\* has not written.
FailureIsFinal == recovered \/ FailedGetsNothing

\* The wallet is credited with the one planned amount, and the order never
\* shows another one, however many refunds are asked for or resumed at once
\* (refund).
RefundFollowsPlan ==
    credit # None => credit = plan.amount /\ refunded \in {0, credit}

\* A refund for missing proxies is the net price of exactly those that were not
\* stored, and the rest stays delivered (refund, materialize).
MissingMatchesStored ==
    credit # None /\ plan.missing
        => resolution = "fulfilled" /\ stored = frozen /\ credit = MissingRefund(stored)

\* The voucher place is used only by a delivered order and handed back only by
\* a failed order whose whole price was returned (settle).
QuotaFollowsOutcome ==
    /\ place = "used" => (resolution = "fulfilled" /\ actual > 0) \/ LegacyOrders
    /\ place = "released" => resolution = "failed" /\ refunded = Price

\* Only a full delivery that is not refunded earns a commission (recoverAffiliate).
CommissionForFull == commission # "none" => stored = Quantity /\ credit = None

\* The refund, the voucher place and the commission agree with what was delivered: the three
\* conditions above.
OutcomeAgrees == MissingMatchesStored /\ QuotaFollowsOutcome /\ CommissionForFull

\* OutcomeAgrees, of orders that the recovery scheduler, which does not look at the outcome, has
\* not written.
OutcomesAgree == recovered \/ OutcomeAgrees

\* What was frozen is delivered: the proxies are stored, the order published and
\* the place used, although executions die on the way (materialize, reconcile).
DeliveryCompletes ==
    (resolution = "fulfilled") ~> (stored = frozen /\ status \notin Unpublished /\ place = "used")

\* A full delivery is followed by its commission (recoverAffiliate, reconcile).
CommissionFollows == (resolution = "fulfilled" /\ frozen = Quantity) ~> (commission # "none" /\ ~affiliate)

\* A planned refund reaches the wallet, the order, the voucher place and the
\* wallet history (refund, reconcile).
RefundCompletes ==
    (plan # NoPlan) ~> /\ credit = plan.amount /\ refunded = plan.amount /\ ledger
                       /\ (resolution = "failed" /\ plan.amount = Price) => place = "released"

\* A claimed order does not stay PENDING when its worker dies, unless it saved an
\* answer with neither proxies nor an order id: no branch of reconcile() is for it.
DispatchResolves ==
    (claimed /\ status = "PENDING") ~> (status # "PENDING" \/ result = Nameless)

\* An order the old scheduler expired before delivery is opened again, and the
\* place it had used up is only reserved, unless the manual sync took the order
\* over first (reconcile, syncProviderOrder).
LegacyRepaired ==
    (status = "EXPIRED" /\ resolution = "open")
        ~> (status # "EXPIRED" /\ (place = "used" => source = "reconciliation"))

\* Whatever is begun is finished and followed up: DeliveryCompletes, CommissionFollows,
\* DispatchResolves and LegacyRepaired.
OrderCompletes == DeliveryCompletes /\ CommissionFollows /\ DispatchResolves /\ LegacyRepaired

\* A delivered order uses its place (docs/vouchers.md: "ACTIVE/PARTIAL consumes
\* usage"); refuted when tryRecover() delivers it.
DeliveredIsUsed == (status \in {"ACTIVE", "PARTIAL"}) ~> (place = "used")
=============================================================================
