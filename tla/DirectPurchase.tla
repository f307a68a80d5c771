--------------------------- MODULE DirectPurchase ---------------------------
(***************************************************************************)
(* Purchases without a voucher: buy(), its blocking form buySync(), and    *)
(* the orders administrators create or edit by hand                        *)
(* (src/src/orders/orders.service.ts).                                     *)
(*                                                                         *)
(* One action is one database or Redis call.  A request carries the        *)
(* client's Idempotency-Key or none; the answer is kept under the key for  *)
(* a day, and a lock of 60 s keeps two requests of one key apart.          *)
(*                                                                         *)
(* Abstractions.  Every purchase costs Price; what is priced, validated    *)
(* and asked of the provider before the debit is the module Procurement,   *)
(* and here one step that accepts or refuses.  The worker is one step that *)
(* settles an order; OrderLifecycle has its own.                           *)
(***************************************************************************)
EXTENDS Integers, Sequences, FiniteSets, Functions

CONSTANTS
    Procs,         \* HTTP requests under way at once
    Keys,          \* Idempotency-Keys of a client
    VoucherKeys,   \* those a voucher intent owns already
    Price, StartMoney,
    MaxRequests, MaxOrders, MaxTroubles   \* bounds

VARIABLES
    orders,      \* the order documents, in order of creation
    queue,       \* orders:pending
    money,       \* users.money
    spent,       \* wallet_transactions of type PURCHASE, summed
    cache,       \* idem:buy:<user>:<key>: the answer kept for the key
    lock,        \* its lock: the request that took it, or None
    pc, job,     \* requests
    \* history and bounds
    unbooked,    \* debits that the ledger has no entry of
    overlap,     \* two requests of the key were under way at once
    lapsed,      \* a lock of the key lapsed, or its error was not kept
    requests,    \* buy() and buySync()
    troubles     \* calls that failed, deaths, lapses and edits

shopVars == <<orders, queue, money, spent>>
keyVars  == <<cache, lock>>
histVars == <<unbooked, overlap, lapsed>>
bounds   == <<requests, troubles>>
vars == <<shopVars, keyVars, pc, job, histVars, bounds>>

None  == -1
NoKey == -2

PurchaseAssumption ==
    /\ IsFiniteSet(Procs) /\ None \notin Procs /\ NoKey \notin Keys
    /\ {Price, StartMoney, MaxRequests, MaxOrders, MaxTroubles} \subseteq Nat

Statuses == {"PENDING", "ACTIVE", "PARTIAL", "PENDING_REFUND", "CANCELLED"}
Document == [key: Keys \cup {NoKey}, status: Statuses, paid: BOOLEAN, bought: BOOLEAN]
Answers  == {"none", "order", "error"}
Labels   == {"idle", "prior", "cached", "lock", "validate", "debit", "save", "push",
             "keep", "error", "unlock", "poll"}

\* A request: its key, whether it waits for the proxies, the order it made.
Idle == [key |-> NoKey, sync |-> FALSE, order |-> None, ok |-> FALSE]

TypeOK ==
    /\ orders \in Seq(Document) /\ queue \subseteq DOMAIN orders
    /\ money \in Nat /\ spent \in Nat /\ unbooked \in Nat
    /\ cache \in [Keys -> [is: Answers, order: DOMAIN orders \cup {None}]]
    /\ lock \in [Keys -> Procs \cup {None}]
    /\ pc \in [Procs -> Labels]
    /\ \A p \in Procs : pc[p] \in {"push", "keep", "error", "poll"} => job[p].order \in DOMAIN orders

Init ==
    /\ orders = <<>> /\ queue = {}
    /\ money = StartMoney /\ spent = 0
    /\ cache = [k \in Keys |-> [is |-> "none", order |-> None]]
    /\ lock = [k \in Keys |-> None]
    /\ pc = [p \in Procs |-> "idle"] /\ job = [p \in Procs |-> Idle]
    /\ unbooked = 0 /\ overlap = [k \in Keys |-> FALSE] /\ lapsed = [k \in Keys |-> FALSE]
    /\ requests = 0 /\ troubles = 0

-----------------------------------------------------------------------------

Goto(p, l, j) ==
    /\ pc' = [pc EXCEPT ![p] = l]
    /\ job' = [job EXCEPT ![p] = j]

Finish(p) == Goto(p, "idle", Idle)

\* The request ends, through the "finally" that deletes the lock.
Leave(p, j) == IF j.key = NoKey THEN Finish(p) ELSE Goto(p, "unlock", j)

\* An answer with an order: buySync() waits for its proxies.
Answered(p, j) == IF j.sync THEN Goto(p, "poll", j) ELSE Finish(p)

\* A call that throws, a death, a lapse or an edit.
Trouble == troubles < MaxTroubles /\ troubles' = troubles + 1

-----------------------------------------------------------------------------
(* One request.                                                            *)

BuyStart(p, k, sync) ==
    /\ pc[p] = "idle" /\ requests < MaxRequests /\ Len(orders) < MaxOrders
    /\ requests' = requests + 1
    /\ Goto(p, IF k = NoKey THEN "validate" ELSE "prior", [Idle EXCEPT !.key = k, !.sync = sync])
    /\ overlap' = [x \in Keys |-> overlap[x] \/ (x = k /\ \E q \in Procs \ {p} : job[q].key = k)]
    /\ UNCHANGED <<shopVars, keyVars, unbooked, lapsed, troubles>>

\* A voucher intent owns its key, even when a retry drops the voucher: the
\* voucher's purchase answers.
BuyPrior(p) ==
    /\ pc[p] = "prior"
    /\ IF job[p].key \in VoucherKeys THEN Finish(p) ELSE Goto(p, "cached", job[p])
    /\ UNCHANGED <<shopVars, keyVars, histVars, bounds>>

\* What the key was answered before: the order, or the error again.
BuyCached(p) ==
    /\ pc[p] = "cached"
    /\ LET kept == cache[job[p].key] IN
       \/ kept.is = "none" /\ Goto(p, "lock", job[p])
       \/ kept.is = "error" /\ Finish(p)
       \/ kept.is = "order" /\ Answered(p, [job[p] EXCEPT !.order = kept.order])
    /\ UNCHANGED <<shopVars, keyVars, histVars, bounds>>

\* SET NX: a second request of the key is told to wait.
BuyLock(p) ==
    /\ pc[p] = "lock"
    /\ LET k == job[p].key IN
       IF lock[k] # None
       THEN Finish(p) /\ UNCHANGED lock
       ELSE /\ lock' = [lock EXCEPT ![k] = p]
            /\ Goto(p, "validate", job[p])
    /\ UNCHANGED <<shopVars, cache, histVars, bounds>>

\* Service, partner, price, product, country, worker and preflight: nothing
\* has been charged when one of them refuses.
BuyValidate(p) ==
    /\ pc[p] = "validate"
    /\ Goto(p, "debit", job[p]) \/ Leave(p, job[p])
    /\ UNCHANGED <<shopVars, keyVars, histVars, bounds>>

\* Mutant: an empty wallet buys too.
BuyDebitAlways(p) ==
    /\ pc[p] = "debit"
    /\ money' = IF money < Price THEN 0 ELSE money - Price
    /\ Goto(p, "save", job[p])
    /\ UNCHANGED <<orders, queue, spent, keyVars, histVars, bounds>>

BuyDebit(p) ==
    /\ pc[p] = "debit"
    /\ IF money < Price
       THEN Leave(p, job[p]) /\ UNCHANGED money
       ELSE /\ money' = money - Price
            /\ Goto(p, "save", job[p])
    /\ UNCHANGED <<orders, queue, spent, keyVars, histVars, bounds>>

BuySave(p) ==
    /\ pc[p] = "save" /\ Len(orders) < MaxOrders
    /\ orders' = Append(orders, [key |-> job[p].key, status |-> "PENDING", paid |-> TRUE,
                                 bought |-> TRUE])
    /\ Goto(p, "push", [job[p] EXCEPT !.order = Len(orders) + 1])
    /\ UNCHANGED <<queue, money, spent, keyVars, histVars, bounds>>

\* save() threw after the debit: no order, no refund, and nothing is kept.
BuySaveFails(p) ==
    /\ pc[p] = "save" /\ Trouble
    /\ unbooked' = unbooked + Price
    /\ Leave(p, job[p])
    /\ UNCHANGED <<shopVars, keyVars, overlap, lapsed, requests>>

\* LPUSH, and the wallet's ledger without waiting for it.
BuyPush(p) ==
    /\ pc[p] = "push"
    /\ queue' = queue \cup {job[p].order}
    /\ spent' = spent + Price
    /\ IF job[p].key = NoKey
       THEN Answered(p, job[p])
       ELSE Goto(p, "keep", job[p])
    /\ UNCHANGED <<orders, money, keyVars, histVars, bounds>>

\* LPUSH threw: the order exists, so the error is kept for the retries.
BuyPushFails(p) ==
    /\ pc[p] = "push" /\ Trouble
    /\ unbooked' = unbooked + Price
    /\ IF job[p].key = NoKey THEN Finish(p) ELSE Goto(p, "error", job[p])
    /\ UNCHANGED <<shopVars, keyVars, overlap, lapsed, requests>>

\* Mutant: the answer is sent and not kept.
BuyKeepNothing(p) ==
    /\ pc[p] = "keep"
    /\ Goto(p, "unlock", [job[p] EXCEPT !.ok = TRUE])
    /\ UNCHANGED <<shopVars, keyVars, histVars, bounds>>

\* The answer is kept for every retry of the next day.
BuyKeep(p) ==
    /\ pc[p] = "keep"
    /\ cache' = [cache EXCEPT ![job[p].key] = [is |-> "order", order |-> job[p].order]]
    /\ Goto(p, "unlock", [job[p] EXCEPT !.ok = TRUE])
    /\ UNCHANGED <<shopVars, lock, histVars, bounds>>

BuyKeepFails(p) ==
    /\ pc[p] = "keep" /\ Trouble
    /\ Goto(p, "error", job[p])
    /\ UNCHANGED <<shopVars, keyVars, histVars, requests>>

BuyError(p) ==
    /\ pc[p] = "error"
    /\ cache' = [cache EXCEPT ![job[p].key] = [is |-> "error", order |-> None]]
    /\ Goto(p, "unlock", job[p])
    /\ UNCHANGED <<shopVars, lock, histVars, bounds>>

\* Keeping the error threw too, in the same trouble: a retry will find nothing, and buy again.
BuyErrorFails(p) ==
    /\ pc[p] = "error"
    /\ Goto(p, "unlock", job[p])
    /\ lapsed' = [lapsed EXCEPT ![job[p].key] = TRUE]
    /\ UNCHANGED <<shopVars, keyVars, unbooked, overlap, bounds>>

\* DEL: whoever holds the lock by now.  An error of it is ignored.
BuyUnlock(p) ==
    /\ pc[p] = "unlock"
    /\ lock' = [lock EXCEPT ![job[p].key] = None]
    /\ IF job[p].ok THEN Answered(p, job[p]) ELSE Finish(p)
    /\ UNCHANGED <<shopVars, cache, histVars, bounds>>

-----------------------------------------------------------------------------
(* buySync() reads the order twice a second, for a minute.                 *)

Decided(status) == status \in {"ACTIVE", "PARTIAL", "PENDING_REFUND"}

PollAnswer(p) ==
    /\ pc[p] = "poll" /\ Decided(orders[job[p].order].status)
    /\ Finish(p)
    /\ UNCHANGED <<shopVars, keyVars, histVars, bounds>>

\* TIMEOUT: the order goes on, and its money stays spent.
PollTimeout(p) ==
    /\ pc[p] = "poll" /\ ~Decided(orders[job[p].order].status)
    /\ Finish(p)
    /\ UNCHANGED <<shopVars, keyVars, histVars, bounds>>

-----------------------------------------------------------------------------
(* Administrators, the worker, and failures.                               *)

\* create(): nobody pays, and the order is PENDING as if somebody had.
AdminCreate(paid) ==
    /\ Trouble /\ Len(orders) < MaxOrders
    /\ orders' = Append(orders, [key |-> NoKey, status |-> "PENDING", paid |-> paid,
                                 bought |-> FALSE])
    /\ UNCHANGED <<queue, money, spent, keyVars, pc, job, histVars, requests>>

\* updateStatus() and updatePaymentStatus(): any value, at any time.
AdminEdits(o, status, paid) ==
    /\ Trouble
    /\ \/ orders' = [orders EXCEPT ![o].status = status]
       \/ orders' = [orders EXCEPT ![o].paid = paid]
    /\ UNCHANGED <<queue, money, spent, keyVars, pc, job, histVars, requests>>

\* The worker takes an order off the queue and settles it if it is PENDING.
Work(o) ==
    /\ o \in queue
    /\ queue' = queue \ {o}
    /\ IF orders[o].status = "PENDING"
       THEN \E status \in {"ACTIVE", "PARTIAL", "PENDING_REFUND"} :
                orders' = [orders EXCEPT ![o].status = status]
       ELSE UNCHANGED orders
    /\ UNCHANGED <<money, spent, keyVars, pc, job, histVars, bounds>>

\* The scheduler queues a PENDING order again that no push has queued.
Requeue(o) ==
    /\ orders[o].status = "PENDING" /\ o \notin queue
    /\ queue' = queue \cup {o}
    /\ UNCHANGED <<orders, money, spent, keyVars, pc, job, histVars, bounds>>

\* 60 s: the holder died, or is slow.
Lapse(k) ==
    /\ lock[k] # None /\ Trouble
    /\ lock' = [lock EXCEPT ![k] = None]
    /\ lapsed' = [lapsed EXCEPT ![k] = TRUE]
    /\ UNCHANGED <<shopVars, cache, pc, job, unbooked, overlap, requests>>

\* A debit with no order yet, or an order with no ledger entry yet.
InHand(p) == IF pc[p] \in {"save", "push"} THEN Price ELSE 0

Abort(p) ==
    /\ pc[p] # "idle" /\ Trouble
    /\ unbooked' = unbooked + InHand(p)
    /\ Finish(p)
    /\ UNCHANGED <<shopVars, keyVars, overlap, lapsed, requests>>

-----------------------------------------------------------------------------

Buy(p) ==
    \/ \E k \in Keys \cup {NoKey}, sync \in BOOLEAN : BuyStart(p, k, sync)
    \/ BuyPrior(p) \/ BuyCached(p) \/ BuyLock(p) \/ BuyValidate(p) \/ BuyDebit(p)
    \/ BuySave(p) \/ BuySaveFails(p) \/ BuyPush(p) \/ BuyPushFails(p)
    \/ BuyKeep(p) \/ BuyKeepFails(p) \/ BuyError(p) \/ BuyErrorFails(p) \/ BuyUnlock(p)
    \/ PollAnswer(p) \/ PollTimeout(p)

Environment ==
    \/ \E paid \in BOOLEAN : AdminCreate(paid)
    \/ \E o \in DOMAIN orders :
         \/ Work(o) \/ Requeue(o)
         \/ \E status \in Statuses, paid \in BOOLEAN : AdminEdits(o, status, paid)
    \/ \E k \in Keys : Lapse(k)

Next == (\E p \in Procs : Buy(p) \/ Abort(p)) \/ Environment

Spec == Init /\ [][Next]_vars

-----------------------------------------------------------------------------
(* Properties.                                                             *)

Bought(k) == {o \in DOMAIN orders : orders[o].key = k}

Hands == [p \in Procs |-> InHand(p)]

\* Every debit is in the ledger, in hand, or unbooked because a call failed or
\* the process died: nothing is taken for a request that was refused, and an
\* order bought is an order paid.
PurchasesPaid ==
    /\ money + spent + unbooked + SumFunctionOnSet(Hands, Procs) = StartMoney
    /\ troubles = 0 => unbooked = 0
    /\ Cardinality({o \in DOMAIN orders : orders[o].bought}) * Price <= StartMoney - money

\* Retries that follow the answer, or the crash, of the request before them buy nothing more:
\* not so where two requests overlap, the lock lapses or the error cannot be kept.
RetryIsFree ==
    \A k \in Keys : ~overlap[k] /\ ~lapsed[k] => Cardinality(Bought(k)) <= 1
=============================================================================
