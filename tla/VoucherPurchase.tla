--------------------------- MODULE VoucherPurchase ---------------------------
(***************************************************************************)
(* The voucher purchase saga of src/src/vouchers/vouchers.service.ts:      *)
(* purchase() freezes an intent, recover() drives it through               *)
(*   created -> reserved -> debited -> ordered   (or -> rejected)          *)
(* by single-document updates of the voucher, the user's wallet, the       *)
(* intent and the order.  There is no transaction: any number of request   *)
(* handlers that repeat the key, and the reconciler, run recover() on the  *)
(* same intent at once, and any of them may die between two updates.       *)
(*                                                                         *)
(* One action is one database or Redis call; the value a call returned     *)
(* lives on in pc, job and seen, and may be stale when the next call runs. *)
(*                                                                         *)
(* Abstractions.  A document-size limit (8 MB) is folded into the          *)
(* corresponding array cap.  Scope and minimum-subtotal refusals happen    *)
(* before anything is written.  What happens to an order once it is        *)
(* inserted is reduced to what feeds back into the voucher, the wallet and *)
(* the queue (section "Environment").                                      *)
(***************************************************************************)
EXTENDS Integers, FiniteSets, Functions

CONSTANTS
    Intents,        \* intent documents, one per (userId, key): the unique index
    Users,
    Owner,          \* Owner[i] = intent.userId
    Subtotal,       \* Subtotal[i] = list price of the order of i
    Configs,        \* the editable terms an administrator may store
    Procs,          \* concurrent executions of purchase() and recover()
    NoIntent,       \* job of an idle process
    ReservationCap, \* RESERVATION_CAP, entries of voucher.reservations
    ReceiptCap,     \* RECEIPT_CAP, entries of user.voucher_receipts
    AuditCap,       \* AUDIT_CAP, entries of voucher.audit
    MaxSafe,        \* Number.MAX_SAFE_INTEGER
    StartMoney,     \* wallet balances to start from
    MaxAborts,      \* bound: executions or queue items lost
    MaxMoves        \* bound: wallet moves of the rest of the system

Terms == [active: BOOLEAN, totalLimit: Nat \ {0}, perUserLimit: Nat \ {0},
          discount: Nat]

ASSUME PurchaseAssumption ==
    /\ IsFiniteSet(Intents)
    /\ Owner \in [Intents -> Users]
    /\ Subtotal \in [Intents -> Nat]
    /\ Configs \subseteq Terms
    /\ NoIntent \notin Intents
    /\ StartMoney \subseteq Nat
    /\ {ReservationCap, ReceiptCap, AuditCap, MaxSafe, MaxAborts, MaxMoves} \subseteq Nat

VARIABLES
    \* the voucher document
    revision,       \* bumped by every edit; audit has one entry per revision
    config,         \* status, limits and discount
    inWindow,       \* startsAt <= now < endsAt
    reserved, used, \* the two counters
    token,          \* status of the reservation of each intent, "none" if absent
    \* the intent documents
    state,          \* intent.state, "absent" before insertOne
    terms,          \* revision and net price frozen in the intent
    \* the user documents
    money, whole,   \* balance, and whether it is an integer
    receipt,        \* voucher receipt of each intent's debit
    refund,         \* amount of the receipt "refund:<order>", or NoRefund
    moved,          \* history: start balance plus all moves that are not voucher moves
    \* orders, orders:pending, wallettransactions
    order, queue, ledger,
    \* running executions
    pc, job, seen,
    aborts, moves   \* bounded counters

voucherVars == <<revision, config, inWindow, reserved, used, token>>
walletVars  == <<money, whole, receipt, refund, moved, moves>>
intentVars  == <<state, terms>>
orderVars   == <<order, queue, ledger>>
procVars    == <<pc, job, seen, aborts>>
vars == <<voucherVars, walletVars, intentVars, orderVars, procVars>>

NoRefund == -1

NothingSeen == [revision |-> 0, price |-> 0, inTime |-> FALSE]

Labels == {"idle", "lookup", "quote", "insert", "load", "reserve", "tombstone",
           "check", "checkTombstone", "reject", "markReserved", "reload", "debit",
           "readReceipt", "refuse", "rereadReceipt", "release", "rejectFunds",
           "markDebited", "reread", "insertOrder", "markOrdered", "rereadLast",
           "ledger", "dispatch", "push"}

TypeOK ==
    /\ revision \in Nat /\ config \in Configs /\ inWindow \in BOOLEAN
    /\ reserved \in Int /\ used \in Int
    /\ token \in [Intents -> {"none", "reserved", "used", "released"}]
    /\ state \in [Intents -> {"absent", "created", "reserved", "debited", "ordered", "rejected"}]
    /\ terms \in [Intents -> [revision: Nat, price: Nat]]
    /\ money \in [Users -> Int] /\ whole \in [Users -> BOOLEAN]
    /\ receipt \in [Intents -> {"none", "debit", "rejected"}]
    /\ refund \in [Intents -> Nat \cup {NoRefund}]
    /\ moved \in [Users -> Int]
    /\ order \in [Intents -> {"none", "pending", "claimed", "fulfilled", "failed"}]
    /\ queue \subseteq Intents /\ ledger \subseteq Intents
    /\ pc \in [Procs -> Labels]
    /\ job \in [Procs -> Intents \cup {NoIntent}]
    /\ \A p \in Procs : pc[p] # "idle" => job[p] \in Intents
    /\ seen \in [Procs -> [revision: Nat, price: Nat, inTime: BOOLEAN]]
    /\ aborts \in Nat /\ moves \in Nat

Init ==
    /\ revision = 1 /\ config \in Configs /\ inWindow = TRUE
    /\ reserved = 0 /\ used = 0
    /\ token = [i \in Intents |-> "none"]
    /\ state = [i \in Intents |-> "absent"]
    /\ terms = [i \in Intents |-> [revision |-> 0, price |-> 0]]
    /\ money \in [Users -> StartMoney] /\ moved = money
    /\ whole = [u \in Users |-> TRUE]
    /\ receipt = [i \in Intents |-> "none"]
    /\ refund = [i \in Intents |-> NoRefund]
    /\ order = [i \in Intents |-> "none"]
    /\ queue = {} /\ ledger = {}
    /\ pc = [p \in Procs |-> "idle"]
    /\ job = [p \in Procs |-> NoIntent]
    /\ seen = [p \in Procs |-> NothingSeen]
    /\ aborts = 0 /\ moves = 0

-----------------------------------------------------------------------------
(* Control of one execution.                                               *)

At(p, i, l) == pc[p] = l /\ job[p] = i

Goto(p, l) ==
    /\ pc' = [pc EXCEPT ![p] = l]
    /\ UNCHANGED <<job, seen, aborts>>

\* The call returned or threw: nothing of it is left.
Finish(p) ==
    /\ pc' = [pc EXCEPT ![p] = "idle"]
    /\ job' = [job EXCEPT ![p] = NoIntent]
    /\ seen' = [seen EXCEPT ![p] = NothingSeen]
    /\ UNCHANGED aborts

\* A read whose only effect is where the execution goes next.
Branch(p, c, yes, no) ==
    /\ Goto(p, IF c THEN yes ELSE no)
    /\ UNCHANGED <<voucherVars, walletVars, intentVars, orderVars>>

\* token of every reservation of the voucher that was not released
Live == {i \in Intents : token[i] \in {"reserved", "used"}}

LiveOf(u) == {i \in Live : Owner[i] = u}

ReservationsFull == Cardinality({i \in Intents : token[i] # "none"}) >= ReservationCap

ReceiptCount(u) ==
    Cardinality({i \in Intents : Owner[i] = u /\ receipt[i] # "none"})
    + Cardinality({i \in Intents : Owner[i] = u /\ refund[i] # NoRefund})

ReceiptsFull(u) == ReceiptCount(u) >= ReceiptCap

\* order.refunded_amount, 0 by default
Refunded(i) == IF refund[i] = NoRefund THEN 0 ELSE refund[i]

\* Mutant: the discount is not capped by the subtotal.
NetPrice_Unclamped(i) == Subtotal[i] - config.discount

\* order.total_price: the subtotal minus min(discount, subtotal)
NetPrice(i) ==
    IF config.discount < Subtotal[i] THEN Subtotal[i] - config.discount ELSE 0

SetState(i, s) ==
    /\ state' = [state EXCEPT ![i] = s]
    /\ UNCHANGED terms

-----------------------------------------------------------------------------
(* purchase(): look the key up, quote from the authoritative document,     *)
(* insert the intent.                                                      *)

StartPurchase(p, i) ==
    /\ pc[p] = "idle"
    /\ pc' = [pc EXCEPT ![p] = "lookup"]
    /\ job' = [job EXCEPT ![p] = i]
    /\ UNCHANGED <<seen, aborts, voucherVars, walletVars, intentVars, orderVars>>

\* existing(): a known key goes straight to recover().
Lookup(p, i) ==
    /\ At(p, i, "lookup")
    /\ Branch(p, state[i] = "absent", "quote", "load")

Quote(p, i) ==
    /\ At(p, i, "quote")
    /\ \/ /\ config.active /\ inWindow
          /\ pc' = [pc EXCEPT ![p] = "insert"]
          /\ seen' = [seen EXCEPT ![p] = [revision |-> revision, price |-> NetPrice(i),
                                         inTime |-> FALSE]]
          /\ UNCHANGED <<job, aborts>>
       \/ /\ ~(config.active /\ inWindow)
          /\ Finish(p)
    /\ UNCHANGED <<voucherVars, walletVars, intentVars, orderVars>>

\* insertOne; a duplicate (userId, key) goes back to existing().
Insert(p, i) ==
    /\ At(p, i, "insert")
    /\ \/ /\ state[i] = "absent"
          /\ state' = [state EXCEPT ![i] = "created"]
          /\ terms' = [terms EXCEPT ![i] = [revision |-> seen[p].revision,
                                            price |-> seen[p].price]]
          /\ Goto(p, "load")
       \/ /\ state[i] # "absent"
          /\ Goto(p, "lookup")
          /\ UNCHANGED intentVars
    /\ UNCHANGED <<voucherVars, walletVars, orderVars>>

\* reconcile() picks an intent that is not rejected.
StartRecover(p, i) ==
    /\ pc[p] = "idle"
    /\ state[i] \in {"created", "reserved", "debited", "ordered"}
    /\ pc' = [pc EXCEPT ![p] = "load"]
    /\ job' = [job EXCEPT ![p] = i]
    /\ UNCHANGED <<seen, aborts, voucherVars, walletVars, intentVars, orderVars>>

-----------------------------------------------------------------------------
(* recover(), the "created" block: reserve, else install a tombstone.      *)

\* Mutant: an ordered intent needs nothing more, so it is not dispatched again.
Load_OrderedIsDone(p, i) ==
    /\ At(p, i, "load")
    /\ \/ /\ state[i] \in {"rejected", "ordered"}
          /\ Finish(p)
       \/ /\ state[i] = "created"
          /\ pc' = [pc EXCEPT ![p] = "reserve"]
          /\ seen' = [seen EXCEPT ![p] = [revision |-> 0, price |-> 0,
                                         inTime |-> inWindow]]
          /\ UNCHANGED <<job, aborts>>
       \/ /\ state[i] \in {"reserved", "debited"}
          /\ Goto(p, "reload")
    /\ UNCHANGED <<voucherVars, walletVars, intentVars, orderVars>>

Load(p, i) ==
    /\ At(p, i, "load")
    /\ \/ /\ state[i] = "rejected"
          /\ Finish(p)
       \/ /\ state[i] = "created"      \* now = new Date()
          /\ pc' = [pc EXCEPT ![p] = "reserve"]
          /\ seen' = [seen EXCEPT ![p] = [revision |-> 0, price |-> 0,
                                         inTime |-> inWindow]]
          /\ UNCHANGED <<job, aborts>>
       \/ /\ state[i] \notin {"rejected", "created"}
          /\ Goto(p, "reload")
    /\ UNCHANGED <<voucherVars, walletVars, intentVars, orderVars>>

\* Mutant: the intent's revision is not compared with the voucher's.
CanReserve_AnyRevision(p, i) ==
    /\ config.active /\ seen[p].inTime /\ token[i] = "none" /\ ~ReservationsFull
    /\ reserved + used < config.totalLimit
    /\ Cardinality(LiveOf(Owner[i])) < config.perUserLimit

\* Mutant: places already used up do not count towards the user's limit.
CanReserve_UsedNotCounted(p, i) ==
    /\ revision = terms[i].revision
    /\ config.active /\ seen[p].inTime /\ token[i] = "none" /\ ~ReservationsFull
    /\ reserved + used < config.totalLimit
    /\ Cardinality({j \in LiveOf(Owner[i]) : token[j] = "reserved"}) < config.perUserLimit

CanReserve(p, i) ==
    /\ revision = terms[i].revision
    /\ config.active
    /\ seen[p].inTime
    /\ token[i] = "none"
    /\ ~ReservationsFull
    /\ reserved + used < config.totalLimit
    /\ Cardinality(LiveOf(Owner[i])) < config.perUserLimit

Reserve(p, i) ==
    /\ At(p, i, "reserve")
    /\ \/ /\ CanReserve(p, i)
          /\ reserved' = reserved + 1
          /\ token' = [token EXCEPT ![i] = "reserved"]
       \/ /\ ~CanReserve(p, i)
          /\ UNCHANGED <<reserved, token>>
    /\ Goto(p, "tombstone")
    /\ UNCHANGED <<revision, config, inWindow, used, walletVars, intentVars, orderVars>>

CanEntomb(i) == token[i] = "none" /\ ~ReservationsFull

Tombstone(p, i) ==
    /\ At(p, i, "tombstone")
    /\ token' = IF CanEntomb(i) THEN [token EXCEPT ![i] = "released"] ELSE token
    /\ Goto(p, "check")
    /\ UNCHANGED <<revision, config, inWindow, reserved, used, walletVars, intentVars, orderVars>>

Check(p, i) ==
    /\ At(p, i, "check")
    /\ Branch(p, token[i] = "reserved", "markReserved", "checkTombstone")

CheckTombstone(p, i) ==
    /\ At(p, i, "checkTombstone")
    /\ \/ token[i] = "released" /\ Goto(p, "reject")
       \/ token[i] # "released" /\ Finish(p)
    /\ UNCHANGED <<voucherVars, walletVars, intentVars, orderVars>>

\* updateOne({state: 'created'}, rejected), then throw
RejectIntent(p, i) ==
    /\ At(p, i, "reject")
    /\ IF state[i] = "created" THEN SetState(i, "rejected") ELSE UNCHANGED intentVars
    /\ Finish(p)
    /\ UNCHANGED <<voucherVars, walletVars, orderVars>>

MarkReserved(p, i) ==
    /\ At(p, i, "markReserved")
    /\ IF state[i] = "created" THEN SetState(i, "reserved") ELSE UNCHANGED intentVars
    /\ Goto(p, "reload")
    /\ UNCHANGED <<voucherVars, walletVars, orderVars>>

-----------------------------------------------------------------------------
(* recover(), the "reserved" block: debit once, or refuse once.            *)

Reload(p, i) ==
    /\ At(p, i, "reload")
    /\ Branch(p, state[i] = "reserved", "debit", "reread")

\* Mutant: the debit does not look for a receipt of the same token.
CanDebit_Unfenced(i) ==
    LET u == Owner[i] IN
    ~ReceiptsFull(u) /\ terms[i].price <= money[u] /\ money[u] <= MaxSafe /\ whole[u]

\* Mutant: only an earlier debit fences the debit, an earlier refusal does not.
CanDebit_AfterRefusal(i) ==
    receipt[i] # "debit" /\ terms[i].price <= money[Owner[i]] /\ whole[Owner[i]]

CanDebit(i) ==
    LET u == Owner[i] IN
    /\ receipt[i] = "none" /\ ~ReceiptsFull(u)
    /\ terms[i].price <= money[u] /\ money[u] <= MaxSafe /\ whole[u]

\* Balance and receipt change in one document update.
Debit(p, i) ==
    /\ At(p, i, "debit")
    /\ \/ /\ CanDebit(i)
          /\ money' = [money EXCEPT ![Owner[i]] = @ - terms[i].price]
          /\ receipt' = [receipt EXCEPT ![i] = "debit"]
       \/ /\ ~CanDebit(i)
          /\ UNCHANGED <<money, receipt>>
    /\ Goto(p, "readReceipt")
    /\ UNCHANGED <<whole, refund, moved, moves, voucherVars, intentVars, orderVars>>

AfterReceipt(i) == IF receipt[i] = "debit" THEN "markDebited" ELSE "release"

ReadReceipt(p, i) ==
    /\ At(p, i, "readReceipt")
    /\ \/ receipt[i] # "none" /\ Goto(p, AfterReceipt(i))
       \/ receipt[i] = "none" /\ ReceiptsFull(Owner[i]) /\ Finish(p)
       \/ receipt[i] = "none" /\ ~ReceiptsFull(Owner[i]) /\ Goto(p, "refuse")
    /\ UNCHANGED <<voucherVars, walletVars, intentVars, orderVars>>

CanRefuse(i) ==
    LET u == Owner[i] IN
    receipt[i] = "none" /\ ~ReceiptsFull(u) /\ money[u] < terms[i].price

RefuseDebit(p, i) ==
    /\ At(p, i, "refuse")
    /\ receipt' = IF CanRefuse(i) THEN [receipt EXCEPT ![i] = "rejected"] ELSE receipt
    /\ Goto(p, "rereadReceipt")
    /\ UNCHANGED <<money, whole, refund, moved, moves, voucherVars, intentVars, orderVars>>

\* No receipt: "Wallet debit pending recovery" is thrown.
RereadReceipt(p, i) ==
    /\ At(p, i, "rereadReceipt")
    /\ \/ receipt[i] = "none" /\ Finish(p)
       \/ receipt[i] # "none" /\ Goto(p, AfterReceipt(i))
    /\ UNCHANGED <<voucherVars, walletVars, intentVars, orderVars>>

\* Mutant: the counter is decremented whatever the reservation's status.
Release_Unchecked(p, i) ==
    /\ At(p, i, "release")
    /\ reserved' = reserved - 1
    /\ token' = [token EXCEPT ![i] = "released"]
    /\ Goto(p, "rejectFunds")
    /\ UNCHANGED <<revision, config, inWindow, used, walletVars, intentVars, orderVars>>

\* release(i, 'reserved')
Release(p, i) ==
    /\ At(p, i, "release")
    /\ \/ /\ token[i] = "reserved"
          /\ reserved' = reserved - 1
          /\ token' = [token EXCEPT ![i] = "released"]
       \/ /\ token[i] # "reserved"
          /\ UNCHANGED <<reserved, token>>
    /\ Goto(p, "rejectFunds")
    /\ UNCHANGED <<revision, config, inWindow, used, walletVars, intentVars, orderVars>>

\* event(id, 'rejected', 'insufficient_funds'), then throw
RejectFunds(p, i) ==
    /\ At(p, i, "rejectFunds")
    /\ SetState(i, "rejected")
    /\ Finish(p)
    /\ UNCHANGED <<voucherVars, walletVars, orderVars>>

MarkDebited(p, i) ==
    /\ At(p, i, "markDebited")
    /\ IF state[i] = "reserved" THEN SetState(i, "debited") ELSE UNCHANGED intentVars
    /\ Goto(p, "reread")
    /\ UNCHANGED <<voucherVars, walletVars, orderVars>>

-----------------------------------------------------------------------------
(* recover(), the "debited" block and the tail: order, ledger, dispatch.   *)

Reread(p, i) ==
    /\ At(p, i, "reread")
    /\ Branch(p, state[i] = "debited", "insertOrder", "rereadLast")

\* The order document has the _id frozen in the intent: a duplicate is success.
InsertOrder(p, i) ==
    /\ At(p, i, "insertOrder")
    /\ order' = IF order[i] = "none" THEN [order EXCEPT ![i] = "pending"] ELSE order
    /\ Goto(p, "markOrdered")
    /\ UNCHANGED <<queue, ledger, voucherVars, walletVars, intentVars>>

MarkOrdered(p, i) ==
    /\ At(p, i, "markOrdered")
    /\ IF state[i] = "debited" THEN SetState(i, "ordered") ELSE UNCHANGED intentVars
    /\ Goto(p, "rereadLast")
    /\ UNCHANGED <<voucherVars, walletVars, orderVars>>

RereadLast(p, i) ==
    /\ At(p, i, "rereadLast")
    /\ \/ state[i] = "rejected" /\ Finish(p)
       \/ state[i] # "rejected" /\ Goto(p, "ledger")
    /\ UNCHANGED <<voucherVars, walletVars, intentVars, orderVars>>

\* upsert of a row whose _id is a hash of the receipt token
WriteLedger(p, i) ==
    /\ At(p, i, "ledger")
    /\ ledger' = IF receipt[i] = "debit" THEN ledger \cup {i} ELSE ledger
    /\ Goto(p, "dispatch")
    /\ UNCHANGED <<order, queue, voucherVars, walletVars, intentVars>>

Dispatch(p, i) ==
    /\ At(p, i, "dispatch")
    /\ \/ state[i] = "ordered" /\ order[i] = "pending" /\ Goto(p, "push")
       \/ ~(state[i] = "ordered" /\ order[i] = "pending") /\ Finish(p)
    /\ UNCHANGED <<voucherVars, walletVars, intentVars, orderVars>>

\* lpush; losing it (Redis error, swallowed) is Abort
Push(p, i) ==
    /\ At(p, i, "push")
    /\ queue' = queue \cup {i}
    /\ Finish(p)
    /\ UNCHANGED <<order, ledger, voucherVars, walletVars, intentVars>>

\* The process dies, or a database call throws.
Abort(p) ==
    /\ pc[p] # "idle" /\ aborts < MaxAborts
    /\ aborts' = aborts + 1
    /\ pc' = [pc EXCEPT ![p] = "idle"]
    /\ job' = [job EXCEPT ![p] = NoIntent]
    /\ seen' = [seen EXCEPT ![p] = NothingSeen]
    /\ UNCHANGED <<voucherVars, walletVars, intentVars, orderVars>>

-----------------------------------------------------------------------------
(* Environment.  The administrator, the clock, the other users of the      *)
(* wallet, and the fulfilment side, each reduced to its effect on the      *)
(* documents above.  An order is "pending" while the worker may still      *)
(* claim it, "claimed" once somebody holds the one-way provider fence,     *)
(* "fulfilled" or "failed" by its one-way resolution.                      *)

\* write(): optimistic update by revision.  The update succeeds only if
\* the document is still the one read, so reading and writing are one step.
Write ==
    /\ revision < AuditCap
    /\ config' \in Configs
    /\ inWindow' \in BOOLEAN
    /\ revision' = revision + 1
    /\ UNCHANGED <<reserved, used, token, walletVars, intentVars, orderVars, procVars>>

WindowCloses ==
    /\ inWindow
    /\ inWindow' = FALSE
    /\ UNCHANGED <<revision, config, reserved, used, token, walletVars, intentVars,
                   orderVars, procVars>>

\* Deposits, ordinary purchases, commissions: one move of the balance, or one
\* that leaves a fraction behind (or removes it).
OtherMove(u) ==
    /\ moves < MaxMoves
    /\ moves' = moves + 1
    /\ \/ \E d \in {-1, 1} :
             /\ money[u] + d >= 0
             /\ money' = [money EXCEPT ![u] = @ + d]
             /\ moved' = [moved EXCEPT ![u] = @ + d]
             /\ UNCHANGED whole
       \/ /\ whole' = [whole EXCEPT ![u] = ~@]
          /\ UNCHANGED <<money, moved>>
    /\ UNCHANGED <<receipt, refund, voucherVars, intentVars, orderVars, procVars>>

SetOrder(i, from, to) ==
    /\ order[i] \in from
    /\ order' = [order EXCEPT ![i] = to]

\* The worker pops the order and claims the dispatch fence.
WorkerTake(i) ==
    /\ i \in queue
    /\ queue' = queue \ {i}
    /\ order' = IF order[i] = "pending" THEN [order EXCEPT ![i] = "claimed"] ELSE order
    /\ UNCHANGED <<ledger, voucherVars, walletVars, intentVars, procVars>>

\* The worker dies after BRPOP, or Redis loses the list.
LoseQueued(i) ==
    /\ i \in queue /\ aborts < MaxAborts
    /\ queue' = queue \ {i}
    /\ aborts' = aborts + 1
    /\ UNCHANGED <<pc, job, seen, order, ledger, voucherVars, walletVars, intentVars>>

\* A manual provider sync claims the same fence.
SyncClaim(i) ==
    /\ SetOrder(i, {"pending"}, "claimed")
    /\ UNCHANGED <<queue, ledger, voucherVars, walletVars, intentVars, procVars>>

\* materialize() wins the resolution.
Fulfil(i) ==
    /\ SetOrder(i, {"claimed"}, "fulfilled")
    /\ UNCHANGED <<queue, ledger, voucherVars, walletVars, intentVars, procVars>>

\* confirmFailure() wins the resolution, and takes the fence.
ConfirmFailure(i) ==
    /\ SetOrder(i, {"pending", "claimed"}, "failed")
    /\ UNCHANGED <<queue, ledger, voucherVars, walletVars, intentVars, procVars>>

\* settle() of a fulfilled order
Consume(i) ==
    /\ order[i] = "fulfilled" /\ token[i] = "reserved"
    /\ reserved' = reserved - 1 /\ used' = used + 1
    /\ token' = [token EXCEPT ![i] = "used"]
    /\ UNCHANGED <<revision, config, inWindow, walletVars, intentVars, orderVars, procVars>>

\* refund(): one credit receipt per order, of any amount up to the price.
Refund(i) ==
    LET u == Owner[i] IN
    /\ order[i] \in {"fulfilled", "failed"}
    /\ refund[i] = NoRefund /\ ~ReceiptsFull(u) /\ whole[u]
    /\ \E amount \in 0..terms[i].price :
          /\ 0 <= money[u] /\ money[u] <= MaxSafe - amount
          /\ money' = [money EXCEPT ![u] = @ + amount]
          /\ refund' = [refund EXCEPT ![i] = amount]
    /\ UNCHANGED <<whole, receipt, moved, moves, voucherVars, intentVars, orderVars, procVars>>

\* settle() of an order whose failure is confirmed and refunded in full; an
\* order of price 0 needs no refund for that.
HandBack(i) ==
    /\ order[i] = "failed" /\ Refunded(i) = terms[i].price
    /\ token[i] \in {"reserved", "used"}
    /\ reserved' = IF token[i] = "reserved" THEN reserved - 1 ELSE reserved
    /\ used' = IF token[i] = "used" THEN used - 1 ELSE used
    /\ token' = [token EXCEPT ![i] = "released"]
    /\ UNCHANGED <<revision, config, inWindow, walletVars, intentVars, orderVars, procVars>>

-----------------------------------------------------------------------------
Run(p, i) ==
    \/ Lookup(p, i) \/ Quote(p, i) \/ Insert(p, i)
    \/ Load(p, i) \/ Reserve(p, i) \/ Tombstone(p, i) \/ Check(p, i)
    \/ CheckTombstone(p, i) \/ RejectIntent(p, i) \/ MarkReserved(p, i)
    \/ Reload(p, i) \/ Debit(p, i) \/ ReadReceipt(p, i) \/ RefuseDebit(p, i)
    \/ RereadReceipt(p, i) \/ Release(p, i) \/ RejectFunds(p, i) \/ MarkDebited(p, i)
    \/ Reread(p, i) \/ InsertOrder(p, i) \/ MarkOrdered(p, i) \/ RereadLast(p, i)
    \/ WriteLedger(p, i) \/ Dispatch(p, i) \/ Push(p, i)

Fulfilment(i) ==
    \/ WorkerTake(i) \/ LoseQueued(i) \/ SyncClaim(i) \/ Fulfil(i)
    \/ ConfirmFailure(i) \/ Consume(i) \/ Refund(i) \/ HandBack(i)

Next ==
    \/ \E p \in Procs, i \in Intents : StartPurchase(p, i) \/ StartRecover(p, i) \/ Run(p, i)
    \/ \E p \in Procs : Abort(p)
    \/ \E i \in Intents : Fulfilment(i)
    \/ Write \/ WindowCloses \/ \E u \in Users : OtherMove(u)

Spec == Init /\ [][Next]_vars

\* A started call goes on until it returns or dies; the reconciler takes the
\* least recently updated intents first, so none is passed over for ever; the
\* worker keeps popping orders:pending.
Fairness ==
    /\ \A p \in Procs : WF_vars(\E i \in Intents : Run(p, i))
    /\ \A i \in Intents : SF_vars(\E p \in Procs : StartRecover(p, i))
    /\ \A i \in Intents : WF_vars(WorkerTake(i))

FairSpec == Spec /\ Fairness

-----------------------------------------------------------------------------
(* Properties.                                                             *)

\* The counters reserved and used, which admission and the admin screen trust,
\* count the reservations array they sit next to: no retry, tombstone, release
\* or settlement moves one without the other (updates at 156, 277, 288).
CountersMatch ==
    /\ reserved = Cardinality({i \in Intents : token[i] = "reserved"})
    /\ used = Cardinality({i \in Intents : token[i] = "used"})

\* A purchase that was paid keeps its place in the voucher's quota until its
\* order has failed and the full price is back in the wallet (of a purchase at
\* price 0, nothing): a delayed retry never entombs or releases the reservation
\* of a paid purchase.
PaidHoldsQuota ==
    \A i \in Intents :
        receipt[i] = "debit" =>
            \/ token[i] \in {"reserved", "used"}
            \/ token[i] = "released" /\ order[i] = "failed" /\ Refunded(i) = terms[i].price

\* A rejected intent is rejected for good and for nothing: no debit, no order,
\* and its token is a tombstone, whichever of the concurrent executions of
\* recover() got where (line 168 and event() at 197).
RejectedIsClean ==
    \A i \in Intents :
        state[i] = "rejected" => receipt[i] # "debit" /\ order[i] = "none" /\ token[i] = "released"

\* An order document, a ledger row and a place in orders:pending exist only for
\* a purchase whose debit receipt is in the wallet and whose intent is past
\* "reserved".
OrderIsPaid ==
    \A i \in Intents :
        order[i] # "none" \/ i \in ledger \/ i \in queue =>
            receipt[i] = "debit" /\ state[i] \in {"debited", "ordered"}

\* What a debit, a rejection and an order say about each other, whichever of the concurrent
\* executions of recover() got where: the three conditions above.
PurchasesSettled == PaidHoldsQuota /\ RejectedIsClean /\ OrderIsPaid

\* What a purchase has added to its user's balance: the refund minus the net price debited.
Gain(i) ==
    Refunded(i) - (IF receipt[i] = "debit" THEN terms[i].price ELSE 0)

Gains == [i \in Intents |-> Gain(i)]

PurchasesOf(u) == {i \in Intents : Owner[i] = u}

\* A balance is the moves of the rest of the system, minus the net price of
\* every debit receipt, plus every refund receipt: replays and races of
\* recover() and refund() neither charge nor credit twice.
WalletBalanced ==
    \A u \in Users : money[u] = moved[u] + SumFunctionOnSet(Gains, PurchasesOf(u))

\* A purchase that gets a place gets it at the terms in force: the net price
\* frozen when it was quoted is still the price of the voucher as it stands,
\* although the administrator may have edited it in between.
AdmittedAtPrice ==
    \A i \in Intents :
        token[i] = "none" /\ token'[i] = "reserved" =>
            config.active /\ terms[i].price = NetPrice(i)

PriceInForce == [][AdmittedAtPrice]_vars

\* The abstract standing of a purchase.
PhaseOf(i) ==
    LET paid == receipt[i] = "debit" IN
    IF token[i] \in {"none", "used"} THEN token[i]
    ELSE IF token[i] = "reserved" THEN (IF paid THEN "paid" ELSE "held")
    ELSE (IF paid THEN "returned" ELSE "refused")

Standing == [i \in Intents |-> PhaseOf(i)]

Quota == INSTANCE VoucherQuota WITH phase <- Standing

\* The saga implements the voucher's promise: admission within both quotas by
\* count of places (not of counters), refusals and returns final, a place held
\* from admission to outcome.
KeepsPromise == Quota!Spec

\* Every intent is driven to its end: rejected, or ordered with its ledger row,
\* whatever crashed on the way (docs/vouchers.md: the reconciler resumes every
\* unfinished intent).  Only an unpaid purchase may wait, while its wallet
\* holds a fraction of a dong: the debit neither takes from it nor refuses it.
PurchaseResolves ==
    \A i \in Intents :
        state[i] = "created" ~>
            \/ state[i] = "rejected"
            \/ state[i] = "ordered" /\ i \in ledger
            \/ receipt[i] = "none" /\ ~whole[Owner[i]]

\* A paid order reaches the worker (or a manual claim) although the push to
\* orders:pending may be lost before or after it.
OrderDispatched ==
    \A i \in Intents : order[i] = "pending" ~> order[i] # "pending"

\* Every purchase comes to its end and its order to the worker: the two conditions above.
PurchaseCompletes == PurchaseResolves /\ OrderDispatched
=============================================================================
