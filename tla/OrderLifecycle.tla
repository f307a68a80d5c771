--------------------------- MODULE OrderLifecycle ---------------------------
(***************************************************************************)
(* One ordinary order (bought without a voucher) from its debit to its     *)
(* end: the two queues and the schedulers that refill them, the worker     *)
(* that buys from the provider under a Redis lock, the poller, the         *)
(* recovery and expiration schedulers and the administrator's refunds,     *)
(* retries, imports and syncs (src/src/orders/).                           *)
(*                                                                         *)
(* One action is one database, Redis or provider call.  The order document *)
(* an execution read stays in held; save() writes the fields that differ   *)
(* from that copy and no others, whatever the document holds by then.      *)
(*                                                                         *)
(* Abstractions.  Proxies are counted, and an insertion stores any number  *)
(* of the documents it is given (invalid ones are dropped in silence).     *)
(* Commissions, notifications and the partner's failure counter are left   *)
(* out; a disabled partner is one that may be missing at any time.  An     *)
(* administrator's free edit of the status (updateStatus) is not modelled. *)
(***************************************************************************)
EXTENDS Integers, FiniteSets

CONSTANTS
    Quantity, UnitPrice, \* proxies ordered, and price_per_unit
    Procs,               \* concurrent executions
    Roles,               \* which handlers run: a bound of the instance
    MaxAttempts,         \* MAX_RETRIES of an unfenced provider
    MaxPolls,            \* MAX_POLL_ATTEMPTS
    MaxAborts,           \* bound: executions that die or throw, queue entries lost
    MaxLapses,           \* bound: lock expiries under a running worker
    MaxRequests          \* bound: administrator's requests

AllRoles == {"worker", "repush", "poll", "repoll", "recovery", "expire",
             "approve", "refund", "missing", "retry", "import", "sync"}

ASSUME LifecycleAssumption ==
    /\ {Quantity, UnitPrice, MaxAttempts, MaxPolls} \subseteq Nat \ {0}
    /\ Roles \subseteq AllRoles
    /\ {MaxAborts, MaxLapses, MaxRequests} \subseteq Nat

\* order.total_price
Price == Quantity * UnitPrice

VARIABLES
    \* the order document
    provider,           \* the kind of partner
    status, refunded,   \* refunded_amount
    actual,             \* actual_quantity, or None
    providerId,         \* provider_order_id is set
    started,            \* config.gpnip_purchase_started
    ended,              \* end_date is in the past
    \* other documents and Redis
    proxies,            \* proxy documents of the order
    credit,             \* refunds credited to the wallet
    lock,               \* lock:order:<id> exists
    pending, processing,\* copies of the order in the two lists
    \* executions
    role, pc, held, n, attempt,
    \* history and bounds
    buys,               \* calls of provider.buy(), for a GPNIP order
    retries, requests, aborts, lapses

orderVars == <<status, refunded, actual, providerId, started>>
queueVars == <<lock, pending, processing>>
boundVars == <<retries, requests, aborts, lapses>>
procVars  == <<role, pc, held, n, attempt>>
vars == <<provider, ended, orderVars, proxies, credit, queueVars, procVars, buys, boundVars>>

None == -1

\* GPNIP, whose buy is never repeated; the others, whose orders have an id; and
\* ProxyVN, whose orders have none and cannot be asked for.
Providers == {"gpnip", "named", "nameless"}

fenced == provider = "gpnip"
named  == provider # "nameless"

Statuses == {"PENDING", "PROCESSING", "ACTIVE", "PARTIAL", "EXPIRED", "CANCELLED",
             "PARTIAL_REFUNDED", "FAILED", "PENDING_REFUND"}

\* The fields of the order that some execution uses after reading them.
Document == [status: Statuses, refunded: Nat, actual: Nat \cup {None},
             providerId: BOOLEAN, started: BOOLEAN]

Blank == [status |-> "PENDING", refunded |-> 0, actual |-> None,
          providerId |-> FALSE, started |-> FALSE]

\* The order as it is, reduced to what the reader uses: for a delivery, for a
\* refund, for the worker, which starts a buy, and for a retry.
ForDelivery == [Blank EXCEPT !.status = status, !.actual = actual]
ForRefund   == [Blank EXCEPT !.status = status, !.refunded = refunded]
ForBuying   == [ForDelivery EXCEPT !.providerId = providerId, !.started = started]
ForRetry    == [Blank EXCEPT !.status = status, !.providerId = providerId]

\* Labels of a worker that holds the lock, as far as it knows.
Locked == {"wFind", "wPrepare", "wResume", "wBuying", "wSaveId", "wDeliver", "wCount",
           "wPublish", "wProcessing", "wPush", "wFail", "wUnlock"}

Labels == Locked \cup
          {"idle", "wLock", "qList", "qLocked", "qPush", "pFind", "pFetch", "pCount", "pHeal",
           "pInsert", "pRecount", "pPublish", "pTimeout", "tList", "tPush",
           "vCount", "vHeal", "vFetch", "vInsert", "vRecount", "vPublish", "eUpdate",
           "aCredit", "aSave", "fRead", "fCredit", "fSave", "mFind", "mSave",
           "yDelete", "ySave", "yPush", "iInsert", "iCount", "iSave",
           "zSaveId", "zFetch", "zInsert", "zCount", "zSave"}

TypeOK ==
    /\ provider \in Providers /\ ended \in BOOLEAN /\ lock \in BOOLEAN
    /\ status \in Statuses /\ refunded \in Nat /\ actual \in Nat \cup {None}
    /\ providerId \in BOOLEAN /\ started \in BOOLEAN
    /\ proxies \in Nat /\ credit \in Nat /\ pending \in Nat /\ processing \in Nat
    /\ role \in [Procs -> AllRoles \cup {"none"}]
    /\ pc \in [Procs -> Labels]
    /\ held \in [Procs -> Document]
    /\ n \in [Procs -> Nat] /\ attempt \in [Procs -> Nat]
    /\ buys \in Nat /\ retries \in Nat /\ requests \in Nat
    /\ aborts \in Nat /\ lapses \in Nat

\* buy() debited the wallet and inserted the order; its lpush may have failed.
Init ==
    /\ provider \in Providers /\ ended = FALSE
    /\ status = "PENDING" /\ refunded = 0 /\ actual = None
    /\ providerId = FALSE /\ started = FALSE
    /\ proxies = 0 /\ credit = 0
    /\ lock = FALSE /\ pending \in {0, 1} /\ processing = 0
    /\ role = [p \in Procs |-> "none"] /\ pc = [p \in Procs |-> "idle"]
    /\ held = [p \in Procs |-> Blank]
    /\ n = [p \in Procs |-> 0] /\ attempt = [p \in Procs |-> 0]
    /\ buys = 0 /\ retries = 0 /\ requests = 0 /\ aborts = 0 /\ lapses = 0

-----------------------------------------------------------------------------
(* Control of one execution.                                               *)

Goto(p, l) ==
    /\ pc' = [pc EXCEPT ![p] = l]
    /\ UNCHANGED <<role, held, n, attempt>>

\* Go to l with k proxies, or an amount of money, in hand.
Carry(p, l, k) ==
    /\ pc' = [pc EXCEPT ![p] = l]
    /\ n' = [n EXCEPT ![p] = k]
    /\ UNCHANGED <<role, held, attempt>>

\* Go to l with nothing in hand.
Drop(p, l) ==
    /\ pc' = [pc EXCEPT ![p] = l]
    /\ held' = [held EXCEPT ![p] = Blank]
    /\ n' = [n EXCEPT ![p] = 0]
    /\ attempt' = [attempt EXCEPT ![p] = 0]
    /\ UNCHANGED role

Finish(p) ==
    /\ role' = [role EXCEPT ![p] = "none"]
    /\ pc' = [pc EXCEPT ![p] = "idle"]
    /\ held' = [held EXCEPT ![p] = Blank]
    /\ n' = [n EXCEPT ![p] = 0]
    /\ attempt' = [attempt EXCEPT ![p] = 0]

\* An execution of r starts at l with the order it read in hand.
Begin(p, r, l, doc) ==
    /\ r \in Roles /\ pc[p] = "idle"
    /\ role' = [role EXCEPT ![p] = r]
    /\ pc' = [pc EXCEPT ![p] = l]
    /\ held' = [held EXCEPT ![p] = doc]
    /\ UNCHANGED <<n, attempt>>

\* A scheduler guarded by a Redis lock or a running flag.
NotRunning(r) == \A p \in Procs : role[p] # r

Rest == <<provider, ended, boundVars>>
ReadOnly == UNCHANGED <<orderVars, proxies, credit, queueVars, buys, Rest>>

\* What save() leaves in a field: the new value if it differs from the copy.
Saved(old, new, now) == IF new = old THEN now ELSE new

\* status' after save() of a copy of p whose status was set to s
SaveStatus(p, s) == status' = Saved(held[p].status, s, status)

\* insertMany: the documents that pass validation.
Insert(p, next) ==
    /\ \E k \in 0..n[p] : proxies' = proxies + k
    /\ Goto(p, next)
    /\ UNCHANGED <<orderVars, credit, queueVars, buys, Rest>>

\* A delivery of c proxies by save() of the copy.
SaveDelivery(p, c) ==
    /\ SaveStatus(p, IF c < Quantity THEN "PARTIAL" ELSE "ACTIVE")
    /\ actual' = IF c < Quantity THEN Saved(held[p].actual, c, actual) ELSE actual

-----------------------------------------------------------------------------
(* OrdersWorkerService                                                     *)

\* BRPOP
WorkerPop(p) ==
    /\ pending > 0
    /\ pending' = pending - 1
    /\ Begin(p, "worker", "wLock", Blank)
    /\ UNCHANGED <<lock, processing, orderVars, proxies, credit, buys, Rest>>

CanLock == ~lock

\* SET NX
WorkerLock(p) ==
    /\ pc[p] = "wLock"
    /\ \/ CanLock /\ lock' = TRUE /\ Goto(p, "wFind")
       \/ ~CanLock /\ UNCHANGED lock /\ Finish(p)
    /\ UNCHANGED <<pending, processing, orderVars, proxies, credit, buys, Rest>>

WorkerFind(p) ==
    /\ pc[p] = "wFind"
    /\ \/ /\ status = "PENDING"
          /\ pc' = [pc EXCEPT ![p] = "wPrepare"]
          /\ held' = [held EXCEPT ![p] = ForBuying]
          /\ UNCHANGED <<role, n, attempt>>
       \/ status # "PENDING" /\ Drop(p, "wUnlock")
    /\ ReadOnly

\* Mutant: an attempt that was started is not remembered.
MayBuy_Forgetful(p) == ~held[p].providerId

MayBuy(p) == ~held[p].providerId /\ ~held[p].started

\* The partner is gone; a GPNIP order is claimed, resumed or given up.
WorkerPrepare(p) ==
    /\ pc[p] = "wPrepare"
    /\ \/ Drop(p, "wFail") /\ UNCHANGED <<started, buys>>
       \/ /\ fenced /\ held[p].providerId
          /\ Goto(p, "wResume") /\ UNCHANGED <<started, buys>>
       \/ /\ fenced => MayBuy(p)
          /\ started' = (started \/ fenced)
          /\ pc' = [pc EXCEPT ![p] = "wBuying"]
          /\ attempt' = [attempt EXCEPT ![p] = 1]
          /\ buys' = IF fenced THEN buys + 1 ELSE buys
          /\ UNCHANGED <<role, held, n>>
    /\ UNCHANGED <<status, refunded, actual, providerId, proxies, credit, queueVars, Rest>>

WorkerResume(p) ==
    /\ pc[p] = "wResume"
    /\ SaveStatus(p, "PROCESSING")
    /\ Drop(p, "wPush")
    /\ UNCHANGED <<refunded, actual, providerId, started, proxies, credit, queueVars, buys, Rest>>

\* provider.buy() returns k proxies (0: an order to poll).
WorkerBought(p) ==
    /\ pc[p] = "wBuying"
    /\ \E k \in 0..Quantity :
         Carry(p, IF fenced THEN "wSaveId" ELSE IF k > 0 THEN "wDeliver" ELSE "wProcessing", k)
    /\ ReadOnly

\* provider.buy() throws; the provider may have charged all the same.
WorkerRefused(p) ==
    /\ pc[p] = "wBuying"
    /\ \/ /\ ~fenced /\ attempt[p] < MaxAttempts
          /\ attempt' = [attempt EXCEPT ![p] = @ + 1]
          /\ UNCHANGED <<role, pc, held, n>>
       \/ /\ fenced \/ attempt[p] = MaxAttempts
          /\ Drop(p, "wFail")
    /\ ReadOnly

WorkerSaveId(p) ==
    /\ pc[p] = "wSaveId"
    /\ providerId' = TRUE
    /\ Goto(p, IF n[p] > 0 THEN "wDeliver" ELSE "wProcessing")
    /\ UNCHANGED <<status, refunded, actual, started, proxies, credit, queueVars, buys, Rest>>

WorkerDeliver(p) ==
    /\ pc[p] = "wDeliver"
    /\ Insert(p, "wCount")

\* Fewer documents than the provider returned: the order fails.
WorkerCount(p) ==
    /\ pc[p] = "wCount"
    /\ \/ proxies < n[p] /\ Drop(p, "wFail")
       \/ proxies >= n[p] /\ Carry(p, "wPublish", proxies)
    /\ ReadOnly

WorkerPublish(p) ==
    /\ pc[p] = "wPublish"
    /\ SaveDelivery(p, n[p])
    /\ providerId' = (providerId \/ named)
    /\ Drop(p, "wUnlock")
    /\ UNCHANGED <<refunded, started, proxies, credit, queueVars, buys, Rest>>

WorkerProcessing(p) ==
    /\ pc[p] = "wProcessing"
    /\ SaveStatus(p, "PROCESSING")
    /\ providerId' = (providerId \/ named)
    /\ Drop(p, "wPush")
    /\ UNCHANGED <<refunded, actual, started, proxies, credit, queueVars, buys, Rest>>

WorkerPush(p) ==
    /\ pc[p] = "wPush"
    /\ processing' = processing + 1
    /\ Drop(p, "wUnlock")
    /\ UNCHANGED <<lock, pending, orderVars, proxies, credit, buys, Rest>>

\* The catch block.
WorkerFail(p) ==
    /\ pc[p] = "wFail"
    /\ status' = IF status \in {"PENDING", "PROCESSING"} THEN "PENDING_REFUND" ELSE status
    /\ Drop(p, "wUnlock")
    /\ UNCHANGED <<refunded, actual, providerId, started, proxies, credit, queueVars, buys, Rest>>

\* The finally block deletes the key, whoever set it.
WorkerUnlock(p) ==
    /\ pc[p] = "wUnlock"
    /\ lock' = FALSE
    /\ Finish(p)
    /\ UNCHANGED <<pending, processing, orderVars, proxies, credit, buys, Rest>>

\* A database or Redis call of the worker throws.
WorkerThrow(p) ==
    /\ pc[p] \in Locked \ {"wUnlock", "wBuying"} /\ aborts < MaxAborts
    /\ aborts' = aborts + 1
    /\ Drop(p, IF pc[p] = "wFail" THEN "wUnlock" ELSE "wFail")
    /\ UNCHANGED <<orderVars, proxies, credit, queueVars, buys, provider, ended, retries, requests,
                   lapses>>

Worker(p) ==
    \/ WorkerLock(p) \/ WorkerFind(p) \/ WorkerPrepare(p) \/ WorkerResume(p)
    \/ WorkerBought(p) \/ WorkerRefused(p) \/ WorkerSaveId(p) \/ WorkerDeliver(p)
    \/ WorkerCount(p) \/ WorkerPublish(p) \/ WorkerProcessing(p) \/ WorkerPush(p)
    \/ WorkerFail(p) \/ WorkerUnlock(p)

\* The 300 s are over: nobody knows of the lock any more, or (a lapse) the
\* worker that took it is still waiting for the provider.
LockExpires ==
    /\ lock
    /\ \/ /\ \A p \in Procs : pc[p] \notin Locked
          /\ UNCHANGED lapses
       \/ /\ lapses < MaxLapses
          /\ \A p \in Procs : pc[p] \in Locked => pc[p] = "wBuying"
          /\ lapses' = lapses + 1
    /\ lock' = FALSE
    /\ UNCHANGED <<pending, processing, orderVars, proxies, credit, procVars, buys, provider, ended,
                   retries, requests, aborts>>

-----------------------------------------------------------------------------
(* OrdersScheduler and OrdersProcessingScheduler                           *)

RepushStart(p) ==
    /\ NotRunning("repush") /\ status = "PENDING"
    /\ Begin(p, "repush", "qList", Blank)
    /\ ReadOnly

\* lrange, then exists lock:order
RepushList(p) ==
    /\ pc[p] = "qList"
    /\ \/ pending > 0 /\ Finish(p)
       \/ pending = 0 /\ Goto(p, "qLocked")
    /\ ReadOnly

RepushLocked(p) ==
    /\ pc[p] = "qLocked"
    /\ \/ ~lock /\ Goto(p, "qPush")
       \/ lock /\ Finish(p)
    /\ ReadOnly

\* Mutant: the order is pushed to the other worker's list.
RepushPush_Misplaced(p) ==
    /\ pc[p] = "qPush"
    /\ processing' = processing + 1
    /\ Finish(p)
    /\ UNCHANGED <<lock, pending, orderVars, proxies, credit, buys, Rest>>

RepushPush(p) ==
    /\ pc[p] = "qPush"
    /\ pending' = pending + 1
    /\ Finish(p)
    /\ UNCHANGED <<lock, processing, orderVars, proxies, credit, buys, Rest>>

RepollStart(p) ==
    /\ NotRunning("repoll") /\ status = "PROCESSING" /\ providerId /\ ~ended
    /\ Begin(p, "repoll", "tList", Blank)
    /\ ReadOnly

RepollList(p) ==
    /\ pc[p] = "tList"
    /\ \/ processing > 0 /\ Finish(p)
       \/ processing = 0 /\ Goto(p, "tPush")
    /\ ReadOnly

RepollPush(p) ==
    /\ pc[p] = "tPush"
    /\ processing' = processing + 1
    /\ Finish(p)
    /\ UNCHANGED <<lock, pending, orderVars, proxies, credit, buys, Rest>>

\* Redis loses the lists, or the process dies after BRPOP.
LoseQueues ==
    /\ pending + processing > 0 /\ aborts < MaxAborts
    /\ pending' = 0 /\ processing' = 0
    /\ aborts' = aborts + 1
    /\ UNCHANGED <<lock, orderVars, proxies, credit, procVars, buys, provider, ended, retries,
                   requests, lapses>>

Schedulers(p) ==
    \/ RepushList(p) \/ RepushLocked(p) \/ RepushPush(p) \/ RepollList(p) \/ RepollPush(p)

-----------------------------------------------------------------------------
(* OrdersProcessingWorkerService.pollUntilActive, which takes no lock      *)

PollPop(p) ==
    /\ processing > 0
    /\ processing' = processing - 1
    /\ Begin(p, "poll", "pFind", Blank)
    /\ UNCHANGED <<lock, pending, orderVars, proxies, credit, buys, Rest>>

\* A partner that cannot be asked ends like a poll without an answer.
PollFind(p) ==
    /\ pc[p] = "pFind"
    /\ \/ /\ status = "PROCESSING"
          /\ pc' = [pc EXCEPT ![p] = "pFetch"]
          /\ held' = [held EXCEPT ![p] = ForDelivery]
          /\ UNCHANGED <<role, n, attempt>>
       \/ status # "PROCESSING" /\ Finish(p)
    /\ ReadOnly

\* One of the attempts left returns k proxies, or none does.
PollFetch(p) ==
    /\ pc[p] = "pFetch"
    /\ \/ /\ named /\ attempt[p] < MaxPolls
          /\ pc' = [pc EXCEPT ![p] = "pCount"]
          /\ \E k \in 1..Quantity : n' = [n EXCEPT ![p] = k]
          /\ attempt' = [attempt EXCEPT ![p] = @ + 1]
          /\ UNCHANGED <<role, held>>
       \/ Drop(p, "pTimeout")
    /\ ReadOnly

PollCount(p) ==
    /\ pc[p] = "pCount"
    /\ Goto(p, IF proxies > 0 THEN "pHeal" ELSE "pInsert")
    /\ ReadOnly

\* findByIdAndUpdate without a condition
PollHeal(p) ==
    /\ pc[p] = "pHeal"
    /\ status' = "ACTIVE"
    /\ Finish(p)
    /\ UNCHANGED <<refunded, actual, providerId, started, proxies, credit, queueVars, buys, Rest>>

PollInsert(p) ==
    /\ pc[p] = "pInsert"
    /\ Insert(p, "pRecount")

\* Fewer documents than the provider returned: the attempt throws, and the
\* next one finds what it stored.
PollRecount(p) ==
    /\ pc[p] = "pRecount"
    /\ \/ proxies < n[p] /\ Carry(p, "pFetch", 0)
       \/ proxies >= n[p] /\ Carry(p, "pPublish", proxies)
    /\ ReadOnly

PollPublish(p) ==
    /\ pc[p] = "pPublish"
    /\ \/ n[p] < Quantity /\ SaveDelivery(p, n[p])
       \/ n[p] >= Quantity /\ status' = "ACTIVE" /\ UNCHANGED actual
    /\ Finish(p)
    /\ UNCHANGED <<refunded, providerId, started, proxies, credit, queueVars, buys, Rest>>

\* A call inside an attempt throws.
PollThrow(p) ==
    /\ pc[p] \in {"pCount", "pHeal", "pInsert", "pRecount", "pPublish"} /\ aborts < MaxAborts
    /\ aborts' = aborts + 1
    /\ Carry(p, "pFetch", 0)
    /\ UNCHANGED <<orderVars, proxies, credit, queueVars, buys, provider, ended, retries, requests,
                   lapses>>

PollTimeout(p) ==
    /\ pc[p] = "pTimeout"
    /\ status' = "PENDING_REFUND"
    /\ Finish(p)
    /\ UNCHANGED <<refunded, actual, providerId, started, proxies, credit, queueVars, buys, Rest>>

Poll(p) ==
    \/ PollFind(p) \/ PollFetch(p) \/ PollCount(p) \/ PollHeal(p) \/ PollInsert(p)
    \/ PollRecount(p) \/ PollPublish(p) \/ PollTimeout(p)

-----------------------------------------------------------------------------
(* OrdersRecoveryScheduler and OrdersExpirationScheduler                   *)

RecoverStart(p) ==
    /\ NotRunning("recovery") /\ status = "PENDING_REFUND" /\ providerId
    /\ Begin(p, "recovery", "vCount", Blank)
    /\ ReadOnly

RecoverCount(p) ==
    /\ pc[p] = "vCount"
    /\ Carry(p, IF proxies > 0 THEN "vHeal" ELSE "vFetch", proxies)
    /\ ReadOnly

RecoverFetch(p) ==
    /\ pc[p] = "vFetch"
    /\ \/ \E k \in 1..Quantity : Carry(p, "vInsert", k)
       \/ Finish(p)
    /\ ReadOnly

RecoverInsert(p) ==
    /\ pc[p] = "vInsert"
    /\ Insert(p, "vRecount")

\* Mutant: nothing stored is a partial delivery.
NothingStored_Ignored == FALSE

NothingStored == proxies = 0

RecoverRecount(p) ==
    /\ pc[p] = "vRecount"
    /\ \/ NothingStored /\ Finish(p)
       \/ ~NothingStored /\ Carry(p, "vPublish", proxies)
    /\ ReadOnly

\* findByIdAndUpdate without a condition: proxies found in the database
\* (vHeal) or just inserted (vPublish).
RecoverPublish(p) ==
    /\ pc[p] \in {"vHeal", "vPublish"}
    /\ status' = IF n[p] < Quantity THEN "PARTIAL" ELSE "ACTIVE"
    /\ actual' = IF n[p] < Quantity THEN n[p] ELSE None
    /\ Finish(p)
    /\ UNCHANGED <<refunded, providerId, started, proxies, credit, queueVars, buys, Rest>>

Recover(p) ==
    \/ RecoverCount(p) \/ RecoverFetch(p) \/ RecoverInsert(p) \/ RecoverRecount(p)
    \/ RecoverPublish(p)

\* Nobody looks at the end date in another status.
EndDatePasses ==
    /\ ~ended /\ status \in {"ACTIVE", "PROCESSING"}
    /\ ended' = TRUE
    /\ UNCHANGED <<provider, orderVars, proxies, credit, queueVars, procVars, buys, boundVars>>

CanExpire == ended /\ status \in {"ACTIVE", "PROCESSING"}

ExpireStart(p) ==
    /\ NotRunning("expire") /\ CanExpire
    /\ Begin(p, "expire", "eUpdate", Blank)
    /\ ReadOnly

ExpireOrder(p) ==
    /\ pc[p] = "eUpdate"
    /\ status' = IF CanExpire THEN "EXPIRED" ELSE status
    /\ Finish(p)
    /\ UNCHANGED <<refunded, actual, providerId, started, proxies, credit, queueVars, buys, Rest>>

-----------------------------------------------------------------------------
(* OrdersService: what an administrator asks for                           *)

Request(p, r, l, doc) ==
    /\ requests < MaxRequests
    /\ requests' = requests + 1
    /\ Begin(p, r, l, doc)
    /\ UNCHANGED <<provider, ended, orderVars, proxies, credit, queueVars, buys, retries, aborts,
                   lapses>>

\* The wallet's $inc of amount
Credit(amount) ==
    /\ credit' = credit + amount
    /\ UNCHANGED <<orderVars, proxies, queueVars, buys, Rest>>

ApproveStart(p) == status = "PENDING_REFUND" /\ Request(p, "approve", "aCredit", ForRefund)

\* Mutant: an order that shows a refund counts as paid back.
ApproveCredit_Once(p) ==
    /\ pc[p] = "aCredit"
    /\ Credit(IF held[p].refunded = 0 THEN Price ELSE 0)
    /\ Goto(p, "aSave")

ApproveCredit(p) ==
    /\ pc[p] = "aCredit"
    /\ Credit(Price)
    /\ Goto(p, "aSave")

ApproveSave(p) ==
    /\ pc[p] = "aSave"
    /\ refunded' = Saved(held[p].refunded, Price, refunded)
    /\ SaveStatus(p, "FAILED")
    /\ Finish(p)
    /\ UNCHANGED <<actual, providerId, started, proxies, credit, queueVars, buys, Rest>>

\* adminRefund(), with the order cancelled or not (attempt is not used here).
Refundable == status # "ACTIVE"

RefundStart(p) ==
    /\ Refundable
    /\ \E amount \in 1..(Price - refunded), cancel \in {0, 1} :
         /\ requests < MaxRequests
         /\ "refund" \in Roles /\ pc[p] = "idle"
         /\ requests' = requests + 1
         /\ role' = [role EXCEPT ![p] = "refund"]
         /\ pc' = [pc EXCEPT ![p] = "fCredit"]
         /\ held' = [held EXCEPT ![p] = ForRefund]
         /\ n' = [n EXCEPT ![p] = amount]
         /\ attempt' = [attempt EXCEPT ![p] = cancel]
    /\ UNCHANGED <<provider, ended, orderVars, proxies, credit, queueVars, buys, retries, aborts,
                   lapses>>

RefundCredit(p) ==
    /\ pc[p] = "fCredit"
    /\ Credit(n[p])
    /\ Goto(p, "fSave")

RefundSave(p) ==
    /\ pc[p] = "fSave"
    /\ refunded' = held[p].refunded + n[p]
    /\ IF attempt[p] = 1 THEN SaveStatus(p, "CANCELLED") ELSE UNCHANGED status
    /\ IF role[p] = "missing" THEN Drop(p, "mFind") ELSE Finish(p)
    /\ UNCHANGED <<actual, providerId, started, proxies, credit, queueVars, buys, Rest>>

\* refundMissingQuantity(): the amount is computed from one read of the order,
\* adminRefund() reads it again.
MissingStart(p) ==
    /\ status = "PARTIAL" /\ actual # None /\ actual < Quantity
    /\ Request(p, "missing", "fRead", ForDelivery)

MissingAmount(doc) == (Quantity - doc.actual) * UnitPrice

MissingRead(p) ==
    LET amount == MissingAmount(held[p]) IN
    /\ pc[p] = "fRead"
    /\ \/ /\ Refundable /\ amount <= Price - refunded
          /\ pc' = [pc EXCEPT ![p] = "fCredit"]
          /\ held' = [held EXCEPT ![p] = ForRefund]
          /\ n' = [n EXCEPT ![p] = amount]
          /\ UNCHANGED <<role, attempt>>
       \/ /\ ~(Refundable /\ amount <= Price - refunded)
          /\ Finish(p)
    /\ ReadOnly

MissingFind(p) ==
    /\ pc[p] = "mFind"
    /\ pc' = [pc EXCEPT ![p] = "mSave"]
    /\ held' = [held EXCEPT ![p] = ForRefund]
    /\ UNCHANGED <<role, n, attempt>>
    /\ ReadOnly

MissingSave(p) ==
    /\ pc[p] = "mSave"
    /\ SaveStatus(p, "PARTIAL_REFUNDED")
    /\ Finish(p)
    /\ UNCHANGED <<refunded, actual, providerId, started, proxies, credit, queueVars, buys, Rest>>

Retryable == status \in {"FAILED", "PENDING_REFUND"} /\ ~started

RetryStart(p) ==
    /\ Retryable
    /\ requests < MaxRequests
    /\ requests' = requests + 1 /\ retries' = retries + 1
    /\ Begin(p, "retry", "yDelete", ForRetry)
    /\ UNCHANGED <<provider, ended, orderVars, proxies, credit, queueVars, buys, aborts, lapses>>

RetryDelete(p) ==
    /\ pc[p] = "yDelete"
    /\ proxies' = 0
    /\ Goto(p, "ySave")
    /\ UNCHANGED <<orderVars, credit, queueVars, buys, Rest>>

RetrySave(p) ==
    /\ pc[p] = "ySave"
    /\ SaveStatus(p, "PENDING")
    /\ providerId' = Saved(held[p].providerId, FALSE, providerId)
    /\ Drop(p, "yPush")
    /\ UNCHANGED <<refunded, actual, started, proxies, credit, queueVars, buys, Rest>>

RetryPush(p) ==
    /\ pc[p] = "yPush"
    /\ pending' = pending + 1
    /\ Finish(p)
    /\ UNCHANGED <<lock, processing, orderVars, proxies, credit, buys, Rest>>

\* importProxies(): k new proxies, typed in by hand.
ImportStart(p) == Request(p, "import", "iInsert", [Blank EXCEPT !.status = status])

ImportInsert(p) ==
    /\ pc[p] = "iInsert"
    /\ \E k \in 1..Quantity : proxies' = proxies + k
    /\ Goto(p, "iCount")
    /\ UNCHANGED <<orderVars, credit, queueVars, buys, Rest>>

ImportCount(p) ==
    /\ pc[p] = "iCount"
    /\ \/ proxies >= Quantity /\ held[p].status # "ACTIVE" /\ Goto(p, "iSave")
       \/ ~(proxies >= Quantity /\ held[p].status # "ACTIVE") /\ Finish(p)
    /\ ReadOnly

ImportSave(p) ==
    /\ pc[p] = "iSave"
    /\ SaveStatus(p, "ACTIVE")
    /\ Finish(p)
    /\ UNCHANGED <<refunded, actual, providerId, started, proxies, credit, queueVars, buys, Rest>>

\* syncProviderOrder() with the id of the order, or one typed in by hand.
SyncStart(p) ==
    named /\ Request(p, "sync", "zSaveId", [ForDelivery EXCEPT !.providerId = providerId])

SyncSaveId(p) ==
    /\ pc[p] = "zSaveId"
    /\ \/ providerId' = TRUE
       \/ held[p].providerId /\ UNCHANGED providerId
    /\ Goto(p, "zFetch")
    /\ UNCHANGED <<status, refunded, actual, started, proxies, credit, queueVars, buys, Rest>>

SyncFetch(p) ==
    /\ pc[p] = "zFetch"
    /\ \/ \E k \in 1..Quantity : Carry(p, "zInsert", k)
       \/ Finish(p)
    /\ ReadOnly

\* Those of the returned proxies that are not stored yet.
SyncInsert(p) ==
    /\ pc[p] = "zInsert"
    /\ Insert(p, "zCount")

SyncCount(p) ==
    /\ pc[p] = "zCount"
    /\ \/ proxies > 0 /\ Carry(p, "zSave", proxies)
       \/ proxies = 0 /\ Finish(p)
    /\ ReadOnly

SyncSave(p) ==
    /\ pc[p] = "zSave"
    /\ SaveDelivery(p, n[p])
    /\ Finish(p)
    /\ UNCHANGED <<refunded, providerId, started, proxies, credit, queueVars, buys, Rest>>

Administer(p) ==
    \/ ApproveCredit(p) \/ ApproveSave(p) \/ RefundCredit(p) \/ RefundSave(p)
    \/ MissingRead(p) \/ MissingFind(p) \/ MissingSave(p) \/ RetryDelete(p) \/ RetrySave(p) \/ RetryPush(p)
    \/ ImportInsert(p) \/ ImportCount(p) \/ ImportSave(p)
    \/ SyncSaveId(p) \/ SyncFetch(p) \/ SyncInsert(p) \/ SyncCount(p) \/ SyncSave(p)

AskAny(p) ==
    \/ ApproveStart(p) \/ RefundStart(p) \/ MissingStart(p) \/ RetryStart(p)
    \/ ImportStart(p) \/ SyncStart(p)

-----------------------------------------------------------------------------
(* The specification.                                                      *)

\* An execution dies with its process; a lock it holds stays until it expires.
Abort(p) ==
    /\ pc[p] # "idle" /\ aborts < MaxAborts
    /\ aborts' = aborts + 1
    /\ Finish(p)
    /\ UNCHANGED <<orderVars, proxies, credit, queueVars, buys, provider, ended, retries, requests,
                   lapses>>

Step(p) ==
    Worker(p) \/ Schedulers(p) \/ Poll(p) \/ Recover(p) \/ ExpireOrder(p) \/ Administer(p)

StartAny(p) ==
    \/ WorkerPop(p) \/ RepushStart(p) \/ RepollStart(p) \/ PollPop(p) \/ RecoverStart(p)
    \/ ExpireStart(p)

Next ==
    \/ \E p \in Procs :
         Step(p) \/ StartAny(p) \/ AskAny(p) \/ WorkerThrow(p) \/ PollThrow(p) \/ Abort(p)
    \/ LockExpires \/ LoseQueues \/ EndDatePasses

Spec == Init /\ [][Next]_vars

\* What runs goes on running; the two workers keep popping, the cron jobs start
\* again and again, and a lock nobody deletes expires.
Fairness ==
    /\ \A p \in Procs : WF_vars(Step(p))
    /\ SF_vars(\E p \in Procs : WorkerPop(p)) /\ SF_vars(\E p \in Procs : PollPop(p))
    /\ SF_vars(\E p \in Procs : RepushStart(p)) /\ SF_vars(\E p \in Procs : RepollStart(p))
    /\ SF_vars(\E p \in Procs : ExpireStart(p))
    /\ WF_vars(LockExpires)

FairSpec == Spec /\ Fairness

-----------------------------------------------------------------------------
(* Properties.                                                             *)

\* GPNIP is asked to buy at most once for an order, although the lock may expire
\* under the worker, the order may be retried and processes die: the claim
\* saved before the call is what holds (processOrder, retryOrder).
FencedBuysOnce == fenced => buys <= 1

\* As long as no lock expired under a running worker, two workers are never
\* inside provider.buy() for the order at once, however often the schedulers
\* and retries queue it (processOrder, rePushPendingOrders).
OneBuyer ==
    lapses = 0 => \A p, q \in Procs : pc[p] = "wBuying" /\ pc[q] = "wBuying" => p = q

\* The order never shows a refund the wallet did not get, and a FAILED order was
\* refunded in full (approveRefund, adminRefund; API.md: failed is "Đã hoàn
\* tiền xong").
RefundIsCredited == refunded <= credit /\ (status = "FAILED" => credit >= Price)

\* An order that was never retried is sold only with proxies in the database:
\* the counts after every insertion keep dropped documents from being sold
\* (processOrder, pollUntilActive, tryRecover).
SoldIsStored == retries = 0 /\ status \in {"ACTIVE", "PARTIAL"} => proxies > 0

\* A paid order does not stay PENDING: its queue entry, or the next one the
\* scheduler pushes, reaches a worker (rePushPendingOrders).
PendingResolves == (status = "PENDING") ~> (status # "PENDING")

\* Nor does it stay PROCESSING, if the provider gave it an id
\* (rePushProcessingOrders, checkExpiredOrders).
ProcessingResolves ==
    (status = "PROCESSING" /\ providerId) ~> ~(status = "PROCESSING" /\ providerId)

\* The order is bought by one execution at a time, and by GPNIP once: the two conditions
\* above, on well-typed states.
BuysOnce == TypeOK /\ FencedBuysOnce /\ OneBuyer

\* A paid order leaves both queues: the two conditions above.
OrderResolves == PendingResolves /\ ProcessingResolves
=============================================================================
