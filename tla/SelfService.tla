---------------------------- MODULE SelfService ----------------------------
(***************************************************************************)
(* What happens to a delivered order at its provider: the customer tops up *)
(* its gigabytes, changes its password, its allowed addresses, rotates its *)
(* proxy (src/src/orders/orders.service.ts, proxy-rotate.service.ts), the  *)
(* administrator reads its proxies again, and the scheduler reads how much *)
(* has been used (orders-bandwidth.scheduler.ts).                          *)
(*                                                                         *)
(* Every operation asks the provider first and writes the database after:  *)
(* the order mirrors what the provider holds.  One action is one call.     *)
(*                                                                         *)
(* Abstractions.  One order, one gigabyte a top-up, Price a gigabyte.      *)
(* Passwords, allowed addresses and proxies' addresses are versions: the   *)
(* provider's next value is the next number.  Both adapters that report    *)
(* usage refuse cancellation, so that call of the scheduler never happens. *)
(***************************************************************************)
EXTENDS Integers, FiniteSets, Functions

CONSTANTS
    Procs,         \* requests and scheduler runs at once
    Keys,          \* Idempotency-Keys of top-ups
    Quota,         \* gigabytes bought at first
    Price, StartMoney,
    Gateway,       \* the order holds the credentials of a gateway
    Schedulers,    \* processes whose cron runs
    MaxRequests, MaxTroubles   \* bounds

NoKey == -1    \* of a request without the header

ASSUME ServiceAssumption ==
    /\ {Quota, Price, Schedulers} \subseteq Nat \ {0}
    /\ {StartMoney, MaxRequests, MaxTroubles} \subseteq Nat
    /\ Gateway \in BOOLEAN /\ IsFiniteSet(Procs) /\ NoKey \notin Keys

VARIABLES
    status, gb, used,    \* of the order: status, bandwidth_gb, bandwidth_used_gb
    copy,                \* of the database: password, gateway, allowed, address
    remote,              \* of the provider: gb, used, password, allowed, address
    ended,               \* end_date has passed
    open,                \* partner switched on
    cooling,             \* proxy:cdk:rotate:<proxy> is cached
    money, spent,        \* users.money; the ledger's top-ups, those before included
    answered, locks,     \* idem:topup:<user>:<key>, and its lock
    pc, job,
    \* history and bounds
    unsure,              \* aspects two operations wrote at once, one left half done or an answer left out
    told,                \* the last password an error message told the customer
    lapsed,              \* keys whose lock lapsed
    unbooked,            \* debits no ledger entry shows: the execution died or failed
    requests, troubles

orderVars == <<status, gb, used, copy>>
moneyVars == <<money, spent>>
keyVars   == <<answered, locks>>
worldVars == <<remote, ended, open, cooling>>
histVars  == <<unsure, told, lapsed, unbooked>>
bounds    == <<requests, troubles>>
vars == <<orderVars, moneyVars, keyVars, worldVars, pc, job, histVars, bounds>>

Statuses == {"ACTIVE", "DEPLETED", "EXPIRED", "CANCELLED"}
Usable   == {"ACTIVE", "DEPLETED"}
Aspects  == {"gb", "password", "allowed", "address"}
Labels   == {"idle", "cached", "lock", "read", "debit", "extend", "refund", "save", "keep",
             "call", "write", "credentials", "find", "rotate", "stored", "cool",
             "fetch", "mark", "again", "overwrite"}

\* An execution: the aspect it changes, its key, the order it read, the values
\* the provider answered.
Idle == [does |-> "nothing", key |-> NoKey, status |-> "ACTIVE", gb |-> 0, new |-> 0, address |-> 0]

\* Reading proxies again changes two aspects.
Touches(does) == IF does = "proxies" THEN {"password", "address"} ELSE {does} \cap Aspects

TypeOK ==
    /\ status \in Statuses /\ gb \in Nat /\ used \in Nat
    /\ copy \in [{"password", "gateway", "allowed", "address"} -> Nat]
    /\ remote \in [{"gb", "used", "password", "allowed", "address"} -> Nat]
    /\ remote["used"] <= remote["gb"]
    /\ {ended, open, cooling} \subseteq BOOLEAN
    /\ money \in Nat /\ spent \in Nat /\ unbooked \in Nat
    /\ answered \subseteq Keys /\ locks \subseteq Keys
    /\ pc \in [Procs -> Labels] /\ unsure \subseteq Aspects \cup {"status"}
    /\ \A p \in Procs : pc[p] = "idle" <=> job[p].does = "nothing"

Init ==
    /\ status = "ACTIVE" /\ gb = Quota /\ used = 0
    /\ copy = [a \in {"password", "gateway", "allowed", "address"} |-> 0]
    /\ remote = [a \in {"gb", "used", "password", "allowed", "address"} |->
                    IF a = "gb" THEN Quota ELSE 0]
    /\ ended = FALSE /\ open = TRUE /\ cooling = FALSE
    /\ spent \in 0..StartMoney /\ money = StartMoney - spent
    /\ answered = {} /\ locks = {}
    /\ pc = [p \in Procs |-> "idle"] /\ job = [p \in Procs |-> Idle]
    /\ unsure = {} /\ told = 0 /\ lapsed = {} /\ unbooked = 0
    /\ requests = 0 /\ troubles = 0

-----------------------------------------------------------------------------

Goto(p, l, j) ==
    /\ pc' = [pc EXCEPT ![p] = l]
    /\ job' = [job EXCEPT ![p] = j]

Finish(p) == Goto(p, "idle", Idle)

\* A call that throws, a death, or an edit.
Trouble == troubles < MaxTroubles /\ troubles' = troubles + 1

\* Another execution that does one of these.
Doing(p, what) == \E q \in Procs \ {p} : job[q].does \in what

\* Aspects other executions are changing.
Touched(p) == UNION {Touches(job[q].does) : q \in Procs \ {p}}

\* A request for an aspect; two at once make it unsure, and a top-up beside a
\* usage sync makes the status unsure.
Begin(p, l, j) ==
    /\ pc[p] = "idle" /\ requests < MaxRequests
    /\ requests' = requests + 1
    /\ Goto(p, l, j)
    /\ unsure' = unsure \cup (Touches(j.does) \cap Touched(p))
                        \cup (IF j.does = "gb" /\ Doing(p, {"sync"}) THEN {"status"} ELSE {})

\* resolveOwnedProviderOrder() and assertOrderUsable(): the order as it is now.
Operable == open /\ status \in Usable /\ ~ended

-----------------------------------------------------------------------------
(* topUpBandwidth().                                                       *)

TopUpStart(p, k) ==
    /\ Begin(p, IF k = NoKey THEN "read" ELSE "cached", [Idle EXCEPT !.does = "gb", !.key = k])
    /\ UNCHANGED <<orderVars, moneyVars, keyVars, worldVars, told, lapsed, unbooked, troubles>>

TopUpCached(p) ==
    /\ pc[p] = "cached"
    /\ IF job[p].key \in answered THEN Finish(p) ELSE Goto(p, "lock", job[p])
    /\ UNCHANGED <<orderVars, moneyVars, keyVars, worldVars, histVars, bounds>>

\* The lock is never released: it lapses after a minute.
TopUpLock(p) ==
    /\ pc[p] = "lock"
    /\ IF job[p].key \in locks
       THEN Finish(p) /\ UNCHANGED locks
       ELSE /\ locks' = locks \cup {job[p].key}
            /\ Goto(p, "read", job[p])
    /\ UNCHANGED <<orderVars, moneyVars, answered, worldVars, histVars, bounds>>

TopUpRead(p) ==
    /\ pc[p] = "read"
    /\ IF Operable
       THEN Goto(p, "debit", [job[p] EXCEPT !.status = status, !.gb = gb])
       ELSE Finish(p)
    /\ UNCHANGED <<orderVars, moneyVars, keyVars, worldVars, histVars, bounds>>

TopUpDebit(p) ==
    /\ pc[p] = "debit"
    /\ IF money < Price
       THEN Finish(p) /\ UNCHANGED money
       ELSE /\ money' = money - Price
            /\ Goto(p, "extend", job[p])
    /\ UNCHANGED <<orderVars, spent, keyVars, worldVars, histVars, bounds>>

TopUpExtend(p) ==
    /\ pc[p] = "extend"
    /\ remote' = [remote EXCEPT !["gb"] = @ + 1]
    /\ Goto(p, "save", job[p])
    /\ UNCHANGED <<orderVars, moneyVars, keyVars, ended, open, cooling, histVars, bounds>>

\* The call threw: refused, or done with the answer lost; refunded either way.
TopUpRefused(p) ==
    /\ pc[p] = "extend" /\ Trouble
    /\ \/ UNCHANGED <<remote, unsure>>
       \/ /\ remote' = [remote EXCEPT !["gb"] = @ + 1]
          /\ unsure' = unsure \cup {"gb"}
    /\ Goto(p, "refund", job[p])
    /\ UNCHANGED <<orderVars, moneyVars, keyVars, ended, open, cooling, told, lapsed,
                   unbooked, requests>>

\* Mutant: the debit is returned twice.
TopUpRefundTwice(p) ==
    /\ pc[p] = "refund"
    /\ money' = money + 2 * Price
    /\ Finish(p)
    /\ UNCHANGED <<orderVars, spent, keyVars, worldVars, histVars, bounds>>

TopUpRefund(p) ==
    /\ pc[p] = "refund"
    /\ money' = money + Price
    /\ Finish(p)
    /\ UNCHANGED <<orderVars, spent, keyVars, worldVars, histVars, bounds>>

\* save() of the document read before the call: the sum counts from its
\* bandwidth_gb, and the status moves only if it was DEPLETED then.
TopUpSave(p) ==
    /\ pc[p] = "save"
    /\ gb' = job[p].gb + 1
    /\ status' = IF job[p].status = "DEPLETED" THEN "ACTIVE" ELSE status
    /\ spent' = spent + Price
    /\ IF job[p].key = NoKey THEN Finish(p) ELSE Goto(p, "keep", job[p])
    /\ UNCHANGED <<used, copy, money, keyVars, worldVars, histVars, bounds>>

TopUpKeep(p) ==
    /\ pc[p] = "keep"
    /\ answered' = answered \cup {job[p].key}
    /\ Finish(p)
    /\ UNCHANGED <<orderVars, moneyVars, locks, worldVars, histVars, bounds>>

-----------------------------------------------------------------------------
(* changeProxyPassword() and setAllowedIps().                              *)

EditStart(p, a) ==
    /\ a \in {"password", "allowed"} /\ Operable
    /\ Begin(p, "call", [Idle EXCEPT !.does = a])
    /\ UNCHANGED <<orderVars, moneyVars, keyVars, worldVars, told, lapsed, unbooked, troubles>>

\* The provider answers with what it has set, which is what will be stored.
EditCall(p) ==
    /\ pc[p] = "call"
    /\ LET a == job[p].does IN
       /\ remote' = [remote EXCEPT ![a] = @ + 1]
       /\ Goto(p, "write", [job[p] EXCEPT !.new = remote[a] + 1])
    /\ UNCHANGED <<orderVars, moneyVars, keyVars, ended, open, cooling, histVars, bounds>>

EditRefused(p) ==
    /\ pc[p] = "call" /\ Trouble
    /\ LET a == job[p].does IN
       \/ UNCHANGED <<remote, unsure>>
       \/ /\ remote' = [remote EXCEPT ![a] = @ + 1]
          /\ unsure' = unsure \cup {a}
    /\ Finish(p)
    /\ UNCHANGED <<orderVars, moneyVars, keyVars, ended, open, cooling, told, lapsed,
                   unbooked, requests>>

\* The proxies of the order, or its metadata.
EditWrite(p) ==
    /\ pc[p] = "write"
    /\ copy' = [copy EXCEPT ![job[p].does] = job[p].new]
    /\ IF job[p].does = "password" /\ Gateway THEN Goto(p, "credentials", job[p]) ELSE Finish(p)
    /\ UNCHANGED <<status, gb, used, moneyVars, keyVars, worldVars, histVars, bounds>>

\* The credentials the order itself shows.
EditCredentials(p) ==
    /\ pc[p] = "credentials"
    /\ copy' = [copy EXCEPT !["gateway"] = job[p].new]
    /\ Finish(p)
    /\ UNCHANGED <<status, gb, used, moneyVars, keyVars, worldVars, histVars, bounds>>

\* Mutant: the write fails and the customer is not told the password in force.
EditFailsSilently(p) ==
    /\ pc[p] \in {"write", "credentials"} /\ Trouble
    /\ unsure' = IF job[p].does = "allowed" THEN unsure \cup {"allowed"} ELSE unsure
    /\ Finish(p)
    /\ UNCHANGED <<orderVars, moneyVars, keyVars, worldVars, told, lapsed, unbooked, requests>>

\* A write that throws: the error message tells the password now in force;
\* of the allowed addresses nothing is told.
EditFails(p) ==
    /\ pc[p] \in {"write", "credentials"} /\ Trouble
    /\ told' = IF job[p].does = "password" THEN job[p].new ELSE told
    /\ unsure' = IF job[p].does = "allowed" THEN unsure \cup {"allowed"} ELSE unsure
    /\ Finish(p)
    /\ UNCHANGED <<orderVars, moneyVars, keyVars, worldVars, lapsed, unbooked, requests>>

-----------------------------------------------------------------------------
(* refetchProxies() and updateProxy(), by the administrator.               *)

RefetchStart(p) ==
    /\ Begin(p, "again", [Idle EXCEPT !.does = "proxies"])
    /\ UNCHANGED <<orderVars, moneyVars, keyVars, worldVars, told, lapsed, unbooked, troubles>>

\* From here the address is known again, unless something else is changing it.
RefetchCall(p) ==
    /\ pc[p] = "again"
    /\ Goto(p, "overwrite",
            [job[p] EXCEPT !.new = remote["password"], !.address = remote["address"]])
    /\ unsure' = unsure \ ({"address"} \ Touched(p))
    /\ UNCHANGED <<orderVars, moneyVars, keyVars, worldVars, told, lapsed, unbooked, bounds>>

RefetchRefused(p) ==
    /\ pc[p] = "again" /\ Trouble
    /\ Finish(p)
    /\ UNCHANGED <<orderVars, moneyVars, keyVars, worldVars, histVars, requests>>

\* What was read overwrites the proxies; the credentials the order shows stay.
RefetchStore(p) ==
    /\ pc[p] = "overwrite"
    /\ copy' = [copy EXCEPT !["password"] = job[p].new, !["address"] = job[p].address]
    /\ Finish(p)
    /\ UNCHANGED <<status, gb, used, moneyVars, keyVars, worldVars, histVars, bounds>>

\* By hand, to what they were once.
UpdateProxy ==
    /\ Trouble
    /\ copy' = [copy EXCEPT !["password"] = 0, !["address"] = 0]
    /\ unsure' = unsure \cup {"password", "address"}
    /\ UNCHANGED <<status, gb, used, moneyVars, keyVars, worldVars, pc, job, told, lapsed,
                   unbooked, requests>>

-----------------------------------------------------------------------------
(* rotateByCdkKey(): the key alone, without the order's status.            *)

RotateStart(p) ==
    /\ Begin(p, "find", [Idle EXCEPT !.does = "address"])
    /\ UNCHANGED <<orderVars, moneyVars, keyVars, worldVars, told, lapsed, unbooked, troubles>>

\* A cached answer says how long to wait.
RotateFind(p) ==
    /\ pc[p] = "find"
    /\ IF cooling THEN Finish(p) ELSE Goto(p, "rotate", job[p])
    /\ UNCHANGED <<orderVars, moneyVars, keyVars, worldVars, histVars, bounds>>

\* A new address, which the answer may leave out, or none because it is too early.
RotateCall(p) ==
    /\ pc[p] = "rotate"
    /\ \/ /\ remote' = [remote EXCEPT !["address"] = @ + 1]
          /\ Goto(p, "stored", [job[p] EXCEPT !.new = remote["address"] + 1])
          /\ UNCHANGED unsure
       \/ /\ remote' = [remote EXCEPT !["address"] = @ + 1]
          /\ Goto(p, "cool", job[p])
          /\ unsure' = unsure \cup {"address"}
       \/ /\ UNCHANGED <<remote, unsure>>
          /\ Goto(p, "cool", job[p])
    /\ UNCHANGED <<orderVars, moneyVars, keyVars, ended, open, cooling, told, lapsed, unbooked,
                   bounds>>

RotateRefused(p) ==
    /\ pc[p] = "rotate" /\ Trouble
    /\ \/ UNCHANGED <<remote, unsure>>
       \/ /\ remote' = [remote EXCEPT !["address"] = @ + 1]
          /\ unsure' = unsure \cup {"address"}
    /\ Finish(p)
    /\ UNCHANGED <<orderVars, moneyVars, keyVars, ended, open, cooling, told, lapsed,
                   unbooked, requests>>

RotateStore(p) ==
    /\ pc[p] = "stored"
    /\ copy' = [copy EXCEPT !["address"] = job[p].new]
    /\ Goto(p, "cool", job[p])
    /\ UNCHANGED <<status, gb, used, moneyVars, keyVars, worldVars, histVars, bounds>>

RotateCool(p) ==
    /\ pc[p] = "cool"
    /\ cooling' = TRUE
    /\ Finish(p)
    /\ UNCHANGED <<orderVars, moneyVars, keyVars, remote, ended, open, histVars, bounds>>

-----------------------------------------------------------------------------
(* syncBandwidth(), every ten minutes in every process.                    *)

\* The list holds the quota as it was; isRunning keeps runs of a process apart.
SyncStart(p) ==
    /\ pc[p] = "idle" /\ status = "ACTIVE"
    /\ Cardinality({q \in Procs : job[q].does = "sync"}) < Schedulers
    /\ Goto(p, "fetch", [Idle EXCEPT !.does = "sync", !.gb = gb])
    /\ unsure' = unsure \cup (IF Doing(p, {"gb", "sync"}) THEN {"status"} ELSE {})
    /\ UNCHANGED <<orderVars, moneyVars, keyVars, worldVars, told, lapsed, unbooked, bounds>>

SyncFetch(p) ==
    /\ pc[p] = "fetch"
    /\ Goto(p, "mark", [job[p] EXCEPT !.new = remote["used"]])
    /\ UNCHANGED <<orderVars, moneyVars, keyVars, worldVars, histVars, bounds>>

\* The next run tries again.
SyncRefused(p) ==
    /\ pc[p] = "fetch" /\ Trouble
    /\ Finish(p)
    /\ UNCHANGED <<orderVars, moneyVars, keyVars, worldVars, histVars, requests>>

\* Mutant: an order is spent only beyond its quota.
SyncMarkBeyond(p) ==
    /\ pc[p] = "mark"
    /\ used' = job[p].new
    /\ status' = IF job[p].new > job[p].gb THEN "DEPLETED" ELSE status
    /\ Finish(p)
    /\ UNCHANGED <<gb, copy, moneyVars, keyVars, worldVars, histVars, bounds>>

\* Mutant: an order is spent when its last gigabyte begins.
SyncMarkEarly(p) ==
    /\ pc[p] = "mark"
    /\ used' = job[p].new
    /\ status' = IF job[p].new + 1 >= job[p].gb THEN "DEPLETED" ELSE status
    /\ Finish(p)
    /\ UNCHANGED <<gb, copy, moneyVars, keyVars, worldVars, histVars, bounds>>

\* updateOne() without a condition: DEPLETED whatever the order is by now.
SyncMark(p) ==
    /\ pc[p] = "mark"
    /\ used' = job[p].new
    /\ status' = IF job[p].gb > 0 /\ job[p].new >= job[p].gb THEN "DEPLETED" ELSE status
    /\ Finish(p)
    /\ UNCHANGED <<gb, copy, moneyVars, keyVars, worldVars, histVars, bounds>>

-----------------------------------------------------------------------------
(* The customer's traffic, administrators, time and failures.              *)

Consume ==
    /\ remote["used"] < remote["gb"]
    /\ remote' = [remote EXCEPT !["used"] = @ + 1]
    /\ UNCHANGED <<orderVars, moneyVars, keyVars, ended, open, cooling, pc, job, histVars,
                   bounds>>

\* A sync under way may make a closed order DEPLETED, which is usable again.
Close(s) ==
    /\ status' = s
    /\ unsure' = unsure \cup (IF \E p \in Procs : job[p].does \in {"sync", "gb"}
                              THEN {"status"} ELSE {})
    /\ UNCHANGED <<gb, used, copy, moneyVars, keyVars, worldVars, pc, job, told, lapsed,
                   unbooked, requests>>

\* updateStatus(), or a refund with cancellation.
AdminCancel == status # "CANCELLED" /\ Trouble /\ Close("CANCELLED")

Expire == status = "ACTIVE" /\ ended /\ Close("EXPIRED") /\ UNCHANGED troubles

EndPasses ==
    /\ ~ended /\ Trouble
    /\ ended' = TRUE
    /\ UNCHANGED <<orderVars, moneyVars, keyVars, remote, open, cooling, pc, job, histVars,
                   requests>>

SwitchPartner ==
    /\ Trouble
    /\ open' = ~open
    /\ UNCHANGED <<orderVars, moneyVars, keyVars, remote, ended, cooling, pc, job, histVars,
                   requests>>

Cooled ==
    /\ cooling
    /\ cooling' = FALSE
    /\ UNCHANGED <<orderVars, moneyVars, keyVars, remote, ended, open, pc, job, histVars, bounds>>

\* A lock outlives the request that took it by less than a minute.
Lapse(k) ==
    /\ k \in locks
    /\ locks' = locks \ {k}
    /\ lapsed' = IF \E p \in Procs : job[p].key = k THEN lapsed \cup {k} ELSE lapsed
    /\ UNCHANGED <<orderVars, moneyVars, answered, worldVars, pc, job, unsure, told, unbooked,
                   bounds>>

InHand(p) == IF pc[p] \in {"extend", "refund", "save"} THEN Price ELSE 0

\* The provider has done it and the database does not show it yet.
HalfDone(p) == pc[p] \in {"save", "write", "credentials", "stored", "overwrite"}

\* The process dies, or a write without a handler throws.
Abort(p) ==
    /\ pc[p] # "idle" /\ Trouble
    /\ unbooked' = unbooked + InHand(p)
    /\ unsure' = IF HalfDone(p) THEN unsure \cup Touches(job[p].does) ELSE unsure
    /\ lapsed' = lapsed \cup ({job[p].key} \ {NoKey})
    /\ Finish(p)
    /\ UNCHANGED <<orderVars, moneyVars, keyVars, worldVars, told, requests>>

-----------------------------------------------------------------------------

TopUp(p) ==
    \/ \E k \in Keys \cup {NoKey} : TopUpStart(p, k)
    \/ TopUpCached(p) \/ TopUpLock(p) \/ TopUpRead(p) \/ TopUpDebit(p) \/ TopUpExtend(p)
    \/ TopUpRefused(p) \/ TopUpRefund(p) \/ TopUpSave(p) \/ TopUpKeep(p)

Edit(p) ==
    \/ \E a \in {"password", "allowed"} : EditStart(p, a)
    \/ EditCall(p) \/ EditRefused(p) \/ EditWrite(p) \/ EditCredentials(p) \/ EditFails(p)

Rotate(p) ==
    RotateStart(p) \/ RotateFind(p) \/ RotateCall(p) \/ RotateRefused(p) \/ RotateStore(p)
    \/ RotateCool(p)

Refetch(p) == RefetchStart(p) \/ RefetchCall(p) \/ RefetchRefused(p) \/ RefetchStore(p)

Sync(p) == SyncFetch(p) \/ SyncRefused(p) \/ SyncMark(p)

Environment ==
    Consume \/ UpdateProxy \/ AdminCancel \/ Expire \/ EndPasses \/ SwitchPartner \/ Cooled
    \/ \E k \in Keys : Lapse(k)

Next ==
    \/ \E p \in Procs : TopUp(p) \/ Edit(p) \/ Rotate(p) \/ Refetch(p)
                      \/ SyncStart(p) \/ Sync(p) \/ Abort(p)
    \/ Environment

\* What runs goes on; customers need not ask for anything, and nothing says that
\* the scheduler ever reads this order: it takes 50 of the active ones, unsorted.
Moves(p) ==
    TopUpCached(p) \/ TopUpLock(p) \/ TopUpRead(p) \/ TopUpDebit(p) \/ TopUpExtend(p)
    \/ TopUpRefund(p) \/ TopUpSave(p) \/ TopUpKeep(p) \/ EditCall(p) \/ EditWrite(p)
    \/ EditCredentials(p) \/ RotateFind(p) \/ RotateCall(p) \/ RotateStore(p) \/ RotateCool(p)
    \/ RefetchCall(p) \/ RefetchStore(p) \/ SyncFetch(p) \/ SyncMark(p)

Spec == Init /\ [][Next]_vars

FairSpec ==
    /\ Spec
    /\ \A p \in Procs : WF_vars(Moves(p))

-----------------------------------------------------------------------------
(* Properties.                                                             *)

Hands == [p \in Procs |-> InHand(p)]

\* Every gigabyte paid is in the ledger, in hand, or was lost with its
\* execution; a refused top-up is paid back once.
WalletTopsUp ==
    /\ money + spent + unbooked + SumFunctionOnSet(Hands, Procs) = StartMoney
    /\ troubles = 0 => unbooked = 0

Settled(a) == a \notin unsure /\ \A p \in Procs : a \notin Touches(job[p].does)

\* Unless two operations overlapped, one was cut off after the provider's answer
\* or the answer left the address out, the order shows the quota, allowed addresses and proxy address that
\* its provider holds.
MirrorsProvider ==
    /\ Settled("gb") => gb = remote["gb"]
    /\ Settled("allowed") => copy["allowed"] = remote["allowed"]
    /\ Settled("address") => copy["address"] = remote["address"]

\* The customer can always know the password in force: the proxies and the
\* order show it, or the error that did not store it told it.
PasswordKnown ==
    Settled("password") =>
        \/ told = remote["password"]
        \/ /\ copy["password"] = remote["password"]
           /\ Gateway => copy["gateway"] = remote["password"]

\* An order that no sync met during a top-up is DEPLETED only with its quota
\* spent.
DepletedIsSpent ==
    status = "DEPLETED" /\ "status" \notin unsure /\ Settled("gb") => used >= gb

\* A key tops up once, unless its lock lapsed under the request that held it.
KeyTopsUpOnce ==
    \A k \in Keys \ lapsed :
        Cardinality({p \in Procs : job[p].key = k /\ pc[p] \in {"extend", "save", "keep"}})
        + (IF k \in answered THEN 1 ELSE 0) <= 1

\* What is paid is topped up, once: the two conditions above, on well-typed states.
TopUpsPaid == TypeOK /\ WalletTopsUp /\ KeyTopsUpOnce

\* What the customer is shown is what the provider holds: MirrorsProvider and PasswordKnown.
ShownIsTrue == MirrorsProvider /\ PasswordKnown

\* The order is among those the scheduler reads, again and again.
ReadAgain == []<><<\E p \in Procs : SyncStart(p)>>_vars

\* A spent order that the scheduler keeps reading does not stay ACTIVE, whatever
\* top-ups, refused calls and deaths come between (syncBandwidth()).
SpentIsDepleted ==
    ReadAgain => []<>(status # "ACTIVE" \/ remote["used"] < gb)
=============================================================================
