----------------------------- MODULE DepositCredit -----------------------------
(***************************************************************************)
(* Bank and Binance deposits: from the provider's webhook or the           *)
(* administrator's approval to the balance, the wallet ledger and the      *)
(* notification (src/src/deposit-promotions/, src/src/webhook/).           *)
(*                                                                         *)
(* A transfer is recorded, a promotion intent is reserved for it, a plan   *)
(* is frozen in it, one update of the user document raises the balance and *)
(* keeps a receipt, the ledger rows are upserted and the transfer is       *)
(* finalized.  Nothing is a transaction: one action is one database call,  *)
(* any number of executions run the same chain for the same transfer, and  *)
(* each of them may die between two calls.  The provider repeats a webhook *)
(* as often as it likes and an administrator approves and rejects at any   *)
(* moment.                                                                 *)
(*                                                                         *)
(* Abstractions.  A transfer is worth 1 and a bonus is worth 1; what the   *)
(* bank said of a transfer never changes (wire); how the amount, the dates *)
(* and the code of an intent compare with it is one word (fit).  Without   *)
(* DEPOSIT_ENABLED every handler here stops at its first line, so the      *)
(* switch is on.                                                           *)
(***************************************************************************)
EXTENDS Integers, FiniteSets

CONSTANTS
    Transfers, Users, Intents, Procs,
    Wires,          \* what the bank may say of the transfers: a bound of the instance
    NoUser, NoIntent, NoTransfer,
    Owner,          \* the user of each promotion intent
    MaxSafe,        \* largest balance the update accepts
    MaxAborts,      \* bound: executions that die
    MaxSpends       \* bound: other uses of the wallet

\* fits: the amount is accepted, and an intent is for this amount and in time;
\* late: outside the interval of the intent; differs: another amount;
\* unknown: a code no intent has; small: below the minimum deposit.
Fits == {"fits", "late", "differs", "unknown", "small"}

\* names: the user the content leads to.
AllWires == [method: {"bank", "binance"}, intent: Intents \cup {NoIntent},
             names: Users \cup {NoUser}, fit: Fits]

ASSUME DepositAssumption ==
    /\ Owner \in [Intents -> Users]
    /\ NoUser \notin Users /\ NoIntent \notin Intents /\ NoTransfer \notin Transfers
    /\ MaxSafe \in Nat /\ MaxAborts \in Nat /\ MaxSpends \in Nat
    /\ Wires \subseteq [Transfers -> AllWires]
    /\ \A w \in Wires, t \in Transfers :
         w[t].intent # NoIntent => w[t].method = "bank" /\ w[t].names = Owner[w[t].intent]

VARIABLES
    wire,                   \* what the bank says of each transfer
    \* the transaction document
    status, user, plan,
    consumedBy,             \* the transfer an intent is reserved for
    \* the users
    money, whole,           \* balance, and whether it is an integer
    receipts,               \* deposit_credit_receipts
    ledger,                 \* credit_keys of the wallet transactions
    claimed, notices,       \* topup_success_claimed_at; notifications sent
    \* executions
    pc, job,
    \* history
    wired, spent,           \* Binance credits and spending of each user
    aborts

recordVars == <<status, user, plan>>
walletVars == <<money, whole, receipts>>
noticeVars == <<claimed, notices>>
procVars   == <<pc, job>>
extVars    == <<wire, wired, spent, aborts>>
vars == <<recordVars, consumedBy, walletVars, ledger, noticeVars, procVars, extVars>>

\* A plan, or a receipt: who is credited and whether a bonus is.
Plans == [user: Users, bonus: BOOLEAN]
NoPlan == [user |-> NoUser, bonus |-> FALSE]

Statuses == {"none", "pending", "unmatched", "rejected", "crediting", "processed"}

Labels == {"idle", "load", "claim", "plan", "credit", "deposit", "bonus", "finalize",
           "notify", "send", "increment"}

Jobs == [tx: Transfers \cup {NoTransfer}, user: Users \cup {NoUser}, bonus: BOOLEAN]
NoJob == [tx |-> NoTransfer, user |-> NoUser, bonus |-> FALSE]

TypeOK ==
    /\ wire \in Wires
    /\ status \in [Transfers -> Statuses]
    /\ user \in [Transfers -> Users \cup {NoUser}]
    /\ plan \in [Transfers -> Plans \cup {NoPlan}]
    /\ consumedBy \in [Intents -> Transfers \cup {NoTransfer}]
    /\ money \in [Users -> Nat] /\ \A u \in Users : money[u] <= MaxSafe + wired[u]
    /\ whole \in [Users -> BOOLEAN]
    /\ receipts \in [Users -> SUBSET [tx: Transfers, bonus: BOOLEAN]]
    /\ ledger \subseteq Transfers \X {"deposit", "bonus"}
    /\ claimed \subseteq Transfers
    /\ notices \in [Transfers -> Nat]
    /\ pc \in [Procs -> Labels]
    /\ job \in [Procs -> Jobs]
    /\ wired \in [Users -> Nat] /\ spent \in [Users -> Nat]
    /\ aborts \in 0..MaxAborts

\* A transfer may be a historical one that was processed before plans existed.
Init ==
    /\ wire \in Wires
    /\ status \in [Transfers -> {"none", "processed"}]
    /\ user = [t \in Transfers |-> IF status[t] = "none" THEN NoUser ELSE wire[t].names]
    /\ plan = [t \in Transfers |-> NoPlan]
    /\ consumedBy = [c \in Intents |-> NoTransfer]
    /\ money = [u \in Users |-> 0]
    /\ whole = [u \in Users |-> TRUE]
    /\ receipts = [u \in Users |-> {}]
    /\ ledger = {} /\ claimed = {}
    /\ notices = [t \in Transfers |-> 0]
    /\ pc = [p \in Procs |-> "idle"]
    /\ job = [p \in Procs |-> NoJob]
    /\ wired = [u \in Users |-> 0] /\ spent = [u \in Users |-> 0]
    /\ aborts = 0

-----------------------------------------------------------------------------
(* Executions.                                                             *)

At(p, t, label) == pc[p] = label /\ job[p].tx = t

Goto(p, label) == pc' = [pc EXCEPT ![p] = label] /\ UNCHANGED job

\* The handler returns, or throws an answer the caller is given.
Finish(p) == pc' = [pc EXCEPT ![p] = "idle"] /\ job' = [job EXCEPT ![p] = NoJob]

Begin(p, t, u, label) ==
    /\ pc[p] = "idle"
    /\ pc' = [pc EXCEPT ![p] = label]
    /\ job' = [job EXCEPT ![p] = [tx |-> t, user |-> u, bonus |-> FALSE]]

Record(t, s, u) ==
    /\ status' = [status EXCEPT ![t] = s]
    /\ user' = [user EXCEPT ![t] = u]
    /\ UNCHANGED plan

\* Nothing but the record and the execution changes.
OnlyRecords == UNCHANGED <<consumedBy, walletVars, ledger, noticeVars, extVars>>

-----------------------------------------------------------------------------
(* handlePays2(), approveTransaction(), rejectTransaction()                *)

\* A code or an address may lead to nobody yet; an intent always has its owner.
FindUser(t) ==
    IF wire[t].intent # NoIntent THEN {wire[t].names} ELSE {wire[t].names, NoUser}

\* $setOnInsert with status s: only the first delivery records the transfer.
Upsert(t, s, u) == IF status[t] = "none" THEN Record(t, s, u) ELSE UNCHANGED recordVars

\* A bank webhook finds a user and records the transfer; a small one is refused.
DeliverBank(p, t) ==
    /\ pc[p] = "idle"
    /\ wire[t].method = "bank"
    /\ \E u \in FindUser(t) :
         \/ /\ u = NoUser /\ status[t] = "none"
            /\ Record(t, "unmatched", NoUser) /\ UNCHANGED procVars
         \/ /\ u # NoUser /\ wire[t].fit = "small" /\ status[t] = "none"
            /\ Record(t, "rejected", u) /\ UNCHANGED procVars
         \/ /\ u # NoUser /\ wire[t].fit # "small"
            /\ status[t] # "rejected" /\ ~(status[t] = "processed" /\ plan[t] = NoPlan)
            /\ Upsert(t, "pending", u)
            /\ Begin(p, t, u, "load")
    /\ OnlyRecords

\* Mutant: a transfer that is being credited cannot be approved again.
CanApprove_Fresh(t) == status[t] \in {"pending", "unmatched"}

CanApprove(t) == status[t] # "none" /\ ~(status[t] = "processed" /\ plan[t] = NoPlan)

\* The administrator approves; the e-mail counts only if no user was matched.
Approve(p, t) ==
    /\ CanApprove(t)
    /\ \E u \in IF user[t] # NoUser THEN {user[t]} ELSE Users : Begin(p, t, u, "load")
    /\ UNCHANGED recordVars /\ OnlyRecords

\* Mutant: only finished transfers are kept from rejection.
CanReject_Unplanned(t) == status[t] \in {"pending", "unmatched", "crediting"}

CanReject(t) == status[t] \in {"pending", "unmatched"} /\ plan[t] = NoPlan

Reject(t) ==
    /\ CanReject(t)
    /\ status' = [status EXCEPT ![t] = "rejected"]
    /\ UNCHANGED <<user, plan, procVars>> /\ OnlyRecords

-----------------------------------------------------------------------------
(* DepositCreditService.credit()                                           *)

\* A plan in hand: another user's is refused.
Proceed(p, pl) == IF pl.user = job[p].user THEN Goto(p, "credit") ELSE Finish(p)

Load(p, t) ==
    /\ At(p, t, "load")
    /\ \/ status[t] = "rejected" /\ Finish(p)
       \/ status[t] # "rejected" /\ wire[t].fit = "small" /\ Finish(p)
       \/ /\ status[t] # "rejected" /\ wire[t].fit # "small"
          /\ IF plan[t] = NoPlan THEN Goto(p, "claim") ELSE Proceed(p, plan[t])
    /\ UNCHANGED recordVars /\ OnlyRecords

\* Mutant: an intent is not kept for the first transfer that used it.
CanClaim_Again(c, t) == TRUE

CanClaim(c, t) == consumedBy[c] \in {NoTransfer, t}

\* promotions.claim(): the quote, and the intent reserved for this transfer.
Quote(p, bonus) ==
    /\ pc' = [pc EXCEPT ![p] = "plan"]
    /\ job' = [job EXCEPT ![p].bonus = bonus]

Claim(p, t) ==
    /\ At(p, t, "claim")
    /\ LET c == wire[t].intent IN
       \/ c = NoIntent /\ wire[t].fit # "unknown" /\ Quote(p, FALSE) /\ UNCHANGED consumedBy
       \/ c = NoIntent /\ wire[t].fit = "unknown" /\ Finish(p) /\ UNCHANGED consumedBy
       \/ /\ c # NoIntent /\ (wire[t].fit = "differs" \/ Owner[c] # job[p].user)
          /\ Finish(p) /\ UNCHANGED consumedBy
       \/ /\ c # NoIntent /\ wire[t].fit = "late" /\ Owner[c] = job[p].user
          /\ Quote(p, FALSE) /\ UNCHANGED consumedBy
       \/ /\ c # NoIntent /\ wire[t].fit = "fits" /\ Owner[c] = job[p].user
          /\ IF CanClaim(c, t)
             THEN consumedBy' = [consumedBy EXCEPT ![c] = t] /\ Quote(p, TRUE)
             ELSE UNCHANGED consumedBy /\ Finish(p)
    /\ UNCHANGED <<recordVars, walletVars, ledger, noticeVars, extVars>>

CanPlan(t) == plan[t] = NoPlan /\ status[t] \notin {"rejected", "processed"}

\* The conditional update, and the read that follows when it changed nothing.
Plan(p, t) ==
    /\ At(p, t, "plan")
    /\ \/ /\ CanPlan(t)
          /\ plan' = [plan EXCEPT ![t] = [user |-> job[p].user, bonus |-> job[p].bonus]]
          /\ user' = [user EXCEPT ![t] = job[p].user]
          /\ status' = [status EXCEPT ![t] = "crediting"]
          /\ Goto(p, "credit")
       \/ /\ ~CanPlan(t)
          /\ IF plan[t] = NoPlan THEN Finish(p) ELSE Proceed(p, plan[t])
          /\ UNCHANGED recordVars
    /\ OnlyRecords

Total(bonus) == IF bonus THEN 2 ELSE 1

\* Mutant: the update does not look for the receipt.
Credited_Unkeyed(u, t) == FALSE

Credited(u, t) == \E r \in receipts[u] : r.tx = t

\* Mutant: the balance may grow beyond the integers that are safe.
HasRoom_Always(u, bonus) == TRUE

\* The balance is an integer, and stays a safe one.
HasRoom(u, bonus) == whole[u] /\ money[u] >= 0 /\ money[u] + Total(bonus) <= MaxSafe

\* One update raises the balance and keeps the receipt; a receipt is enough to go on.
Wallet(p, t) ==
    /\ At(p, t, "credit")
    /\ LET u == job[p].user  pl == plan[t] IN
       \/ /\ ~Credited(u, t) /\ HasRoom(u, pl.bonus)
          /\ money' = [money EXCEPT ![u] = @ + Total(pl.bonus)]
          /\ receipts' = [receipts EXCEPT ![u] = @ \cup {[tx |-> t, bonus |-> pl.bonus]}]
          /\ Goto(p, "deposit") /\ UNCHANGED whole
       \/ /\ Credited(u, t) /\ Goto(p, "deposit") /\ UNCHANGED walletVars
       \/ /\ ~Credited(u, t) /\ ~HasRoom(u, pl.bonus)
          /\ Finish(p) /\ UNCHANGED walletVars
    /\ UNCHANGED <<recordVars, consumedBy, ledger, noticeVars, extVars>>

LedgerDeposit(p, t) ==
    /\ At(p, t, "deposit")
    /\ ledger' = ledger \cup {<<t, "deposit">>}
    /\ \E r \in receipts[job[p].user] :
         r.tx = t /\ Goto(p, IF r.bonus THEN "bonus" ELSE "finalize")
    /\ UNCHANGED <<recordVars, consumedBy, walletVars, noticeVars, extVars>>

LedgerBonus(p, t) ==
    /\ At(p, t, "bonus")
    /\ ledger' = ledger \cup {<<t, "bonus">>}
    /\ Goto(p, "finalize")
    /\ UNCHANGED <<recordVars, consumedBy, walletVars, noticeVars, extVars>>

Finalize(p, t) ==
    /\ At(p, t, "finalize")
    /\ status' = [status EXCEPT ![t] = "processed"]
    /\ Goto(p, "notify")
    /\ UNCHANGED <<user, plan>> /\ OnlyRecords

\* notifyBankCredit(): the marker first, then the message.
Notify(p, t) ==
    /\ At(p, t, "notify")
    /\ \/ t \notin claimed /\ claimed' = claimed \cup {t} /\ Goto(p, "send")
       \/ t \in claimed /\ UNCHANGED claimed /\ Finish(p)
    /\ UNCHANGED <<recordVars, consumedBy, walletVars, ledger, notices, extVars>>

Send(p, t) ==
    /\ At(p, t, "send")
    /\ notices' = [notices EXCEPT ![t] = @ + 1]
    /\ Finish(p)
    /\ UNCHANGED <<recordVars, consumedBy, walletVars, ledger, claimed, extVars>>

-----------------------------------------------------------------------------
(* handleBinancePay(), and everything else that moves the balance.         *)

\* The transfer is recorded as processed, and credited afterwards.
DeliverBinance(p, t) ==
    /\ pc[p] = "idle"
    /\ wire[t].method = "binance" /\ status[t] = "none"
    /\ \E u \in FindUser(t) :
         \/ u = NoUser /\ Record(t, "unmatched", NoUser) /\ UNCHANGED procVars
         \/ /\ u # NoUser /\ wire[t].fit # "small"
            /\ Record(t, "processed", u) /\ Begin(p, t, u, "increment")
    /\ OnlyRecords

Increment(p, t) ==
    /\ At(p, t, "increment")
    /\ money' = [money EXCEPT ![job[p].user] = @ + 1]
    /\ wired' = [wired EXCEPT ![job[p].user] = @ + 1]
    /\ Finish(p)
    /\ UNCHANGED <<recordVars, consumedBy, whole, receipts, ledger, noticeVars, wire, spent,
                   aborts>>

Spend(u) ==
    /\ money[u] > 0 /\ spent[u] < MaxSpends
    /\ money' = [money EXCEPT ![u] = @ - 1]
    /\ spent' = [spent EXCEPT ![u] = @ + 1]
    /\ UNCHANGED <<recordVars, consumedBy, whole, receipts, ledger, noticeVars, procVars, wire,
                   wired, aborts>>

\* Another use of the wallet leaves a fraction of a dong in it, or removes it.
Fraction(u) ==
    /\ whole' = [whole EXCEPT ![u] = ~@]
    /\ UNCHANGED <<recordVars, consumedBy, money, receipts, ledger, noticeVars, procVars, extVars>>

\* The process dies, or a database call throws.
Abort(p) ==
    /\ pc[p] # "idle" /\ aborts < MaxAborts
    /\ aborts' = aborts + 1
    /\ Finish(p)
    /\ UNCHANGED <<recordVars, consumedBy, walletVars, ledger, noticeVars, wire, wired, spent>>

-----------------------------------------------------------------------------
Step(p) == \E t \in Transfers :
    \/ Load(p, t) \/ Claim(p, t) \/ Plan(p, t) \/ Wallet(p, t)
    \/ LedgerDeposit(p, t) \/ LedgerBonus(p, t) \/ Finalize(p, t)
    \/ Notify(p, t) \/ Send(p, t) \/ Increment(p, t)

Next ==
    \/ \E p \in Procs, t \in Transfers : DeliverBank(p, t) \/ DeliverBinance(p, t) \/ Approve(p, t)
    \/ \E p \in Procs : Step(p) \/ Abort(p)
    \/ \E t \in Transfers : Reject(t)
    \/ \E u \in Users : Spend(u) \/ Fraction(u)

Spec == Init /\ [][Next]_vars

\* An execution that is not interrupted goes on, and an interrupted credit is
\* approved again: no background job does it (rejectTransaction refuses it).
Fairness ==
    /\ \A p \in Procs : WF_vars(Step(p))
    /\ \A t \in Transfers : SF_vars(status[t] = "crediting" /\ \E p \in Procs : Approve(p, t))

FairSpec == Spec /\ Fairness

-----------------------------------------------------------------------------
(* Properties.                                                             *)

Credits(u) == Cardinality(receipts[u]) + Cardinality({r \in receipts[u] : r.bonus})

\* However many executions, retries and crashes there were, a balance is what the
\* receipts say was deposited, with Binance credits, less what was spent: nothing
\* was credited twice or without a receipt (credit()).
WalletMatches == \A u \in Users : money[u] + spent[u] = Credits(u) + wired[u]

\* A promotion intent gives its bonus to one transfer at most, to its owner, and
\* that transfer is the one it is reserved for (claim()).
BonusPaidOnce ==
    \A u \in Users : \A r \in receipts[u] :
        r.bonus => /\ wire[r.tx].intent # NoIntent
                   /\ Owner[wire[r.tx].intent] = u
                   /\ consumedBy[wire[r.tx].intent] = r.tx

\* A transfer is credited to the user of its plan and to nobody else, it is shown
\* as processed only when the receipt and every ledger row exist, and the
\* customer is told at most once and not earlier (credit(), notifyBankCredit()).
ProcessedIsPosted ==
    \A t \in Transfers :
        /\ \A u \in Users : Credited(u, t) => plan[t].user = u
        /\ status[t] = "processed" /\ plan[t] # NoPlan =>
             /\ [tx |-> t, bonus |-> plan[t].bonus] \in receipts[plan[t].user]
             /\ <<t, "deposit">> \in ledger
             /\ plan[t].bonus => <<t, "bonus">> \in ledger
        /\ notices[t] <= 1
        /\ notices[t] = 1 => status[t] = "processed"

\* A rejected transfer was not credited and never will be: rejection and credit
\* exclude each other although both read the transfer before they write
\* (rejectTransaction(), credit()).
RejectedIsFree ==
    \A t \in Transfers : status[t] = "rejected" =>
        plan[t] = NoPlan /\ \A u \in Users : ~Credited(u, t)

\* What the status of a transfer says has happened, has happened: the two conditions above.
StatusIsTrue == ProcessedIsPosted /\ RejectedIsFree

\* The wallet of the plan would take the credit.
TakesCredit(t) == plan[t] # NoPlan => HasRoom(plan[t].user, plan[t].bonus)

\* A credit that was begun ends, whatever died in between, provided that the
\* wallet takes it from some moment on: one that keeps a fraction of a dong, or
\* has no room, is refused at every attempt (credit()).
CreditResolves ==
    \A t \in Transfers :
        <>[]TakesCredit(t) => (status[t] = "crediting" ~> status[t] = "processed")
=============================================================================
