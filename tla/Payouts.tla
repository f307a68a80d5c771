------------------------------ MODULE Payouts ------------------------------
(***************************************************************************)
(* The life of affiliate commissions, from the order that earns one to the *)
(* bank transfer: src/src/affiliate/affiliate.service.ts, with the step of *)
(* src/src/orders/orders-expiration.scheduler.ts that confirms them.       *)
(*                                                                         *)
(* Commissions, the affiliate balance and withdrawals are three            *)
(* collections, and no handler uses a transaction: an action is one        *)
(* database operation, and executions of handlers interleave and die       *)
(* between any two of them.                                                *)
(*                                                                         *)
(* Abstractions.  One referrer, for every query names one.  A commission   *)
(* is known by its order.  Amounts are whole, the program rounds them to   *)
(* two decimals.  Of the bank details only whether there are any.          *)
(***************************************************************************)
EXTENDS Integers, Sequences, FiniteSets, Functions

CONSTANTS
    Commissions,       \* orders of customers the referrer has brought
    Amount,            \* what each earns
    Procs,             \* executions of handlers at once
    MaxWithdrawals,    \* bound
    MaxCrashes         \* bound

ASSUME PayoutsAssumption ==
    /\ IsFiniteSet(Commissions) /\ IsFiniteSet(Procs)
    /\ Amount \in [Commissions -> Nat \ {0}]
    /\ MaxWithdrawals \in Nat /\ MaxCrashes \in Nat

VARIABLES
    expired,       \* orders with status EXPIRED
    status,        \* of commissions; NONE before there is one
    balance,       \* user.affiliate_balance
    bank,          \* the user has bank details
    withdrawals,   \* in the order they were created
    pc, job,       \* the executions: next operation, and what they have read
    crashes        \* bound

vars == <<expired, status, balance, bank, withdrawals, pc, job, crashes>>

Statuses == {"NONE", "PENDING", "CONFIRMED", "CREDITED", "REQUESTED", "PAID"}

NoJob == [ids |-> {}, total |-> 0]

Withdrawals == [ids : SUBSET Commissions, total : Nat, status : {"REQUESTED", "PAID", "REJECTED"}]

Steps == {"idle", "confirm", "credit", "mark", "check", "list", "markAll", "debit", "debitAll",
          "undo", "undoAll", "record", "pay", "return", "repay"}

TypeOK ==
    /\ expired \subseteq Commissions /\ bank \in BOOLEAN
    /\ status \in [Commissions -> Statuses]
    /\ balance \in Nat
    /\ withdrawals \in Seq(Withdrawals)
    /\ pc \in [Procs -> Steps]
    /\ job \in [Procs -> [ids : SUBSET Commissions, total : Nat]]
    /\ crashes \in 0..MaxCrashes

Init ==
    /\ expired = {} /\ status = [c \in Commissions |-> "NONE"]
    /\ balance = 0 /\ bank \in BOOLEAN /\ withdrawals = <<>>
    /\ pc = [p \in Procs |-> "idle"] /\ job = [p \in Procs |-> NoJob]
    /\ crashes = 0

Goto(p, l) == pc' = [pc EXCEPT ![p] = l] /\ UNCHANGED job

Begin(p, l, j) == pc[p] = "idle" /\ pc' = [pc EXCEPT ![p] = l] /\ job' = [job EXCEPT ![p] = j]

Finish(p) == pc' = [pc EXCEPT ![p] = "idle"] /\ job' = [job EXCEPT ![p] = NoJob]

\* updateMany: commissions of S with status s get status t.
Move(S, s, t) == status' = [c \in Commissions |-> IF c \in S /\ status[c] = s THEN t ELSE status[c]]

(***************************************************************************)
(* Commissions are earned, confirmed and credited.                         *)
(***************************************************************************)
\* handleOrderActive(); it is unique by order.
Earn(c) ==
    /\ Move({c}, "NONE", "PENDING") /\ status' # status
    /\ UNCHANGED <<expired, balance, bank, withdrawals, pc, job, crashes>>

\* The expiration scheduler has a batch of orders EXPIRED.
Sweep(p, S) ==
    /\ S # {} /\ expired \cap S = {}
    /\ expired' = expired \cup S
    /\ Begin(p, "confirm", [NoJob EXCEPT !.ids = S])
    /\ UNCHANGED <<status, balance, bank, withdrawals, crashes>>

\* handleOrderExpired()
Confirm(p) ==
    /\ pc[p] = "confirm"
    /\ Move(job[p].ids, "PENDING", "CONFIRMED")
    /\ Finish(p)
    /\ UNCHANGED <<expired, balance, bank, withdrawals, crashes>>

Approve(p, c) ==
    /\ status[c] = "CONFIRMED"
    /\ Move({c}, "CONFIRMED", "CREDITED")
    /\ Begin(p, "credit", [ids |-> {c}, total |-> Amount[c]])
    /\ UNCHANGED <<expired, balance, bank, withdrawals, crashes>>

Credit(p) ==
    /\ pc[p] = "credit"
    /\ balance' = balance + job[p].total
    /\ Finish(p)
    /\ UNCHANGED <<expired, status, bank, withdrawals, crashes>>

(***************************************************************************)
(* The referrer asks for one commission (requestWithdraw) or for all       *)
(* (requestWithdrawAll).                                                   *)
(***************************************************************************)
UpdateBankInfo ==
    /\ ~bank /\ bank' = TRUE
    /\ UNCHANGED <<expired, status, balance, withdrawals, pc, job, crashes>>

RequestWithdraw(p, c) ==
    /\ bank
    /\ Begin(p, "mark", [ids |-> {c}, total |-> Amount[c]])
    /\ UNCHANGED <<expired, status, balance, bank, withdrawals, crashes>>

Mark(p) ==
    /\ pc[p] = "mark"
    /\ Move(job[p].ids, "CREDITED", "REQUESTED")
    /\ IF status' # status THEN Goto(p, "debit") ELSE Finish(p)
    /\ UNCHANGED <<expired, balance, bank, withdrawals, crashes>>

RequestWithdrawAll(p) ==
    /\ bank /\ balance > 0
    /\ Begin(p, "check", [NoJob EXCEPT !.total = balance])
    /\ UNCHANGED <<expired, status, balance, bank, withdrawals, crashes>>

Having(s) == {c \in Commissions : status[c] = s}

\* No request is waiting.
Check(p) ==
    /\ pc[p] = "check"
    /\ IF Having("REQUESTED") = {} THEN Goto(p, "list") ELSE Finish(p)
    /\ UNCHANGED <<expired, status, balance, bank, withdrawals, crashes>>

List(p) ==
    /\ pc[p] = "list"
    /\ IF Having("CREDITED") = {} THEN Finish(p)
       ELSE /\ pc' = [pc EXCEPT ![p] = "markAll"]
            /\ job' = [job EXCEPT ![p].ids = Having("CREDITED")]
    /\ UNCHANGED <<expired, status, balance, bank, withdrawals, crashes>>

\* All that are CREDITED by now, not only those listed.
MarkAll(p) ==
    /\ pc[p] = "markAll"
    /\ Move(Commissions, "CREDITED", "REQUESTED")
    /\ Goto(p, "debitAll")
    /\ UNCHANGED <<expired, balance, bank, withdrawals, crashes>>

\* Mutant: the balance is lowered whatever it is by now.
CoversAnyhow(total) == TRUE

Covers(total) == balance >= total

Debit(p) ==
    /\ pc[p] \in {"debit", "debitAll"}
    /\ IF Covers(job[p].total)
       THEN balance' = balance - job[p].total /\ Goto(p, "record")
       ELSE /\ UNCHANGED balance
            /\ Goto(p, IF pc[p] = "debit" THEN "undo" ELSE "undoAll")
    /\ UNCHANGED <<expired, status, bank, withdrawals, crashes>>

\* The single request returns its commission to CREDITED whatever has become of it.
Undo(p) ==
    /\ pc[p] = "undo"
    /\ status' = [c \in Commissions |-> IF c \in job[p].ids THEN "CREDITED" ELSE status[c]]
    /\ Finish(p)
    /\ UNCHANGED <<expired, balance, bank, withdrawals, crashes>>

UndoAll(p) ==
    /\ pc[p] = "undoAll"
    /\ Move(job[p].ids, "REQUESTED", "CREDITED")
    /\ Finish(p)
    /\ UNCHANGED <<expired, balance, bank, withdrawals, crashes>>

Record(p) ==
    /\ pc[p] = "record" /\ Len(withdrawals) < MaxWithdrawals
    /\ withdrawals' = Append(withdrawals, [ids |-> job[p].ids, total |-> job[p].total,
                                           status |-> "REQUESTED"])
    /\ Finish(p)
    /\ UNCHANGED <<expired, status, balance, bank, crashes>>

(***************************************************************************)
(* The administrator has transferred the money, or refuses to.             *)
(***************************************************************************)
Decide(p, w, s, l) ==
    /\ withdrawals[w].status = "REQUESTED"
    /\ withdrawals' = [withdrawals EXCEPT ![w].status = s]
    /\ Begin(p, l, [ids |-> withdrawals[w].ids, total |-> withdrawals[w].total])
    /\ UNCHANGED <<expired, status, balance, bank, crashes>>

ApproveWithdraw(p, w) == Decide(p, w, "PAID", "pay")

Closes(j) == j.ids

Pay(p) ==
    /\ pc[p] = "pay"
    /\ Move(Closes(job[p]), "REQUESTED", "PAID")
    /\ Finish(p)
    /\ UNCHANGED <<expired, balance, bank, withdrawals, crashes>>

RejectWithdraw(p, w) == Decide(p, w, "REJECTED", "return")

Return(p) ==
    /\ pc[p] = "return"
    /\ Move(job[p].ids, "REQUESTED", "CREDITED")
    /\ Goto(p, "repay")
    /\ UNCHANGED <<expired, balance, bank, withdrawals, crashes>>

Repay(p) ==
    /\ pc[p] = "repay"
    /\ balance' = balance + job[p].total
    /\ Finish(p)
    /\ UNCHANGED <<expired, status, bank, withdrawals, crashes>>

\* The process dies, or a write fails: the execution ends here.
Crash(p) ==
    /\ pc[p] # "idle" /\ crashes < MaxCrashes
    /\ crashes' = crashes + 1
    /\ Finish(p)
    /\ UNCHANGED <<expired, status, balance, bank, withdrawals>>

Next ==
    \/ UpdateBankInfo
    \/ \E c \in Commissions : Earn(c)
    \/ \E p \in Procs :
        \/ \E S \in SUBSET Commissions : Sweep(p, S)
        \/ \E c \in Commissions : Approve(p, c) \/ RequestWithdraw(p, c)
        \/ Confirm(p) \/ Credit(p) \/ Crash(p)
        \/ RequestWithdrawAll(p) \/ Check(p) \/ List(p) \/ MarkAll(p)
        \/ Mark(p) \/ Debit(p) \/ Undo(p) \/ UndoAll(p) \/ Record(p)
        \/ \E w \in 1..Len(withdrawals) : ApproveWithdraw(p, w) \/ RejectWithdraw(p, w)
        \/ Pay(p) \/ Return(p) \/ Repay(p)

Spec == Init /\ [][Next]_vars

(***************************************************************************)
(* Properties.                                                             *)
(***************************************************************************)
\* What a commission has earned the referrer, paid out or not.
Earned(c) == IF status[c] \in {"CREDITED", "REQUESTED", "PAID"} THEN Amount[c] ELSE 0

\* What an execution has taken from one collection and not yet put into the next.
Carried(p) == IF pc[p] \in {"credit", "record", "return", "repay"} THEN job[p].total ELSE 0

\* What a withdrawal has taken from the balance.
Taken(w) == IF withdrawals[w].status # "REJECTED" THEN withdrawals[w].total ELSE 0

Credited == SumFunctionOnSet([c \in Commissions |-> Earned(c)], Commissions)

Held ==
    balance + SumFunctionOnSet([w \in DOMAIN withdrawals |-> Taken(w)], DOMAIN withdrawals)
            + SumFunctionOnSet([p \in Procs |-> Carried(p)], Procs)

\* The balance and the withdrawals that are paid or may be add up to the commissions credited,
\* whatever requests, credits and decisions interleave: nothing is paid out twice.  An execution
\* that dies can only lose the referrer money, never give more (creditCommission,
\* requestWithdraw, requestWithdrawAll, rejectWithdraw).
PayoutsBacked ==
    /\ TypeOK
    /\ Held <= Credited
    /\ crashes = 0 => Held = Credited

\* A commission shown as PAID is listed by a withdrawal the administrator has paid, so that
\* there is a transfer to show for it (approveWithdraw).
PaidIsListed ==
    \A c \in Having("PAID") :
        \E w \in 1..Len(withdrawals) : withdrawals[w].status = "PAID" /\ c \in withdrawals[w].ids

\* Whichever way the requests cross, money leaves once: what is open or paid is backed by
\* commissions, and what is paid by a transfer (requestWithdraw, requestWithdrawAll,
\* approveWithdraw, rejectWithdraw).
WithdrawalsBacked == PayoutsBacked /\ PaidIsListed
=============================================================================
