------------------------- MODULE DepositRenewalProofs -------------------------
(***************************************************************************)
(* Theorems about the two modules that move users.money by appointment:    *)
(* DepositCredit (credits of incoming transfers) and Renewal (debits of    *)
(* renewed orders).  They share no state; their proofs share this module,  *)
(* credits first.                                                          *)
(*                                                                         *)
(* DepositCredit, for every set of transfers, users, intents and           *)
(* executions, whatever the bank says of the transfers.                    *)
(*                                                                         *)
(* What an execution has read stays true because the documents only grow:  *)
(* a plan never changes once it is written, a receipt, a ledger row and a  *)
(* notification marker are never removed, an intent that was reserved      *)
(* keeps its transfer (Grown).  IInv says what the documents promise each  *)
(* other (PlanInv, ReceiptInv, PostedInv, NoticeInv, WalletInv), and what  *)
(* an execution knows at each label (ProcInv).                             *)
(*                                                                         *)
(* Renewal, for every set of orders, proxies, selections and executions.   *)
(* RenewalInv says what an execution holds (JobInv), that one run has the  *)
(* day of a selection (DayInv), where the money is (WalletRenews), that no *)
(* proxy is promised longer than its provider keeps it (PromiseInv), what  *)
(* an order that one execution at a time renews counts (CountInv), that a  *)
(* renewal but a bulk one has all the proxies it is for (PickInv), that    *)
(* schedules run on the day they are due while nothing disturbs them       *)
(* (CalmInv), and what the run of a schedule still owes an order that ends *)
(* tomorrow (ServeInv).                                                    *)
(***************************************************************************)
EXTENDS DepositCredit, Renewal, Totals, FiniteSetTheorems, TLAPS


\* The intent of transfer t belongs to u and is reserved for t.
ReservedFor(t, u) ==
    /\ wire[t].intent # NoIntent
    /\ Owner[wire[t].intent] = u
    /\ consumedBy[wire[t].intent] = t

PlanInv == \A t \in Transfers :
    /\ plan[t] # NoPlan => status[t] \in {"crediting", "processed"}
    /\ plan[t] # NoPlan /\ plan[t].bonus => ReservedFor(t, plan[t].user)
    /\ status[t] = "crediting" => plan[t] # NoPlan

ReceiptInv == \A u \in Users : \A r \in receipts[u] : plan[r.tx] = [user |-> u, bonus |-> r.bonus]

\* The receipt of transfer t under its plan, and its ledger rows.
Received(t) == [tx |-> t, bonus |-> plan[t].bonus] \in receipts[plan[t].user]
BonusRow(t) == plan[t].bonus => <<t, "bonus">> \in ledger

PostedInv == \A t \in Transfers :
    status[t] = "processed" /\ plan[t] # NoPlan =>
        Received(t) /\ <<t, "deposit">> \in ledger /\ BonusRow(t)

\* What execution p, at label pc[p], knows about its transfer.
Knows(p) ==
    LET t == job[p].tx  u == job[p].user IN
    /\ pc[p] = "plan" /\ job[p].bonus => ReservedFor(t, u)
    /\ pc[p] \in {"credit", "deposit", "bonus", "finalize"} => plan[t].user = u
    /\ pc[p] \in {"deposit", "bonus", "finalize"} => Received(t)
    /\ pc[p] \in {"bonus", "finalize"} => <<t, "deposit">> \in ledger
    /\ pc[p] = "finalize" => BonusRow(t)
    /\ pc[p] \in {"notify", "send"} => status[t] = "processed"

ProcInv == \A p \in Procs : Knows(p)

\* An execution between the marker and the message is the only one of its transfer.
NoticeInv ==
    /\ \A t \in Transfers : /\ notices[t] \in {0, 1}
                            /\ notices[t] = 1 => status[t] = "processed" /\ t \in claimed
    /\ \A p \in Procs : pc[p] = "send" => job[p].tx \in claimed /\ notices[job[p].tx] = 0
    /\ \A p, q \in Procs : pc[p] = "send" /\ pc[q] = "send" /\ job[p].tx = job[q].tx => p = q

WalletInv == \A u \in Users :
    IsFiniteSet(receipts[u]) /\ money[u] + spent[u] = Credits(u) + wired[u]

\* An execution that is under way has a transfer and a user.
BusyInv == \A p \in Procs : pc[p] # "idle" => job[p].tx \in Transfers /\ job[p].user \in Users

IInv == /\ TypeOK /\ BusyInv /\ PlanInv /\ ReceiptInv /\ PostedInv
        /\ ProcInv /\ NoticeInv /\ WalletInv

-----------------------------------------------------------------------------
(* Types.                                                                  *)

DocTypes ==
    /\ wire \in [Transfers -> AllWires] /\ wire \in Wires
    /\ status \in [Transfers -> Statuses]
    /\ user \in [Transfers -> Users \cup {NoUser}]
    /\ plan \in [Transfers -> Plans \cup {NoPlan}]
    /\ consumedBy \in [Intents -> Transfers \cup {NoTransfer}]
    /\ money \in [Users -> Nat] /\ \A u \in Users : money[u] <= MaxSafe + wired[u]
    /\ whole \in [Users -> BOOLEAN]
    /\ receipts \in [Users -> SUBSET [tx: Transfers, bonus: BOOLEAN]]
    /\ ledger \subseteq Transfers \X {"deposit", "bonus"}
    /\ claimed \subseteq Transfers
    /\ notices \in [Transfers -> Nat]
    /\ wired \in [Users -> Nat] /\ spent \in [Users -> Nat]
    /\ aborts \in 0..MaxAborts

ProcTypes == pc \in [Procs -> Labels] /\ job \in [Procs -> Jobs] /\ BusyInv

\* The types of the documents and of the executions, apart.
LEMMA TypeSplit == TypeOK /\ BusyInv <=> DocTypes /\ ProcTypes
  BY DepositAssumption DEF TypeOK, DocTypes, ProcTypes

\* A plan names a user unless there is none.
LEMMA PlanType ==
    ASSUME DocTypes, NEW t \in Transfers
    PROVE  /\ plan[t].bonus \in BOOLEAN
           /\ plan[t] # NoPlan <=> plan[t].user \in Users
           /\ plan[t] = [user |-> plan[t].user, bonus |-> plan[t].bonus]
<1>1. plan[t] \in Plans \/ plan[t] = NoPlan
  BY DEF DocTypes
<1>2. CASE plan[t] = NoPlan
  <2>1. NoPlan.user = NoUser /\ NoPlan.bonus = FALSE
    BY DEF NoPlan
  <2> QED  BY <1>2, <2>1, DepositAssumption DEF NoPlan
<1>3. CASE plan[t] \in Plans
  <2>1. plan[t].user \in Users /\ plan[t].bonus \in BOOLEAN
        /\ plan[t] = [user |-> plan[t].user, bonus |-> plan[t].bonus]
    BY <1>3 DEF Plans
  <2>2. NoPlan.user \notin Users
    BY DepositAssumption DEF NoPlan
  <2> QED  BY <2>1, <2>2
<1> QED  BY <1>1, <1>2, <1>3

\* An execution that goes on keeps its job.
LEMMA GotoType ==
    ASSUME ProcTypes, NEW p \in Procs, NEW l \in Labels, pc[p] # "idle", Goto(p, l)
    PROVE  ProcTypes'
  BY DEF ProcTypes, BusyInv, Goto

\* An execution that ends has no job.
LEMMA FinishType ==
    ASSUME ProcTypes, NEW p \in Procs, Finish(p)
    PROVE  ProcTypes'
  BY DEF ProcTypes, BusyInv, Finish, NoJob, Jobs, Labels

\* An execution that begins has a transfer and a user.
LEMMA BeginType ==
    ASSUME ProcTypes, NEW p \in Procs, NEW t \in Transfers, NEW u \in Users,
           NEW l \in Labels, Begin(p, t, u, l)
    PROVE  ProcTypes'
<1>1. [tx |-> t, user |-> u, bonus |-> FALSE] \in Jobs
  BY DEF Jobs
<1> QED  BY <1>1 DEF ProcTypes, BusyInv, Begin

\* A quote keeps the transfer and the user.
LEMMA QuoteType ==
    ASSUME ProcTypes, NEW p \in Procs, NEW b \in BOOLEAN, pc[p] # "idle", Quote(p, b)
    PROVE  ProcTypes'
<1> DEFINE j == [job[p] EXCEPT !.bonus = b]
<1>1. j \in Jobs /\ j.tx = job[p].tx /\ j.user = job[p].user
  BY DEF ProcTypes, Jobs
<1>2. job' = [job EXCEPT ![p] = j] /\ pc' = [pc EXCEPT ![p] = "plan"]
  BY DEF Quote
<1> HIDE DEF j
<1> QED  BY <1>1, <1>2 DEF ProcTypes, BusyInv, Labels

\* The user a delivery leads to.
LEMMA FoundUser ==
    ASSUME DocTypes, NEW t \in Transfers
    PROVE  FindUser(t) \subseteq Users \cup {NoUser}
  BY DEF DocTypes, FindUser, AllWires

\* The initial states are well typed.
LEMMA TypeInit == Init => TypeOK /\ BusyInv
<1> SUFFICES ASSUME Init PROVE TypeOK /\ BusyInv
  OBVIOUS
<1> USE DepositAssumption
<1>1. wire \in [Transfers -> AllWires]
  BY DEF Init
<1>2. \A t \in Transfers : wire[t].names \in Users \cup {NoUser}
  BY <1>1 DEF AllWires
<1>3. /\ status \in [Transfers -> Statuses]
      /\ user \in [Transfers -> Users \cup {NoUser}]
      /\ plan \in [Transfers -> Plans \cup {NoPlan}]
  BY <1>2 DEF Init, Statuses
<1> QED  BY <1>3 DEF Init, TypeOK, BusyInv, Labels, Jobs, NoJob

\* Every step keeps the types.
LEMMA TypeStep ==
    ASSUME DocTypes, ProcTypes, [Next]_vars
    PROVE  DocTypes' /\ ProcTypes'
<1> USE DepositAssumption DEF Labels, Statuses, OnlyRecords, At,
       vars, recordVars, walletVars, noticeVars, procVars, extVars
<1>1. ASSUME NEW p \in Procs, NEW t \in Transfers, DeliverBank(p, t)
      PROVE  DocTypes' /\ ProcTypes'
  <2>1. DocTypes'
    BY <1>1, FoundUser DEF DeliverBank, DocTypes, Record, Upsert
  <2>2. UNCHANGED procVars \/ \E u \in Users : Begin(p, t, u, "load")
    BY <1>1, FoundUser DEF DeliverBank
  <2> QED  BY <2>1, <2>2, BeginType DEF ProcTypes, BusyInv
<1>2. ASSUME NEW p \in Procs, NEW t \in Transfers, DeliverBinance(p, t)
      PROVE  DocTypes' /\ ProcTypes'
  <2>1. DocTypes'
    <3>1. \E s \in {"unmatched", "processed"}, u \in Users \cup {NoUser} : Record(t, s, u)
      BY <1>2, FoundUser DEF DeliverBinance
    <3>2. OnlyRecords
      BY <1>2 DEF DeliverBinance
    <3> QED  BY <3>1, <3>2 DEF DocTypes, Record
  <2>2. UNCHANGED procVars \/ \E u \in Users : Begin(p, t, u, "increment")
    BY <1>2, FoundUser DEF DeliverBinance
  <2> QED  BY <2>1, <2>2, BeginType DEF ProcTypes, BusyInv
<1>3. ASSUME NEW p \in Procs, NEW t \in Transfers, Approve(p, t)
      PROVE  DocTypes' /\ ProcTypes'
  <2>1. \E u \in Users : Begin(p, t, u, "load")
    BY <1>3 DEF Approve, DocTypes
  <2> QED  BY <1>3, <2>1, BeginType DEF Approve, DocTypes
<1>4. ASSUME NEW t \in Transfers, Reject(t) PROVE DocTypes' /\ ProcTypes'
  BY <1>4 DEF Reject, DocTypes, ProcTypes, BusyInv
<1>5. ASSUME NEW p \in Procs, NEW t \in Transfers, Load(p, t)
      PROVE  DocTypes' /\ ProcTypes'
  <2>1. pc[p] # "idle" /\ (Finish(p) \/ Goto(p, "claim") \/ Goto(p, "credit"))
    BY <1>5 DEF Load, Proceed
  <2>2. ProcTypes'
    BY <2>1, FinishType, GotoType
  <2> QED  BY <1>5, <2>2 DEF Load, DocTypes
<1>6. ASSUME NEW p \in Procs, NEW t \in Transfers, Claim(p, t)
      PROVE  DocTypes' /\ ProcTypes'
  <2>1. pc[p] # "idle" /\ (Finish(p) \/ \E b \in BOOLEAN : Quote(p, b))
    BY <1>6 DEF Claim
  <2>2. consumedBy' = consumedBy \/ consumedBy' = [consumedBy EXCEPT ![wire[t].intent] = t]
    BY <1>6 DEF Claim
  <2>3. DocTypes'
    BY <1>6, <2>2 DEF Claim, DocTypes
  <2> QED  BY <2>1, <2>3, FinishType, QuoteType
<1>7. ASSUME NEW p \in Procs, NEW t \in Transfers, Plan(p, t)
      PROVE  DocTypes' /\ ProcTypes'
  <2>1. pc[p] # "idle" /\ (Finish(p) \/ Goto(p, "credit"))
    BY <1>7 DEF Plan, Proceed
  <2>2. DocTypes'
    <3>1. CASE UNCHANGED recordVars
      BY <1>7, <3>1 DEF Plan, DocTypes
    <3>2. CASE ~UNCHANGED recordVars
      <4> DEFINE pl == [user |-> job[p].user, bonus |-> job[p].bonus]
      <4>1. /\ plan' = [plan EXCEPT ![t] = pl] /\ user' = [user EXCEPT ![t] = job[p].user]
            /\ status' = [status EXCEPT ![t] = "crediting"] /\ OnlyRecords
        BY <1>7, <3>2 DEF Plan
      <4>2. job[p].user \in Users /\ job[p].bonus \in BOOLEAN
        BY <1>7 DEF Plan, ProcTypes, BusyInv, Jobs
      <4> QED  BY <4>1, <4>2 DEF DocTypes, Plans
    <3> QED  BY <3>1, <3>2
  <2> QED  BY <2>1, <2>2, FinishType, GotoType
<1>8. ASSUME NEW p \in Procs, NEW t \in Transfers, Wallet(p, t)
      PROVE  DocTypes' /\ ProcTypes'
  <2>1. pc[p] # "idle" /\ (Finish(p) \/ Goto(p, "deposit"))
    BY <1>8 DEF Wallet
  <2>2. DocTypes'
    <3> DEFINE u == job[p].user  b == plan[t].bonus
    <3>1. b \in BOOLEAN /\ u \in Users
      BY <1>8, PlanType DEF Wallet, ProcTypes, BusyInv
    <3>2. CASE UNCHANGED walletVars
      BY <1>8, <3>2 DEF Wallet, DocTypes
    <3>3. CASE ~UNCHANGED walletVars
      <4>1. /\ HasRoom(u, b) /\ money' = [money EXCEPT ![u] = @ + Total(b)]
            /\ receipts' = [receipts EXCEPT ![u] = @ \cup {[tx |-> t, bonus |-> b]}]
            /\ UNCHANGED <<recordVars, consumedBy, whole, ledger, noticeVars, extVars>>
        BY <1>8, <3>3 DEF Wallet
      <4>2. Total(b) \in 1..2
        BY <3>1 DEF Total
      <4>3. money' \in [Users -> Nat] /\ \A v \in Users : money'[v] <= MaxSafe + wired'[v]
        BY <3>1, <4>1, <4>2 DEF DocTypes, HasRoom
      <4>4. receipts' \in [Users -> SUBSET [tx: Transfers, bonus: BOOLEAN]]
        BY <3>1, <4>1 DEF DocTypes
      <4> QED  BY <4>1, <4>3, <4>4 DEF DocTypes
    <3> QED  BY <3>2, <3>3
  <2> QED  BY <2>1, <2>2, FinishType, GotoType
<1>9. ASSUME NEW p \in Procs, NEW t \in Transfers, LedgerDeposit(p, t)
      PROVE  DocTypes' /\ ProcTypes'
  <2>1. pc[p] # "idle" /\ (Goto(p, "bonus") \/ Goto(p, "finalize"))
    BY <1>9 DEF LedgerDeposit
  <2>2. DocTypes'
    BY <1>9 DEF LedgerDeposit, DocTypes
  <2> QED  BY <2>1, <2>2, FinishType, GotoType
<1>10. ASSUME NEW p \in Procs, NEW t \in Transfers, LedgerBonus(p, t)
      PROVE  DocTypes' /\ ProcTypes'
  <2>1. pc[p] # "idle" /\ (Goto(p, "finalize"))
    BY <1>10 DEF LedgerBonus
  <2>2. DocTypes'
    BY <1>10 DEF LedgerBonus, DocTypes
  <2> QED  BY <2>1, <2>2, FinishType, GotoType
<1>11. ASSUME NEW p \in Procs, NEW t \in Transfers, Finalize(p, t)
      PROVE  DocTypes' /\ ProcTypes'
  <2>1. pc[p] # "idle" /\ (Goto(p, "notify"))
    BY <1>11 DEF Finalize
  <2>2. DocTypes'
    BY <1>11 DEF Finalize, DocTypes
  <2> QED  BY <2>1, <2>2, FinishType, GotoType
<1>12. ASSUME NEW p \in Procs, NEW t \in Transfers, Notify(p, t)
      PROVE  DocTypes' /\ ProcTypes'
  <2>1. pc[p] # "idle" /\ (Goto(p, "send") \/ Finish(p))
    BY <1>12 DEF Notify
  <2>2. DocTypes'
    BY <1>12 DEF Notify, DocTypes
  <2> QED  BY <2>1, <2>2, FinishType, GotoType
<1>13. ASSUME NEW p \in Procs, NEW t \in Transfers, Send(p, t)
      PROVE  DocTypes' /\ ProcTypes'
  <2>1. pc[p] # "idle" /\ (Finish(p))
    BY <1>13 DEF Send
  <2>2. DocTypes'
    BY <1>13 DEF Send, DocTypes
  <2> QED  BY <2>1, <2>2, FinishType, GotoType
<1>14. ASSUME NEW p \in Procs, NEW t \in Transfers, Increment(p, t)
      PROVE  DocTypes' /\ ProcTypes'
  <2>1. pc[p] # "idle" /\ (Finish(p))
    BY <1>14 DEF Increment
  <2>2. DocTypes'
    <3>1. /\ money' = [money EXCEPT ![job[p].user] = @ + 1]
          /\ wired' = [wired EXCEPT ![job[p].user] = @ + 1]
          /\ job[p].user \in Users
          /\ UNCHANGED <<recordVars, consumedBy, whole, receipts, ledger, noticeVars, wire, spent,
                         aborts>>
      BY <1>14 DEF Increment, ProcTypes, BusyInv
    <3> QED  BY <3>1 DEF DocTypes
  <2> QED  BY <2>1, <2>2, FinishType, GotoType
<1>15. ASSUME NEW u \in Users, Spend(u) PROVE DocTypes' /\ ProcTypes'
  BY <1>15 DEF Spend, DocTypes, ProcTypes, BusyInv
<1>16. ASSUME NEW p \in Procs, Abort(p) PROVE DocTypes' /\ ProcTypes'
  BY <1>16, FinishType DEF Abort, DocTypes
<1>17. CASE UNCHANGED vars
  BY <1>17 DEF DocTypes, ProcTypes, BusyInv
<1>18. ASSUME NEW u \in Users, Fraction(u) PROVE DocTypes' /\ ProcTypes'
  BY <1>18 DEF Fraction, DocTypes, ProcTypes, BusyInv
<1> QED
  BY <1>1, <1>2, <1>3, <1>4, <1>5, <1>6, <1>7, <1>8, <1>9, <1>10, <1>11, <1>12, <1>13,
     <1>14, <1>15, <1>16, <1>17, <1>18 DEF Next, Step

-----------------------------------------------------------------------------
(* What never changes again.                                               *)

Grown ==
    /\ wire' = wire
    /\ \A t \in Transfers : plan[t] # NoPlan => plan'[t] = plan[t]
    /\ \A t \in Transfers : status[t] = "processed" => status'[t] = "processed"
    /\ \A c \in Intents : consumedBy[c] \in Transfers => consumedBy'[c] = consumedBy[c]
    /\ \A u \in Users : receipts[u] \subseteq receipts'[u]
    /\ ledger \subseteq ledger'

\* A step that leaves the documents of a credit alone.
CreditUntouched == UNCHANGED <<wire, recordVars, consumedBy, receipts, ledger>>

\* The steps that change the transactions, the intents, the receipts or the ledger.
LEMMA CreditSteps ==
    ASSUME [Next]_vars
    PROVE  \/ CreditUntouched
           \/ \E t \in Transfers : Reject(t)
           \/ \E p \in Procs, t \in Transfers :
                \/ DeliverBank(p, t) \/ DeliverBinance(p, t) \/ Claim(p, t) \/ Plan(p, t)
                \/ Wallet(p, t) \/ LedgerDeposit(p, t) \/ LedgerBonus(p, t) \/ Finalize(p, t)
<1> USE DEF CreditUntouched, OnlyRecords,
       vars, recordVars, walletVars, noticeVars, procVars, extVars
<1>1. ASSUME NEW p \in Procs, NEW t \in Transfers,
             Approve(p, t) \/ Load(p, t) \/ Notify(p, t) \/ Send(p, t) \/ Increment(p, t)
      PROVE  CreditUntouched
  BY <1>1 DEF Approve, Load, Notify, Send, Increment
<1>2. ASSUME NEW p \in Procs, Abort(p) PROVE CreditUntouched
  BY <1>2 DEF Abort
<1>3. ASSUME NEW u \in Users, Spend(u) \/ Fraction(u) PROVE CreditUntouched
  BY <1>3 DEF Spend, Fraction
<1> QED  BY <1>1, <1>2, <1>3 DEF Next, Step

\* No step takes back a plan, an end, a reservation, a receipt or a ledger row.
LEMMA StepGrows ==
    ASSUME DocTypes, PlanInv, [Next]_vars
    PROVE  Grown
<1> USE DEF OnlyRecords, recordVars, walletVars, noticeVars, procVars, extVars
<1>1. CASE CreditUntouched
  BY <1>1 DEF CreditUntouched, Grown
<1>2. ASSUME NEW t \in Transfers, Reject(t) PROVE Grown
  BY <1>2 DEF Reject, CanReject, Grown, DocTypes
<1>3. ASSUME NEW p \in Procs, NEW t \in Transfers, DeliverBank(p, t) PROVE Grown
  BY <1>3 DEF DeliverBank, Record, Upsert, Grown, DocTypes
<1>4. ASSUME NEW p \in Procs, NEW t \in Transfers, DeliverBinance(p, t) PROVE Grown
  BY <1>4 DEF DeliverBinance, Record, Grown, DocTypes
<1>5. ASSUME NEW p \in Procs, NEW t \in Transfers, Claim(p, t) PROVE Grown
  <2>1. \/ consumedBy' = consumedBy
        \/ \E c \in Intents : consumedBy[c] \in {NoTransfer, t}
                              /\ consumedBy' = [consumedBy EXCEPT ![c] = t]
    BY <1>5 DEF Claim, CanClaim, DocTypes, AllWires
  <2>2. UNCHANGED <<wire, recordVars, receipts, ledger>>
    BY <1>5 DEF Claim
  <2> QED  BY <2>1, <2>2, DepositAssumption DEF Grown, DocTypes
<1>6. ASSUME NEW p \in Procs, NEW t \in Transfers, Plan(p, t) PROVE Grown
  BY <1>6 DEF Plan, CanPlan, Grown, DocTypes
<1>7. ASSUME NEW p \in Procs, NEW t \in Transfers, Wallet(p, t) PROVE Grown
  BY <1>7 DEF Wallet, Grown, DocTypes
<1>8. ASSUME NEW p \in Procs, NEW t \in Transfers, LedgerDeposit(p, t) PROVE Grown
  BY <1>8 DEF LedgerDeposit, Grown
<1>9. ASSUME NEW p \in Procs, NEW t \in Transfers, LedgerBonus(p, t) PROVE Grown
  BY <1>9 DEF LedgerBonus, Grown
<1>10. ASSUME NEW p \in Procs, NEW t \in Transfers, Finalize(p, t) PROVE Grown
  BY <1>10 DEF Finalize, Grown, DocTypes
<1> QED
  BY CreditSteps, <1>1, <1>2, <1>3, <1>4, <1>5, <1>6, <1>7, <1>8, <1>9, <1>10

-----------------------------------------------------------------------------
(* The documents of a credit.                                              *)

\* A reservation stays what it is.
LEMMA ReservedKept ==
    ASSUME DocTypes, Grown, NEW t \in Transfers, NEW u, ReservedFor(t, u)
    PROVE  ReservedFor(t, u)'
<1>1. wire[t].intent \in Intents
  BY DEF ReservedFor, DocTypes, AllWires
<1> QED  BY <1>1 DEF ReservedFor, Grown

\* What PlanInv says of one transfer.
PlanOK(t) ==
    /\ plan[t] # NoPlan => status[t] \in {"crediting", "processed"}
    /\ plan[t] # NoPlan /\ plan[t].bonus => ReservedFor(t, plan[t].user)
    /\ status[t] = "crediting" => plan[t] # NoPlan

\* A transfer whose plan is not written keeps PlanOK.
LEMMA PlanKept ==
    ASSUME DocTypes, PlanInv, Grown, NEW t \in Transfers, plan'[t] = plan[t],
           plan[t] # NoPlan => status'[t] \in {"crediting", "processed"},
           status'[t] = "crediting" => status[t] = "crediting"
    PROVE  PlanOK(t)'
<1>1. PlanOK(t)
  BY DEF PlanInv, PlanOK
<1>2. CASE plan[t] # NoPlan /\ plan[t].bonus
  <2>1. ReservedFor(t, plan[t].user)'
    BY <1>1, <1>2, ReservedKept DEF PlanOK, ReservedFor, Grown, DocTypes, AllWires
  <2> QED  BY <1>1, <2>1 DEF PlanOK
<1>3. CASE ~(plan[t] # NoPlan /\ plan[t].bonus)
  BY <1>1, <1>3 DEF PlanOK
<1> QED  BY <1>2, <1>3

\* A plan stays backed by its status and, for a bonus, by the reservation.
LEMMA PlanStep ==
    ASSUME DocTypes, ProcTypes, PlanInv, ProcInv, [Next]_vars
    PROVE  PlanInv'
<1> USE DEF OnlyRecords, recordVars, walletVars, noticeVars, procVars, extVars
<1>1. Grown
  BY StepGrows
<1> SUFFICES ASSUME NEW s \in Transfers PROVE PlanOK(s)'
  BY DEF PlanInv, PlanOK
<1>2. PlanOK(s)
  BY DEF PlanInv, PlanOK
<1>3. CASE UNCHANGED <<status, plan>>
  BY <1>1, <1>2, <1>3, PlanKept DEF PlanOK
<1>4. ASSUME NEW t \in Transfers, Reject(t) PROVE PlanOK(s)'
  <2>1. plan' = plan /\ status' = [status EXCEPT ![t] = "rejected"] /\ plan[t] = NoPlan
    BY <1>4 DEF Reject, CanReject
  <2> QED  BY <1>1, <1>2, <2>1, PlanKept DEF PlanOK, DocTypes
<1>5. ASSUME NEW p \in Procs, NEW t \in Transfers, DeliverBank(p, t) PROVE PlanOK(s)'
  <2>1. /\ plan' = plan
        /\ \/ status' = status
           \/ \E x \in {"unmatched", "rejected", "pending"} :
                status[t] = "none" /\ status' = [status EXCEPT ![t] = x]
    BY <1>5 DEF DeliverBank, Record, Upsert
  <2> QED  BY <1>1, <1>2, <2>1, PlanKept DEF PlanOK, DocTypes
<1>6. ASSUME NEW p \in Procs, NEW t \in Transfers, DeliverBinance(p, t) PROVE PlanOK(s)'
  <2>1. /\ plan' = plan /\ status[t] = "none"
        /\ \E x \in {"unmatched", "processed"} : status' = [status EXCEPT ![t] = x]
    BY <1>6 DEF DeliverBinance, Record
  <2> QED  BY <1>1, <1>2, <2>1, PlanKept DEF PlanOK, DocTypes
<1>7. ASSUME NEW p \in Procs, NEW t \in Transfers, Plan(p, t) PROVE PlanOK(s)'
  <2>1. CASE UNCHANGED recordVars
    BY <1>3, <2>1
  <2>2. CASE ~UNCHANGED recordVars
    <3> DEFINE pl == [user |-> job[p].user, bonus |-> job[p].bonus]
    <3>1. /\ plan' = [plan EXCEPT ![t] = pl] /\ status' = [status EXCEPT ![t] = "crediting"]
          /\ UNCHANGED <<wire, consumedBy>> /\ pc[p] = "plan" /\ job[p].tx = t
      BY <1>7, <2>2 DEF Plan, At
    <3>2. pl.user \in Users /\ pl.user = job[p].user /\ pl.bonus = job[p].bonus
      BY <3>1 DEF ProcTypes, BusyInv
    <3>3. pl.bonus => ReservedFor(t, pl.user)
      BY <3>1, <3>2 DEF ProcInv, Knows
    <3>4. pl # NoPlan
      BY <3>2, DepositAssumption DEF NoPlan
    <3>5. CASE s = t
      <4>1. plan'[s] = pl /\ status'[s] = "crediting"
        BY <3>1, <3>5 DEF DocTypes
      <4> HIDE DEF pl
      <4> QED  BY <3>1, <3>3, <3>4, <3>5, <4>1 DEF PlanOK, ReservedFor
    <3>6. CASE s # t
      BY <1>1, <1>2, <3>1, <3>6, PlanKept DEF PlanOK, DocTypes
    <3> QED  BY <3>5, <3>6
  <2> QED  BY <2>1, <2>2
<1>8. ASSUME NEW p \in Procs, NEW t \in Transfers, Finalize(p, t) PROVE PlanOK(s)'
  <2>1. plan' = plan /\ status' = [status EXCEPT ![t] = "processed"]
    BY <1>8 DEF Finalize
  <2> QED  BY <1>1, <1>2, <2>1, PlanKept DEF PlanOK, DocTypes
<1>9. ASSUME NEW p \in Procs, NEW t \in Transfers,
             \/ Claim(p, t) \/ Wallet(p, t) \/ LedgerDeposit(p, t) \/ LedgerBonus(p, t)
      PROVE  UNCHANGED <<status, plan>>
  BY <1>9 DEF Claim, Wallet, LedgerDeposit, LedgerBonus
<1> QED
  BY CreditSteps, <1>3, <1>4, <1>5, <1>6, <1>7, <1>8, <1>9 DEF CreditUntouched

\* A receipt stays what the plan of its transfer says.
LEMMA ReceiptStep ==
    ASSUME DocTypes, ProcTypes, PlanInv, ReceiptInv, ProcInv, [Next]_vars
    PROVE  ReceiptInv'
<1> USE DEF OnlyRecords, recordVars, walletVars, noticeVars, procVars, extVars
<1>1. Grown
  BY StepGrows
<1>2. ASSUME NEW u \in Users, NEW r \in receipts[u]
      PROVE  plan'[r.tx] = [user |-> u, bonus |-> r.bonus]
  <2>1. r.tx \in Transfers
    BY DEF DocTypes
  <2>2. plan[r.tx] = [user |-> u, bonus |-> r.bonus]
    BY DEF ReceiptInv
  <2>3. plan[r.tx] # NoPlan
    BY <2>2, DepositAssumption DEF NoPlan
  <2> QED  BY <1>1, <2>1, <2>2, <2>3 DEF Grown
<1>3. CASE receipts' = receipts
  BY <1>2, <1>3 DEF ReceiptInv
<1>4. ASSUME NEW p \in Procs, NEW t \in Transfers, Wallet(p, t) PROVE ReceiptInv'
  <2>1. CASE receipts' # receipts
    <3> DEFINE new == [tx |-> t, bonus |-> plan[t].bonus]
    <3>1. /\ receipts' = [receipts EXCEPT ![job[p].user] = @ \cup {new}]
          /\ plan' = plan /\ pc[p] = "credit" /\ job[p].tx = t
      BY <1>4, <2>1 DEF Wallet, At
    <3>2. plan[t].user = job[p].user /\ job[p].user \in Users
      BY <3>1 DEF ProcInv, Knows, ProcTypes, BusyInv
    <3>3. plan[new.tx] = [user |-> job[p].user, bonus |-> new.bonus]
      BY <3>2, PlanType
    <3>4. \A u \in Users : \A r \in receipts'[u] :
            r \in receipts[u] \/ (u = job[p].user /\ r = new)
      BY <3>1, <3>2 DEF DocTypes
    <3> HIDE DEF new
    <3> QED  BY <1>2, <3>1, <3>3, <3>4 DEF ReceiptInv
  <2> QED  BY <1>3, <2>1
<1>5. ASSUME NEW t \in Transfers, Reject(t) PROVE receipts' = receipts
  BY <1>5 DEF Reject
<1>6. ASSUME NEW p \in Procs, NEW t \in Transfers,
             \/ DeliverBank(p, t) \/ DeliverBinance(p, t) \/ Claim(p, t) \/ Plan(p, t)
             \/ LedgerDeposit(p, t) \/ LedgerBonus(p, t) \/ Finalize(p, t)
      PROVE  receipts' = receipts
  BY <1>6 DEF DeliverBank, DeliverBinance, Claim, Plan, LedgerDeposit, LedgerBonus, Finalize
<1> QED
  BY CreditSteps, <1>3, <1>4, <1>5, <1>6 DEF CreditUntouched

\* What was received under a plan stays received.
LEMMA ReceivedKept ==
    ASSUME DocTypes, Grown, NEW t \in Transfers, plan[t] # NoPlan, Received(t)
    PROVE  Received(t)'
  BY PlanType DEF Received, Grown

\* A ledger row stays, and so does the bonus row that a plan asks for.
LEMMA BonusKept ==
    ASSUME DocTypes, Grown, NEW t \in Transfers, plan[t] # NoPlan, BonusRow(t)
    PROVE  BonusRow(t)'
  BY DEF BonusRow, Grown

\* A transfer ends when it is received and its ledger rows are written.
LEMMA PostedStep ==
    ASSUME DocTypes, ProcTypes, PlanInv, PostedInv, ProcInv, [Next]_vars
    PROVE  PostedInv'
<1> USE DEF OnlyRecords, recordVars, walletVars, noticeVars, procVars, extVars
<1>1. Grown
  BY StepGrows
<1> SUFFICES ASSUME NEW s \in Transfers, status'[s] = "processed", plan'[s] # NoPlan
             PROVE  Received(s)' /\ <<s, "deposit">> \in ledger' /\ BonusRow(s)'
  BY DEF PostedInv
<1>2. ASSUME plan[s] # NoPlan, Received(s), <<s, "deposit">> \in ledger, BonusRow(s)
      PROVE  Received(s)' /\ <<s, "deposit">> \in ledger' /\ BonusRow(s)'
  BY <1>1, <1>2, ReceivedKept, BonusKept DEF Grown
<1>3. CASE status[s] = "processed" /\ plan[s] # NoPlan
  BY <1>2, <1>3 DEF PostedInv
<1>4. ASSUME NEW p \in Procs, NEW t \in Transfers, Finalize(p, t), status[s] # "processed"
      PROVE  Received(s)' /\ <<s, "deposit">> \in ledger' /\ BonusRow(s)'
  <2>1. s = t /\ pc[p] = "finalize" /\ job[p].tx = t /\ job[p].user \in Users
    BY <1>4 DEF Finalize, At, ProcTypes, BusyInv, DocTypes
  <2>2. Received(s) /\ <<s, "deposit">> \in ledger /\ BonusRow(s) /\ plan[s].user \in Users
    BY <2>1 DEF ProcInv, Knows
  <2> QED  BY <1>2, <2>2, PlanType
<1>5. ASSUME NEW p \in Procs, NEW t \in Transfers, DeliverBinance(p, t) \/ DeliverBank(p, t)
      PROVE  status[s] = "processed" /\ plan[s] # NoPlan
  <2>1. plan' = plan
    BY <1>5 DEF DeliverBinance, DeliverBank, Record, Upsert
  <2>2. status[s] \in {"crediting", "processed"}
    BY <2>1 DEF PlanInv
  <2>3. status'[s] = status[s] \/ (s = t /\ status[s] = "none")
    <3>1. CASE DeliverBinance(p, t)
      BY <3>1 DEF DeliverBinance, Record, DocTypes
    <3>2. CASE DeliverBank(p, t)
      BY <3>2 DEF DeliverBank, Record, Upsert, DocTypes
    <3> QED  BY <1>5, <3>1, <3>2
  <2> QED  BY <2>1, <2>2, <2>3 DEF DocTypes
<1>6. ASSUME NEW p \in Procs, NEW t \in Transfers, Plan(p, t)
      PROVE  status[s] = "processed" /\ plan[s] # NoPlan
  BY <1>6 DEF Plan, CanPlan, DocTypes
<1>7. ASSUME NEW t \in Transfers, Reject(t) PROVE status[s] = "processed" /\ plan[s] # NoPlan
  BY <1>7 DEF Reject, DocTypes
<1>8. ASSUME NEW p \in Procs, NEW t \in Transfers,
             Claim(p, t) \/ Wallet(p, t) \/ LedgerDeposit(p, t) \/ LedgerBonus(p, t)
      PROVE  UNCHANGED <<status, plan>>
  BY <1>8 DEF Claim, Wallet, LedgerDeposit, LedgerBonus
<1>9. ASSUME NEW p \in Procs, NEW t \in Transfers, Finalize(p, t)
      PROVE  plan' = plan
  BY <1>9 DEF Finalize
<1> QED
  BY CreditSteps, <1>3, <1>4, <1>5, <1>6, <1>7, <1>8, <1>9 DEF CreditUntouched

-----------------------------------------------------------------------------
(* The executions.                                                         *)

\* Only the acting execution has anything new to know.
LEMMA OthersKept ==
    ASSUME DocTypes, ProcTypes, Grown, NEW q \in Procs, Knows(q),
           pc'[q] = pc[q], job'[q] = job[q]
    PROVE  Knows(q)'
<1> DEFINE t == job[q].tx  u == job[q].user
<1>1. CASE pc[q] = "idle"
  BY <1>1 DEF Knows
<1>2. CASE pc[q] # "idle"
  <2>1. t \in Transfers /\ u \in Users
    BY <1>2 DEF ProcTypes, BusyInv
  <2>2. CASE pc[q] = "plan"
    BY <2>1, <2>2, ReservedKept DEF Knows, ReservedFor, DocTypes, Grown, AllWires
  <2>3. CASE pc[q] \in {"credit", "deposit", "bonus", "finalize"}
    <3>1. plan[t].user = u /\ plan[t] # NoPlan
      BY <2>1, <2>3, PlanType DEF Knows
    <3>2. plan'[t] = plan[t] /\ ledger \subseteq ledger'
      BY <2>1, <3>1 DEF Grown
    <3>3. Received(t) => Received(t)'
      BY <2>1, <3>1, ReceivedKept
    <3>4. BonusRow(t) => BonusRow(t)'
      BY <2>1, <3>1, BonusKept
    <3> QED  BY <2>3, <3>1, <3>2, <3>3, <3>4 DEF Knows, Received, BonusRow
  <2>4. CASE pc[q] \in {"notify", "send"}
    BY <2>1, <2>4 DEF Knows, Grown
  <2>5. CASE pc[q] \notin {"plan", "credit", "deposit", "bonus", "finalize", "notify", "send"}
    BY <2>5 DEF Knows
  <2> QED  BY <2>2, <2>3, <2>4, <2>5
<1> QED  BY <1>1, <1>2

\* All executions but p stand where they stood.
Alone(p) == \A q \in Procs \ {p} : pc'[q] = pc[q] /\ job'[q] = job[q]

\* Goto() moves one execution and keeps its job.
LEMMA GotoMoves ==
    ASSUME ProcTypes, NEW p \in Procs, NEW l, Goto(p, l)
    PROVE  Alone(p) /\ pc'[p] = l /\ job'[p] = job[p]
  BY DEF ProcTypes, Goto, Alone

\* Finish() moves one execution.
LEMMA FinishMoves ==
    ASSUME ProcTypes, NEW p \in Procs, Finish(p)
    PROVE  Alone(p) /\ pc'[p] = "idle"
  BY DEF ProcTypes, Finish, Alone

\* Begin() moves one execution.
LEMMA BeginMoves ==
    ASSUME ProcTypes, NEW p \in Procs, NEW t, NEW u, NEW l, Begin(p, t, u, l)
    PROVE  Alone(p) /\ pc'[p] = l
  BY DEF ProcTypes, Begin, Alone

\* A quote moves one execution and changes only the bonus of its job.
LEMMA QuoteMoves ==
    ASSUME ProcTypes, NEW p \in Procs, NEW b \in BOOLEAN, Quote(p, b)
    PROVE  /\ Alone(p) /\ pc'[p] = "plan"
           /\ job'[p].tx = job[p].tx /\ job'[p].user = job[p].user /\ job'[p].bonus = b
<1>1. job' = [job EXCEPT ![p] = [job[p] EXCEPT !.bonus = b]] /\ pc' = [pc EXCEPT ![p] = "plan"]
  BY DEF Quote
<1>2. job[p] \in Jobs
  BY DEF ProcTypes
<1> QED  BY <1>1, <1>2 DEF ProcTypes, Alone, Jobs

\* A receipt tells whether the plan has a bonus.
LEMMA ReceiptBonus ==
    ASSUME ReceiptInv, NEW u \in Users, NEW r \in receipts[u]
    PROVE  plan[r.tx].bonus = r.bonus
<1>1. plan[r.tx] = [user |-> u, bonus |-> r.bonus]
  BY DEF ReceiptInv
<1> QED  BY <1>1

\* If the acting execution knows what it should, all do.
LEMMA ProcFrom ==
    ASSUME DocTypes, ProcTypes, Grown, ProcInv, NEW p \in Procs, Alone(p), Knows(p)'
    PROVE  ProcInv'
  BY OthersKept DEF ProcInv, Alone

\* Labels at which an execution knows nothing in particular.
LEMMA KnowsNothing ==
    ASSUME NEW p \in Procs, pc'[p] \in {"idle", "load", "claim", "increment"}
    PROVE  Knows(p)'
  BY DEF Knows

\* What an execution has read, or done, is still true when it goes on.
LEMMA ProcStep ==
    ASSUME DocTypes, ProcTypes, PlanInv, ReceiptInv, ProcInv, [Next]_vars
    PROVE  ProcInv'
<1> USE DEF OnlyRecords, recordVars, walletVars, noticeVars, procVars, extVars, At
<1>1. Grown
  BY StepGrows
<1>2. ASSUME UNCHANGED procVars PROVE ProcInv'
  BY <1>1, <1>2, OthersKept DEF ProcInv
<1>3. ASSUME NEW p \in Procs, Finish(p) PROVE ProcInv'
  BY <1>1, <1>3, FinishMoves, KnowsNothing, ProcFrom
<1>4. ASSUME NEW p \in Procs, NEW t, NEW u, NEW l \in {"load", "increment"}, Begin(p, t, u, l)
      PROVE ProcInv'
  BY <1>1, <1>4, BeginMoves, KnowsNothing, ProcFrom
\* A plan in hand is the plan of the job's user, or the execution ends.
<1>5. ASSUME NEW p \in Procs, NEW t \in Transfers, job[p].tx = t, plan'[t].user = job[p].user,
             Goto(p, "credit")
      PROVE ProcInv'
  <2>1. Alone(p) /\ pc'[p] = "credit" /\ job'[p] = job[p]
    BY <1>5, GotoMoves
  <2>2. Knows(p)'
    BY <1>5, <2>1 DEF Knows
  <2> QED  BY <1>1, <2>1, <2>2, ProcFrom
<1>6. ASSUME NEW p \in Procs, NEW t \in Transfers, DeliverBank(p, t) \/ DeliverBinance(p, t)
      PROVE ProcInv'
  <2>1. \/ UNCHANGED procVars
        \/ \E u \in FindUser(t), l \in {"load", "increment"} : Begin(p, t, u, l)
    BY <1>6 DEF DeliverBank, DeliverBinance
  <2> QED  BY <2>1, <1>2, <1>4
<1>7. ASSUME NEW p \in Procs, NEW t \in Transfers, Approve(p, t) PROVE ProcInv'
  <2>1. \E u : Begin(p, t, u, "load")
    BY <1>7 DEF Approve
  <2> QED  BY <2>1, <1>4
<1>8. ASSUME NEW p \in Procs, NEW t \in Transfers, Load(p, t) PROVE ProcInv'
  <2>1. CASE Goto(p, "claim")
    BY <1>1, <2>1, GotoMoves, KnowsNothing, ProcFrom
  <2>2. CASE Goto(p, "credit") /\ plan'[t].user = job[p].user
    BY <1>5, <1>8, <2>2 DEF Load
  <2> QED  BY <1>3, <1>8, <2>1, <2>2 DEF Load, Proceed
<1>9. ASSUME NEW p \in Procs, NEW t \in Transfers, Claim(p, t) PROVE ProcInv'
  <2>1. CASE Quote(p, FALSE)
    <3>1. Alone(p) /\ pc'[p] = "plan" /\ job'[p].bonus = FALSE
      BY <2>1, QuoteMoves
    <3> QED  BY <1>1, <3>1, ProcFrom DEF Knows
  <2>2. CASE Quote(p, TRUE) /\ ~Quote(p, FALSE) /\ ~Finish(p)
    <3> DEFINE c == wire[t].intent
    <3>1. /\ c # NoIntent /\ Owner[c] = job[p].user /\ consumedBy' = [consumedBy EXCEPT ![c] = t]
          /\ wire' = wire /\ job[p].tx = t
      BY <1>9, <2>2 DEF Claim
    <3>2. c \in Intents
      BY <3>1 DEF DocTypes, AllWires
    <3>3. consumedBy'[c] = t
      BY <3>1, <3>2 DEF DocTypes
    <3>4. /\ Alone(p) /\ pc'[p] = "plan"
          /\ job'[p].tx = t /\ job'[p].user = job[p].user
      BY <2>2, <3>1, QuoteMoves
    <3>5. Knows(p)'
      BY <3>1, <3>3, <3>4 DEF Knows, ReservedFor
    <3> QED  BY <1>1, <3>4, <3>5, ProcFrom
  <2>3. Finish(p) \/ Quote(p, FALSE) \/ Quote(p, TRUE)
    BY <1>9 DEF Claim
  <2> QED  BY <1>3, <2>1, <2>2, <2>3
<1>10. ASSUME NEW p \in Procs, NEW t \in Transfers, Plan(p, t) PROVE ProcInv'
  <2>1. job[p].tx = t
    BY <1>10 DEF Plan
  <2>2. CASE Goto(p, "credit") /\ plan'[t].user = job[p].user
    BY <1>5, <2>1, <2>2
  <2>3. Finish(p) \/ (Goto(p, "credit") /\ plan'[t].user = job[p].user)
    BY <1>10 DEF Plan, Proceed, DocTypes
  <2> QED  BY <1>3, <2>2, <2>3
<1>11. ASSUME NEW p \in Procs, NEW t \in Transfers, Wallet(p, t) PROVE ProcInv'
  <2>1. /\ pc[p] = "credit" /\ job[p].tx = t /\ job[p].user \in Users
        /\ plan[t].user = job[p].user /\ plan' = plan
    BY <1>11 DEF Wallet, ProcTypes, BusyInv, ProcInv, Knows
  <2>2. CASE Goto(p, "deposit")
    <3>1. Received(t)'
      <4>1. CASE Credited(job[p].user, t)
        <5>1. PICK r \in receipts[job[p].user] : r.tx = t
          BY <4>1 DEF Credited
        <5>2. plan[t].bonus = r.bonus
          BY <2>1, <5>1, ReceiptBonus
        <5>3. r = [tx |-> t, bonus |-> plan[t].bonus]
          BY <2>1, <5>1, <5>2 DEF DocTypes
        <5>4. Received(t) /\ plan[t] # NoPlan
          BY <2>1, <5>1, <5>3, PlanType DEF Received
        <5> QED  BY <1>1, <5>4, ReceivedKept
      <4>2. CASE ~Credited(job[p].user, t)
        <5>1. CASE receipts' = [receipts EXCEPT ![job[p].user] =
                                  @ \cup {[tx |-> t, bonus |-> plan[t].bonus]}]
          BY <2>1, <5>1 DEF Received, DocTypes
        <5>2. CASE Finish(p)
          BY <2>2, <5>2, GotoMoves, FinishMoves
        <5> QED  BY <1>11, <4>2, <5>1, <5>2 DEF Wallet
      <4> QED  BY <4>1, <4>2
    <3>2. Alone(p) /\ pc'[p] = "deposit" /\ job'[p] = job[p]
      BY <2>2, GotoMoves
    <3>3. Knows(p)'
      BY <2>1, <3>1, <3>2 DEF Knows
    <3> QED  BY <1>1, <3>2, <3>3, ProcFrom
  <2>3. Finish(p) \/ Goto(p, "deposit")
    BY <1>11 DEF Wallet
  <2> QED  BY <1>3, <2>2, <2>3
<1>12. ASSUME NEW p \in Procs, NEW t \in Transfers, LedgerDeposit(p, t) PROVE ProcInv'
  <2>1. /\ pc[p] = "deposit" /\ job[p].tx = t /\ job[p].user \in Users /\ Received(t)
        /\ plan[t].user = job[p].user /\ plan' = plan /\ <<t, "deposit">> \in ledger'
    BY <1>12 DEF LedgerDeposit, ProcTypes, BusyInv, ProcInv, Knows
  <2>2. PICK r \in receipts[job[p].user] :
          r.tx = t /\ Goto(p, IF r.bonus THEN "bonus" ELSE "finalize")
    BY <1>12 DEF LedgerDeposit
  <2>3. plan[t].bonus = r.bonus
    BY <2>1, <2>2, ReceiptBonus
  <2>4. Alone(p) /\ job'[p] = job[p] /\ pc'[p] = IF plan[t].bonus THEN "bonus" ELSE "finalize"
    BY <2>2, <2>3, GotoMoves
  <2>5. Received(t)'
    BY <1>1, <2>1, ReceivedKept, PlanType
  <2>6. Knows(p)'
    BY <2>1, <2>4, <2>5 DEF Knows, BonusRow
  <2> QED  BY <1>1, <2>4, <2>6, ProcFrom
<1>13. ASSUME NEW p \in Procs, NEW t \in Transfers, LedgerBonus(p, t) PROVE ProcInv'
  <2>1. /\ pc[p] = "bonus" /\ job[p].tx = t /\ job[p].user \in Users /\ Received(t)
        /\ plan[t].user = job[p].user /\ plan' = plan
        /\ <<t, "deposit">> \in ledger' /\ <<t, "bonus">> \in ledger'
    BY <1>13 DEF LedgerBonus, ProcTypes, BusyInv, ProcInv, Knows
  <2>2. Alone(p) /\ job'[p] = job[p] /\ pc'[p] = "finalize"
    BY <1>13, GotoMoves DEF LedgerBonus
  <2>3. Received(t)'
    BY <1>1, <2>1, ReceivedKept, PlanType
  <2>4. Knows(p)'
    BY <2>1, <2>2, <2>3 DEF Knows, BonusRow
  <2> QED  BY <1>1, <2>2, <2>4, ProcFrom
<1>14. ASSUME NEW p \in Procs, NEW t \in Transfers, Finalize(p, t) PROVE ProcInv'
  <2>1. Alone(p) /\ job'[p] = job[p] /\ pc'[p] = "notify" /\ job[p].tx = t
    BY <1>14, GotoMoves DEF Finalize
  <2>2. status'[t] = "processed"
    BY <1>14 DEF Finalize, DocTypes
  <2>3. Knows(p)'
    BY <2>1, <2>2 DEF Knows
  <2> QED  BY <1>1, <2>1, <2>3, ProcFrom
<1>15. ASSUME NEW p \in Procs, NEW t \in Transfers, Notify(p, t) PROVE ProcInv'
  <2>1. CASE Goto(p, "send")
    <3>1. Alone(p) /\ job'[p] = job[p] /\ pc'[p] = "send"
      BY <2>1, GotoMoves
    <3>2. status'[job[p].tx] = "processed"
      BY <1>15 DEF Notify, ProcInv, Knows
    <3>3. Knows(p)'
      BY <3>1, <3>2 DEF Knows
    <3> QED  BY <1>1, <3>1, <3>3, ProcFrom
  <2> QED  BY <1>3, <1>15, <2>1 DEF Notify
<1>16. ASSUME NEW p \in Procs, NEW t \in Transfers, Send(p, t) \/ Increment(p, t) PROVE ProcInv'
  BY <1>3, <1>16 DEF Send, Increment
<1>17. ASSUME NEW p \in Procs, Abort(p) PROVE ProcInv'
  BY <1>3, <1>17 DEF Abort
<1>18. ASSUME NEW t \in Transfers, Reject(t) PROVE ProcInv'
  BY <1>2, <1>18 DEF Reject
<1>19. ASSUME NEW u \in Users, Spend(u) \/ Fraction(u) PROVE ProcInv'
  BY <1>2, <1>19 DEF Spend, Fraction
<1>20. CASE UNCHANGED vars
  BY <1>2, <1>20 DEF vars
<1> QED
  BY <1>6, <1>7, <1>8, <1>9, <1>10, <1>11, <1>12, <1>13, <1>14, <1>15, <1>16, <1>17, <1>18,
     <1>19, <1>20 DEF Next, Step

-----------------------------------------------------------------------------
(* The notification.                                                       *)

\* The marker lets one execution through, which sends one message.
LEMMA NoticeStep ==
    ASSUME DocTypes, ProcTypes, PlanInv, ProcInv, NoticeInv, [Next]_vars
    PROVE  NoticeInv'
<1> USE DEF OnlyRecords, recordVars, walletVars, noticeVars, procVars, extVars, At
<1>1. Grown
  BY StepGrows
\* A step that sends nobody to the message.
<1>2. ASSUME UNCHANGED noticeVars,
             \A q \in Procs : pc'[q] = "send" => pc[q] = "send" /\ job'[q] = job[q]
      PROVE NoticeInv'
  BY <1>1, <1>2 DEF NoticeInv, Grown
<1>3. ASSUME UNCHANGED noticeVars, NEW p \in Procs, Alone(p), pc'[p] # "send" PROVE NoticeInv'
  BY <1>2, <1>3 DEF Alone
<1>4. ASSUME UNCHANGED noticeVars, UNCHANGED procVars PROVE NoticeInv'
  BY <1>2, <1>4
<1>5. ASSUME UNCHANGED noticeVars, NEW p \in Procs, Finish(p) PROVE NoticeInv'
  BY <1>3, <1>5, FinishMoves
<1>6. ASSUME UNCHANGED noticeVars, NEW p \in Procs, NEW l, l # "send", Goto(p, l) PROVE NoticeInv'
  BY <1>3, <1>6, GotoMoves
<1>7. ASSUME UNCHANGED noticeVars, NEW p \in Procs, NEW t, NEW u, NEW l, l # "send",
             Begin(p, t, u, l)
      PROVE NoticeInv'
  BY <1>3, <1>7, BeginMoves
<1>8. ASSUME NEW p \in Procs, NEW t \in Transfers, DeliverBank(p, t) \/ DeliverBinance(p, t)
      PROVE NoticeInv'
  <2>1. /\ UNCHANGED noticeVars
        /\ UNCHANGED procVars \/ \E u : Begin(p, t, u, "load") \/ Begin(p, t, u, "increment")
    BY <1>8 DEF DeliverBank, DeliverBinance
  <2> QED  BY <2>1, <1>4, <1>7
<1>9. ASSUME NEW p \in Procs, NEW t \in Transfers, Approve(p, t) PROVE NoticeInv'
  <2>1. UNCHANGED noticeVars /\ \E u : Begin(p, t, u, "load")
    BY <1>9 DEF Approve
  <2> QED  BY <2>1, <1>7
<1>10. ASSUME NEW p \in Procs, NEW t \in Transfers, Load(p, t) \/ Plan(p, t) \/ Wallet(p, t)
       PROVE NoticeInv'
  <2>1. /\ UNCHANGED noticeVars
        /\ Finish(p) \/ Goto(p, "claim") \/ Goto(p, "credit") \/ Goto(p, "deposit")
    BY <1>10 DEF Load, Plan, Wallet, Proceed
  <2> QED  BY <2>1, <1>5, <1>6
<1>11. ASSUME NEW p \in Procs, NEW t \in Transfers, Claim(p, t) PROVE NoticeInv'
  <2>1. UNCHANGED noticeVars /\ (Finish(p) \/ \E b \in BOOLEAN : Quote(p, b))
    BY <1>11 DEF Claim
  <2>2. CASE \E b \in BOOLEAN : Quote(p, b)
    BY <1>3, <2>1, <2>2, QuoteMoves
  <2> QED  BY <1>5, <2>1, <2>2
<1>12. ASSUME NEW p \in Procs, NEW t \in Transfers,
              LedgerDeposit(p, t) \/ LedgerBonus(p, t) \/ Finalize(p, t)
       PROVE NoticeInv'
  <2>1. /\ UNCHANGED noticeVars
        /\ Goto(p, "bonus") \/ Goto(p, "finalize") \/ Goto(p, "notify")
    BY <1>12 DEF LedgerDeposit, LedgerBonus, Finalize
  <2> QED  BY <2>1, <1>6
<1>13. ASSUME NEW p \in Procs, NEW t \in Transfers, Notify(p, t) PROVE NoticeInv'
  <2>1. CASE UNCHANGED claimed
    BY <1>5, <1>13, <2>1 DEF Notify
  <2>2. CASE ~UNCHANGED claimed
    <3>1. /\ t \notin claimed /\ claimed' = claimed \cup {t} /\ notices' = notices
          /\ Goto(p, "send") /\ job[p].tx = t
      BY <1>13, <2>2 DEF Notify
    <3>2. Alone(p) /\ job'[p] = job[p] /\ pc'[p] = "send"
      BY <3>1, GotoMoves
    <3>3. notices[t] = 0
      BY <3>1 DEF NoticeInv
    <3>4. \A s \in Transfers : notices[s] = 1 => status'[s] = "processed" /\ s \in claimed'
      BY <1>1, <3>1 DEF NoticeInv, Grown
    <3>5. \A q \in Procs : pc'[q] = "send" => job'[q].tx \in claimed' /\ notices'[job'[q].tx] = 0
      BY <3>1, <3>2, <3>3 DEF NoticeInv, Alone
    <3>6. \A q \in Procs : pc'[q] = "send" /\ job'[q].tx = t => q = p
      BY <3>1, <3>2 DEF NoticeInv, Alone
    <3>7. \A q, r \in Procs : pc'[q] = "send" /\ pc'[r] = "send" /\ job'[q].tx = job'[r].tx => q = r
      BY <3>1, <3>2, <3>6 DEF NoticeInv, Alone
    <3> QED  BY <3>1, <3>4, <3>5, <3>7 DEF NoticeInv
  <2> QED  BY <2>1, <2>2
<1>14. ASSUME NEW p \in Procs, NEW t \in Transfers, Send(p, t) PROVE NoticeInv'
  <2>1. /\ pc[p] = "send" /\ job[p].tx = t /\ Finish(p) /\ claimed' = claimed
        /\ notices' = [notices EXCEPT ![t] = @ + 1] /\ status' = status
    BY <1>14 DEF Send
  <2>2. notices[t] = 0 /\ t \in claimed /\ status[t] = "processed"
    BY <2>1 DEF NoticeInv, ProcInv, Knows
  <2>3. Alone(p) /\ pc'[p] = "idle"
    BY <2>1, FinishMoves
  <2>4. \A s \in Transfers : notices'[s] = IF s = t THEN 1 ELSE notices[s]
    BY <2>1, <2>2 DEF DocTypes
  <2>5. \A q \in Procs : pc'[q] = "send" =>
           /\ pc[q] = "send" /\ job'[q] = job[q] /\ job[q].tx # t /\ job[q].tx \in Transfers
    BY <2>1, <2>3 DEF NoticeInv, Alone, ProcTypes, BusyInv
  <2> QED  BY <2>1, <2>2, <2>4, <2>5 DEF NoticeInv
<1>15. ASSUME NEW p \in Procs, NEW t \in Transfers, Increment(p, t) PROVE NoticeInv'
  BY <1>5, <1>15 DEF Increment
<1>16. ASSUME NEW p \in Procs, Abort(p) PROVE NoticeInv'
  BY <1>5, <1>16 DEF Abort
<1>17. ASSUME NEW t \in Transfers, Reject(t) PROVE NoticeInv'
  BY <1>4, <1>17 DEF Reject
<1>18. ASSUME NEW u \in Users, Spend(u) \/ Fraction(u) PROVE NoticeInv'
  BY <1>4, <1>18 DEF Spend, Fraction
<1>19. CASE UNCHANGED vars
  BY <1>4, <1>19 DEF vars
<1> QED
  BY <1>8, <1>9, <1>10, <1>11, <1>12, <1>13, <1>14, <1>15, <1>16, <1>17, <1>18, <1>19
     DEF Next, Step

-----------------------------------------------------------------------------
(* The wallet.                                                             *)

\* What one more receipt is worth.
LEMMA CreditsOfOneMore ==
    ASSUME DocTypes, NEW u \in Users, IsFiniteSet(receipts[u]), NEW r \in [tx: Transfers, bonus: BOOLEAN],
           r \notin receipts[u], receipts'[u] = receipts[u] \cup {r}
    PROVE  /\ IsFiniteSet(receipts'[u])
           /\ Credits(u)' = Credits(u) + Total(r.bonus)
<1> DEFINE S == receipts[u]
           B == {s \in S : s.bonus}
           C == {s \in S \cup {r} : s.bonus}
<1>1. IsFiniteSet(B) /\ Cardinality(B) \in Nat /\ Cardinality(S) \in Nat
  BY FS_Subset, FS_CardinalityType
<1>2. IsFiniteSet(S \cup {r}) /\ Cardinality(S \cup {r}) = Cardinality(S) + 1
  BY FS_AddElement
<1>3. CASE r.bonus
  <2>1. C = B \cup {r} /\ r \notin B
    BY <1>3
  <2>2. Cardinality(C) = Cardinality(B) + 1
    BY <1>1, <2>1, FS_AddElement
  <2>3. Credits(u)' = Cardinality(S) + 1 + Cardinality(C) /\ Credits(u) = Cardinality(S) + Cardinality(B)
    BY <1>2 DEF Credits
  <2> QED  BY <1>1, <1>2, <1>3, <2>2, <2>3 DEF Total
<1>4. CASE ~r.bonus
  <2>1. C = B
    BY <1>4
  <2>2. Cardinality(C) = Cardinality(B)
    BY <2>1
  <2>3. Credits(u)' = Cardinality(S) + 1 + Cardinality(C) /\ Credits(u) = Cardinality(S) + Cardinality(B)
    BY <1>2 DEF Credits
  <2> QED  BY <1>1, <1>2, <1>4, <2>2, <2>3 DEF Total
<1> QED  BY <1>3, <1>4

\* The worth of finitely many receipts is a number.
LEMMA CreditsType ==
    ASSUME NEW u \in Users, IsFiniteSet(receipts[u])
    PROVE  Credits(u) \in Nat
  BY FS_Subset, FS_CardinalityType DEF Credits

\* Balance, spending and receipts move together.
LEMMA WalletStep ==
    ASSUME DocTypes, ProcTypes, WalletInv, [Next]_vars
    PROVE  WalletInv'
<1> USE DEF OnlyRecords, recordVars, walletVars, noticeVars, procVars, extVars
<1>1. ASSUME NEW u \in Users, UNCHANGED <<money[u], receipts[u], wired[u], spent[u]>>
      PROVE  IsFiniteSet(receipts'[u]) /\ money'[u] + spent'[u] = Credits(u)' + wired'[u]
  BY <1>1 DEF WalletInv, Credits
<1>2. CASE UNCHANGED <<walletVars, wired, spent>>
  BY <1>1, <1>2 DEF WalletInv
<1>3. ASSUME NEW p \in Procs, NEW t \in Transfers, Wallet(p, t) PROVE WalletInv'
  <2>1. CASE UNCHANGED walletVars
    BY <1>2, <1>3, <2>1 DEF Wallet
  <2>2. CASE ~UNCHANGED walletVars
    <3> DEFINE r == [tx |-> t, bonus |-> plan[t].bonus]
    <3>1. /\ money' = [money EXCEPT ![job[p].user] = @ + Total(r.bonus)]
          /\ receipts' = [receipts EXCEPT ![job[p].user] = @ \cup {r}]
          /\ ~Credited(job[p].user, t) /\ UNCHANGED <<wired, spent>>
      BY <1>3, <2>2 DEF Wallet
    <3>2. job[p].user \in Users /\ r \in [tx: Transfers, bonus: BOOLEAN]
      BY <1>3, PlanType DEF Wallet, At, ProcTypes, BusyInv
    <3>3. r \notin receipts[job[p].user]
      BY <3>1 DEF Credited
    <3> HIDE DEF r
    <3>4. ASSUME NEW u \in Users
          PROVE  IsFiniteSet(receipts'[u]) /\ money'[u] + spent'[u] = Credits(u)' + wired'[u]
      <4>1. CASE u = job[p].user
        <5>1. receipts'[u] = receipts[u] \cup {r} /\ money'[u] = money[u] + Total(r.bonus)
          BY <3>1, <3>2, <4>1 DEF DocTypes
        <5>2. IsFiniteSet(receipts'[u]) /\ Credits(u)' = Credits(u) + Total(r.bonus)
          BY <3>2, <3>3, <4>1, <5>1, CreditsOfOneMore DEF WalletInv
        <5>3. /\ Credits(u) \in Nat /\ money[u] \in Nat /\ spent[u] \in Nat /\ wired[u] \in Nat
              /\ Total(r.bonus) \in Nat /\ spent'[u] = spent[u] /\ wired'[u] = wired[u]
          BY <3>1, <3>2, CreditsType DEF WalletInv, DocTypes, Total
        <5> QED  BY <5>1, <5>2, <5>3 DEF WalletInv
      <4>2. CASE u # job[p].user
        BY <1>1, <3>1, <3>2, <4>2 DEF DocTypes
      <4> QED  BY <4>1, <4>2
    <3> QED  BY <3>4 DEF WalletInv
  <2> QED  BY <2>1, <2>2
\* Binance credits and spending move the balance and their own count.
<1>4. ASSUME receipts' = receipts,
             \A u \in Users : money'[u] + spent'[u] - wired'[u] = money[u] + spent[u] - wired[u]
      PROVE  WalletInv'
  <2>1. ASSUME NEW u \in Users
        PROVE  IsFiniteSet(receipts'[u]) /\ money'[u] + spent'[u] = Credits(u)' + wired'[u]
    <3>1. Credits(u)' = Credits(u) /\ Credits(u) \in Nat
      BY <1>4, CreditsType DEF Credits, WalletInv
    <3>2. /\ money[u] \in Nat /\ spent[u] \in Nat /\ wired[u] \in Nat
          /\ money'[u] \in Nat /\ spent'[u] \in Nat /\ wired'[u] \in Nat
      BY TypeStep DEF DocTypes
    <3> QED  BY <1>4, <3>1, <3>2 DEF WalletInv
  <2> QED  BY <2>1 DEF WalletInv
<1>5. ASSUME NEW p \in Procs, NEW t \in Transfers, Increment(p, t) PROVE WalletInv'
  <2>1. job[p].user \in Users
    BY <1>5 DEF Increment, At, ProcTypes, BusyInv
  <2>2. /\ receipts' = receipts /\ spent' = spent
        /\ money' = [money EXCEPT ![job[p].user] = @ + 1]
        /\ wired' = [wired EXCEPT ![job[p].user] = @ + 1]
    BY <1>5 DEF Increment
  <2> QED  BY <1>4, <2>1, <2>2 DEF DocTypes
<1>6. ASSUME NEW u \in Users, Spend(u) PROVE WalletInv'
  <2>1. /\ receipts' = receipts /\ wired' = wired
        /\ money' = [money EXCEPT ![u] = @ - 1] /\ spent' = [spent EXCEPT ![u] = @ + 1]
    BY <1>6 DEF Spend
  <2> QED  BY <1>4, <2>1 DEF DocTypes
<1>7. ASSUME NEW p \in Procs, NEW t \in Transfers,
             \/ DeliverBank(p, t) \/ DeliverBinance(p, t) \/ Approve(p, t)
             \/ Load(p, t) \/ Claim(p, t) \/ Plan(p, t) \/ LedgerDeposit(p, t)
             \/ LedgerBonus(p, t) \/ Finalize(p, t) \/ Notify(p, t) \/ Send(p, t)
      PROVE  UNCHANGED <<walletVars, wired, spent>>
  BY <1>7 DEF DeliverBank, DeliverBinance, Approve, Load, Claim, Plan, LedgerDeposit,
              LedgerBonus, Finalize, Notify, Send
<1>8. ASSUME NEW p \in Procs, Abort(p) PROVE UNCHANGED <<walletVars, wired, spent>>
  BY <1>8 DEF Abort
<1>9. ASSUME NEW t \in Transfers, Reject(t) PROVE UNCHANGED <<walletVars, wired, spent>>
  BY <1>9 DEF Reject
<1>10. CASE UNCHANGED vars
  BY <1>2, <1>10 DEF vars
<1>11. ASSUME NEW u \in Users, Fraction(u) PROVE WalletInv'
  BY <1>4, <1>11 DEF Fraction
<1> QED
  BY <1>2, <1>3, <1>5, <1>6, <1>7, <1>8, <1>9, <1>10, <1>11 DEF Next, Step

-----------------------------------------------------------------------------
(* The invariant and what follows from it.                                 *)

\* The initial states satisfy the invariant.
LEMMA InvInit == Init => IInv
<1> SUFFICES ASSUME Init PROVE IInv
  OBVIOUS
<1>1. TypeOK /\ BusyInv
  BY TypeInit
<1>2. PlanInv /\ ReceiptInv /\ PostedInv
  BY DEF Init, PlanInv, ReceiptInv, PostedInv
<1>3. ProcInv /\ NoticeInv
  BY DEF Init, ProcInv, Knows, NoticeInv
<1>4. WalletInv
  <2>1. \A u \in Users : receipts[u] = {} /\ money[u] = 0 /\ spent[u] = 0 /\ wired[u] = 0
    BY DEF Init
  <2>2. IsFiniteSet({}) /\ Cardinality({}) = 0
    BY FS_EmptySet
  <2>3. ASSUME NEW u \in Users PROVE Credits(u) = 0
    <3>1. {r \in receipts[u] : r.bonus} = {}
      BY <2>1
    <3> QED  BY <2>1, <2>2, <3>1 DEF Credits
  <2> QED  BY <2>1, <2>2, <2>3 DEF WalletInv
<1> QED  BY <1>1, <1>2, <1>3, <1>4 DEF IInv

\* Every step keeps the invariant.
LEMMA InvStep == IInv /\ [Next]_vars => IInv'
<1> SUFFICES ASSUME IInv, [Next]_vars PROVE IInv'
  OBVIOUS
<1>1. DocTypes /\ ProcTypes
  BY TypeSplit DEF IInv
<1>2. TypeOK' /\ BusyInv'
  <2>1. DocTypes' /\ ProcTypes'
    BY <1>1, TypeStep
  <2> QED  BY <2>1, DepositAssumption DEF TypeOK, DocTypes, ProcTypes
<1>3. PlanInv' /\ ReceiptInv' /\ PostedInv'
  BY <1>1, PlanStep, ReceiptStep, PostedStep DEF IInv
<1>4. ProcInv' /\ NoticeInv' /\ WalletInv'
  BY <1>1, ProcStep, NoticeStep, WalletStep DEF IInv
<1> QED  BY <1>2, <1>3, <1>4 DEF IInv

\* The strengthened invariant the other theorems are read off from.
THEOREM Invariant == Spec => []IInv
  BY InvInit, InvStep, PTL DEF Spec

\* Every reachable state is well typed.
THEOREM TypeCorrect == Spec => []TypeOK
<1>1. IInv => TypeOK
  BY DEF IInv
<1> QED  BY Invariant, <1>1, PTL

\* A balance is what the receipts say was deposited, with Binance credits, less
\* what was spent: credit() never raises it twice or without a receipt.
THEOREM WalletsMatch == Spec => []WalletMatches
<1>1. IInv => WalletMatches
  BY DEF IInv, WalletInv, WalletMatches
<1> QED  BY Invariant, <1>1, PTL

\* A promotion intent gives its bonus to one transfer at most, to its owner.
THEOREM BonusesPaidOnce == Spec => []BonusPaidOnce
<1>1. IInv => BonusPaidOnce
  <2> SUFFICES ASSUME IInv, NEW u \in Users, NEW r \in receipts[u], r.bonus
               PROVE  ReservedFor(r.tx, u)
    BY DEF BonusPaidOnce, ReservedFor
  <2>1. DocTypes /\ plan[r.tx] = [user |-> u, bonus |-> r.bonus]
    BY TypeSplit DEF IInv, ReceiptInv
  <2>2. r.tx \in Transfers
    BY <2>1 DEF DocTypes
  <2>3. plan[r.tx].user = u /\ plan[r.tx].bonus
    BY <2>1
  <2> QED  BY <2>1, <2>2, <2>3, PlanType DEF IInv, PlanInv
<1> QED  BY Invariant, <1>1, PTL

\* A receipt belongs to the user of the plan.
LEMMA ReceiptOfPlan ==
    ASSUME IInv, NEW u \in Users, NEW t \in Transfers, Credited(u, t)
    PROVE  plan[t].user = u /\ plan[t] # NoPlan
<1>1. PICK r \in receipts[u] : r.tx = t
  BY DEF Credited
<1>2. plan[t] = [user |-> u, bonus |-> r.bonus]
  BY <1>1 DEF IInv, ReceiptInv
<1> QED  BY <1>2, DepositAssumption DEF NoPlan

\* A processed transfer has its receipt and its ledger rows, only the user of its
\* plan was credited, and the customer is told once and not earlier.
THEOREM ProcessedArePosted == Spec => []ProcessedIsPosted
<1>1. IInv => ProcessedIsPosted
  <2> SUFFICES ASSUME IInv PROVE ProcessedIsPosted
    OBVIOUS
  <2>1. \A t \in Transfers, u \in Users : Credited(u, t) => plan[t].user = u
    BY ReceiptOfPlan
  <2>2. \A t \in Transfers : notices[t] <= 1 /\ (notices[t] = 1 => status[t] = "processed")
    BY DEF IInv, NoticeInv
  <2> QED  BY <2>1, <2>2 DEF IInv, PostedInv, Received, BonusRow, ProcessedIsPosted
<1> QED  BY Invariant, <1>1, PTL

\* A rejected transfer has no plan and no receipt, and so it never gets one.
THEOREM RejectionsAreFree == Spec => []RejectedIsFree
<1>1. IInv => RejectedIsFree
  BY ReceiptOfPlan DEF IInv, PlanInv, RejectedIsFree
<1> QED  BY Invariant, <1>1, PTL

\* What the status of a transfer says has happened, has happened.
THEOREM StatusesAreTrue == Spec => []StatusIsTrue
<1>1. ProcessedIsPosted /\ RejectedIsFree => StatusIsTrue
  BY DEF StatusIsTrue
<1> QED  BY ProcessedArePosted, RejectionsAreFree, <1>1, PTL

-----------------------------------------------------------------------------
(* Renewals.  Executions.                                                  *)

Askers == {"none", "user", "admin", "bulk", "auto"}

\* What an execution holds.
Held ==
    [who: Askers, runs: SUBSET Selections, sel: Selections \cup {None},
     day: (0..MaxDay) \cup {None}, picked: [Orders -> SUBSET Slots],
     docs: [Orders -> Document], todo: SUBSET Orders, at: Orders \cup {None},
     price: Nat, end: Nat \cup {None}, short: BOOLEAN, results: SUBSET Results]

\* Where the executions of each kind may be.
Ways(who) ==
    CASE who = "none" -> {"idle"}
      [] who = "user" -> {"find", "debit", "provider", "refund", "save"}
      [] who = "admin" -> {"find", "provider", "save"}
      [] who = "bulk" -> {"select", "load", "wallet", "debit", "provider", "refund", "save",
                          "prune", "count"}
      [] who = "auto" -> {"list", "run", "claim", "select", "load", "wallet", "debit",
                          "provider", "refund", "save", "record"}

\* A run of a selection that holds its day, and one under way.
Past == {"select", "load", "wallet", "debit", "provider", "refund", "save", "record"}
Running == Past \cup {"claim"}

\* The labels with an order at hand.
Hand == {"find", "provider", "refund", "save", "prune", "count"}

\* Order o is one that execution j, at label l, renews or has still to renew.
Holds(l, j, o) == o \in j.todo \/ (l \in Hand /\ j.at = o)

\* An execution at label l that holds j, on the day d.
HeldOk(l, j, d) ==
    /\ l \in Ways(j.who)
    /\ l = "idle" => j = Idle
    /\ l \in Hand => j.at \in Orders /\ j.at \notin j.todo
    /\ l \in {"find", "claim", "select", "load"} => j.todo = {}
    /\ l \in {"list", "run"} => Engaged(j) = {} /\ j.todo = {}
    /\ l = "find" => Engaged(j) = {j.at}
    /\ l # "find" => \A o \in Orders : Holds(l, j, o) => WithId(j, o) # {}
    /\ j.who = "admin" => j.price = 0 /\ j.todo = {}
    /\ j.who = "auto" /\ l \in Running => j.sel \in Selections /\ j.day \in 0..d
    /\ \A o \in Orders : j.picked[o] \subseteq Owned[o]

Counters ==
    /\ troubles \in Nat /\ requests \in Nat /\ drained \in Nat
    /\ dayLocks \subseteq Selections \X (0..now)
    /\ acked \in [Orders -> Nat]
    /\ overlap \in [Orders -> BOOLEAN] /\ unsaved \in [Orders -> BOOLEAN]
    /\ behind \in [Orders -> SUBSET Slots]
    /\ \A o \in Orders : live[o] \subseteq Owned[o]

JobInv ==
    /\ RenewalTypes /\ Counters
    /\ task \in [Executions -> Held]
    /\ \A p \in Executions : HeldOk(stage[p], task[p], now)

\* Execution p goes to label l with j in hand, and the others stay where they are.
Takes(p, l, j) ==
    /\ stage' \in [Executions -> Stages] /\ task' \in [Executions -> Held]
    /\ stage'[p] = l /\ task'[p] = j
    /\ \A q \in Executions \ {p} : stage'[q] = stage[q] /\ task'[q] = task[q]

\* The constants, as the proofs need them.
LEMMA ConstantTypes ==
    /\ Kind \in [Orders -> Kinds] /\ Owned \in [Orders -> SUBSET Slots] /\ Ids \in [Orders -> SUBSET Slots]
    /\ \A o \in Orders : Owned[o] # {} /\ IsFiniteSet(Owned[o])
    /\ Chosen \in [Selections -> [Orders -> SUBSET Slots]]
    /\ Threshold \in Nat /\ Threshold >= 1 /\ Term \in Nat /\ Term >= 1 /\ FirstEnd \in Nat /\ FirstEnd >= 1
    /\ Instances \in Nat /\ Instances >= 1 /\ StartMoney \in Nat /\ MaxDay \in Nat
    /\ IsFiniteSet(Orders) /\ IsFiniteSet(Slots) /\ IsFiniteSet(Executions)
<1>1. /\ Kind \in [Orders -> Kinds] /\ Ids \in [Orders -> SUBSET Slots]
      /\ Chosen \in [Selections -> [Orders -> SUBSET Slots]]
      /\ IsFiniteSet(Orders) /\ IsFiniteSet(Slots) /\ IsFiniteSet(Executions)
  BY RenewalAssumption
<1>2. /\ Threshold \in Nat /\ Threshold >= 1 /\ Term \in Nat /\ Term >= 1 /\ FirstEnd \in Nat /\ FirstEnd >= 1
      /\ Instances \in Nat /\ Instances >= 1 /\ StartMoney \in Nat /\ MaxDay \in Nat
  <2>1. Threshold \in Nat \ {0} /\ Term \in Nat \ {0} /\ FirstEnd \in Nat \ {0} /\ Instances \in Nat \ {0}
        /\ StartMoney \in Nat /\ MaxDay \in Nat
    <3>1. {Threshold, Term, FirstEnd, Instances} \subseteq Nat \ {0}
      BY RenewalAssumption
    <3>2. {StartMoney, MaxDay, MaxRequests, MaxTroubles} \subseteq Nat
      BY RenewalAssumption
    <3> QED  BY <3>1, <3>2
  <2> QED  BY <2>1
<1>3. Owned \in [Orders -> (SUBSET Slots) \ {{}}]
  BY RenewalAssumption
<1>4. \A o \in Orders : Owned[o] \in SUBSET Slots /\ Owned[o] # {}
  BY <1>3
<1>5. \A o \in Orders : IsFiniteSet(Owned[o])
  BY <1>1, <1>4, FS_Subset
<1>6. Owned \in [Orders -> SUBSET Slots]
  BY <1>3
<1> QED  BY <1>1, <1>2, <1>4, <1>5, <1>6

\* Proceed takes one execution to a label, with a well-typed job.
LEMMA GotoTakes ==
    ASSUME JobInv, NEW p \in Executions, NEW l \in Stages, NEW j \in Held, GoTo(p, l, j)
    PROVE  Takes(p, l, j)
<1>1. stage \in [Executions -> Stages] /\ task \in [Executions -> Held]
  BY DEF JobInv, RenewalTypes
<1> QED  BY <1>1 DEF GoTo, Takes

\* The job of an execution that does nothing is a job.
LEMMA IdleIsHeld == Idle \in Held /\ \A d \in Nat : HeldOk("idle", Idle, d)
<1>1. NoProxies \in [Orders -> SUBSET Slots] /\ NoDocuments \in [Orders -> Document]
  BY DEF NoProxies, NoDocuments, Document, OrderStatuses
<1>2. Idle \in Held
  BY <1>1 DEF Idle, Held, Askers
<1>3. \A d \in Nat : HeldOk("idle", Idle, d)
  BY DEF HeldOk, Idle, Ways, Hand, Holds, Running, Past, NoProxies
<1> QED  BY <1>2, <1>3

\* An execution that leaves has nothing in hand.
LEMMA FinishTakes ==
    ASSUME JobInv, NEW p \in Executions, Leave(p)
    PROVE  Takes(p, "idle", Idle)
  BY IdleIsHeld, GotoTakes DEF Leave, Stages

\* What an execution keeps from one order to the next.
Keeps(j, k) ==
    /\ k.who = j.who /\ k.runs = j.runs /\ k.sel = j.sel /\ k.day = j.day
    /\ k.picked = j.picked /\ k.docs = j.docs

Renewing == {"debit", "provider", "refund", "save", "prune", "count"}

\* Execution p is done with an order.
Settles(p, result, todo) ==
    \/ /\ todo = {} /\ task[p].who # "auto" /\ Takes(p, "idle", Idle)
    \/ \E l \in {"record", "debit"}, j \in Held :
          /\ l = "record" <=> todo = {}
          /\ l = "record" => task[p].who = "auto"
          /\ Takes(p, l, j) /\ HeldOk(l, j, now) /\ Keeps(task[p], j)
          /\ j.todo = todo /\ j.results = task[p].results \cup {result} /\ j.price = 0

\* Settle goes on to the orders left, records the results of an automatic run, or ends.
LEMMA SettleSettles ==
    ASSUME JobInv, NEW p \in Executions, stage[p] \in Renewing, NEW result \in Results,
           NEW todo \in SUBSET task[p].todo, Settle(p, result, todo)
    PROVE  Settles(p, result, todo)
<1> DEFINE k == task[p]
           j == [k EXCEPT !.todo = todo, !.at = None, !.price = 0, !.end = None,
                          !.short = FALSE, !.results = @ \cup {result}]
           l == IF todo = {} THEN "record" ELSE "debit"
<1>0. k \in Held /\ HeldOk(stage[p], k, now)
  BY DEF JobInv
<1>1. CASE todo = {} /\ task[p].who # "auto"
  BY <1>1, FinishTakes DEF Settle, Settles
<1>2. CASE ~(todo = {} /\ task[p].who # "auto")
  <2>1. /\ j \in Held /\ Keeps(k, j) /\ j.todo = todo /\ j.results = k.results \cup {result}
        /\ j.price = 0 /\ j.at = None
    <3>1. j \in Held
      BY <1>0 DEF Held
    <3>2. Keeps(k, j)
      BY <1>0 DEF Held, Keeps
    <3>3. j.todo = todo /\ j.results = k.results \cup {result} /\ j.price = 0 /\ j.at = None
      BY <1>0 DEF Held
    <3> QED  BY <3>1, <3>2, <3>3
  <2>2. l \in Stages /\ GoTo(p, l, j)
    BY <1>2 DEF Settle, Stages
  <2>3. Takes(p, l, j)
    BY <2>1, <2>2, GotoTakes
  <2>4. k.who \in {"user", "bulk", "auto"} \/ (k.who = "admin" /\ k.todo = {})
    BY <1>0 DEF HeldOk, Ways, Renewing, Held, Askers
  <2>5. l \in Ways(k.who)
    BY <1>2, <2>4 DEF Ways
  <2>6. HeldOk(l, j, now)
    <3>1. \A o \in Orders : WithId(j, o) = WithId(k, o)
      BY <2>1 DEF Keeps, WithId
    <3>2. \A o \in Orders : Holds(l, j, o) => Holds(stage[p], k, o)
      BY <2>1 DEF Holds, Hand
    <3>3. stage[p] # "find" /\ (stage[p] \in Running \/ k.who # "auto")
      BY <1>0 DEF Renewing, Running, Past, HeldOk, Ways
    <3>0. todo \subseteq k.todo
      OBVIOUS
    <3> HIDE DEF j, k, l
    <3>4. l \in {"record", "debit"}
      BY DEF l
    <3>5. l # "idle" /\ l \notin Hand /\ l \notin {"find", "claim", "select", "load"}
          /\ l \notin {"list", "run"}
      BY <3>4 DEF Hand
    <3>6. \A o \in Orders : Holds(l, j, o) => WithId(j, o) # {}
      BY <1>0, <3>1, <3>2, <3>3 DEF HeldOk
    <3>7. j.who = "admin" => j.price = 0 /\ j.todo = {}
      BY <1>0, <2>1, <3>0 DEF HeldOk, Keeps
    <3>8. j.who = "auto" /\ l \in Running => j.sel \in Selections /\ j.day \in 0..now
      BY <1>0, <2>1, <3>3 DEF HeldOk, Keeps
    <3>9. \A o \in Orders : j.picked[o] \subseteq Owned[o]
      BY <1>0, <2>1 DEF HeldOk, Keeps
    <3>10. l \in Ways(j.who)
      BY <2>1, <2>5 DEF Keeps
    <3> QED  BY <3>5, <3>6, <3>7, <3>8, <3>9, <3>10 DEF HeldOk
  <2>7. (l = "record" <=> todo = {}) /\ l \in {"record", "debit"} /\ (l = "record" => k.who = "auto")
    BY <1>2
  <2> HIDE DEF j, l
  <2> QED  BY <2>1, <2>3, <2>6, <2>7 DEF Settles
<1> QED  BY <1>1, <1>2

-----------------------------------------------------------------------------
(* What each step does to the execution.                                   *)

\* The types a step relies on.
LEMMA HeldTypes ==
    ASSUME JobInv, NEW p \in Executions
    PROVE  /\ task[p] \in Held /\ HeldOk(stage[p], task[p], now) /\ now \in Nat
           /\ task[p].who \in Askers /\ task[p].picked \in [Orders -> SUBSET Slots]
           /\ task[p].docs \in [Orders -> Document] /\ task[p].todo \subseteq Orders
           /\ task[p].price \in Nat /\ task[p].end \in Nat \cup {None}
           /\ task[p].results \subseteq Results /\ task[p].runs \subseteq Selections
           /\ order \in [Orders -> Document] /\ live \in [Orders -> SUBSET Slots]
           /\ remote \in [Orders -> [Slots -> Nat]]
<1>1. task[p] \in Held /\ HeldOk(stage[p], task[p], now) /\ now \in 0..MaxDay
  BY DEF JobInv, RenewalTypes
<1>2. /\ order \in [Orders -> Document] /\ live \in [Orders -> SUBSET Slots]
      /\ remote \in [Orders -> [Slots -> Nat]]
  BY DEF JobInv, RenewalTypes
<1>3. now \in Nat
  BY <1>1, RenewalAssumption
<1> QED  BY <1>1, <1>2, <1>3 DEF Held

Opened(o, who) ==
    [Idle EXCEPT !.who = who, !.at = o, !.picked = [NoProxies EXCEPT ![o] = Owned[o]],
                 !.docs = [NoDocuments EXCEPT ![o] = order[o]]]

\* A single renewal opens with its order, and no other.
LEMMA RenewStartTakes ==
    ASSUME JobInv, NEW p \in Executions, NEW o \in Orders, NEW who \in {"user", "admin"},
           RenewStart(p, o, who)
    PROVE  /\ Takes(p, "find", Opened(o, who)) /\ HeldOk("find", Opened(o, who), now)
           /\ Opened(o, who).picked[o] = Owned[o]
           /\ Opened(o, who).docs[o] = order[o]
           /\ \A q \in Orders \ {o} : /\ Opened(o, who).picked[q] = {}
                                      /\ Opened(o, who).docs[q] = NoDocuments[q]
<1>1. GoTo(p, "find", Opened(o, who))
  BY DEF RenewStart, Opened
<1>2. /\ [NoProxies EXCEPT ![o] = Owned[o]] \in [Orders -> SUBSET Slots]
      /\ [NoDocuments EXCEPT ![o] = order[o]] \in [Orders -> Document]
  BY HeldTypes, ConstantTypes DEF NoProxies, NoDocuments, Document, OrderStatuses
<1>3. Opened(o, who) \in Held
  BY <1>2, IdleIsHeld DEF Opened, Held, Askers
<1>4. /\ Opened(o, who).picked = [NoProxies EXCEPT ![o] = Owned[o]]
      /\ Opened(o, who).docs = [NoDocuments EXCEPT ![o] = order[o]]
      /\ Opened(o, who).who = who /\ Opened(o, who).at = o /\ Opened(o, who).todo = {}
      /\ Opened(o, who).price = 0
  BY DEF Opened, Idle
<1>5. /\ Opened(o, who).picked[o] = Owned[o] /\ Opened(o, who).docs[o] = order[o]
      /\ \A q \in Orders \ {o} : /\ Opened(o, who).picked[q] = {}
                                 /\ Opened(o, who).docs[q] = NoDocuments[q]
  BY <1>4 DEF NoProxies, NoDocuments
<1>6. HeldOk("find", Opened(o, who), now)
  <2>1. Engaged(Opened(o, who)) = {o}
    BY <1>5, ConstantTypes DEF Engaged
  <2>2. \A q \in Orders : Opened(o, who).picked[q] \subseteq Owned[q]
    BY <1>5
  <2> QED  BY <1>4, <2>1, <2>2 DEF HeldOk, Ways, Hand, Holds, Running, Past
<1>7. Takes(p, "find", Opened(o, who))
  BY <1>1, <1>3, GotoTakes DEF Stages
<1> QED  BY <1>5, <1>6, <1>7

\* The proxies are found: those of one order, which is still to do, or at hand.
LEMMA RenewFindTakes ==
    ASSUME JobInv, NEW p \in Executions, RenewFind(p)
    PROVE  \/ Takes(p, "idle", Idle)
           \/ \E l \in {"debit", "provider"}, j \in Held :
                /\ Takes(p, l, j) /\ HeldOk(l, j, now)
                /\ j.who = task[p].who /\ j.who # "auto" /\ j.docs = task[p].docs
                /\ j.picked = [task[p].picked EXCEPT ![task[p].at] = live[task[p].at] \cap Ids[task[p].at]]
                /\ l = "debit" => j.todo = {task[p].at}
                /\ l = "provider" => j.todo = {} /\ j.at = task[p].at
                /\ j.price = task[p].price
                /\ l = "provider" => j.who = "admin"
<1> DEFINE o == task[p].at
           k == [task[p] EXCEPT !.picked[o] = live[o] \cap Ids[o]]
<1>0. /\ task[p] \in Held /\ HeldOk("find", task[p], now) /\ o \in Orders /\ stage[p] = "find"
      /\ live[o] \in SUBSET Slots /\ live[o] \subseteq Owned[o] /\ task[p].who \in {"user", "admin"}
  BY HeldTypes DEF RenewFind, HeldOk, Hand, Ways, JobInv, Counters, Askers
<1>1. k \in Held
  BY <1>0 DEF Held
<1>2. /\ k.picked = [task[p].picked EXCEPT ![o] = live[o] \cap Ids[o]] /\ k.at = o
      /\ k.who = task[p].who /\ k.docs = task[p].docs /\ k.todo = task[p].todo /\ k.price = task[p].price
  BY <1>0 DEF Held
<1>3. /\ k.picked[o] = live[o] \cap Ids[o]
      /\ \A q \in Orders \ {o} : k.picked[q] = task[p].picked[q]
  BY <1>0, <1>2 DEF Held
<1>4. \A q \in Orders : k.picked[q] \subseteq Owned[q]
  BY <1>0, <1>3 DEF HeldOk
<1> HIDE DEF k
<1>5. CASE /\ k.picked[o] # {} /\ k.who = "user"
           /\ GoTo(p, "debit", [k EXCEPT !.at = None, !.todo = {o}])
  <2> DEFINE j == [k EXCEPT !.at = None, !.todo = {o}]
  <2>1. j \in Held
    BY <1>0, <1>1 DEF Held
  <2>2. /\ j.picked = k.picked /\ j.who = k.who /\ j.docs = k.docs /\ j.todo = {o} /\ j.price = k.price
        /\ GoTo(p, "debit", j)
    BY <1>1, <1>5 DEF Held
  <2> HIDE DEF j
  <2>3. HeldOk("debit", j, now)
    <3>1. \A q \in Orders : Holds("debit", j, q) => WithId(j, q) # {}
      BY <1>3, <1>5, <2>2 DEF Holds, Hand, WithId
    <3> QED  BY <1>4, <1>5, <2>2, <3>1 DEF HeldOk, Ways, Hand
  <2> QED  BY <1>2, <1>5, <2>1, <2>2, <2>3, GotoTakes DEF Stages
<1>6. CASE k.picked[o] # {} /\ k.who = "admin" /\ GoTo(p, "provider", k)
  <2>1. \A q \in Orders : Holds("provider", k, q) => WithId(k, q) # {}
    BY <1>0, <1>2, <1>3, <1>6 DEF Holds, Hand, WithId, HeldOk
  <2>2. HeldOk("provider", k, now)
    BY <1>0, <1>2, <1>4, <1>6, <2>1 DEF HeldOk, Ways, Hand
  <2>3. k.todo = {}
    BY <1>0, <1>2 DEF HeldOk
  <2> QED  BY <1>1, <1>2, <1>6, <2>2, <2>3, GotoTakes DEF Stages
<1>7. CASE Leave(p)
  BY <1>7, FinishTakes
<1>8. k.who = task[p].who
  BY <1>2
<1> QED  BY <1>5, <1>6, <1>7, <1>8 DEF RenewFind, k

\* bulkRenewByUser() threw.
Fails(p, result) ==
    \/ task[p].who # "auto" /\ Takes(p, "idle", Idle)
    \/ \E j \in Held :
          /\ Takes(p, "record", j) /\ HeldOk("record", j, now) /\ Keeps(task[p], j)
          /\ j.who = "auto" /\ j.todo = task[p].todo /\ j.results = {result}

\* A bulk renewal that threw is recorded by an automatic run, and ends otherwise.
LEMMA FailFails ==
    ASSUME JobInv, NEW p \in Executions, stage[p] \in {"select", "load", "wallet"}, NEW result \in Results,
           Fail(p, result)
    PROVE  Fails(p, result)
<1>0. task[p] \in Held /\ HeldOk(stage[p], task[p], now)
  BY HeldTypes
<1>1. CASE task[p].who = "auto"
  <2> DEFINE j == [task[p] EXCEPT !.results = {result}]
  <2>1. j \in Held /\ GoTo(p, "record", j)
    BY <1>0, <1>1 DEF Held, Fail
  <2>2. Keeps(task[p], j) /\ j.who = "auto" /\ j.todo = task[p].todo /\ j.results = {result}
    BY <1>0, <1>1 DEF Held, Keeps
  <2> HIDE DEF j
  <2>3. HeldOk("record", j, now)
    <3>1. \A o \in Orders : Holds("record", j, o) => Holds(stage[p], task[p], o) /\ WithId(j, o) = WithId(task[p], o)
      BY <2>2 DEF Holds, Hand, Keeps, WithId
    <3>2. stage[p] # "find" /\ stage[p] \in Running /\ "record" \in Ways("auto")
      BY DEF Running, Past, Ways
    <3> QED  BY <1>0, <1>1, <2>2, <3>1, <3>2 DEF HeldOk, Keeps, Hand
  <2> QED  BY <2>1, <2>2, <2>3, GotoTakes DEF Fails, Stages
<1>2. CASE task[p].who # "auto"
  BY <1>2, FinishTakes DEF Fail, Fails
<1> QED  BY <1>1, <1>2

\* A bulk renewal opens with the proxies its user picked.
LEMMA BulkStartTakes ==
    ASSUME JobInv, NEW p \in Executions, NEW picked \in [Orders -> SUBSET Slots],
           \A o \in Orders : picked[o] \subseteq Owned[o], BulkStart(p, picked)
    PROVE  \E j \in Held : /\ Takes(p, "select", j) /\ HeldOk("select", j, now)
                           /\ j.who = "bulk" /\ j.picked = picked /\ j.todo = {} /\ j.docs = NoDocuments
<1> DEFINE j == [Idle EXCEPT !.who = "bulk", !.picked = picked]
<1>1. j \in Held /\ GoTo(p, "select", j)
  BY IdleIsHeld DEF Held, Askers, BulkStart
<1>2. j.who = "bulk" /\ j.picked = picked /\ j.todo = {} /\ j.docs = NoDocuments
  BY DEF Idle
<1> HIDE DEF j
<1>3. HeldOk("select", j, now)
  BY <1>2 DEF HeldOk, Ways, Hand, Holds
<1> QED  BY <1>1, <1>2, <1>3, GotoTakes DEF Stages

\* The search keeps the picked proxies that are live, or finds none the provider knows.
LEMMA BulkSelectTakes ==
    ASSUME JobInv, NEW p \in Executions, BulkSelect(p)
    PROVE  \/ Fails(p, "failed") /\ \A o \in Orders : task[p].picked[o] \cap live[o] \cap Ids[o] = {}
           \/ \E j \in Held :
                /\ Takes(p, "load", j) /\ HeldOk("load", j, now)
                /\ j.who = task[p].who /\ j.runs = task[p].runs /\ j.sel = task[p].sel /\ j.day = task[p].day
                /\ j.picked = [o \in Orders |-> task[p].picked[o] \cap live[o]]
                /\ j.docs = task[p].docs /\ j.todo = {}
<1> DEFINE j == [task[p] EXCEPT !.picked = [o \in Orders |-> @[o] \cap live[o]]]
<1>0. task[p] \in Held /\ HeldOk("select", task[p], now) /\ stage[p] = "select"
  BY HeldTypes DEF BulkSelect
<1>1. j \in Held
  BY <1>0, HeldTypes DEF Held
<1>2. /\ j.who = task[p].who /\ j.runs = task[p].runs /\ j.sel = task[p].sel /\ j.day = task[p].day
      /\ j.picked = [o \in Orders |-> task[p].picked[o] \cap live[o]]
      /\ j.docs = task[p].docs /\ j.todo = task[p].todo
  BY <1>0 DEF Held
<1>3. \/ (\E o \in Orders : WithId(j, o) # {}) /\ GoTo(p, "load", j)
      \/ (\A o \in Orders : WithId(j, o) = {}) /\ Fail(p, "failed")
  BY DEF BulkSelect
<1> HIDE DEF j
<1>4. CASE (\E o \in Orders : WithId(j, o) # {}) /\ GoTo(p, "load", j)
  <2>1. task[p].todo = {} /\ task[p].who \in {"bulk", "auto"}
    BY <1>0 DEF HeldOk, Ways, Held, Askers
  <2>2. HeldOk("load", j, now)
    BY <1>0, <1>2, <2>1 DEF HeldOk, Ways, Hand, Holds, Running, Past
  <2> QED  BY <1>1, <1>2, <1>4, <2>1, <2>2, GotoTakes DEF Stages
<1>5. CASE (\A o \in Orders : WithId(j, o) = {}) /\ Fail(p, "failed")
  <2>1. Fails(p, "failed")
    BY <1>0, <1>5, FailFails DEF Results
  <2> QED  BY <1>2, <1>5, <2>1 DEF WithId
<1> QED  BY <1>3, <1>4, <1>5

\* The orders taken are those a bulk renewal may renew.
LEMMA BulkLoadTakes ==
    ASSUME JobInv, NEW p \in Executions, BulkLoad(p)
    PROVE  \/ /\ Fails(p, "failed")
              /\ \A o \in Orders : WithId(task[p], o) # {} => ~BulkTakes(o, order[o], WithId(task[p], o))
           \/ \E j \in Held :
                /\ Takes(p, "wallet", j) /\ HeldOk("wallet", j, now)
                /\ j.who = task[p].who /\ j.runs = task[p].runs /\ j.sel = task[p].sel /\ j.day = task[p].day
                /\ j.picked = task[p].picked
                /\ j.todo = {o \in Orders : WithId(task[p], o) # {} /\ BulkTakes(o, order[o], WithId(task[p], o))}
                /\ \A o \in Orders : j.docs[o] = IF o \in j.todo THEN order[o] ELSE task[p].docs[o]
<1> DEFINE asked == {o \in Orders : WithId(task[p], o) # {}}
           taken == {o \in asked : BulkTakes(o, order[o], WithId(task[p], o))}
           j == [task[p] EXCEPT !.todo = taken,
                               !.docs = [o \in Orders |-> IF o \in taken THEN order[o] ELSE @[o]],
                               !.results = IF taken = asked THEN {} ELSE {"failed"}]
<1>0. task[p] \in Held /\ HeldOk("load", task[p], now) /\ stage[p] = "load" /\ order \in [Orders -> Document]
  BY HeldTypes DEF BulkLoad
<1>1. CASE taken = {} /\ Fail(p, "failed")
  BY <1>0, <1>1, FailFails DEF Results
<1>2. CASE taken # {} /\ GoTo(p, "wallet", j)
  <2>1. taken = {o \in Orders : WithId(task[p], o) # {} /\ BulkTakes(o, order[o], WithId(task[p], o))}
        /\ taken \subseteq Orders
    OBVIOUS
  <2> HIDE DEF taken, asked
  <2>2. j \in Held
    BY <1>0, <2>1 DEF Held, Results
  <2>3. /\ j.who = task[p].who /\ j.runs = task[p].runs /\ j.sel = task[p].sel /\ j.day = task[p].day
        /\ j.picked = task[p].picked /\ j.todo = taken /\ j.price = task[p].price
        /\ j.docs = [o \in Orders |-> IF o \in taken THEN order[o] ELSE task[p].docs[o]]
    BY <1>0 DEF Held
  <2> HIDE DEF j
  <2>4. HeldOk("wallet", j, now)
    <3>1. task[p].who \in {"bulk", "auto"}
      BY <1>0 DEF HeldOk, Ways, Held, Askers
    <3>2. \A o \in Orders : Holds("wallet", j, o) => WithId(j, o) # {}
      BY <2>1, <2>3 DEF Holds, Hand, WithId
    <3> QED  BY <1>0, <2>3, <3>1, <3>2 DEF HeldOk, Ways, Hand, Running, Past
  <2> QED  BY <1>2, <2>1, <2>2, <2>3, <2>4, GotoTakes DEF Stages
<1> QED  BY <1>1, <1>2 DEF BulkLoad

\* The wallet covers all of them, or none is begun.
LEMMA BulkWalletTakes ==
    ASSUME JobInv, NEW p \in Executions, BulkWallet(p)
    PROVE  \/ Fails(p, "broke")
           \/ Takes(p, "debit", task[p]) /\ HeldOk("debit", task[p], now)
<1>0. task[p] \in Held /\ HeldOk("wallet", task[p], now) /\ stage[p] = "wallet"
  BY HeldTypes DEF BulkWallet
<1>1. CASE GoTo(p, "debit", task[p])
  <2>1. HeldOk("debit", task[p], now)
    BY <1>0 DEF HeldOk, Ways, Hand, Running, Past, Held, Askers, Holds
  <2> QED  BY <1>0, <1>1, <2>1, GotoTakes DEF Stages
<1>2. CASE Fail(p, "broke")
  BY <1>0, <1>2, FailFails DEF Results
<1> QED  BY <1>1, <1>2 DEF BulkWallet

\* One of the orders left is debited, or settled without a debit.
LEMMA DebitTakes ==
    ASSUME JobInv, NEW p \in Executions, Debit(p)
    PROVE  \E o \in task[p].todo :
              \/ /\ \/ /\ ~Accepted(o, task[p].docs[o], WithId(task[p], o), Charge(task[p], o))
                       /\ Settles(p, "failed", task[p].todo \ {o})
                    \/ Settles(p, "broke", task[p].todo \ {o})
                 /\ wallet' = wallet /\ charged' = charged
              \/ \E j \in Held :
                    /\ Takes(p, "provider", j) /\ HeldOk("provider", j, now) /\ Keeps(task[p], j)
                    /\ j.todo = task[p].todo \ {o} /\ j.at = o /\ j.results = task[p].results
                    /\ j.price = Price(task[p], o) /\ Price(task[p], o) <= wallet
                    /\ wallet' = wallet - Price(task[p], o)
                    /\ charged' = IF task[p].who = "auto"
                                  THEN [charged EXCEPT ![task[p].sel][task[p].day][o] = @ + 1]
                                  ELSE charged
<1>0. task[p] \in Held /\ HeldOk("debit", task[p], now) /\ stage[p] = "debit" /\ task[p].todo \subseteq Orders
  BY HeldTypes DEF Debit
<1>1. PICK o \in task[p].todo :
         \/ /\ ~Accepted(o, task[p].docs[o], WithId(task[p], o), Charge(task[p], o))
            /\ Settle(p, "failed", task[p].todo \ {o})
            /\ UNCHANGED <<wallet, charged>>
         \/ /\ Settle(p, "broke", task[p].todo \ {o})
            /\ UNCHANGED <<wallet, charged>>
         \/ /\ Price(task[p], o) <= wallet
            /\ wallet' = wallet - Price(task[p], o)
            /\ GoTo(p, "provider", [task[p] EXCEPT !.todo = task[p].todo \ {o}, !.at = o,
                                                  !.price = Price(task[p], o)])
            /\ charged' = IF task[p].who = "auto"
                          THEN [charged EXCEPT ![task[p].sel][task[p].day][o] = @ + 1]
                          ELSE charged
  BY DEF Debit
<1>2. ASSUME NEW r \in Results, Settle(p, r, task[p].todo \ {o})
      PROVE  Settles(p, r, task[p].todo \ {o})
  BY <1>0, <1>2, SettleSettles DEF Renewing
<1>3. CASE /\ Price(task[p], o) <= wallet
           /\ wallet' = wallet - Price(task[p], o)
           /\ GoTo(p, "provider", [task[p] EXCEPT !.todo = task[p].todo \ {o}, !.at = o,
                                                 !.price = Price(task[p], o)])
           /\ charged' = IF task[p].who = "auto"
                         THEN [charged EXCEPT ![task[p].sel][task[p].day][o] = @ + 1]
                         ELSE charged
  <2> DEFINE j == [task[p] EXCEPT !.todo = task[p].todo \ {o}, !.at = o, !.price = Price(task[p], o)]
  <2>1. Price(task[p], o) \in Nat
    <3>1. task[p].docs[o] \in Document /\ task[p].picked[o] \in SUBSET Slots /\ o \in Orders
      BY <1>0 DEF Held
    <3>2. IsFiniteSet(WithId(task[p], o))
      BY <3>1, ConstantTypes, FS_Subset DEF WithId
    <3>3. Charge(task[p], o) \in Nat
      BY <3>1, <3>2, FS_CardinalityType DEF Charge, Document
    <3> QED  BY <3>3, ConstantTypes DEF Price
  <2>2. j \in Held
    BY <1>0, <2>1 DEF Held
  <2>3. /\ Keeps(task[p], j) /\ j.todo = task[p].todo \ {o} /\ j.at = o /\ j.results = task[p].results
        /\ j.price = Price(task[p], o)
    BY <1>0 DEF Held, Keeps
  <2> HIDE DEF j
  <2>4. HeldOk("provider", j, now)
    <3>1. task[p].who \in {"user", "bulk", "auto"}
      BY <1>0 DEF HeldOk, Ways, Held, Askers
    <3>2. \A q \in Orders : Holds("provider", j, q) => Holds("debit", task[p], q) /\ WithId(j, q) = WithId(task[p], q)
      BY <2>3 DEF Holds, Hand, WithId, Keeps
    <3>3. task[p].who = "auto" => task[p].sel \in Selections /\ task[p].day \in 0..now
      BY <1>0 DEF HeldOk, Running, Past
    <3>4. \A q \in Orders : Holds("provider", j, q) => WithId(j, q) # {}
      BY <1>0, <3>2 DEF HeldOk
    <3>5. "provider" \in Ways(j.who) /\ j.who # "admin"
      BY <2>3, <3>1 DEF Ways, Keeps
    <3>6. \A q \in Orders : j.picked[q] \subseteq Owned[q]
      BY <1>0, <2>3 DEF HeldOk, Keeps
    <3> QED  BY <1>0, <2>3, <3>3, <3>4, <3>5, <3>6 DEF HeldOk, Keeps, Hand
  <2>5. Takes(p, "provider", j)
    BY <1>3, <2>2, GotoTakes DEF Stages, j
  <2> QED  BY <1>3, <2>2, <2>3, <2>4, <2>5
<1> QED  BY <1>1, <1>2, <1>3 DEF Results

\* The order at hand.
LEMMA AtHand ==
    ASSUME JobInv, NEW p \in Executions, stage[p] \in Hand \ {"find"}
    PROVE  /\ task[p].at \in Orders /\ task[p].at \notin task[p].todo /\ WithId(task[p], task[p].at) # {}
           /\ task[p].picked[task[p].at] # {} /\ task[p].picked[task[p].at] \subseteq Owned[task[p].at]
           /\ task[p].picked[task[p].at] \in SUBSET Slots
           /\ stage[p] \in {"prune", "count"} => task[p].who = "bulk"
           /\ stage[p] = "refund" => task[p].who # "admin"
           /\ task[p].who \in {"user", "admin", "bulk", "auto"}
<1>1. task[p] \in Held /\ HeldOk(stage[p], task[p], now)
  BY HeldTypes
<1>2. task[p].at \in Orders /\ task[p].at \notin task[p].todo /\ WithId(task[p], task[p].at) # {}
  BY <1>1 DEF HeldOk, Holds
<1>3. task[p].picked[task[p].at] # {} /\ task[p].picked[task[p].at] \subseteq Owned[task[p].at]
  BY <1>1, <1>2 DEF WithId, HeldOk
<1>4. task[p].picked[task[p].at] \in SUBSET Slots
  BY <1>1, <1>2 DEF Held
<1>5. task[p].who \in {"none", "user", "admin", "bulk", "auto"} /\ stage[p] \in Ways(task[p].who)
  BY <1>1 DEF HeldOk, Held, Askers
<1> QED  BY <1>2, <1>3, <1>4, <1>5 DEF Ways, Hand

\* What an execution keeps while it renews an order.
Stays(j, k) == Keeps(j, k) /\ k.todo = j.todo /\ k.at = j.at /\ k.price = j.price /\ k.results = j.results

\* An execution that holds the same goes on with its order.
LEMMA StaysOk ==
    ASSUME NEW j, NEW k, Stays(j, k), NEW d, NEW l \in Renewing, NEW m \in Hand \ {"find"}, HeldOk(l, j, d),
           j.at \in Orders, j.at \notin j.todo, WithId(j, j.at) # {}, m \in Ways(j.who),
           j.who = "auto" => m \in Running /\ l \in Running
    PROVE  HeldOk(m, k, d)
<1>1. \A q \in Orders : WithId(k, q) = WithId(j, q)
  BY DEF Stays, Keeps, WithId
<1>2. \A q \in Orders : q \in j.todo => Holds(l, j, q)
  BY DEF Holds
<1>3. \A q \in Orders : Holds(m, k, q) => WithId(k, q) # {}
  BY <1>1, <1>2 DEF Holds, HeldOk, Stays, Renewing
<1>4. m \notin {"idle", "find", "claim", "select", "load", "list", "run"}
  BY DEF Hand
<1>5. k.who = j.who /\ k.at = j.at /\ k.todo = j.todo /\ k.price = j.price /\ k.sel = j.sel
      /\ k.day = j.day /\ k.picked = j.picked
  BY DEF Stays, Keeps
<1> QED  BY <1>3, <1>4, <1>5 DEF HeldOk

\* The provider's clock moves by a term for the proxies it renews.
LEMMA Extends ==
    ASSUME JobInv, NEW o \in Orders, NEW slots, Extend(o, slots)
    PROVE  /\ remote' \in [Orders -> [Slots -> Nat]]
           /\ \A s \in Slots : remote'[o][s] = remote[o][s] + (IF s \in slots THEN Term ELSE 0)
           /\ \A q \in Orders \ {o} : remote'[q] = remote[q]
<1> DEFINE f == [s \in Slots |-> remote[o][s] + (IF s \in slots THEN Term ELSE 0)]
<1>1. remote \in [Orders -> [Slots -> Nat]] /\ Term \in Nat
  BY ConstantTypes DEF JobInv, RenewalTypes
<1>2. f \in [Slots -> Nat]
  BY <1>1
<1>3. remote' = [remote EXCEPT ![o] = f]
  BY DEF Extend
<1>4. \A s \in Slots : f[s] = remote[o][s] + (IF s \in slots THEN Term ELSE 0)
  OBVIOUS
<1> HIDE DEF f
<1>5. remote' \in [Orders -> [Slots -> Nat]] /\ remote'[o] = f
      /\ \A q \in Orders \ {o} : remote'[q] = remote[q]
  BY <1>1, <1>2, <1>3
<1> QED  BY <1>4, <1>5

\* An acknowledged renewal goes to be saved, with an end date of the renewed proxies or none.
LEMMA AcknowledgeTakes ==
    ASSUME JobInv, NEW p \in Executions, Acknowledge(p) \/ AcknowledgeSome(p)
    PROVE  \E renewed, told \in SUBSET WithId(task[p], task[p].at), j \in Held :
              /\ told \subseteq renewed
              /\ j.end \in Answers(task[p].at, told) /\ told # {} /\ Extend(task[p].at, renewed) /\ stage[p] = "provider"
              /\ Takes(p, "save", j) /\ HeldOk("save", j, now) /\ Stays(task[p], j)
              /\ acked' = [acked EXCEPT ![task[p].at] = @ + 1]
              /\ behind' = [behind EXCEPT ![task[p].at] = @ \cup LeftBehind(task[p], task[p].at, renewed)]
              /\ \/ renewed = WithId(task[p], task[p].at) /\ told = renewed /\ troubles' = troubles
                 \/ troubles' = troubles + 1
<1> DEFINE o == task[p].at
<1>0. /\ task[p] \in Held /\ HeldOk("provider", task[p], now) /\ stage[p] = "provider"
      /\ o \in Orders /\ o \notin task[p].todo /\ WithId(task[p], o) # {}
      /\ "save" \in Ways(task[p].who)
  <2>1. stage[p] = "provider"
    BY DEF Acknowledge, AcknowledgeSome
  <2> QED  BY <2>1, HeldTypes, AtHand DEF Hand, Ways
<1>2. ASSUME NEW r \in SUBSET WithId(task[p], o), Extend(o, r), NEW t \in SUBSET r, NEW end \in Answers(o, t), NEW b \in BOOLEAN,
             GoTo(p, "save", [task[p] EXCEPT !.end = end, !.short = b])
      PROVE  \E j \in Held : /\ Takes(p, "save", j) /\ HeldOk("save", j, now) /\ Stays(task[p], j)
                             /\ j.end = end
  <2> DEFINE j == [task[p] EXCEPT !.end = end, !.short = b]
  <2>1. end \in Nat \cup {None}
    <3>1. r \subseteq Slots /\ t \subseteq Slots
      BY <1>0, ConstantTypes DEF WithId
    <3>2. remote'[o] \in [Slots -> Nat]
      BY <1>0, <1>2, Extends
    <3> QED  BY <3>1, <3>2 DEF Answers
  <2>2. j \in Held /\ Stays(task[p], j) /\ j.end = end
    BY <1>0, <2>1 DEF Held, Stays, Keeps
  <2> HIDE DEF j
  <2>3. HeldOk("save", j, now)
    BY <1>0, <2>2, StaysOk DEF Renewing, Hand, Running, Past
  <2> QED  BY <1>2, <2>2, <2>3, GotoTakes DEF Stages, j
<1>3. CASE Acknowledge(p)
  <2>1. PICK end \in Answers(o, WithId(task[p], o)) : GoTo(p, "save", [task[p] EXCEPT !.end = end])
    BY <1>3 DEF Acknowledge
  <2>2. [task[p] EXCEPT !.end = end] = [task[p] EXCEPT !.end = end, !.short = task[p].short]
        /\ task[p].short \in BOOLEAN
    BY <1>0 DEF Held
  <2>3. Extend(o, WithId(task[p], o))
    BY <1>3 DEF Acknowledge
  <2>4. \E j \in Held : /\ Takes(p, "save", j) /\ HeldOk("save", j, now) /\ Stays(task[p], j)
                        /\ j.end = end
    BY <1>0, <1>2, <2>1, <2>2, <2>3
  <2> QED  BY <1>0, <1>3, <2>3, <2>4 DEF Acknowledge, bounds
<1>4. CASE AcknowledgeSome(p)
  <2>1. PICK told \in (SUBSET WithId(task[p], o)) \ {{}, WithId(task[p], o)}, renewed \in SUBSET WithId(task[p], o) :
          /\ told \subseteq renewed /\ Extend(o, renewed)
          /\ behind' = [behind EXCEPT ![o] = @ \cup LeftBehind(task[p], o, renewed)]
          /\ \E end \in Answers(o, told) :
               GoTo(p, "save", [task[p] EXCEPT !.end = end, !.short = TRUE])
    BY <1>4 DEF AcknowledgeSome
  <2>2. PICK end \in Answers(o, told) : GoTo(p, "save", [task[p] EXCEPT !.end = end, !.short = TRUE])
    BY <2>1
  <2>3. \E j \in Held : /\ Takes(p, "save", j) /\ HeldOk("save", j, now) /\ Stays(task[p], j)
                        /\ j.end = end
    BY <1>2, <2>1, <2>2
  <2>4. acked' = [acked EXCEPT ![o] = @ + 1] /\ troubles' = troubles + 1
    BY <1>4 DEF AcknowledgeSome
  <2>5. told \subseteq renewed /\ told # {} /\ told \in SUBSET WithId(task[p], o) /\ renewed \in SUBSET WithId(task[p], o)
    BY <2>1
  <2> QED  BY <1>0, <2>1, <2>2, <2>3, <2>4, <2>5
<1> QED  BY <1>3, <1>4

\* A refused renewal is paid back, unless an administrator asked for it.
LEMMA RefuseTakes ==
    ASSUME JobInv, NEW p \in Executions, Refuse(p)
    PROVE  \/ Takes(p, "idle", Idle)
           \/ Takes(p, "refund", task[p]) /\ HeldOk("refund", task[p], now)
<1>1. stage[p] = "provider" /\ task[p] \in Held /\ HeldOk("provider", task[p], now)
  BY HeldTypes DEF Refuse
<1>2. task[p].at \in Orders /\ task[p].at \notin task[p].todo /\ WithId(task[p], task[p].at) # {}
      /\ task[p].who \in {"user", "admin", "bulk", "auto"}
  BY <1>1, AtHand DEF Hand
<1>3. CASE task[p].who = "admin"
  BY <1>3, FinishTakes DEF Refuse
<1>4. CASE task[p].who # "admin"
  <2>1. Stays(task[p], task[p]) /\ "refund" \in Ways(task[p].who)
    BY <1>2, <1>4 DEF Stays, Keeps, Ways
  <2>2. HeldOk("refund", task[p], now)
    BY <1>1, <1>2, <2>1, StaysOk DEF Renewing, Hand, Running, Past
  <2> QED  BY <1>1, <1>4, <2>2, GotoTakes DEF Refuse, Stages
<1> QED  BY <1>3, <1>4

\* A refund settles the order.
LEMMA RefundTakes ==
    ASSUME JobInv, NEW p \in Executions, Refund(p)
    PROVE  Settles(p, "failed", task[p].todo)
  BY SettleSettles DEF Refund, Renewing, Results

\* The document that save() writes.
Renewed(j, o) ==
    [j.docs[o] EXCEPT !.end = IF j.end = None THEN @ + Term ELSE j.end, !.renews = @ + 1]

\* What save() means to write.
LEMMA RenewedIs ==
    ASSUME NEW j \in Held, NEW o \in Orders
    PROVE  /\ Renewed(j, o) \in Document
           /\ Renewed(j, o).end = IF j.end = None THEN j.docs[o].end + Term ELSE j.end
           /\ Renewed(j, o).renews = j.docs[o].renews + 1
           /\ Renewed(j, o).status = j.docs[o].status /\ Renewed(j, o).quantity = j.docs[o].quantity
<1> DEFINE d == j.docs[o]
           r == d.renews + 1
           e == IF j.end = None THEN d.end + Term ELSE j.end
<1>1. d \in Document /\ j.end \in Nat \cup {None}
  BY DEF Held
<1>2. e \in Int /\ r \in Nat
  BY <1>1, ConstantTypes DEF Document
<1>3. Renewed(j, o) = [d EXCEPT !.end = e, !.renews = r]
  BY DEF Renewed
<1> HIDE DEF d, e, r
<1>4. [d EXCEPT !.end = e, !.renews = r] \in Document
  BY <1>1, <1>2 DEF Document
<1>5. /\ Renewed(j, o).end = e /\ Renewed(j, o).renews = r
      /\ Renewed(j, o).status = d.status /\ Renewed(j, o).quantity = d.quantity
  BY <1>1, <1>3 DEF Document
<1> QED  BY <1>3, <1>4, <1>5 DEF d, e, r

\* The saved order is settled, or pruned by a bulk renewal of its user.
LEMMA SaveTakes ==
    ASSUME JobInv, NEW p \in Executions, SaveRenewal(p)
    PROVE  /\ \/ /\ task[p].who = "bulk"
                 /\ \E j \in Held :
                      /\ Takes(p, "prune", j) /\ HeldOk("prune", j, now)
                      /\ j.who = "bulk" /\ j.picked = task[p].picked /\ j.todo = task[p].todo
                      /\ j.at = task[p].at /\ j.docs = [task[p].docs EXCEPT ![task[p].at] = Renewed(task[p], task[p].at)]
              \/ task[p].who # "bulk" /\ \E r \in {"partial", "renewed"} : Settles(p, r, task[p].todo)
           /\ order' = [order EXCEPT
                 ![task[p].at].end = Saved(@, task[p].docs[task[p].at].end, Renewed(task[p], task[p].at).end),
                 ![task[p].at].renews = Saved(@, task[p].docs[task[p].at].renews, Renewed(task[p], task[p].at).renews)]
<1> DEFINE o == task[p].at
           new == Renewed(task[p], o)
           j == [task[p] EXCEPT !.docs[o] = new]
<1>0. /\ task[p] \in Held /\ HeldOk("save", task[p], now) /\ stage[p] = "save" /\ o \in Orders
      /\ o \notin task[p].todo /\ WithId(task[p], o) # {}
  <2>1. stage[p] = "save"
    BY DEF SaveRenewal
  <2> QED  BY <2>1, HeldTypes, AtHand DEF Hand
<1>1. /\ order' = [order EXCEPT ![o].end = Saved(@, task[p].docs[o].end, new.end),
                                ![o].renews = Saved(@, task[p].docs[o].renews, new.renews)]
      /\ IF task[p].who = "bulk"
         THEN GoTo(p, "prune", j)
         ELSE Settle(p, IF task[p].short THEN "partial" ELSE "renewed", task[p].todo)
  BY DEF SaveRenewal, Renewed
<1>2. CASE task[p].who = "bulk"
  <2>1. new \in Document
    BY <1>0, RenewedIs
  <2> HIDE DEF new
  <2>2. j \in Held
    BY <1>0, <2>1 DEF Held
  <2>3. /\ j.who = "bulk" /\ j.picked = task[p].picked /\ j.todo = task[p].todo /\ j.at = o
        /\ j.docs = [task[p].docs EXCEPT ![o] = new]
    BY <1>0, <1>2 DEF Held
  <2>4. GoTo(p, "prune", j)
    BY <1>1, <1>2
  <2> HIDE DEF j
  <2>5. HeldOk("prune", j, now)
    <3>1. \A q \in Orders : Holds("prune", j, q) => Holds("save", task[p], q) /\ WithId(j, q) = WithId(task[p], q)
      BY <2>3 DEF Holds, Hand, WithId
    <3> QED  BY <1>0, <2>3, <3>1 DEF HeldOk, Ways, Hand
  <2> QED  BY <1>1, <1>2, <2>2, <2>3, <2>4, <2>5, GotoTakes DEF Stages, new
<1>3. CASE task[p].who # "bulk"
  <2>1. Settle(p, "partial", task[p].todo) \/ Settle(p, "renewed", task[p].todo)
    BY <1>1, <1>3
  <2>2. \E r \in {"partial", "renewed"} : Settles(p, r, task[p].todo)
    BY <1>0, <2>1, SettleSettles DEF Renewing, Results
  <2> QED  BY <1>1, <1>3, <2>2
<1> QED  BY <1>2, <1>3

\* A failed save settles the order.
LEMMA SaveFailsTakes ==
    ASSUME JobInv, NEW p \in Executions, SaveFails(p)
    PROVE  Settles(p, "failed", task[p].todo)
  BY SettleSettles DEF SaveFails, Renewing, Results

\* Pruning takes from the order the proxies that were not picked, if there are any.
LEMMA PruneTakes ==
    ASSUME JobInv, NEW p \in Executions, Prune(p)
    PROVE  \/ /\ live[task[p].at] \subseteq task[p].picked[task[p].at] /\ live' = live
              /\ Settles(p, "renewed", task[p].todo)
           \/ /\ live' = [live EXCEPT ![task[p].at] = @ \cap task[p].picked[task[p].at]]
              /\ Takes(p, "count", task[p]) /\ HeldOk("count", task[p], now)
<1>0. /\ task[p] \in Held /\ HeldOk("prune", task[p], now) /\ stage[p] = "prune" /\ task[p].at \in Orders
      /\ task[p].at \notin task[p].todo /\ WithId(task[p], task[p].at) # {} /\ task[p].who = "bulk"
  <2>1. stage[p] = "prune"
    BY DEF Prune
  <2> QED  BY <2>1, HeldTypes, AtHand DEF Hand
<1>1. CASE live[task[p].at] \subseteq task[p].picked[task[p].at]
  <2>1. Settle(p, "renewed", task[p].todo) /\ live' = live
    BY <1>1 DEF Prune
  <2> QED  BY <1>0, <1>1, <2>1, SettleSettles DEF Renewing, Results
<1>2. CASE ~(live[task[p].at] \subseteq task[p].picked[task[p].at])
  <2>1. GoTo(p, "count", task[p]) /\ live' = [live EXCEPT ![task[p].at] = @ \cap task[p].picked[task[p].at]]
    BY <1>2 DEF Prune
  <2>2. Stays(task[p], task[p]) /\ "count" \in Ways("bulk")
    BY DEF Stays, Keeps, Ways
  <2>3. HeldOk("count", task[p], now)
    BY <1>0, <2>2, StaysOk DEF Renewing, Hand
  <2> QED  BY <1>0, <2>1, <2>3, GotoTakes DEF Stages
<1> QED  BY <1>1, <1>2

\* The new quantity settles the order.
LEMMA PruneCountTakes ==
    ASSUME JobInv, NEW p \in Executions, PruneCount(p)
    PROVE  Settles(p, "renewed", task[p].todo)
  BY SettleSettles DEF PruneCount, Renewing, Results

-----------------------------------------------------------------------------

\* A scan between two selections.
Between(runs) == [Idle EXCEPT !.who = "auto", !.runs = runs]

\* What an execution between two runs has in hand.
LEMMA BetweenTaken ==
    ASSUME NEW p \in Executions, NEW l, NEW runs, Takes(p, l, Between(runs))
    PROVE  /\ Between(runs) \in Held
           /\ Between(runs).who = "auto" /\ Between(runs).runs = runs
<1>1. task'[p] = Between(runs) /\ task' \in [Executions -> Held]
  BY DEF Takes
<1>2. Between(runs).who = "auto" /\ Between(runs).runs = runs
  BY DEF Between, Idle
<1> QED  BY <1>1, <1>2

\* Between two runs a scan holds the selections still to run and nothing else.
LEMMA BetweenOk ==
    ASSUME JobInv, NEW p \in Executions, NEW runs \in SUBSET Selections, NEW l \in {"list", "run"},
           GoTo(p, l, Between(runs))
    PROVE  /\ Takes(p, l, Between(runs)) /\ HeldOk(l, Between(runs), now) /\ Engaged(Between(runs)) = {}
           /\ Between(runs).who = "auto" /\ Between(runs).runs = runs /\ Between(runs).todo = {}
           /\ Between(runs).docs = NoDocuments /\ Between(runs).picked = NoProxies
<1>1. Between(runs) \in Held
  BY IdleIsHeld DEF Between, Held, Askers
<1>2. /\ Between(runs).who = "auto" /\ Between(runs).runs = runs /\ Between(runs).todo = {}
      /\ Between(runs).docs = NoDocuments /\ Between(runs).picked = NoProxies
  BY DEF Between, Idle
<1>3. Engaged(Between(runs)) = {}
  BY <1>2 DEF Engaged, NoProxies
<1>4. HeldOk(l, Between(runs), now)
  BY <1>2, <1>3 DEF HeldOk, Ways, Hand, Holds, Running, Past, NoProxies
<1> QED  BY <1>1, <1>2, <1>3, <1>4, GotoTakes DEF Stages

\* One instance takes the scan lock; the others do nothing.
LEMMA ScanStartTakes ==
    ASSUME JobInv, NEW p \in Executions, ScanStart(p)
    PROVE  \/ scanLock = None /\ scanLock' = p /\ Takes(p, "list", Between({})) /\ HeldOk("list", Between({}), now)
           \/ scanLock # None /\ UNCHANGED <<scanLock, stage, task>>
<1>1. Between({}) = [Idle EXCEPT !.who = "auto"]
  <2>1. Idle \in Held /\ Idle.runs = {}
    BY IdleIsHeld DEF Idle
  <2>2. [Idle EXCEPT !.who = "auto"] \in Held /\ Between({}) \in Held
    BY <2>1 DEF Between, Held, Askers
  <2> QED  BY <2>1, <2>2 DEF Between, Held
<1> QED  BY <1>1, BetweenOk DEF ScanStart

\* A scan lists the schedules that are on.
LEMMA ScanListTakes ==
    ASSUME JobInv, NEW p \in Executions, ScanList(p)
    PROVE  \E j \in Held : /\ Takes(p, "run", j) /\ HeldOk("run", j, now) /\ Engaged(j) = {} /\ j.todo = {}
                           /\ j.runs = {s \in Selections : selection[s].auto} /\ j.who = "auto"
                           /\ j.docs = task[p].docs
<1> DEFINE runs == {s \in Selections : selection[s].auto}
           j == [task[p] EXCEPT !.runs = runs]
<1>0. task[p] \in Held /\ HeldOk("list", task[p], now) /\ GoTo(p, "run", j)
  BY HeldTypes DEF ScanList
<1>1. runs \subseteq Selections
  OBVIOUS
<1> HIDE DEF runs
<1>2. j \in Held
  BY <1>0, <1>1 DEF Held
<1>3. /\ j.who = task[p].who /\ j.runs = runs /\ j.todo = task[p].todo /\ j.picked = task[p].picked
      /\ j.docs = task[p].docs
  BY <1>0 DEF Held
<1> HIDE DEF j
<1>4. task[p].who = "auto" /\ task[p].todo = {} /\ Engaged(task[p]) = {}
  BY <1>0 DEF HeldOk, Ways, Held, Askers
<1>5. Engaged(j) = {}
  BY <1>3, <1>4 DEF Engaged
<1>6. HeldOk("run", j, now)
  BY <1>0, <1>3, <1>4, <1>5 DEF HeldOk, Ways, Hand, Holds, Running, Past
<1> QED  BY <1>0, <1>2, <1>3, <1>4, <1>5, <1>6, GotoTakes DEF Stages, runs

\* Due orders are orders.
LEMMA DueTypes == ASSUME NEW s \in Selections PROVE Due(s) \subseteq Orders
  BY DEF Due

\* A run takes on the due orders of its selection, if there are any.
LEMMA RunFindTakes ==
    ASSUME JobInv, NEW p \in Executions, RunFind(p)
    PROVE  \E s \in task[p].runs, j \in Held :
              /\ s \in Selections /\ j.runs = task[p].runs \ {s} /\ j.who = "auto" /\ j.docs = NoDocuments
              /\ \/ /\ Due(s) = {} /\ Takes(p, "run", j) /\ HeldOk("run", j, now) /\ Engaged(j) = {}
                    /\ overlap' = overlap
                 \/ /\ Due(s) # {} /\ Takes(p, "claim", j) /\ HeldOk("claim", j, now)
                    /\ j.sel = s /\ j.day = now /\ Meets(p, Due(s)) /\ Engaged(j) = Due(s)
                    /\ j.todo = {}
                    /\ \A o \in Orders : j.picked[o] = IF o \in Due(s)
                                                       THEN Chosen[s][o] \cap live[o] \cap Ids[o] ELSE {}
<1>0. stage[p] = "run" /\ task[p] \in Held /\ task[p].runs \subseteq Selections
  BY HeldTypes DEF RunFind
<1> DEFINE free(s) == [Idle EXCEPT !.who = "auto", !.runs = task[p].runs \ {s}]
           picked(s) == [o \in Orders |-> IF o \in Due(s) THEN Chosen[s][o] \cap live[o] \cap Ids[o] ELSE {}]
           k(s) == [free(s) EXCEPT !.sel = s, !.day = now, !.picked = picked(s)]
<1>1. PICK s \in task[p].runs :
        IF Due(s) = {}
        THEN GoTo(p, "run", free(s)) /\ UNCHANGED overlap
        ELSE GoTo(p, "claim", k(s)) /\ Meets(p, Due(s))
  BY DEF RunFind
<1>2. s \in Selections /\ task[p].runs \ {s} \subseteq Selections
  BY <1>0
<1>3. CASE Due(s) = {}
  <2>1. GoTo(p, "run", Between(task[p].runs \ {s})) /\ overlap' = overlap
    BY <1>1, <1>3 DEF Between
  <2>2. Between(task[p].runs \ {s}) \in Held
    BY <1>2, IdleIsHeld DEF Between, Held, Askers
  <2> QED  BY <1>2, <1>3, <2>1, <2>2, BetweenOk
<1>4. CASE Due(s) # {}
  <2>1. k(s) = [Between(task[p].runs \ {s}) EXCEPT !.sel = s, !.day = now, !.picked = picked(s)]
    BY DEF Between
  <2>2. Between(task[p].runs \ {s}) \in Held
    BY <1>2, IdleIsHeld DEF Between, Held, Askers
  <2>3. /\ Between(task[p].runs \ {s}).who = "auto" /\ Between(task[p].runs \ {s}).runs = task[p].runs \ {s}
        /\ Between(task[p].runs \ {s}).todo = {} /\ Between(task[p].runs \ {s}).docs = NoDocuments
    BY DEF Between, Idle
  <2>4. picked(s) \in [Orders -> SUBSET Slots]
    BY <1>2, ConstantTypes
  <2>5. \A o \in Orders : picked(s)[o] = IF o \in Due(s) THEN Chosen[s][o] \cap live[o] \cap Ids[o] ELSE {}
    OBVIOUS
  <2> HIDE DEF picked
  <2>6. now \in 0..MaxDay /\ now \in Nat
    BY HeldTypes DEF JobInv, RenewalTypes
  <2> DEFINE b == Between(task[p].runs \ {s})
             j == [b EXCEPT !.sel = s, !.day = now, !.picked = picked(s)]
  <2> HIDE DEF b
  <2>7. j \in Held
    BY <1>2, <2>2, <2>4, <2>6 DEF Held, b
  <2>8. /\ j.who = "auto" /\ j.runs = task[p].runs \ {s} /\ j.todo = {} /\ j.docs = NoDocuments
        /\ j.sel = s /\ j.day = now /\ j.picked = picked(s)
    BY <2>2, <2>3 DEF Held, b
  <2>9. GoTo(p, "claim", j) /\ Meets(p, Due(s))
    BY <1>1, <1>4, <2>1 DEF b
  <2> HIDE DEF j
  <2>10. Engaged(j) = Due(s)
    BY <2>5, <2>8 DEF Engaged, Due
  <2>11. HeldOk("claim", j, now)
    <3>1. \A o \in Orders : j.picked[o] \subseteq Owned[o]
      BY <2>5, <2>8 DEF JobInv, Counters
    <3> QED  BY <1>2, <2>6, <2>8, <3>1 DEF HeldOk, Ways, Hand, Holds
  <2>12. Takes(p, "claim", j)
    BY <2>7, <2>9, GotoTakes DEF Stages
  <2>13. \A o \in Orders : j.picked[o] = IF o \in Due(s) THEN Chosen[s][o] \cap live[o] \cap Ids[o] ELSE {}
    BY <2>5, <2>8
  <2> QED  BY <1>2, <1>4, <2>7, <2>8, <2>9, <2>10, <2>11, <2>12, <2>13
<1> QED  BY <1>3, <1>4

\* A run claims the day of its selection, or finds it claimed.
LEMMA RunClaimTakes ==
    ASSUME JobInv, NEW p \in Executions, RunClaim(p)
    PROVE  \/ /\ <<task[p].sel, task[p].day>> \in dayLocks /\ dayLocks' = dayLocks
              /\ Takes(p, "run", Between(task[p].runs)) /\ HeldOk("run", Between(task[p].runs), now)
           \/ /\ <<task[p].sel, task[p].day>> \notin dayLocks
              /\ dayLocks' = dayLocks \cup {<<task[p].sel, task[p].day>>}
              /\ Takes(p, "select", task[p]) /\ HeldOk("select", task[p], now)
              /\ task[p].todo = {}
<1>0. /\ stage[p] = "claim" /\ task[p] \in Held /\ HeldOk("claim", task[p], now) /\ task[p].runs \subseteq Selections
  BY HeldTypes DEF RunClaim
<1>1. CASE <<task[p].sel, task[p].day>> \in dayLocks
  BY <1>0, <1>1, BetweenOk DEF RunClaim, Between
<1>2. CASE <<task[p].sel, task[p].day>> \notin dayLocks
  <2>1. GoTo(p, "select", task[p]) /\ dayLocks' = dayLocks \cup {<<task[p].sel, task[p].day>>}
    BY <1>2 DEF RunClaim
  <2>2. task[p].who = "auto"
    BY <1>0 DEF HeldOk, Ways, Held, Askers
  <2>3. HeldOk("select", task[p], now) /\ task[p].todo = {}
    BY <1>0, <2>2 DEF HeldOk, Ways, Hand, Running, Past, Holds
  <2> QED  BY <1>0, <1>2, <2>1, <2>3, GotoTakes DEF Stages
<1> QED  BY <1>1, <1>2

\* A recorded run makes way for the next one.
LEMMA RunRecordTakes ==
    ASSUME JobInv, NEW p \in Executions, RunRecord(p)
    PROVE  Takes(p, "run", Between(task[p].runs)) /\ HeldOk("run", Between(task[p].runs), now)
<1>1. GoTo(p, "run", Between(task[p].runs)) /\ task[p].runs \subseteq Selections
  BY HeldTypes DEF RunRecord, Between
<1> QED  BY <1>1, BetweenOk

-----------------------------------------------------------------------------
(* Types.                                                                  *)

\* Execution p moves to some label, with something it may hold there.
Moves(p) == \E l \in Stages, j \in Held : Takes(p, l, j) /\ HeldOk(l, j, now)

\* A settled order leaves a well-formed execution.
LEMMA SettlesMoves ==
    ASSUME JobInv, NEW p \in Executions, NEW r, NEW todo, Settles(p, r, todo)
    PROVE  Moves(p)
  BY IdleIsHeld, HeldTypes DEF Settles, Moves, Stages

\* A failed bulk renewal leaves a well-formed execution.
LEMMA FailsMoves ==
    ASSUME JobInv, NEW p \in Executions, NEW r, Fails(p, r)
    PROVE  Moves(p)
  BY IdleIsHeld, HeldTypes DEF Fails, Moves, Stages

\* So does an execution that ends.
LEMMA IdleMoves ==
    ASSUME JobInv, NEW p \in Executions, Takes(p, "idle", Idle)
    PROVE  Moves(p)
  BY IdleIsHeld, HeldTypes DEF Moves, Stages

\* The steps of an execution that no failure disturbs.
Goes(p) ==
    \/ \E o \in Orders, who \in {"user", "admin"} : RenewStart(p, o, who)
    \/ RenewFind(p)
    \/ \E picked \in [Orders -> SUBSET Slots] :
         (\A o \in Orders : picked[o] \subseteq Owned[o]) /\ BulkStart(p, picked)
    \/ BulkSelect(p) \/ BulkLoad(p) \/ BulkWallet(p)
    \/ Debit(p) \/ Acknowledge(p) \/ SaveRenewal(p) \/ Prune(p) \/ PruneCount(p)
    \/ ScanStart(p) \/ ScanList(p) \/ RunFind(p) \/ RunClaim(p) \/ RunRecord(p) \/ ScanUnlock(p)

Stumbles(p) == AcknowledgeSome(p) \/ Refuse(p) \/ Refund(p) \/ SaveFails(p) \/ Die(p)

\* The steps of executions, those of the environment, and no other.
LEMMA NextGoes == RenewalNext => Environment \/ \E p \in Executions : Goes(p) \/ Stumbles(p)
  BY DEF RenewalNext, Renew, Single, Bulk, Scan, Goes, Stumbles

\* Every step of an execution that goes on leaves it well formed.
LEMMA GoesMoves ==
    ASSUME JobInv, NEW p \in Executions, Goes(p)
    PROVE  Moves(p) \/ UNCHANGED <<stage, task>>
<1>1. CASE \E o \in Orders, who \in {"user", "admin"} : RenewStart(p, o, who)
  <2>1. PICK o \in Orders, who \in {"user", "admin"} : RenewStart(p, o, who)
    BY <1>1
  <2>2. Takes(p, "find", Opened(o, who)) /\ HeldOk("find", Opened(o, who), now)
    BY <2>1, RenewStartTakes
  <2>3. Opened(o, who) \in Held
    BY <2>2 DEF Takes
  <2> QED  BY <2>2, <2>3 DEF Moves, Stages
<1>2. CASE RenewFind(p)
  <2>1. CASE Takes(p, "idle", Idle)
    BY <2>1, IdleMoves
  <2>2. ASSUME NEW l \in {"debit", "provider"}, NEW j \in Held, Takes(p, l, j), HeldOk(l, j, now)
        PROVE  Moves(p)
    BY <2>2 DEF Moves, Stages
  <2> QED  BY <1>2, <2>1, <2>2, RenewFindTakes
<1>3. CASE \E picked \in [Orders -> SUBSET Slots] :
             (\A o \in Orders : picked[o] \subseteq Owned[o]) /\ BulkStart(p, picked)
  BY <1>3, BulkStartTakes DEF Moves, Stages
<1>4. CASE BulkSelect(p)
  BY <1>4, BulkSelectTakes, FailsMoves DEF Moves, Stages
<1>5. CASE BulkLoad(p)
  BY <1>5, BulkLoadTakes, FailsMoves DEF Moves, Stages
<1>6. CASE BulkWallet(p)
  BY <1>6, BulkWalletTakes, FailsMoves, HeldTypes DEF Moves, Stages
<1>7. CASE Debit(p)
  BY <1>7, DebitTakes, SettlesMoves DEF Moves, Stages
<1>8. CASE Acknowledge(p)
  BY <1>8, AcknowledgeTakes DEF Moves, Stages
<1>9. CASE SaveRenewal(p)
  BY <1>9, SaveTakes, SettlesMoves DEF Moves, Stages
<1>10. CASE Prune(p)
  BY <1>10, PruneTakes, SettlesMoves, HeldTypes DEF Moves, Stages
<1>11. CASE PruneCount(p)
  BY <1>11, PruneCountTakes, SettlesMoves
<1>12. CASE ScanStart(p)
  <2>1. CASE Takes(p, "list", Between({})) /\ HeldOk("list", Between({}), now)
    BY <2>1 DEF Moves, Stages, Takes
  <2> QED  BY <1>12, <2>1, ScanStartTakes
<1>13. CASE ScanList(p)
  BY <1>13, ScanListTakes DEF Moves, Stages
<1>14. CASE RunFind(p)
  BY <1>14, RunFindTakes DEF Moves, Stages
<1>15. ASSUME Takes(p, "run", Between(task[p].runs)), HeldOk("run", Between(task[p].runs), now)
       PROVE  Moves(p)
  BY <1>15 DEF Moves, Stages, Takes
<1>16. CASE RunClaim(p)
  BY <1>15, <1>16, RunClaimTakes, HeldTypes DEF Moves, Stages
<1>17. CASE RunRecord(p)
  BY <1>15, <1>17, RunRecordTakes
<1>18. CASE ScanUnlock(p)
  BY <1>18, FinishTakes, IdleMoves DEF ScanUnlock
<1> QED  BY <1>1, <1>2, <1>3, <1>4, <1>5, <1>6, <1>7, <1>8, <1>9, <1>10, <1>11, <1>12, <1>13, <1>14,
            <1>16, <1>17, <1>18 DEF Goes

\* So does every failure.
LEMMA StumblesMoves ==
    ASSUME JobInv, NEW p \in Executions, Stumbles(p)
    PROVE  Moves(p)
<1>1. CASE AcknowledgeSome(p)
  BY <1>1, AcknowledgeTakes DEF Moves, Stages
<1>2. CASE Refuse(p)
  BY <1>2, RefuseTakes, IdleMoves, HeldTypes DEF Moves, Stages
<1>3. CASE Refund(p)
  BY <1>3, RefundTakes, SettlesMoves
<1>4. CASE SaveFails(p)
  BY <1>4, SaveFailsTakes, SettlesMoves
<1>5. CASE Die(p)
  BY <1>5, FinishTakes, IdleMoves DEF Die
<1> QED  BY <1>1, <1>2, <1>3, <1>4, <1>5 DEF Stumbles

\* Whoever moves, all executions hold what they may.
LEMMA MovesJobs ==
    ASSUME JobInv, NEW p \in Executions, Moves(p) \/ UNCHANGED <<stage, task>>, now' \in Nat, now' >= now
    PROVE  /\ stage' \in [Executions -> Stages] /\ task' \in [Executions -> Held]
           /\ \A q \in Executions : HeldOk(stage'[q], task'[q], now')
           /\ \A q \in Executions : task'[q].who = "none" <=> stage'[q] = "idle"
<1>1. stage \in [Executions -> Stages] /\ task \in [Executions -> Held] /\ \A q \in Executions : HeldOk(stage[q], task[q], now)
  BY DEF JobInv, RenewalTypes
<1>2. ASSUME NEW l, NEW j, HeldOk(l, j, now)
      PROVE  HeldOk(l, j, now')
  <2>1. now \in Nat /\ 0..now \subseteq 0..now'
    BY HeldTypes
  <2> QED  BY <1>2, <2>1 DEF HeldOk
<1>3. stage' \in [Executions -> Stages] /\ task' \in [Executions -> Held] /\ \A q \in Executions : HeldOk(stage'[q], task'[q], now)
  BY <1>1 DEF Moves, Takes
<1>4. \A q \in Executions : task'[q].who = "none" <=> stage'[q] = "idle"
  <2>1. ASSUME NEW q \in Executions PROVE task'[q].who = "none" <=> stage'[q] = "idle"
    <3>1. HeldOk(stage'[q], task'[q], now) /\ task'[q] \in Held
      BY <1>3
    <3>2. task'[q].who \in Askers
      BY <3>1 DEF Held
    <3>3. stage'[q] \in Ways(task'[q].who)
      BY <3>1 DEF HeldOk
    <3> QED  BY <3>2, <3>3 DEF Ways, Askers
  <2> QED  BY <2>1
<1> QED  BY <1>2, <1>3, <1>4

\* The types of all that is not held by an execution.
Fields ==
    /\ now \in 0..MaxDay /\ fired \in 0..Instances
    /\ order \in [Orders -> Document] /\ open \in [Orders -> BOOLEAN]
    /\ live \in [Orders -> SUBSET Slots] /\ remote \in [Orders -> [Slots -> Nat]]
    /\ wallet \in Nat /\ booked \in Nat
    /\ selection \in [Selections -> [state: {"none", "saved", "deleted"},
                                      auto: BOOLEAN, last: Runs]]
    /\ scanLock \in Executions \cup {None} /\ dayLocks \subseteq Selections \X (0..MaxDay)
    /\ Counters

\* JobInv, by what the documents hold and what the executions hold.
LEMMA JobIsTyped ==
    JobInv <=> /\ Fields /\ stage \in [Executions -> Stages] /\ task \in [Executions -> Held]
               /\ \A p \in Executions : HeldOk(stage[p], task[p], now)
               /\ \A p \in Executions : task[p].who = "none" <=> stage[p] = "idle"
  BY DEF JobInv, RenewalTypes, Fields

\* One more, or one less; a set that grows; a mark set.
LEMMA Updates ==
    /\ \A f \in [Orders -> Nat], o \in Orders : [f EXCEPT ![o] = @ + 1] \in [Orders -> Nat]
    /\ \A f \in [Orders -> SUBSET Slots], o \in Orders, s \in SUBSET Slots :
          [f EXCEPT ![o] = @ \cup s] \in [Orders -> SUBSET Slots]
    /\ \A f \in [Orders -> BOOLEAN], o \in Orders, b \in BOOLEAN :
          [f EXCEPT ![o] = b] \in [Orders -> BOOLEAN]
  OBVIOUS

\* Meets keeps the type of overlap.
LEMMA MeetsTypes ==
    ASSUME Fields, NEW p, NEW orders, Meets(p, orders)
    PROVE  overlap' \in [Orders -> BOOLEAN]
<1>1. overlap \in [Orders -> BOOLEAN]
  BY DEF Fields, Counters
<1>2. \A o \in Orders : overlap'[o] \in BOOLEAN
  BY <1>1, Zenon DEF Meets
<1> QED  BY <1>2 DEF Meets

\* What no step of an execution changes.
LEMMA Typed ==
    ASSUME JobInv
    PROVE  /\ Fields /\ now \in Nat
           /\ now \in 0..MaxDay /\ fired \in 0..Instances
           /\ order \in [Orders -> Document] /\ open \in [Orders -> BOOLEAN]
           /\ live \in [Orders -> SUBSET Slots] /\ remote \in [Orders -> [Slots -> Nat]]
           /\ wallet \in Nat /\ booked \in Nat
           /\ selection \in [Selections -> [state: {"none", "saved", "deleted"},
                                             auto: BOOLEAN, last: Runs]]
           /\ scanLock \in Executions \cup {None} /\ dayLocks \subseteq Selections \X (0..MaxDay)
           /\ troubles \in Nat /\ requests \in Nat /\ drained \in Nat
           /\ dayLocks \subseteq Selections \X (0..now)
           /\ acked \in [Orders -> Nat]
           /\ overlap \in [Orders -> BOOLEAN] /\ unsaved \in [Orders -> BOOLEAN]
           /\ behind \in [Orders -> SUBSET Slots]
           /\ \A o \in Orders : live[o] \subseteq Owned[o]
  BY JobIsTyped, HeldTypes DEF Fields, Counters, JobInv, RenewalTypes

\* Documents that stay keep their types.
LEMMA StillFields ==
    ASSUME Fields, UNCHANGED <<docVars, moneyVars, lockVars, timeVars, histVars, bounds>>
    PROVE  Fields'
  BY DEF Fields, Counters, docVars, moneyVars, lockVars, timeVars, histVars, bounds

\* An edited document is a document.
LEMMA DocumentEdits ==
    ASSUME NEW f \in [Orders -> Document], NEW o \in Orders
    PROVE  /\ \A e \in Int, n \in Nat : [f EXCEPT ![o].end = e, ![o].renews = n] \in [Orders -> Document]
           /\ \A n \in Nat : [f EXCEPT ![o].quantity = n] \in [Orders -> Document]
           /\ \A s \in OrderStatuses : [f EXCEPT ![o].status = s] \in [Orders -> Document]
<1>1. f[o] \in Document
  OBVIOUS
<1>2. ASSUME NEW e \in Int, NEW n \in Nat
      PROVE  [f EXCEPT ![o].end = e, ![o].renews = n] \in [Orders -> Document]
  <2>1. [f[o] EXCEPT !.end = e] \in Document
    BY <1>1 DEF Document
  <2>2. [f EXCEPT ![o].end = e] \in [Orders -> Document]
    BY <2>1
  <2>3. [[f EXCEPT ![o].end = e][o] EXCEPT !.renews = n] \in Document
    BY <2>1 DEF Document
  <2> QED  BY <2>2, <2>3
<1>3. ASSUME NEW n \in Nat
      PROVE  [f EXCEPT ![o].quantity = n] \in [Orders -> Document]
  <2>1. [f[o] EXCEPT !.quantity = n] \in Document
    BY <1>1 DEF Document
  <2> QED  BY <2>1
<1>4. ASSUME NEW s \in OrderStatuses
      PROVE  [f EXCEPT ![o].status = s] \in [Orders -> Document]
  <2>1. [f[o] EXCEPT !.status = s] \in Document
    BY <1>1 DEF Document
  <2> QED  BY <2>1
<1> QED  BY <1>2, <1>3, <1>4

\* A step of an execution keeps the types of the documents, and the day.
LEMMA GoesFields ==
    ASSUME JobInv, NEW p \in Executions, Goes(p)
    PROVE  Fields' /\ UNCHANGED now
<1>0. Fields
  BY Typed
<1>1. CASE \E o \in Orders, who \in {"user", "admin"} : RenewStart(p, o, who)
  <2>1. PICK o \in Orders, who \in {"user", "admin"} : RenewStart(p, o, who)
    BY <1>1
  <2>2. overlap' \in [Orders -> BOOLEAN]
    BY <1>0, <2>1, MeetsTypes DEF RenewStart
  <2> QED  BY <1>0, <2>1, <2>2 DEF RenewStart, Fields, Counters, docVars, moneyVars, lockVars, timeVars
<1>2. CASE \/ RenewFind(p) \/ BulkSelect(p) \/ BulkLoad(p) \/ BulkWallet(p) \/ ScanList(p)
  BY <1>0, <1>2, StillFields DEF RenewFind, BulkSelect, BulkLoad, BulkWallet, ScanList, timeVars
<1>3. CASE \E picked \in [Orders -> SUBSET Slots] :
             (\A o \in Orders : picked[o] \subseteq Owned[o]) /\ BulkStart(p, picked)
  <2>1. PICK picked \in [Orders -> SUBSET Slots] : BulkStart(p, picked)
    BY <1>3
  <2>2. overlap' \in [Orders -> BOOLEAN]
    BY <1>0, <2>1, MeetsTypes DEF BulkStart
  <2> QED  BY <1>0, <2>1, <2>2 DEF BulkStart, Fields, Counters, docVars, moneyVars, lockVars, timeVars
<1>4. CASE Debit(p)
  <2>1. wallet' \in Nat
    <3>1. ASSUME NEW o \in Orders, NEW j \in Held, j.price = Price(task[p], o), Price(task[p], o) <= wallet,
                 wallet' = wallet - Price(task[p], o)
          PROVE  wallet' \in Nat
      BY <3>1, Typed DEF Held
    <3>2. task[p].todo \subseteq Orders
      BY HeldTypes
    <3> QED  BY <1>4, <3>1, <3>2, DebitTakes, Typed
  <2> QED  BY <1>0, <1>4, <2>1 DEF Debit, Fields, Counters, docVars, lockVars, timeVars, bounds
<1>5. CASE Acknowledge(p)
  <2>1. PICK renewed \in SUBSET WithId(task[p], task[p].at) :
           /\ Extend(task[p].at, renewed) /\ stage[p] = "provider"
           /\ acked' = [acked EXCEPT ![task[p].at] = @ + 1]
           /\ behind' = [behind EXCEPT ![task[p].at] = @ \cup LeftBehind(task[p], task[p].at, renewed)]
    BY <1>5, AcknowledgeTakes
  <2>2. task[p].at \in Orders /\ task[p].picked[task[p].at] \in SUBSET Slots
    BY <2>1, AtHand DEF Hand
  <2>3. LeftBehind(task[p], task[p].at, renewed) \in SUBSET Slots
    BY <2>2, Typed DEF LeftBehind, WithId
  <2>4. acked' \in [Orders -> Nat] /\ behind' \in [Orders -> SUBSET Slots]
        /\ remote' \in [Orders -> [Slots -> Nat]]
    BY <2>1, <2>2, <2>3, Typed, Updates, Extends
  <2> QED  BY <1>0, <1>5, <2>4 DEF Acknowledge, Fields, Counters, moneyVars, lockVars, timeVars, bounds
<1>6. CASE SaveRenewal(p)
  <2>1. task[p].at \in Orders
    BY <1>6, AtHand DEF Hand, SaveRenewal
  <2> DEFINE o == task[p].at
             new == Renewed(task[p], o)
             e == Saved(order[o].end, task[p].docs[o].end, new.end)
             n == Saved(order[o].renews, task[p].docs[o].renews, new.renews)
  <2>2. new \in Document /\ order[o] \in Document /\ task[p].docs[o] \in Document
    BY <2>1, RenewedIs, HeldTypes
  <2>3. e \in Int /\ n \in Nat
    BY <2>2 DEF Saved, Document
  <2>4. order' = [order EXCEPT ![o].end = e, ![o].renews = n]
    BY <1>6, <2>1, SaveTakes
  <2> HIDE DEF e, n
  <2>5. order' \in [Orders -> Document]
    BY <2>1, <2>3, <2>4, Typed, DocumentEdits
  <2>6. booked' \in Nat
    <3>1. booked' = booked + task[p].price
      BY <1>6 DEF SaveRenewal
    <3>2. booked \in Nat /\ task[p].price \in Nat
      BY Typed, HeldTypes
    <3> QED  BY <3>1, <3>2
  <2> QED  BY <1>0, <1>6, <2>5, <2>6 DEF SaveRenewal, Fields, Counters, moneyVars, lockVars, timeVars, bounds
<1>7. CASE Prune(p)
  <2>1. task[p].at \in Orders
    BY <1>7, AtHand DEF Hand, Prune
  <2>2. live' \in [Orders -> SUBSET Slots] /\ \A o \in Orders : live'[o] \subseteq live[o]
    <3>1. live \in [Orders -> SUBSET Slots]
      BY Typed
    <3>2. CASE live' = live
      BY <3>1, <3>2
    <3>3. CASE live' = [live EXCEPT ![task[p].at] = @ \cap task[p].picked[task[p].at]]
      BY <2>1, <3>1, <3>3
    <3> QED  BY <1>7, <3>2, <3>3, PruneTakes
  <2> QED  BY <1>0, <1>7, <2>2 DEF Prune, Fields, Counters, moneyVars, lockVars, timeVars, bounds, histVars
<1>8. CASE PruneCount(p)
  <2>1. task[p].at \in Orders
    BY <1>8, AtHand DEF Hand, PruneCount
  <2> DEFINE o == task[p].at
             n == Saved(order[o].quantity, task[p].docs[o].quantity, Cardinality(live[o]))
  <2>2. order[o] \in Document /\ task[p].docs[o] \in Document /\ IsFiniteSet(live[o])
    BY <2>1, HeldTypes, Typed, ConstantTypes, FS_Subset
  <2>3. n \in Nat
    BY <2>2, FS_CardinalityType DEF Saved, Document
  <2>4. order' = [order EXCEPT ![o].quantity = n]
    BY <1>8, <2>1 DEF PruneCount
  <2> HIDE DEF n
  <2>5. order' \in [Orders -> Document]
    BY <2>1, <2>3, <2>4, Typed, DocumentEdits
  <2> QED  BY <1>0, <1>8, <2>5 DEF PruneCount, Fields, Counters, moneyVars, lockVars, timeVars, bounds, histVars
<1>9. CASE ScanStart(p)
  <2>1. fired' \in 0..Instances /\ scanLock' \in Executions \cup {None}
    BY <1>9, Typed, ConstantTypes DEF ScanStart
  <2> QED  BY <1>0, <1>9, <2>1 DEF ScanStart, Fields, Counters, docVars, moneyVars, bounds, histVars
<1>10. CASE RunFind(p)
  <2>1. overlap' \in [Orders -> BOOLEAN]
    BY <1>0, <1>10, MeetsTypes DEF RunFind, Fields, Counters
  <2> QED  BY <1>0, <1>10, <2>1 DEF RunFind, Fields, Counters, docVars, moneyVars, lockVars, timeVars, bounds
<1>11. CASE RunClaim(p)
  <2>1. stage[p] = "claim" /\ HeldOk(stage[p], task[p], now) /\ task[p].who \in Askers
    BY <1>11, HeldTypes DEF RunClaim
  <2>2. task[p].sel \in Selections /\ task[p].day \in 0..now
    BY <2>1 DEF HeldOk, Ways, Running, Askers
  <2>3. 0..now \subseteq 0..MaxDay
    <3>1. now \in 0..MaxDay /\ MaxDay \in Nat
      BY Typed, ConstantTypes
    <3> QED  BY <3>1
  <2>4. dayLocks' \subseteq Selections \X (0..now)
    <3>1. <<task[p].sel, task[p].day>> \in Selections \X (0..now) /\ dayLocks \subseteq Selections \X (0..now)
      BY <2>2, Typed
    <3>2. dayLocks' \subseteq dayLocks \cup {<<task[p].sel, task[p].day>>}
      BY <1>11 DEF RunClaim
    <3> QED  BY <3>1, <3>2
  <2>5. dayLocks' \subseteq Selections \X (0..MaxDay)
    BY <2>3, <2>4
  <2> QED  BY <1>0, <1>11, <2>4, <2>5 DEF RunClaim, Fields, Counters, docVars, moneyVars, bounds, histVars, timeVars
<1>12. CASE RunRecord(p)
  <2>1. Outcome(task[p].results) \in Runs
    BY DEF Outcome, Runs
  <2>2. selection' \in [Selections -> [state: {"none", "saved", "deleted"}, auto: BOOLEAN, last: Runs]]
    <3> DEFINE sel == task[p].sel
    <3>1. CASE selection' = selection
      BY <3>1, Typed
    <3>2. CASE selection' = [selection EXCEPT ![sel].last = Outcome(task[p].results),
                                ![sel].auto = @ /\ Outcome(task[p].results) # "disabled"]
      <4> DEFINE b == selection[sel].auto /\ Outcome(task[p].results) # "disabled"
                 r == Outcome(task[p].results)
      <4>1. selection' = [selection EXCEPT ![sel].last = r, ![sel].auto = b]
        BY <3>2
      <4>2. b \in BOOLEAN /\ r \in Runs
        BY <2>1
      <4> HIDE DEF b, r
      <4>3. CASE sel \in Selections
        <5> DEFINE T == [state: {"none", "saved", "deleted"}, auto: BOOLEAN, last: Runs]
        <5>1. selection \in [Selections -> T] /\ selection[sel] \in T
          BY <4>3, Typed
        <5>2. [selection[sel] EXCEPT !.last = r] \in T
          BY <4>2, <5>1
        <5>3. [[selection EXCEPT ![sel].last = r][sel] EXCEPT !.auto = b] \in T
          BY <4>2, <4>3, <5>1, <5>2
        <5> QED  BY <4>1, <4>3, <5>1, <5>2, <5>3
      <4>4. CASE sel \notin Selections
        BY <4>1, <4>4, Typed
      <4> QED  BY <4>3, <4>4
    <3> QED  BY <1>12, <3>1, <3>2 DEF RunRecord
  <2> QED  BY <1>0, <1>12, <2>2 DEF RunRecord, Fields, Counters, docVars, moneyVars, bounds, histVars, timeVars
<1>13. CASE ScanUnlock(p)
  BY <1>0, <1>13 DEF ScanUnlock, Fields, Counters, docVars, moneyVars, bounds, histVars, timeVars
<1> QED  BY <1>1, <1>2, <1>3, <1>4, <1>5, <1>6, <1>7, <1>8, <1>9, <1>10, <1>11, <1>12, <1>13 DEF Goes

\* What an execution has in hand is an amount.
LEMMA HandTypes ==
    ASSUME JobInv, NEW p \in Executions
    PROVE  InHand(p) \in Nat
  BY HeldTypes DEF InHand

\* A failure keeps the types of the documents, and the day.
LEMMA StumblesFields ==
    ASSUME JobInv, NEW p \in Executions, Stumbles(p)
    PROVE  Fields' /\ UNCHANGED now
<1>0. Fields /\ troubles + 1 \in Nat
  BY Typed
<1>1. CASE AcknowledgeSome(p)
  <2>1. PICK renewed \in SUBSET WithId(task[p], task[p].at) :
           /\ Extend(task[p].at, renewed) /\ stage[p] = "provider"
           /\ acked' = [acked EXCEPT ![task[p].at] = @ + 1]
           /\ behind' = [behind EXCEPT ![task[p].at] = @ \cup LeftBehind(task[p], task[p].at, renewed)]
    BY <1>1, AcknowledgeTakes
  <2>2. task[p].at \in Orders /\ task[p].picked[task[p].at] \in SUBSET Slots
    BY <2>1, AtHand DEF Hand
  <2>3. LeftBehind(task[p], task[p].at, renewed) \in SUBSET Slots
    BY <2>2, Typed DEF LeftBehind, WithId
  <2>4. acked' \in [Orders -> Nat] /\ behind' \in [Orders -> SUBSET Slots]
        /\ remote' \in [Orders -> [Slots -> Nat]]
    BY <2>1, <2>2, <2>3, Typed, Updates, Extends
  <2> QED  BY <1>0, <1>1, <2>4 DEF AcknowledgeSome, Fields, Counters, moneyVars, lockVars, timeVars
<1>2. CASE Refuse(p)
  <2>1. task[p].at \in Orders
    BY <1>2, AtHand DEF Hand, Refuse
  <2>2. PICK renewed \in SUBSET WithId(task[p], task[p].at) :
            \/ UNCHANGED <<remote, unsaved, behind>>
            \/ /\ Extend(task[p].at, renewed)
               /\ unsaved' = [unsaved EXCEPT ![task[p].at] = TRUE]
               /\ behind' = [behind EXCEPT ![task[p].at] = @ \cup ((live[task[p].at] \cap Ids[task[p].at]) \ renewed)]
    BY <1>2 DEF Refuse
  <2>3. remote' \in [Orders -> [Slots -> Nat]]
    BY <2>1, <2>2, Typed, Extends
  <2>4. unsaved' \in [Orders -> BOOLEAN]
    BY <2>1, <2>2, Typed, Updates
  <2>5. behind' \in [Orders -> SUBSET Slots]
    <3> DEFINE left == (live[task[p].at] \cap Ids[task[p].at]) \ renewed
    <3>1. left \in SUBSET Slots
      BY <2>1, Typed
    <3>2. behind' = behind \/ behind' = [behind EXCEPT ![task[p].at] = @ \cup left]
      BY <2>2
    <3>3. behind \in [Orders -> SUBSET Slots]
      BY Typed
    <3> HIDE DEF left
    <3>4. [behind EXCEPT ![task[p].at] = @ \cup left] \in [Orders -> SUBSET Slots]
      BY <2>1, <3>1, <3>3, Updates
    <3> QED  BY <3>2, <3>3, <3>4
  <2> QED  BY <1>0, <1>2, <2>3, <2>4, <2>5 DEF Refuse, Fields, Counters, moneyVars, lockVars, timeVars
<1>3. CASE Refund(p)
  <2>1. wallet' \in Nat
    BY <1>3, Typed, HeldTypes DEF Refund
  <2> QED  BY <1>0, <1>3, <2>1 DEF Refund, Fields, Counters, docVars, lockVars, timeVars, histVars, bounds
<1>4. CASE SaveFails(p)
  <2>1. task[p].at \in Orders
    BY <1>4, AtHand DEF Hand, SaveFails
  <2>2. unsaved' \in [Orders -> BOOLEAN]
    BY <1>4, <2>1, Typed, Updates DEF SaveFails
  <2>3. behind' \in [Orders -> SUBSET Slots]
    <3>1. live[task[p].at] \ task[p].picked[task[p].at] \in SUBSET Slots
      BY <2>1, Typed
    <3> QED  BY <1>4, <2>1, <3>1, Typed, Updates DEF SaveFails
  <2>4. drained' \in Nat
    BY <1>4, Typed, HeldTypes DEF SaveFails
  <2> QED  BY <1>0, <1>4, <2>2, <2>3, <2>4 DEF SaveFails, Fields, Counters, docVars, moneyVars, lockVars, timeVars
<1>5. CASE Die(p)
  <2>1. unsaved' \in [Orders -> BOOLEAN]
    <3>1. \A o \in Orders : (unsaved[o] \/ (stage[p] = "save" /\ task[p].at = o)) \in BOOLEAN
      BY Typed
    <3> QED  BY <1>5, <3>1 DEF Die
  <2>2. behind' \in [Orders -> SUBSET Slots]
    BY <1>5, Typed DEF Die
  <2>3. drained' \in Nat
    BY <1>5, Typed, HandTypes DEF Die
  <2> QED  BY <1>0, <1>5, <2>1, <2>2, <2>3 DEF Die, Fields, Counters, docVars, moneyVars, lockVars, timeVars
<1> QED  BY <1>1, <1>2, <1>3, <1>4, <1>5 DEF Stumbles

\* The environment keeps the types of the documents, and the executions.
LEMMA EditsFields ==
    ASSUME JobInv, Environment
    PROVE  /\ Fields' /\ UNCHANGED <<stage, task>>
           /\ now' = now \/ (now' = now + 1 /\ fired' = 0 /\ \A p \in Executions : task[p].who # "auto")
<1> DEFINE T == [state: {"none", "saved", "deleted"}, auto: BOOLEAN, last: Runs]
<1>0. Fields /\ troubles + 1 \in Nat
  BY Typed
<1>1. ASSUME NEW s \in Selections, CreateSelection(s) \/ SwitchSchedule(s) \/ DeleteSelection(s)
      PROVE  Fields' /\ UNCHANGED <<stage, task, now>>
  <2>0. selection \in [Selections -> T] /\ selection[s] \in T
    BY Typed
  <2>1. selection' \in [Selections -> T]
    <3>1. CASE CreateSelection(s)
      <4>1. [selection[s] EXCEPT !.state = "saved"] \in T
        BY <2>0
      <4> QED  BY <2>0, <3>1, <4>1 DEF CreateSelection
    <3>2. CASE SwitchSchedule(s)
      <4> DEFINE b == ~selection[s].auto
      <4>1. selection' = [selection EXCEPT ![s].auto = b, ![s].last = "none"] /\ b \in BOOLEAN
        BY <3>2 DEF SwitchSchedule
      <4> HIDE DEF b
      <4>2. [selection[s] EXCEPT !.auto = b] \in T
        BY <2>0, <4>1
      <4>3. [[selection EXCEPT ![s].auto = b][s] EXCEPT !.last = "none"] \in T
        BY <2>0, <4>2 DEF Runs
      <4> QED  BY <2>0, <4>1, <4>2, <4>3
    <3>3. CASE DeleteSelection(s)
      <4>1. [state |-> "deleted", auto |-> FALSE, last |-> "none"] \in T
        BY DEF Runs
      <4> QED  BY <2>0, <3>3, <4>1 DEF DeleteSelection
    <3> QED  BY <1>1, <3>1, <3>2, <3>3
  <2> HIDE DEF T
  <2>2. troubles' \in Nat
    BY <1>0, <1>1, Typed DEF CreateSelection, SwitchSchedule, DeleteSelection, bounds
  <2> QED  BY <1>0, <1>1, <2>1, <2>2 DEF CreateSelection, SwitchSchedule, DeleteSelection, Fields, Counters,
                docVars, moneyVars, timeVars, histVars, bounds, T
<1>2. ASSUME NEW o \in Orders, SwitchPartner(o)
      PROVE  Fields' /\ UNCHANGED <<stage, task, now>>
  <2>1. open' \in [Orders -> BOOLEAN]
    BY <1>2, Typed DEF SwitchPartner
  <2> QED  BY <1>0, <1>2, <2>1 DEF SwitchPartner, Fields, Counters, moneyVars, timeVars, histVars, lockVars
<1>3. ASSUME NEW o \in Orders, Expire(o)
      PROVE  Fields' /\ UNCHANGED <<stage, task, now>>
  <2>1. order' \in [Orders -> Document]
    BY <1>3, Typed, DocumentEdits DEF Expire, OrderStatuses
  <2>2. overlap' \in [Orders -> BOOLEAN]
    <3> DEFINE b == overlap[o] \/ \E p \in Executions : o \in Engaged(task[p])
    <3>1. overlap' = [overlap EXCEPT ![o] = b] /\ b \in BOOLEAN
      BY <1>3 DEF Expire
    <3> HIDE DEF b
    <3> QED  BY <3>1, Typed, Updates
  <2> QED  BY <1>0, <1>3, <2>1, <2>2 DEF Expire, Fields, Counters, moneyVars, timeVars, lockVars, bounds
<1>4. CASE NextDay
  <2>1. now' \in 0..MaxDay /\ now' = now + 1 /\ fired' \in 0..Instances
    BY <1>4, Typed, ConstantTypes DEF NextDay
  <2>2. dayLocks' \subseteq Selections \X (0..now')
    <3>1. 0..now \subseteq 0..now'
      BY <2>1, Typed
    <3>2. dayLocks \subseteq Selections \X (0..now) /\ dayLocks' = dayLocks
      BY <1>4, Typed DEF NextDay, lockVars
    <3> QED  BY <3>1, <3>2
  <2> QED  BY <1>0, <1>4, <2>1, <2>2 DEF NextDay, Fields, Counters, docVars, moneyVars, histVars, lockVars, bounds
<1>5. CASE LockLapse
  <2>1. troubles' \in Nat
    BY <1>0, <1>5, Typed DEF LockLapse
  <2> QED  BY <1>0, <1>5, <2>1 DEF LockLapse, Fields, Counters, docVars, moneyVars, histVars, timeVars
<1> QED  BY <1>1, <1>2, <1>3, <1>4, <1>5 DEF Environment

\* At the start nothing is executed.
LEMMA InitJobs == RenewalInit => JobInv
<1> SUFFICES ASSUME RenewalInit PROVE JobInv
  OBVIOUS
<1>1. order \in [Orders -> Document]
  <2>1. \A o \in Orders : Cardinality(Owned[o]) \in Nat
    BY ConstantTypes, FS_CardinalityType
  <2> QED  BY <2>1, ConstantTypes DEF RenewalInit, Document, OrderStatuses
<1>2. Fields
  <2>1. remote \in [Orders -> [Slots -> Nat]] /\ live \in [Orders -> SUBSET Slots] /\ now \in 0..MaxDay /\ fired \in 0..Instances
    BY ConstantTypes DEF RenewalInit
  <2>2. selection \in [Selections -> [state: {"none", "saved", "deleted"}, auto: BOOLEAN, last: Runs]]
    <3> DEFINE T == [state: {"none", "saved", "deleted"}, auto: BOOLEAN, last: Runs]
               S == {[state |-> "none", auto |-> FALSE, last |-> "none"],
                     [state |-> "saved", auto |-> TRUE, last |-> "none"]}
    <3>1. S \subseteq T /\ selection \in [Selections -> S]
      BY DEF RenewalInit, Runs
    <3> HIDE DEF S, T
    <3>2. selection \in [Selections -> T]
      BY <3>1
    <3> QED  BY <3>2 DEF T
  <2>3. behind \in [Orders -> SUBSET Slots]
    BY DEF RenewalInit, NoProxies
  <2> QED  BY <1>1, <2>1, <2>2, <2>3, ConstantTypes DEF RenewalInit, Fields, Counters
<1>3. \A p \in Executions : HeldOk(stage[p], task[p], now) /\ task[p].who = "none" /\ stage[p] = "idle"
  BY IdleIsHeld DEF RenewalInit, Idle
<1>4. stage \in [Executions -> Stages] /\ task \in [Executions -> Held]
  BY IdleIsHeld DEF RenewalInit, Stages
<1> QED  BY <1>2, <1>3, <1>4, JobIsTyped

\* Every step keeps documents and executions well formed (RenewalTypes).
LEMMA NextJobs == JobInv /\ [RenewalNext]_renewalVars => JobInv'
<1> SUFFICES ASSUME JobInv, [RenewalNext]_renewalVars PROVE JobInv'
  OBVIOUS
<1>1. ASSUME NEW p \in Executions, Goes(p) \/ Stumbles(p)
      PROVE  JobInv'
  <2>1. Fields' /\ now' = now
    BY <1>1, GoesFields, StumblesFields
  <2>2. Moves(p) \/ UNCHANGED <<stage, task>>
    BY <1>1, GoesMoves, StumblesMoves
  <2>3. now' \in Nat /\ now' >= now
    BY <2>1, Typed
  <2> QED  BY <2>1, <2>2, <2>3, MovesJobs DEF JobInv, RenewalTypes, Fields
<1>2. CASE Environment
  <2>1. Fields' /\ UNCHANGED <<stage, task>> /\ (now' = now \/ now' = now + 1)
    BY <1>2, EditsFields
  <2>2. now' \in Nat /\ now' >= now
    BY <2>1, Typed
  <2>3. /\ stage' \in [Executions -> Stages] /\ task' \in [Executions -> Held]
        /\ \A q \in Executions : HeldOk(stage'[q], task'[q], now')
        /\ \A q \in Executions : task'[q].who = "none" <=> stage'[q] = "idle"
    <3>1. CASE \E p \in Executions : TRUE
      BY <2>1, <2>2, <3>1, MovesJobs
    <3>2. CASE ~\E p \in Executions : TRUE
      BY <2>1, <3>2 DEF JobInv, RenewalTypes
    <3> QED  BY <3>1, <3>2
  <2> QED  BY <2>1, <2>3 DEF JobInv, RenewalTypes, Fields
<1>3. CASE UNCHANGED renewalVars
  BY <1>3 DEF renewalVars, docVars, moneyVars, lockVars, timeVars, histVars, bounds, JobInv, RenewalTypes, Counters
<1> QED  BY <1>1, <1>2, <1>3, NextGoes

-----------------------------------------------------------------------------
(* Once a day.                                                             *)

\* An automatic run that holds the day of its selection.
Charging(p) == task[p].who = "auto" /\ stage[p] \in Past
Key(p) == <<task[p].sel, task[p].day>>

\* Debits need the day, which one run holds, and each order is debited by it once.
DayInv ==
    /\ charged \in [Selections -> [0..MaxDay -> [Orders -> Nat]]]
    /\ OncePerDay
    /\ \A s \in Selections, d \in 0..MaxDay, o \in Orders : charged[s][d][o] # 0 => <<s, d>> \in dayLocks
    /\ \A p \in Executions : Charging(p) =>
          /\ Key(p) \in dayLocks
          /\ \A o \in Orders : stage[p] \in {"select", "load"} \/ o \in task[p].todo
                               => charged[task[p].sel][task[p].day][o] = 0
    /\ \A p, q \in Executions : Charging(p) /\ Charging(q) /\ Key(p) = Key(q) => p = q

\* An automatic run has a selection and a day.
LEMMA ChargingTypes ==
    ASSUME JobInv, NEW p \in Executions, task[p].who = "auto", stage[p] \in Running
    PROVE  task[p].sel \in Selections /\ task[p].day \in 0..MaxDay /\ task[p].day \in 0..now
<1>1. HeldOk(stage[p], task[p], now) /\ now \in 0..MaxDay /\ MaxDay \in Nat
  BY HeldTypes, Typed, ConstantTypes
<1>2. task[p].sel \in Selections /\ task[p].day \in 0..now
  BY <1>1 DEF HeldOk
<1> QED  BY <1>1, <1>2

\* Execution p keeps its run, and takes no order on.
Continues(p, l, j) ==
    j.who = "auto" /\ l \in Past =>
        /\ Charging(p) /\ j.sel = task[p].sel /\ j.day = task[p].day
        /\ l \in {"select", "load"} => stage[p] \in {"select", "load"}
        /\ \A o \in j.todo : stage[p] \in {"select", "load"} \/ o \in task[p].todo

Quiet(p) == \E l \in Stages, j \in Held : Takes(p, l, j) /\ Continues(p, l, j)

\* A step that debits nothing keeps the days.
LEMMA QuietDay ==
    ASSUME JobInv, DayInv, NEW p \in Executions, Quiet(p), charged' = charged, dayLocks \subseteq dayLocks'
    PROVE  DayInv'
<1>1. PICK l \in Stages, j \in Held : Takes(p, l, j) /\ Continues(p, l, j)
  BY DEF Quiet
<1>2. \A q \in Executions : Charging(q)' =>
         /\ Charging(q) /\ task'[q].sel = task[q].sel /\ task'[q].day = task[q].day
         /\ \A o \in Orders : stage'[q] \in {"select", "load"} \/ o \in task'[q].todo
                              => stage[q] \in {"select", "load"} \/ o \in task[q].todo
  BY <1>1 DEF Takes, Continues, Charging
<1>3. \A q \in Executions : Charging(q)' => Charging(q) /\ Key(q)' = Key(q)
  BY <1>2 DEF Key
<1>4. /\ charged' \in [Selections -> [0..MaxDay -> [Orders -> Nat]]]
      /\ OncePerDay'
      /\ \A s \in Selections, d \in 0..MaxDay, o \in Orders : charged'[s][d][o] # 0 => <<s, d>> \in dayLocks'
  BY DEF DayInv, OncePerDay
<1>5. \A q \in Executions : Charging(q)' =>
          /\ Key(q)' \in dayLocks'
          /\ \A o \in Orders : stage'[q] \in {"select", "load"} \/ o \in task'[q].todo
                               => charged'[task'[q].sel][task'[q].day][o] = 0
  BY <1>2, <1>3 DEF DayInv
<1>6. \A q, r \in Executions : Charging(q)' /\ Charging(r)' /\ Key(q)' = Key(r)' => q = r
  BY <1>3 DEF DayInv
<1> QED  BY <1>4, <1>5, <1>6 DEF DayInv

\* An execution that claims nothing debits nothing.
LEMMA IdleQuiet ==
    ASSUME JobInv, NEW p \in Executions, NEW l \in Stages \ Past, NEW j \in Held, Takes(p, l, j)
    PROVE  Quiet(p)
  BY DEF Quiet, Continues

\* Settling an order is quiet.
LEMMA SettlesQuiet ==
    ASSUME JobInv, NEW p \in Executions, stage[p] \in Renewing, NEW r, NEW todo \in SUBSET task[p].todo, Settles(p, r, todo)
    PROVE  Quiet(p)
<1>0. task[p].who = "auto" => Charging(p)
  BY HeldTypes DEF HeldOk, Ways, Renewing, Charging, Past
<1>1. CASE Takes(p, "idle", Idle)
  BY <1>1, IdleQuiet, IdleIsHeld DEF Stages, Past
<1>2. ASSUME NEW l \in {"record", "debit"}, NEW j \in Held, Takes(p, l, j), Keeps(task[p], j), j.todo = todo
      PROVE  Quiet(p)
  <2>1. Continues(p, l, j)
    BY <1>0, <1>2 DEF Continues, Keeps
  <2> QED  BY <1>2, <2>1 DEF Quiet, Stages
<1> QED  BY <1>1, <1>2 DEF Settles

\* Failing is quiet.
LEMMA FailsQuiet ==
    ASSUME JobInv, NEW p \in Executions, stage[p] \in {"select", "load", "wallet"}, NEW r, Fails(p, r)
    PROVE  Quiet(p)
<1>1. CASE Takes(p, "idle", Idle)
  BY <1>1, IdleQuiet, IdleIsHeld DEF Stages, Past
<1>2. ASSUME NEW j \in Held, Takes(p, "record", j), Keeps(task[p], j), j.who = "auto", j.todo = task[p].todo
      PROVE  Quiet(p)
  <2>1. Continues(p, "record", j)
    BY <1>2 DEF Continues, Keeps, Charging, Past
  <2> QED  BY <1>2, <2>1 DEF Quiet, Stages
<1> QED  BY <1>1, <1>2 DEF Fails

\* A run that stays on its selection and day is quiet.
LEMMA StaysQuiet ==
    ASSUME JobInv, NEW p \in Executions, stage[p] \in Past, NEW l \in Stages \ {"select", "load"}, NEW j \in Held, Takes(p, l, j),
           j.who = task[p].who /\ j.sel = task[p].sel /\ j.day = task[p].day /\ j.todo \subseteq task[p].todo
    PROVE  Quiet(p)
<1>1. Continues(p, l, j)
  BY DEF Continues, Charging
<1> QED  BY <1>1 DEF Quiet

\* The days change hands when a run claims one, and the debits when a run makes one.
LEMMA GoesQuiet ==
    ASSUME JobInv, NEW p \in Executions, Goes(p), ~Debit(p), ~RunClaim(p)
    PROVE  (Quiet(p) \/ UNCHANGED <<stage, task>>) /\ UNCHANGED <<charged, dayLocks>>
<1>1. CASE \E o \in Orders, who \in {"user", "admin"} : RenewStart(p, o, who)
  <2>1. PICK o \in Orders, who \in {"user", "admin"} : RenewStart(p, o, who)
    BY <1>1
  <2>2. Takes(p, "find", Opened(o, who))
    BY <2>1, RenewStartTakes
  <2>3. Opened(o, who) \in Held
    BY <2>2 DEF Takes
  <2> QED  BY <2>1, <2>2, <2>3, IdleQuiet DEF Stages, Past, RenewStart, lockVars
<1>2. CASE RenewFind(p)
  <2>1. ASSUME Takes(p, "idle", Idle) PROVE Quiet(p)
    BY <2>1, IdleQuiet, IdleIsHeld DEF Stages, Past
  <2>2. ASSUME NEW l \in {"debit", "provider"}, NEW j \in Held, Takes(p, l, j), j.who # "auto"
        PROVE  Quiet(p)
    BY <2>2 DEF Quiet, Continues, Stages
  <2>3. Quiet(p)
    BY <1>2, <2>1, <2>2, RenewFindTakes
  <2> QED  BY <1>2, <2>3 DEF RenewFind, lockVars, histVars
<1>3. CASE \E picked \in [Orders -> SUBSET Slots] :
             (\A o \in Orders : picked[o] \subseteq Owned[o]) /\ BulkStart(p, picked)
  <2>1. PICK picked \in [Orders -> SUBSET Slots] :
             (\A o \in Orders : picked[o] \subseteq Owned[o]) /\ BulkStart(p, picked)
    BY <1>3
  <2>2. PICK j \in Held : Takes(p, "select", j) /\ j.who = "bulk"
    BY <2>1, BulkStartTakes
  <2>3. Quiet(p)
    BY <2>2 DEF Quiet, Continues, Stages
  <2> QED  BY <2>1, <2>3 DEF BulkStart, lockVars
<1>4. CASE BulkSelect(p)
  <2>1. stage[p] = "select" /\ UNCHANGED <<charged, dayLocks>>
    BY <1>4 DEF BulkSelect, lockVars, histVars
  <2>2. ASSUME NEW j \in Held, Takes(p, "load", j), j.who = task[p].who /\ j.sel = task[p].sel /\ j.day = task[p].day
        PROVE  Quiet(p)
    <3>1. Continues(p, "load", j)
      BY <2>1, <2>2 DEF Continues, Charging, Past
    <3> QED  BY <2>2, <3>1 DEF Quiet, Stages
  <2> QED  BY <1>4, <2>1, <2>2, BulkSelectTakes, FailsQuiet
<1>5. CASE BulkLoad(p)
  <2>1. stage[p] = "load" /\ UNCHANGED <<charged, dayLocks>>
    BY <1>5 DEF BulkLoad, lockVars, histVars
  <2>2. ASSUME NEW j \in Held, Takes(p, "wallet", j), j.who = task[p].who /\ j.sel = task[p].sel /\ j.day = task[p].day
        PROVE  Quiet(p)
    <3>1. Continues(p, "wallet", j)
      BY <2>1, <2>2 DEF Continues, Charging, Past
    <3> QED  BY <2>2, <3>1 DEF Quiet, Stages
  <2> QED  BY <1>5, <2>1, <2>2, BulkLoadTakes, FailsQuiet
<1>6. CASE BulkWallet(p)
  <2>1. stage[p] = "wallet" /\ UNCHANGED <<charged, dayLocks>>
    BY <1>6 DEF BulkWallet, lockVars, histVars
  <2> QED  BY <1>6, <2>1, BulkWalletTakes, FailsQuiet, StaysQuiet, HeldTypes DEF Past, Stages
<1>7. CASE Acknowledge(p)
  <2>1. stage[p] = "provider" /\ UNCHANGED <<charged, dayLocks>>
    BY <1>7 DEF Acknowledge, lockVars
  <2>2. PICK j \in Held : Takes(p, "save", j) /\ Stays(task[p], j)
    BY <1>7, AcknowledgeTakes
  <2>3. Quiet(p)
    BY <2>1, <2>2, StaysQuiet DEF Past, Stages, Stays, Keeps
  <2> QED  BY <2>1, <2>3
<1>8. CASE SaveRenewal(p)
  <2>1. stage[p] = "save" /\ UNCHANGED <<charged, dayLocks>>
    BY <1>8 DEF SaveRenewal, lockVars
  <2>2. ASSUME NEW r, Settles(p, r, task[p].todo)
        PROVE  Quiet(p)
    BY <2>1, <2>2, SettlesQuiet DEF Renewing
  <2>3. ASSUME NEW j \in Held, Takes(p, "prune", j) PROVE Quiet(p)
    BY <2>3, IdleQuiet DEF Stages, Past
  <2> QED  BY <1>8, <2>1, <2>2, <2>3, SaveTakes
<1>9. CASE Prune(p) \/ PruneCount(p)
  <2>1. stage[p] \in {"prune", "count"} /\ UNCHANGED <<charged, dayLocks>>
    BY <1>9 DEF Prune, PruneCount, lockVars, histVars
  <2>2. ASSUME Settles(p, "renewed", task[p].todo)
        PROVE  Quiet(p)
    BY <2>1, <2>2, SettlesQuiet DEF Renewing
  <2>3. ASSUME Takes(p, "count", task[p]) PROVE Quiet(p)
    BY <2>3, IdleQuiet, HeldTypes DEF Stages, Past
  <2> QED  BY <1>9, <2>1, <2>2, <2>3, PruneTakes, PruneCountTakes
<1>10. CASE ScanStart(p)
  <2>1. CASE Takes(p, "list", Between({}))
    BY <1>10, <2>1, IdleQuiet DEF Stages, Past, Takes, ScanStart, histVars
  <2> QED  BY <1>10, <2>1, ScanStartTakes DEF ScanStart, histVars
<1>11. CASE ScanList(p)
  <2>1. UNCHANGED <<charged, dayLocks>>
    BY <1>11 DEF ScanList, lockVars, histVars
  <2> QED  BY <1>11, <2>1, ScanListTakes, IdleQuiet DEF Stages, Past
<1>12. CASE RunFind(p)
  <2>1. UNCHANGED <<charged, dayLocks>>
    BY <1>12 DEF RunFind, lockVars
  <2>2. PICK l \in {"run", "claim"}, j \in Held : Takes(p, l, j)
    BY <1>12, RunFindTakes
  <2>3. Quiet(p)
    BY <2>2, IdleQuiet DEF Stages, Past
  <2> QED  BY <2>1, <2>3
<1>13. CASE RunRecord(p)
  <2>1. UNCHANGED <<charged, dayLocks>>
    BY <1>13 DEF RunRecord, histVars
  <2> QED  BY <1>13, <2>1, RunRecordTakes, IdleQuiet DEF Stages, Past, Takes
<1>14. CASE ScanUnlock(p)
  <2>1. UNCHANGED <<charged, dayLocks>>
    BY <1>14 DEF ScanUnlock, histVars
  <2> QED  BY <1>14, <2>1, FinishTakes, IdleQuiet, IdleIsHeld DEF ScanUnlock, Stages, Past
<1> QED  BY <1>1, <1>2, <1>3, <1>4, <1>5, <1>6, <1>7, <1>8, <1>9, <1>10, <1>11, <1>12, <1>13, <1>14 DEF Goes

\* Failures debit nothing and claim nothing.
LEMMA StumblesQuiet ==
    ASSUME JobInv, NEW p \in Executions, Stumbles(p)
    PROVE  Quiet(p) /\ UNCHANGED <<charged, dayLocks>>
<1>1. UNCHANGED <<charged, dayLocks>>
  BY DEF Stumbles, AcknowledgeSome, Refuse, Refund, SaveFails, Die, lockVars, histVars
<1>2. CASE AcknowledgeSome(p)
  <2>1. stage[p] = "provider"
    BY <1>2 DEF AcknowledgeSome
  <2>2. PICK j \in Held : Takes(p, "save", j) /\ Stays(task[p], j)
    BY <1>2, AcknowledgeTakes
  <2> QED  BY <1>1, <2>1, <2>2, StaysQuiet DEF Past, Stages, Stays, Keeps
<1>3. CASE Refuse(p)
  <2>1. stage[p] = "provider"
    BY <1>3 DEF Refuse
  <2>2. ASSUME Takes(p, "idle", Idle) PROVE Quiet(p)
    BY <2>2, IdleQuiet, IdleIsHeld DEF Stages, Past
  <2>3. ASSUME Takes(p, "refund", task[p]) PROVE Quiet(p)
    BY <2>1, <2>3, StaysQuiet, HeldTypes DEF Past, Stages
  <2> QED  BY <1>1, <1>3, <2>2, <2>3, RefuseTakes
<1>4. CASE Refund(p)
  BY <1>1, <1>4, RefundTakes, SettlesQuiet DEF Refund, Renewing
<1>5. CASE SaveFails(p)
  BY <1>1, <1>5, SaveFailsTakes, SettlesQuiet DEF SaveFails, Renewing
<1>6. CASE Die(p)
  BY <1>1, <1>6, FinishTakes, IdleQuiet, IdleIsHeld DEF Die, Stages, Past
<1> QED  BY <1>2, <1>3, <1>4, <1>5, <1>6 DEF Stumbles

\* One run claims a selection for a day.
LEMMA ClaimDay ==
    ASSUME JobInv, DayInv, NEW p \in Executions, RunClaim(p)
    PROVE  DayInv'
<1>0. charged' = charged /\ stage[p] = "claim"
  BY DEF RunClaim, histVars
<1>1. CASE Takes(p, "run", Between(task[p].runs)) /\ dayLocks' = dayLocks
  BY <1>0, <1>1, IdleQuiet, QuietDay DEF Takes, Stages, Past
<1>2. CASE /\ Key(p) \notin dayLocks /\ dayLocks' = dayLocks \cup {Key(p)}
           /\ Takes(p, "select", task[p]) /\ task[p].todo = {}
  <2>1. /\ stage'[p] = "select" /\ task'[p] = task[p]
        /\ \A q \in Executions \ {p} : stage'[q] = stage[q] /\ task'[q] = task[q]
    BY <1>2 DEF Takes
  <2>2. \A q \in Executions : Key(q)' = Key(q) /\ task'[q] = task[q]
    BY <2>1 DEF Key
  <2>3. \A q \in Executions \ {p} : Charging(q)' <=> Charging(q)
    BY <2>1 DEF Charging
  <2>4. /\ charged' \in [Selections -> [0..MaxDay -> [Orders -> Nat]]]
        /\ OncePerDay'
        /\ \A s \in Selections, d \in 0..MaxDay, o \in Orders : charged'[s][d][o] # 0 => <<s, d>> \in dayLocks'
    BY <1>0, <1>2 DEF DayInv, OncePerDay
  <2>5. ASSUME NEW q \in Executions, Charging(q)'
        PROVE  /\ Key(q)' \in dayLocks'
               /\ \A o \in Orders : stage'[q] \in {"select", "load"} \/ o \in task'[q].todo
                                    => charged'[task'[q].sel][task'[q].day][o] = 0
    <3>1. CASE q = p
      <4>1. task[p].who = "auto"
        BY <2>1, <2>5, <3>1 DEF Charging
      <4>2. task[p].sel \in Selections /\ task[p].day \in 0..MaxDay
        BY <1>0, <4>1, ChargingTypes DEF Running
      <4>3. \A o \in Orders : charged[task[p].sel][task[p].day][o] = 0
        BY <1>2, <4>2 DEF DayInv, Key
      <4> QED  BY <1>0, <1>2, <2>2, <3>1, <4>3
    <3>2. CASE q # p
      BY <1>0, <1>2, <2>1, <2>2, <2>3, <2>5, <3>2 DEF DayInv
    <3> QED  BY <3>1, <3>2
  <2>6. ASSUME NEW q \in Executions, NEW r \in Executions, Charging(q)', Charging(r)', Key(q)' = Key(r)'
        PROVE  q = r
    <3>1. \A x \in Executions \ {p} : Charging(x)' => Key(x)' # Key(p)'
      BY <1>2, <2>2, <2>3 DEF DayInv
    <3>2. CASE q # p /\ r # p
      BY <2>2, <2>3, <2>6, <3>2 DEF DayInv
    <3> QED  BY <2>6, <3>1, <3>2
  <2> QED  BY <2>4, <2>5, <2>6 DEF DayInv
<1> QED  BY <1>1, <1>2, RunClaimTakes DEF Key

\* The run that claimed it debits each of its orders once.
LEMMA DebitDay ==
    ASSUME JobInv, DayInv, NEW p \in Executions, Debit(p)
    PROVE  DayInv'
<1>0. stage[p] = "debit" /\ dayLocks' = dayLocks /\ task[p].todo \subseteq Orders
  BY HeldTypes DEF Debit, lockVars
<1>1. PICK o \in task[p].todo :
        \/ /\ Settles(p, "failed", task[p].todo \ {o}) \/ Settles(p, "broke", task[p].todo \ {o})
           /\ charged' = charged
        \/ \E j \in Held :
              /\ Takes(p, "provider", j) /\ Keeps(task[p], j)
              /\ j.todo = task[p].todo \ {o}
              /\ charged' = IF task[p].who = "auto"
                            THEN [charged EXCEPT ![task[p].sel][task[p].day][o] = @ + 1]
                            ELSE charged
  BY DebitTakes
<1>2. CASE charged' = charged
  <2>1. ASSUME NEW r, Settles(p, r, task[p].todo \ {o}) PROVE Quiet(p)
    BY <1>0, <2>1, SettlesQuiet DEF Renewing
  <2>2. ASSUME NEW j \in Held, Takes(p, "provider", j), Keeps(task[p], j), j.todo = task[p].todo \ {o} PROVE Quiet(p)
    BY <1>0, <2>2, StaysQuiet DEF Keeps, Stages, Past
  <2>3. Quiet(p)
    BY <1>1, <2>1, <2>2
  <2> QED  BY <1>0, <1>2, <2>3, QuietDay
<1>3. CASE task[p].who = "auto" /\ charged' # charged
  <2>1. PICK j \in Held :
              /\ Takes(p, "provider", j) /\ Keeps(task[p], j)
              /\ j.todo = task[p].todo \ {o}
              /\ charged' = [charged EXCEPT ![task[p].sel][task[p].day][o] = @ + 1]
    BY <1>1, <1>3
  <2> DEFINE s == task[p].sel
             d == task[p].day
  <2>2. s \in Selections /\ d \in 0..MaxDay /\ o \in Orders /\ Charging(p)
    BY <1>0, <1>1, <1>3, ChargingTypes DEF Running, Past, Charging
  <2>3. charged[s][d][o] = 0 /\ <<s, d>> \in dayLocks /\ charged \in [Selections -> [0..MaxDay -> [Orders -> Nat]]]
    BY <1>1, <2>2 DEF DayInv, Key
  <2>4. /\ charged' \in [Selections -> [0..MaxDay -> [Orders -> Nat]]]
        /\ charged'[s][d][o] = 1
        /\ \A t \in Selections, e \in 0..MaxDay, q \in Orders :
              t # s \/ e # d \/ q # o => charged'[t][e][q] = charged[t][e][q]
    <3>1. charged[s] \in [0..MaxDay -> [Orders -> Nat]] /\ charged[s][d] \in [Orders -> Nat]
      BY <2>2, <2>3
    <3> DEFINE g == [charged[s][d] EXCEPT ![o] = @ + 1]
               f == [charged[s] EXCEPT ![d] = g]
    <3>2. charged' = [charged EXCEPT ![s] = f]
      BY <2>1
    <3>3. g \in [Orders -> Nat] /\ g[o] = 1 /\ \A q \in Orders : q # o => g[q] = charged[s][d][q]
      <4>1. charged[s][d][o] = 0 /\ o \in Orders /\ charged[s][d] \in [Orders -> Nat]
        BY <2>2, <2>3, <3>1
      <4> QED  BY <4>1
    <3> HIDE DEF g
    <3>4. f \in [0..MaxDay -> [Orders -> Nat]] /\ f[d] = g /\ \A e \in 0..MaxDay : e # d => f[e] = charged[s][e]
      BY <2>2, <3>1, <3>3
    <3> HIDE DEF f
    <3>5. /\ charged' \in [Selections -> [0..MaxDay -> [Orders -> Nat]]] /\ charged'[s] = f
          /\ \A t \in Selections : t # s => charged'[t] = charged[t]
      BY <2>2, <2>3, <3>2, <3>4
    <3> QED  BY <3>3, <3>4, <3>5
  <2>5. OncePerDay'
    BY <2>4 DEF DayInv, OncePerDay
  <2>6. \A t \in Selections, e \in 0..MaxDay, q \in Orders : charged'[t][e][q] # 0 => <<t, e>> \in dayLocks'
    <3>1. ASSUME NEW t \in Selections, NEW e \in 0..MaxDay, NEW q \in Orders, charged'[t][e][q] # 0
          PROVE  <<t, e>> \in dayLocks
      <4>1. CASE t = s /\ e = d
        BY <2>3, <4>1
      <4>2. CASE t # s \/ e # d
        <5>1. charged[t][e][q] # 0
          BY <2>4, <3>1, <4>2
        <5> QED  BY <5>1 DEF DayInv
      <4> QED  BY <4>1, <4>2
    <3> QED  BY <1>0, <3>1
  <2>7. \A q \in Executions : Charging(q)' => /\ Charging(q) /\ Key(q)' = Key(q) /\ task'[q].sel = task[q].sel /\ task'[q].day = task[q].day
    BY <2>1, <2>2 DEF Takes, Charging, Keeps, Key
  <2>8. ASSUME NEW q \in Executions, Charging(q)'
        PROVE  /\ Key(q)' \in dayLocks'
               /\ \A x \in Orders : stage'[q] \in {"select", "load"} \/ x \in task'[q].todo
                                    => charged'[task'[q].sel][task'[q].day][x] = 0
    <3>1. Charging(q) /\ Key(q)' = Key(q) /\ task'[q].sel = task[q].sel /\ task'[q].day = task[q].day
          /\ task[q].sel \in Selections /\ task[q].day \in 0..MaxDay
      BY <2>7, <2>8, ChargingTypes DEF Running, Charging
    <3>2. CASE q = p
      <4>1. stage'[p] = "provider" /\ task'[p].todo = task[p].todo \ {o}
        BY <2>1 DEF Takes
      <4>2. \A x \in task[p].todo : charged[s][d][x] = 0
        BY <1>0, <2>2 DEF DayInv
      <4>3. \A x \in task[p].todo \ {o} : charged'[s][d][x] = 0
        BY <1>0, <2>2, <2>4, <4>2
      <4> QED  BY <1>0, <2>3, <3>1, <3>2, <4>1, <4>3 DEF Key
    <3>3. CASE q # p
      <4>1. Key(q) # Key(p)
        BY <2>2, <3>1, <3>3 DEF DayInv
      <4>2. \A x \in Orders : charged'[task[q].sel][task[q].day][x] = charged[task[q].sel][task[q].day][x]
        BY <2>2, <2>4, <3>1, <4>1 DEF Key
      <4>3. stage'[q] = stage[q] /\ task'[q] = task[q]
        BY <2>1, <3>3 DEF Takes
      <4> QED  BY <1>0, <3>1, <4>2, <4>3 DEF DayInv
    <3> QED  BY <3>2, <3>3
  <2>9. \A q, r \in Executions : Charging(q)' /\ Charging(r)' /\ Key(q)' = Key(r)' => q = r
    BY <2>7 DEF DayInv
  <2> QED  BY <2>4, <2>5, <2>6, <2>8, <2>9 DEF DayInv
<1> QED  BY <1>1, <1>2, <1>3

\* Every step keeps one run for a selection and day, and one debit for each of its orders (OncePerDay).
LEMMA NextDays == JobInv /\ DayInv /\ [RenewalNext]_renewalVars => DayInv'
<1> SUFFICES ASSUME JobInv, DayInv, [RenewalNext]_renewalVars PROVE DayInv'
  OBVIOUS
<1>1. ASSUME UNCHANGED <<stage, task, charged, dayLocks>> PROVE DayInv'
  BY <1>1 DEF DayInv, Charging, Key, OncePerDay
<1>2. ASSUME NEW p \in Executions, Goes(p) \/ Stumbles(p)
      PROVE  DayInv'
  BY <1>1, <1>2, GoesQuiet, StumblesQuiet, QuietDay, ClaimDay, DebitDay
<1>3. CASE Environment
  <2>1. UNCHANGED <<stage, task, charged, dayLocks>>
    BY <1>3 DEF Environment, CreateSelection, SwitchSchedule, DeleteSelection, SwitchPartner, Expire, NextDay,
                LockLapse, lockVars, histVars
  <2> QED  BY <1>1, <2>1
<1>4. CASE UNCHANGED renewalVars
  BY <1>1, <1>4 DEF renewalVars, lockVars, histVars
<1> QED  BY <1>2, <1>3, <1>4, NextGoes

\* At the start nothing is debited.
LEMMA InitDays == RenewalInit => DayInv
<1> SUFFICES ASSUME RenewalInit PROVE DayInv
  OBVIOUS
<1>1. charged = [s \in Selections |-> [d \in 0..MaxDay |-> [o \in Orders |-> 0]]]
  BY DEF RenewalInit
<1>2. /\ charged \in [Selections -> [0..MaxDay -> [Orders -> Nat]]]
      /\ \A s \in Selections, d \in 0..MaxDay, o \in Orders : charged[s][d][o] = 0
  BY <1>1
<1>3. \A p \in Executions : ~Charging(p)
  BY DEF RenewalInit, Charging, Past
<1> QED  BY <1>2, <1>3 DEF DayInv, OncePerDay

-----------------------------------------------------------------------------
(* The wallet.                                                             *)

\* What the wallet and the debits under way add up to, when one execution moves.
LEMMA HandsMove ==
    ASSUME JobInv, JobInv', NEW p \in Executions,
           \A q \in Executions \ {p} : stage'[q] = stage[q] /\ task'[q] = task[q]
    PROVE  /\ SumFunctionOnSet(Hands, Executions)' = SumFunctionOnSet(Hands, Executions) - InHand(p) + InHand(p)'
           /\ SumFunctionOnSet(Hands, Executions) \in Nat
<1> DEFINE f == Hands
           e == Hands'
<1>1. IsFiniteSet(Executions)
  BY ConstantTypes
<1>2. \A q \in Executions : f[q] = InHand(q) /\ InHand(q) \in Nat
  BY HandTypes DEF Hands
<1>3. \A q \in Executions : e[q] = InHand(q)'
  BY DEF Hands
<1>4. InHand(p)' \in Nat
  <2>1. task'[p] \in Held
    BY DEF JobInv
  <2> QED  BY <2>1 DEF InHand, Held
<1>5. \A q \in Executions \ {p} : InHand(q)' = InHand(q)
  BY DEF InHand
<1>6. \A q \in Executions : f[q] \in Int
  BY <1>2
<1>7. e[p] = InHand(p)' /\ e[p] \in Int /\ f[p] = InHand(p)
  BY <1>2, <1>3, <1>4
<1>8. \A q \in Executions \ {p} : e[q] = f[q]
  BY <1>2, <1>3, <1>5
<1>9. \A q \in Executions : f[q] \in Nat
  BY <1>2
<1> HIDE DEF f, e
<1>10. SumFunctionOnSet(e, Executions) = SumFunctionOnSet(f, Executions) - f[p] + e[p]
  BY <1>1, <1>6, <1>7, <1>8, SumChange
<1>11. SumFunctionOnSet(f, Executions) \in Nat
  BY <1>1, <1>9, SumNat
<1> QED  BY <1>7, <1>10, <1>11 DEF f, e

\* Execution p takes no more from the wallet than it books, loses or has in hand.
Balances(p) ==
    /\ wallet' + booked' + drained' + InHand(p)' = wallet + booked + drained + InHand(p)
    /\ \A q \in Executions \ {p} : stage'[q] = stage[q] /\ task'[q] = task[q]

\* A step that moves an amount between wallet, hand, ledger and loss keeps their sum.
LEMMA BalancedWallet ==
    ASSUME JobInv, JobInv', NEW p \in Executions, Balances(p), WalletRenews
    PROVE  WalletRenews'
<1> DEFINE S == SumFunctionOnSet(Hands, Executions)
<1>1. S' = S - InHand(p) + InHand(p)' /\ S \in Nat
  BY HandsMove DEF Balances
<1>2. /\ wallet \in Nat /\ booked \in Nat /\ drained \in Nat
      /\ wallet' \in Nat /\ booked' \in Nat /\ drained' \in Nat
  BY DEF JobInv, RenewalTypes, Counters
<1>3. InHand(p) \in Nat
  BY HandTypes
<1>4. InHand(p)' \in Nat
  <2>1. task'[p] \in Held
    BY DEF JobInv
  <2> QED  BY <2>1 DEF InHand, Held
<1>5. wallet + booked + S + drained = StartMoney
  BY DEF WalletRenews
<1> HIDE DEF S
<1>6. wallet' + booked' + S' + drained' = StartMoney
  BY <1>1, <1>2, <1>3, <1>4, <1>5 DEF Balances
<1> QED  BY <1>6 DEF WalletRenews, S

\* An execution with nothing in hand before or after.
LEMMA FreeBalances ==
    ASSUME JobInv, NEW p \in Executions, InHand(p) = 0, NEW l \in Stages \ {"provider", "refund", "save"}, NEW j \in Held,
           Takes(p, l, j), UNCHANGED <<wallet, booked, drained>>
    PROVE  Balances(p)
  BY Typed DEF Balances, Takes, InHand

\* What it holds after an order: nothing.
LEMMA SettlesHand ==
    ASSUME JobInv, NEW p \in Executions, NEW r, NEW todo, Settles(p, r, todo)
    PROVE  InHand(p)' = 0 /\ \A q \in Executions \ {p} : stage'[q] = stage[q] /\ task'[q] = task[q]
  BY DEF Settles, Takes, InHand

\* A bulk renewal that threw has debited nothing.
LEMMA FailsBalances ==
    ASSUME JobInv, NEW p \in Executions, NEW r, Fails(p, r), stage[p] \in {"select", "load", "wallet"},
           UNCHANGED <<wallet, booked, drained>>
    PROVE  Balances(p)
  BY IdleIsHeld, FreeBalances DEF Fails, Stages, InHand

\* Each step of an execution that goes on moves amounts.
LEMMA GoesBalances ==
    ASSUME JobInv, NEW p \in Executions, Goes(p)
    PROVE  Balances(p) \/ UNCHANGED <<stage, task, wallet, booked, drained>>
<1>1. CASE \E o \in Orders, who \in {"user", "admin"} : RenewStart(p, o, who)
  <2>1. PICK o \in Orders, who \in {"user", "admin"} : RenewStart(p, o, who)
    BY <1>1
  <2>2. Takes(p, "find", Opened(o, who))
    BY <2>1, RenewStartTakes
  <2>3. Opened(o, who) \in Held
    BY <2>2 DEF Takes
  <2> QED  BY <2>1, <2>2, <2>3, FreeBalances DEF Stages, RenewStart, moneyVars, InHand
<1>2. CASE RenewFind(p)
  <2>1. stage[p] = "find" /\ UNCHANGED <<wallet, booked, drained>> /\ InHand(p) = 0
    BY <1>2 DEF RenewFind, moneyVars, histVars, InHand
  <2>2. ASSUME Takes(p, "idle", Idle) PROVE Balances(p)
    BY <2>1, <2>2, IdleIsHeld, FreeBalances DEF Stages
  <2>3. ASSUME NEW j \in Held, Takes(p, "debit", j) PROVE Balances(p)
    BY <2>1, <2>3, FreeBalances DEF Stages
  <2>4. ASSUME NEW j \in Held, Takes(p, "provider", j), HeldOk("provider", j, now), j.who = "admin" PROVE Balances(p)
    <3>1. j.price = 0
      BY <2>4 DEF HeldOk
    <3> QED  BY <2>1, <2>4, <3>1, Typed DEF Takes, InHand, Balances
  <2>5. ASSUME NEW l \in {"debit", "provider"}, NEW j \in Held, Takes(p, l, j), HeldOk(l, j, now),
               l = "provider" => j.who = "admin"
        PROVE  Balances(p)
    BY <2>3, <2>4, <2>5
  <2>6. \/ Takes(p, "idle", Idle)
        \/ \E l \in {"debit", "provider"}, j \in Held :
              Takes(p, l, j) /\ HeldOk(l, j, now) /\ (l = "provider" => j.who = "admin")
    BY <1>2, RenewFindTakes
  <2> QED  BY <2>2, <2>5, <2>6
<1>3. CASE \E picked \in [Orders -> SUBSET Slots] :
             (\A o \in Orders : picked[o] \subseteq Owned[o]) /\ BulkStart(p, picked)
  <2>1. PICK picked \in [Orders -> SUBSET Slots] :
             (\A o \in Orders : picked[o] \subseteq Owned[o]) /\ BulkStart(p, picked)
    BY <1>3
  <2>2. PICK j \in Held : Takes(p, "select", j)
    BY <2>1, BulkStartTakes
  <2> QED  BY <2>1, <2>2, FreeBalances DEF Stages, BulkStart, moneyVars, InHand
<1>4. CASE BulkSelect(p)
  <2>1. stage[p] = "select" /\ UNCHANGED <<wallet, booked, drained>> /\ InHand(p) = 0
    BY <1>4 DEF BulkSelect, moneyVars, histVars, InHand
  <2>2. Fails(p, "failed") \/ \E j \in Held : Takes(p, "load", j)
    BY <1>4, BulkSelectTakes
  <2> QED  BY <2>1, <2>2, FreeBalances, FailsBalances DEF Stages
<1>5. CASE BulkLoad(p)
  <2>1. stage[p] = "load" /\ UNCHANGED <<wallet, booked, drained>> /\ InHand(p) = 0
    BY <1>5 DEF BulkLoad, moneyVars, histVars, InHand
  <2>2. Fails(p, "failed") \/ \E j \in Held : Takes(p, "wallet", j)
    BY <1>5, BulkLoadTakes
  <2> QED  BY <2>1, <2>2, FreeBalances, FailsBalances DEF Stages
<1>6. CASE BulkWallet(p)
  <2>1. stage[p] = "wallet" /\ UNCHANGED <<wallet, booked, drained>> /\ InHand(p) = 0
    BY <1>6 DEF BulkWallet, moneyVars, histVars, InHand
  <2> QED  BY <1>6, <2>1, BulkWalletTakes, FreeBalances, FailsBalances, HeldTypes DEF Stages
<1>7. CASE Debit(p)
  <2>1. stage[p] = "debit" /\ UNCHANGED <<booked, drained>> /\ InHand(p) = 0
    BY <1>7 DEF Debit, InHand
  <2>2. ASSUME NEW r, NEW t, Settles(p, r, t), wallet' = wallet PROVE Balances(p)
    BY <2>1, <2>2, SettlesHand, Typed DEF Balances
  <2>3. ASSUME NEW o, NEW j \in Held, Takes(p, "provider", j), j.price = Price(task[p], o),
               wallet' = wallet - Price(task[p], o)
        PROVE  Balances(p)
    <3>1. InHand(p)' = j.price /\ j.price \in Nat
      BY <2>3 DEF Takes, InHand, Held
    <3> QED  BY <2>1, <2>3, <3>1, Typed DEF Balances, Takes
  <2> QED  BY <1>7, <2>2, <2>3, DebitTakes
<1>8. CASE Acknowledge(p)
  <2>1. stage[p] = "provider" /\ UNCHANGED <<wallet, booked, drained>>
    BY <1>8 DEF Acknowledge, moneyVars
  <2>2. PICK j \in Held : Takes(p, "save", j) /\ Stays(task[p], j)
    BY <1>8, AcknowledgeTakes
  <2> QED  BY <2>1, <2>2, Typed, HeldTypes DEF Stays, Takes, Balances, InHand
<1>9. CASE SaveRenewal(p)
  <2>1. stage[p] = "save" /\ UNCHANGED <<wallet, drained>> /\ booked' = booked + InHand(p)
    BY <1>9 DEF SaveRenewal, InHand
  <2>2. ASSUME NEW r, NEW t, Settles(p, r, t) PROVE Balances(p)
    BY <2>1, <2>2, SettlesHand, Typed, HandTypes DEF Balances
  <2>3. ASSUME NEW j \in Held, Takes(p, "prune", j) PROVE Balances(p)
    BY <2>1, <2>3, Typed, HandTypes DEF Balances, Takes, InHand
  <2> QED  BY <1>9, <2>2, <2>3, SaveTakes
<1>10. CASE Prune(p) \/ PruneCount(p)
  <2>1. stage[p] \in {"prune", "count"} /\ UNCHANGED <<wallet, booked, drained>> /\ InHand(p) = 0
    BY <1>10 DEF Prune, PruneCount, moneyVars, histVars, InHand
  <2>2. ASSUME NEW r, NEW t, Settles(p, r, t) PROVE Balances(p)
    BY <2>1, <2>2, SettlesHand, Typed DEF Balances
  <2>3. ASSUME Takes(p, "count", task[p]) PROVE Balances(p)
    BY <2>1, <2>3, HeldTypes, FreeBalances DEF Stages
  <2> QED  BY <1>10, <2>2, <2>3, PruneTakes, PruneCountTakes
<1>11. CASE ScanStart(p)
  <2>1. InHand(p) = 0 /\ UNCHANGED <<wallet, booked, drained>>
    BY <1>11 DEF ScanStart, InHand, moneyVars, histVars
  <2>2. ASSUME Takes(p, "list", Between({})) PROVE Balances(p)
    BY <2>1, <2>2, FreeBalances DEF Stages, Takes
  <2> QED  BY <1>11, <2>1, <2>2, ScanStartTakes
<1>12. CASE ScanList(p) \/ RunFind(p) \/ RunClaim(p) \/ RunRecord(p) \/ ScanUnlock(p)
  <2>1. InHand(p) = 0 /\ UNCHANGED <<wallet, booked, drained>>
    BY <1>12 DEF ScanList, RunFind, RunClaim, RunRecord, ScanUnlock, InHand, moneyVars, histVars
  <2>2. ASSUME NEW l \in {"idle", "run", "claim", "select"}, NEW j \in Held, Takes(p, l, j) PROVE Balances(p)
    BY <2>1, <2>2, FreeBalances DEF Stages
  <2>3. \E l \in {"idle", "run", "claim", "select"}, j \in Held : Takes(p, l, j)
    <3>1. ASSUME NEW runs, Takes(p, "run", Between(runs)) PROVE Between(runs) \in Held
      BY <3>1 DEF Takes
    <3> QED  BY <1>12, <3>1, ScanListTakes, RunFindTakes, RunClaimTakes, RunRecordTakes, FinishTakes, IdleIsHeld,
                HeldTypes DEF ScanUnlock
  <2> QED  BY <2>2, <2>3
<1> QED  BY <1>1, <1>2, <1>3, <1>4, <1>5, <1>6, <1>7, <1>8, <1>9, <1>10, <1>11, <1>12 DEF Goes

\* A failure moves what was in hand to the wallet or to the losses.
LEMMA StumblesBalances ==
    ASSUME JobInv, NEW p \in Executions, Stumbles(p)
    PROVE  Balances(p)
<1>1. CASE AcknowledgeSome(p)
  <2>1. stage[p] = "provider" /\ UNCHANGED <<wallet, booked, drained>>
    BY <1>1 DEF AcknowledgeSome, moneyVars
  <2>2. PICK j \in Held : Takes(p, "save", j) /\ Stays(task[p], j)
    BY <1>1, AcknowledgeTakes
  <2> QED  BY <2>1, <2>2, Typed, HeldTypes DEF Stays, Takes, Balances, InHand
<1>2. CASE Refuse(p)
  <2>1. stage[p] = "provider" /\ UNCHANGED <<wallet, booked, drained>> /\ HeldOk(stage[p], task[p], now)
    BY <1>2, HeldTypes DEF Refuse, moneyVars
  <2>2. CASE task[p].who = "admin"
    <3>1. task[p].price = 0 /\ Takes(p, "idle", Idle)
      BY <1>2, <2>1, <2>2, FinishTakes DEF HeldOk, Refuse
    <3> QED  BY <2>1, <3>1, FreeBalances, IdleIsHeld DEF InHand, Stages
  <2>3. CASE task[p].who # "admin"
    <3>1. Takes(p, "refund", task[p])
      BY <1>2, <2>3, GotoTakes, HeldTypes DEF Refuse, Stages
    <3> QED  BY <2>1, <3>1, Typed, HeldTypes DEF Takes, Balances, InHand
  <2> QED  BY <2>2, <2>3
<1>3. CASE Refund(p)
  <2>1. stage[p] = "refund" /\ UNCHANGED <<booked, drained>> /\ wallet' = wallet + InHand(p)
    BY <1>3 DEF Refund, InHand, histVars
  <2> QED  BY <1>3, <2>1, RefundTakes, SettlesHand, Typed, HandTypes DEF Balances
<1>4. CASE SaveFails(p)
  <2>1. stage[p] = "save" /\ UNCHANGED <<booked, wallet>> /\ drained' = drained + InHand(p)
    BY <1>4 DEF SaveFails, InHand, moneyVars
  <2> QED  BY <1>4, <2>1, SaveFailsTakes, SettlesHand, Typed, HandTypes DEF Balances
<1>5. CASE Die(p)
  <2>1. UNCHANGED <<booked, wallet>> /\ drained' = drained + InHand(p)
    BY <1>5 DEF Die, moneyVars
  <2>2. Takes(p, "idle", Idle)
    BY <1>5, FinishTakes DEF Die
  <2>3. InHand(p)' = 0
    BY <2>2 DEF Takes, InHand
  <2> QED  BY <2>1, <2>2, <2>3, Typed, HandTypes DEF Balances, Takes
<1> QED  BY <1>1, <1>2, <1>3, <1>4, <1>5 DEF Stumbles

\* Every step keeps the wallet (WalletRenews).
LEMMA NextWallet == JobInv /\ WalletRenews /\ [RenewalNext]_renewalVars => WalletRenews'
<1> SUFFICES ASSUME JobInv, WalletRenews, [RenewalNext]_renewalVars PROVE WalletRenews'
  OBVIOUS
<1>0. JobInv'
  BY NextJobs
<1>1. ASSUME UNCHANGED <<stage, task, wallet, booked, drained>> PROVE WalletRenews'
  BY <1>1 DEF WalletRenews, Hands, InHand
<1>2. ASSUME NEW p \in Executions, Goes(p) \/ Stumbles(p)
      PROVE  WalletRenews'
  BY <1>0, <1>1, <1>2, GoesBalances, StumblesBalances, BalancedWallet
<1>3. CASE Environment
  <2>1. UNCHANGED <<stage, task, wallet, booked, drained>>
    BY <1>3 DEF Environment, CreateSelection, SwitchSchedule, DeleteSelection, SwitchPartner, Expire, NextDay,
                LockLapse, moneyVars, histVars
  <2> QED  BY <1>1, <2>1
<1>4. CASE UNCHANGED renewalVars
  BY <1>1, <1>4 DEF renewalVars, moneyVars, histVars
<1> QED  BY <1>2, <1>3, <1>4, NextGoes

\* At the start the wallet is whole.
LEMMA InitWallet == RenewalInit => WalletRenews
<1> SUFFICES ASSUME RenewalInit PROVE WalletRenews
  OBVIOUS
<1>1. \A p \in Executions : Hands[p] = 0
  BY DEF RenewalInit, Hands, InHand
<1>2. SumFunctionOnSet(Hands, Executions) = 0
  BY <1>1, ConstantTypes, SumZero
<1> QED  BY <1>2, ConstantTypes DEF RenewalInit, WalletRenews

-----------------------------------------------------------------------------
(* Promises.                                                               *)

\* Proxy s of order o is about to be pruned, or to be left behind.
Leaving(o, s) ==
    \E p \in Executions : stage[p] \in {"save", "prune"} /\ task[p].at = o /\ s \notin task[p].picked[o]

\* It has been renewed with all the others of its order.
Ahead(o, s) == s \in (live[o] \cap Ids[o]) \ behind[o] /\ ~Leaving(o, s)

\* An execution at label l with j writes no later end to order o than this.
Writes(l, j, o, end) ==
    /\ j.docs[o].end <= end
    /\ l = "save" /\ j.at = o => IF j.end = None THEN j.docs[o].end + Term <= end ELSE j.end <= end

Covered(o, s) ==
    /\ \A t \in Slots : remote[o][t] <= remote[o][s]
    /\ order[o].end <= remote[o][s]
    /\ \A p \in Executions : Writes(stage[p], task[p], o, remote[o][s])

\* The proxies that an automatic or single renewal did not pick are known to be behind.
Noted(p) ==
    stage[p] = "save" /\ task[p].who # "bulk" =>
        (live[task[p].at] \cap Ids[task[p].at]) \ task[p].picked[task[p].at] \subseteq behind[task[p].at]

PromiseInv ==
    /\ \A o \in Orders : \A s \in Slots : Ahead(o, s) => Covered(o, s)
    /\ \A p \in Executions : Noted(p)

\* What the promises compare: numbers.
LEMMA EndTypes ==
    ASSUME JobInv, NEW o \in Orders
    PROVE  /\ order[o].end \in Int /\ \A s \in Slots : remote[o][s] \in Nat
           /\ \A p \in Executions : task[p].docs[o].end \in Int /\ task[p].end \in Nat \cup {None}
           /\ live[o] \subseteq Slots /\ Term \in Nat
<1>1. order[o] \in Document /\ remote[o] \in [Slots -> Nat] /\ live[o] \subseteq Slots /\ Term \in Nat
  BY Typed, ConstantTypes
<1>2. \A p \in Executions : task[p].docs[o] \in Document /\ task[p].end \in Nat \cup {None}
  BY HeldTypes
<1> QED  BY <1>1, <1>2 DEF Document

\* Execution p renews nothing and writes nothing.
LEMMA IdlePromise ==
    ASSUME JobInv, PromiseInv, NEW p \in Executions, NEW l \in Stages \ {"save"}, NEW j \in Held, Takes(p, l, j),
           \A o \in Orders : j.docs[o].end \in {0, task[p].docs[o].end, order[o].end},
           remote' = remote, \A o \in Orders : order'[o].end = order[o].end,
           \A o \in Orders : live'[o] \subseteq live[o] /\ behind[o] \subseteq behind'[o],
           stage[p] \in {"save", "prune"} =>
               (live'[task[p].at] \cap Ids[task[p].at]) \ behind'[task[p].at] \subseteq task[p].picked[task[p].at]
    PROVE  PromiseInv'
<1>0. /\ stage'[p] = l /\ task'[p] = j
      /\ \A q \in Executions \ {p} : stage'[q] = stage[q] /\ task'[q] = task[q]
  BY DEF Takes
<1>1. ASSUME NEW o \in Orders, NEW s \in Slots, Ahead(o, s)'
      PROVE  Ahead(o, s)
  <2>1. s \in (live[o] \cap Ids[o]) \ behind[o]
    BY <1>1 DEF Ahead
  <2>2. \A q \in Executions \ {p} : ~(stage[q] \in {"save", "prune"} /\ task[q].at = o /\ s \notin task[q].picked[o])
    BY <1>0, <1>1 DEF Ahead, Leaving
  <2>3. ~(stage[p] \in {"save", "prune"} /\ task[p].at = o /\ s \notin task[p].picked[o])
    BY <1>1 DEF Ahead
  <2> QED  BY <2>1, <2>2, <2>3 DEF Ahead, Leaving
<1>2. ASSUME NEW o \in Orders, NEW s \in Slots, Ahead(o, s)'
      PROVE  Covered(o, s)'
  <2>1. Covered(o, s)
    BY <1>1, <1>2 DEF PromiseInv
  <2>2. \A q \in Executions \ {p} : Writes(stage'[q], task'[q], o, remote[o][s])
    BY <1>0, <2>1 DEF Covered
  <2>3. Writes(stage'[p], task'[p], o, remote[o][s])
    <3>1. j.docs[o].end <= remote[o][s]
      BY <2>1, EndTypes DEF Covered, Writes
    <3> QED  BY <1>0, <3>1 DEF Writes
  <2>4. remote'[o] = remote[o] /\ order'[o].end = order[o].end
    OBVIOUS
  <2> QED  BY <2>1, <2>2, <2>3, <2>4 DEF Covered
<1>3. \A q \in Executions : Noted(q)'
  <2>1. Noted(p)'
    BY <1>0 DEF Noted
  <2>2. ASSUME NEW q \in Executions \ {p}, stage[q] = "save"
        PROVE  Noted(q)'
    <3>1. task[q].at \in Orders
      BY <2>2, AtHand DEF Hand
    <3> QED  BY <1>0, <2>2, <3>1 DEF Noted, PromiseInv
  <2>3. \A q \in Executions \ {p} : stage[q] # "save" => Noted(q)'
    BY <1>0 DEF Noted
  <2> QED  BY <2>1, <2>2, <2>3
<1> QED  BY <1>2, <1>3 DEF PromiseInv

\* The provider renews, of the order at hand, all proxies that stay with the others.
LEMMA RenewsPromise ==
    ASSUME JobInv, PromiseInv, NEW p \in Executions, stage[p] = "provider", NEW l \in Stages \ {"prune"}, NEW j \in Held,
           Takes(p, l, j), \A o \in Orders : j.docs[o].end \in {0, task[p].docs[o].end},
           NEW renewed \in SUBSET Slots, NEW told \in SUBSET renewed, Extend(task[p].at, renewed), order' = order, live' = live,
           \A o \in Orders : behind[o] \subseteq behind'[o],
           \A s \in (live[task[p].at] \cap Ids[task[p].at]) \ behind'[task[p].at] :
               s \in renewed \/ (l = "save" /\ s \notin j.picked[task[p].at]),
           l = "save" => /\ j.at = task[p].at /\ j.docs = task[p].docs /\ j.who = task[p].who
                         /\ j.end \in Answers(task[p].at, told)
                         /\ j.who # "bulk" => (live[j.at] \cap Ids[j.at]) \ j.picked[j.at] \subseteq behind'[j.at]
    PROVE  PromiseInv'
<1> DEFINE at == task[p].at
<1>0. /\ stage'[p] = l /\ task'[p] = j /\ at \in Orders
      /\ \A q \in Executions \ {p} : stage'[q] = stage[q] /\ task'[q] = task[q]
  BY AtHand DEF Takes, Hand
<1>1. ASSUME NEW o \in Orders, NEW s \in Slots, Ahead(o, s)'
      PROVE  Ahead(o, s) /\ (o = at => s \in renewed)
  <2>1. s \in (live[o] \cap Ids[o]) \ behind'[o] /\ s \notin behind[o]
    BY <1>1 DEF Ahead
  <2>2. \A q \in Executions : ~(stage'[q] \in {"save", "prune"} /\ task'[q].at = o /\ s \notin task'[q].picked[o])
    BY <1>1 DEF Ahead, Leaving
  <2>3. \A q \in Executions : ~(stage[q] \in {"save", "prune"} /\ task[q].at = o /\ s \notin task[q].picked[o])
    BY <1>0, <2>2
  <2>4. Ahead(o, s)
    BY <2>1, <2>3 DEF Ahead, Leaving
  <2>5. o = at => s \in renewed
    BY <1>0, <2>1, <2>2
  <2> QED  BY <2>4, <2>5
<1>2. /\ \A s \in Slots : remote'[at][s] = remote[at][s] + (IF s \in renewed THEN Term ELSE 0)
      /\ \A q \in Orders \ {at} : remote'[q] = remote[q]
      /\ remote' \in [Orders -> [Slots -> Nat]]
  BY <1>0, Extends
<1>3. ASSUME NEW o \in Orders, NEW s \in Slots, Ahead(o, s)'
      PROVE  Covered(o, s)'
  <2>1. Covered(o, s) /\ (o = at => s \in renewed)
    BY <1>1, <1>3 DEF PromiseInv
  <2>2. CASE o # at
    <3>1. remote'[o] = remote[o]
      BY <1>2, <2>2
    <3>2. \A q \in Executions \ {p} : Writes(stage'[q], task'[q], o, remote[o][s])
      BY <1>0, <2>1, <3>1 DEF Covered
    <3>3. Writes(stage'[p], task'[p], o, remote[o][s])
      <4>1. j.docs[o].end <= remote[o][s]
        BY <2>1, EndTypes DEF Covered, Writes
      <4>2. ~(l = "save" /\ j.at = o)
        BY <2>2
      <4> QED  BY <1>0, <3>1, <4>1, <4>2 DEF Writes
    <3> QED  BY <2>1, <3>1, <3>2, <3>3 DEF Covered
  <2>3. CASE o = at
    <3> DEFINE r == remote[at][s]
               n == remote'[at][s]
    <3>1. n = r + Term /\ r \in Nat /\ n \in Nat /\ Term \in Nat /\ r <= n
      BY <1>0, <1>2, <2>1, <2>3, EndTypes
    <3>2. \A t \in Slots : remote'[at][t] <= n
      <4>1. \A t \in Slots : remote[at][t] <= r /\ remote[at][t] \in Nat
        BY <1>0, <2>1, <2>3, EndTypes DEF Covered
      <4> QED  BY <1>2, <3>1, <4>1
    <3>3. order'[at].end <= n
      BY <1>0, <2>1, <2>3, <3>1, EndTypes DEF Covered
    <3>4. ASSUME NEW q \in Executions \ {p} PROVE Writes(stage'[q], task'[q], at, n)
      <4>1. Writes(stage[q], task[q], at, r) /\ task[q].docs[at].end \in Int /\ task[q].end \in Nat \cup {None}
        BY <1>0, <2>1, <2>3, EndTypes DEF Covered
      <4>2. stage'[q] = stage[q] /\ task'[q] = task[q]
        BY <1>0
      <4> HIDE DEF r, n
      <4>3. task[q].docs[at].end <= r
        BY <4>1 DEF Writes
      <4>4. stage[q] = "save" /\ task[q].at = at /\ task[q].end = None => task[q].docs[at].end + Term <= r
        BY <4>1 DEF Writes
      <4>5. stage[q] = "save" /\ task[q].at = at /\ task[q].end # None => task[q].end <= r
        BY <4>1 DEF Writes
      <4>6. task[q].docs[at].end <= n
        BY <3>1, <4>1, <4>3
      <4>7. stage[q] = "save" /\ task[q].at = at /\ task[q].end = None => task[q].docs[at].end + Term <= n
        BY <3>1, <4>1, <4>4
      <4>8. stage[q] = "save" /\ task[q].at = at /\ task[q].end # None => task[q].end <= n
        BY <3>1, <4>1, <4>5
      <4> QED  BY <4>2, <4>6, <4>7, <4>8 DEF Writes
    <3>5. Writes(stage'[p], task'[p], at, n)
      <4>1. task[p].docs[at].end <= r /\ task[p].docs[at].end \in Int
        BY <1>0, <2>1, <2>3, EndTypes DEF Covered, Writes
      <4>2. j.docs[at].end <= n
        BY <1>0, <3>1, <4>1
      <4>3. ASSUME l = "save", j.end = None PROVE j.docs[at].end + Term <= n
        BY <3>1, <4>1, <4>3
      <4>4. ASSUME l = "save", j.end # None PROVE j.end <= n
        <5>1. \E t \in renewed : j.end = remote'[at][t]
          BY <4>4 DEF Answers
        <5> QED  BY <3>2, <5>1
      <4> QED  BY <1>0, <4>2, <4>3, <4>4 DEF Writes
    <3> QED  BY <2>3, <3>2, <3>3, <3>4, <3>5 DEF Covered
  <2> QED  BY <2>2, <2>3
<1>4. \A q \in Executions : Noted(q)'
  <2>1. Noted(p)'
    BY <1>0 DEF Noted
  <2>2. ASSUME NEW q \in Executions \ {p}, stage[q] = "save"
        PROVE  Noted(q)'
    <3>1. task[q].at \in Orders
      BY <2>2, AtHand DEF Hand
    <3> QED  BY <1>0, <2>2, <3>1 DEF Noted, PromiseInv
  <2>3. \A q \in Executions \ {p} : stage[q] # "save" => Noted(q)'
    BY <1>0 DEF Noted
  <2> QED  BY <2>1, <2>2, <2>3
<1> QED  BY <1>3, <1>4 DEF PromiseInv

\* Where an execution is when it is done with an order.
LEMMA SettlesAt ==
    ASSUME JobInv, NEW p \in Executions, NEW r, NEW todo, Settles(p, r, todo)
    PROVE  \E l \in {"idle", "record", "debit"}, j \in Held :
              /\ Takes(p, l, j) /\ \A o \in Orders : j.docs[o].end \in {0, task[p].docs[o].end}
              /\ \A o \in Orders : j.picked[o] \in {{}, task[p].picked[o]}
<1>1. \A o \in Orders : Idle.docs[o].end = 0 /\ Idle.picked[o] = {}
  BY DEF Idle, NoDocuments, NoProxies
<1>2. CASE Takes(p, "idle", Idle)
  BY <1>1, <1>2, IdleIsHeld
<1>3. ASSUME NEW l \in {"record", "debit"}, NEW j \in Held, Takes(p, l, j), Keeps(task[p], j)
      PROVE  \E m \in {"idle", "record", "debit"}, k \in Held :
                /\ Takes(p, m, k) /\ \A o \in Orders : k.docs[o].end \in {0, task[p].docs[o].end}
                /\ \A o \in Orders : k.picked[o] \in {{}, task[p].picked[o]}
  BY <1>3 DEF Keeps
<1> QED  BY <1>2, <1>3 DEF Settles

\* A failed bulk renewal takes no end date along.
LEMMA FailsAt ==
    ASSUME JobInv, NEW p \in Executions, NEW r, Fails(p, r)
    PROVE  \E l \in {"idle", "record"}, j \in Held :
              Takes(p, l, j) /\ \A o \in Orders : j.docs[o].end \in {0, task[p].docs[o].end}
<1>1. \A o \in Orders : Idle.docs[o].end = 0
  BY DEF Idle, NoDocuments
<1>2. CASE Takes(p, "idle", Idle)
  BY <1>1, <1>2, IdleIsHeld
<1>3. ASSUME NEW j \in Held, Takes(p, "record", j), Keeps(task[p], j)
      PROVE  \E l \in {"idle", "record"}, k \in Held :
                Takes(p, l, k) /\ \A o \in Orders : k.docs[o].end \in {0, task[p].docs[o].end}
  BY <1>3 DEF Keeps
<1> QED  BY <1>2, <1>3 DEF Fails

\* A save of end and number changes the end of its document only.
LEMMA EndSaved ==
    ASSUME NEW f \in [Orders -> Document], NEW o \in Orders, NEW e, NEW n, NEW g,
           g = [f EXCEPT ![o].end = e, ![o].renews = n]
    PROVE  g[o].end = e /\ \A q \in Orders \ {o} : g[q] = f[q]
<1>1. f[o] \in Document
  OBVIOUS
<1>2. g[o] = [f[o] EXCEPT !.end = e, !.renews = n]
  OBVIOUS
<1>3. g[o].end = e
  BY <1>1, <1>2 DEF Document
<1>4. \A q \in Orders \ {o} : g[q] = f[q]
  OBVIOUS
<1> QED  BY <1>3, <1>4

\* A saved end date is one that the provider keeps.
LEMMA SavePromise ==
    ASSUME JobInv, PromiseInv, NEW p \in Executions, SaveRenewal(p)
    PROVE  PromiseInv'
<1> DEFINE at == task[p].at
           new == Renewed(task[p], at)
<1>0. stage[p] = "save" /\ at \in Orders /\ remote' = remote /\ live' = live /\ behind' = behind
  BY AtHand DEF SaveRenewal, Hand
<1>1. new.end = IF task[p].end = None THEN task[p].docs[at].end + Term ELSE task[p].end
  BY <1>0, RenewedIs, HeldTypes
<1>2. /\ order'[at].end \in {order[at].end, new.end}
      /\ \A o \in Orders \ {at} : order'[o].end = order[o].end
  <2> DEFINE e == Saved(order[at].end, task[p].docs[at].end, new.end)
             n == Saved(order[at].renews, task[p].docs[at].renews, new.renews)
  <2>1. order' = [order EXCEPT ![at].end = e, ![at].renews = n]
    BY <1>0, SaveTakes
  <2>2. e \in {order[at].end, new.end}
    BY DEF Saved
  <2> HIDE DEF e, n, new, at
  <2>3. order'[at].end = e /\ \A o \in Orders \ {at} : order'[o] = order[o]
    BY <1>0, <2>1, EndSaved, Typed
  <2> QED  BY <2>2, <2>3
<1>3. \E l \in {"idle", "record", "debit", "prune"}, j \in Held :
        /\ Takes(p, l, j)
        /\ l = "prune" => task[p].who = "bulk" /\ j.at = at /\ j.picked = task[p].picked
        /\ l # "prune" => task[p].who # "bulk"
        /\ \A o \in Orders : j.docs[o].end \in {0, task[p].docs[o].end} \/ (o = at /\ j.docs[o].end = new.end)
  <2> HIDE DEF new
  <2>1. CASE /\ task[p].who = "bulk"
             /\ \E j \in Held :
                  /\ Takes(p, "prune", j) /\ j.picked = task[p].picked /\ j.at = at
                  /\ j.docs = [task[p].docs EXCEPT ![at] = new]
    <3>1. task[p].docs \in [Orders -> Document]
      BY HeldTypes
    <3>2. ASSUME NEW j \in Held, j.docs = [task[p].docs EXCEPT ![at] = new], NEW o \in Orders
          PROVE  j.docs[o].end \in {0, task[p].docs[o].end} \/ (o = at /\ j.docs[o].end = new.end)
      BY <3>1, <3>2
    <3> QED  BY <2>1, <3>2
  <2>2. ASSUME task[p].who # "bulk", NEW r, Settles(p, r, task[p].todo)
        PROVE  \E l \in {"idle", "record", "debit", "prune"}, j \in Held :
                  /\ Takes(p, l, j) /\ l # "prune"
                  /\ \A o \in Orders : j.docs[o].end \in {0, task[p].docs[o].end}
    <3>1. PICK l \in {"idle", "record", "debit"}, j \in Held :
             Takes(p, l, j) /\ \A o \in Orders : j.docs[o].end \in {0, task[p].docs[o].end}
      BY <2>2, SettlesAt
    <3> QED  BY <3>1
  <2>3. CASE task[p].who = "bulk"
    <3>1. \E j \in Held :
             /\ Takes(p, "prune", j) /\ j.picked = task[p].picked /\ j.at = at
             /\ j.docs = [task[p].docs EXCEPT ![at] = new]
      BY <2>3, SaveTakes DEF new
    <3> QED  BY <2>1, <2>3, <3>1
  <2>4. CASE task[p].who # "bulk"
    <3>1. PICK r : Settles(p, r, task[p].todo)
      BY <2>4, SaveTakes
    <3> QED  BY <2>2, <2>4, <3>1
  <2> QED  BY <2>3, <2>4
<1>4. PICK l \in {"idle", "record", "debit", "prune"}, j \in Held :
        /\ Takes(p, l, j)
        /\ l = "prune" => task[p].who = "bulk" /\ j.at = at /\ j.picked = task[p].picked
        /\ l # "prune" => task[p].who # "bulk"
        /\ \A o \in Orders : j.docs[o].end \in {0, task[p].docs[o].end} \/ (o = at /\ j.docs[o].end = new.end)
  BY <1>3
<1>5. stage'[p] = l /\ task'[p] = j /\ \A q \in Executions \ {p} : stage'[q] = stage[q] /\ task'[q] = task[q]
  BY <1>4 DEF Takes
<1>6. ASSUME NEW o \in Orders, NEW s \in Slots, Ahead(o, s)'
      PROVE  Ahead(o, s)
  <2>1. s \in (live[o] \cap Ids[o]) \ behind[o]
    BY <1>0, <1>6 DEF Ahead
  <2>2. \A q \in Executions : ~(stage'[q] \in {"save", "prune"} /\ task'[q].at = o /\ s \notin task'[q].picked[o])
    BY <1>6 DEF Ahead, Leaving
  <2>3. ~(task[p].at = o /\ s \notin task[p].picked[o])
    <3>1. CASE l = "prune"
      BY <1>4, <1>5, <2>2, <3>1
    <3>2. CASE task[p].who # "bulk"
      BY <1>0, <2>1, <3>2 DEF PromiseInv, Noted
    <3> QED  BY <1>4, <3>1, <3>2
  <2> QED  BY <1>5, <2>1, <2>2, <2>3 DEF Ahead, Leaving
<1>7. ASSUME NEW o \in Orders, NEW s \in Slots, Ahead(o, s)'
      PROVE  Covered(o, s)'
  <2>1. Covered(o, s)
    BY <1>6, <1>7 DEF PromiseInv
  <2>2. o = at => new.end <= remote[o][s]
    <3>1. Writes(stage[p], task[p], o, remote[o][s])
      BY <2>1 DEF Covered
    <3> QED  BY <1>0, <1>1, <3>1 DEF Writes
  <2>3. order'[o].end <= remote[o][s]
    BY <1>2, <2>1, <2>2 DEF Covered
  <2>4. \A q \in Executions \ {p} : Writes(stage'[q], task'[q], o, remote[o][s])
    BY <1>5, <2>1 DEF Covered
  <2>5. Writes(stage'[p], task'[p], o, remote[o][s])
    <3>1. task[p].docs[o].end <= remote[o][s] /\ remote[o][s] \in Nat
      BY <2>1, EndTypes DEF Covered, Writes
    <3>2. j.docs[o].end <= remote[o][s]
      BY <1>4, <2>2, <3>1
    <3> QED  BY <1>4, <1>5, <3>2 DEF Writes
  <2> QED  BY <1>0, <2>1, <2>3, <2>4, <2>5 DEF Covered
<1>8. \A q \in Executions : Noted(q)'
  BY <1>0, <1>5 DEF Noted, PromiseInv
<1> QED  BY <1>7, <1>8 DEF PromiseInv

\* An acknowledged renewal moves the provider's dates before the order's.
LEMMA AcknowledgePromise ==
    ASSUME JobInv, PromiseInv, NEW p \in Executions, Acknowledge(p) \/ AcknowledgeSome(p)
    PROVE  PromiseInv'
<1> DEFINE at == task[p].at
<1>1. PICK renewed, told \in SUBSET WithId(task[p], at), j \in Held :
         /\ told \subseteq renewed
         /\ j.end \in Answers(at, told) /\ Extend(at, renewed) /\ stage[p] = "provider"
         /\ Takes(p, "save", j) /\ Stays(task[p], j)
         /\ behind' = [behind EXCEPT ![at] = @ \cup LeftBehind(task[p], at, renewed)]
  BY AcknowledgeTakes
<1>2. at \in Orders /\ renewed \in SUBSET Slots /\ told \in SUBSET renewed
  BY <1>1, AtHand DEF Hand, WithId
<1>3. order' = order /\ live' = live
  BY DEF Acknowledge, AcknowledgeSome
<1>4. /\ behind'[at] = behind[at] \cup LeftBehind(task[p], at, renewed)
      /\ \A o \in Orders : behind[o] \subseteq behind'[o]
  BY <1>1, <1>2, Typed
<1>5. j.at = at /\ j.docs = task[p].docs /\ j.who = task[p].who /\ j.picked = task[p].picked
  BY <1>1 DEF Stays, Keeps
<1>6. \A s \in (live[at] \cap Ids[at]) \ behind'[at] : s \in renewed \/ s \notin j.picked[at]
  BY <1>4, <1>5 DEF LeftBehind, WithId
<1>7. j.who # "bulk" => (live[j.at] \cap Ids[j.at]) \ j.picked[j.at] \subseteq behind'[j.at]
  BY <1>1, <1>4, <1>5 DEF LeftBehind, WithId
<1> QED  BY <1>1, <1>2, <1>3, <1>4, <1>5, <1>6, <1>7, RenewsPromise DEF Stages

\* Every step of an execution that goes on keeps the promises.
LEMMA GoesPromise ==
    ASSUME JobInv, PromiseInv, NEW p \in Executions, Goes(p)
    PROVE  PromiseInv'
<1>0. \A o \in Orders : NoDocuments[o].end = 0
  BY DEF NoDocuments
<1>1. ASSUME NEW l \in Stages \ {"save"}, NEW j \in Held, Takes(p, l, j), stage[p] \notin {"save", "prune"},
             \A o \in Orders : j.docs[o].end \in {0, task[p].docs[o].end, order[o].end},
             UNCHANGED <<remote, order, live, behind>>
      PROVE  PromiseInv'
  BY <1>1, IdlePromise
<1>2. ASSUME NEW r, stage[p] \notin {"save", "prune"}, UNCHANGED <<remote, order, live, behind>>,
             Fails(p, r) \/ \E t : Settles(p, r, t)
      PROVE  PromiseInv'
  <2>1. \E l \in {"idle", "record", "debit"}, j \in Held :
          Takes(p, l, j) /\ \A o \in Orders : j.docs[o].end \in {0, task[p].docs[o].end}
    <3>1. CASE Fails(p, r)
      <4>1. PICK l \in {"idle", "record"}, j \in Held :
              Takes(p, l, j) /\ \A o \in Orders : j.docs[o].end \in {0, task[p].docs[o].end}
        BY <3>1, FailsAt
      <4>2. l \in {"idle", "record", "debit"}
        OBVIOUS
      <4> QED  BY <4>1, <4>2
    <3>2. ASSUME NEW t, Settles(p, r, t)
          PROVE  \E l \in {"idle", "record", "debit"}, j \in Held :
                    Takes(p, l, j) /\ \A o \in Orders : j.docs[o].end \in {0, task[p].docs[o].end}
      BY <3>2, SettlesAt
    <3> QED  BY <1>2, <3>1, <3>2
  <2>2. PICK l \in {"idle", "record", "debit"}, j \in Held :
          Takes(p, l, j) /\ \A o \in Orders : j.docs[o].end \in {0, task[p].docs[o].end}
    BY <2>1
  <2> QED  BY <1>1, <1>2, <2>2 DEF Stages
<1>3. ASSUME UNCHANGED <<remote, order, live, behind, stage, task>> PROVE PromiseInv'
  BY <1>3 DEF PromiseInv, Ahead, Leaving, Covered, Noted
<1>4. CASE \E o \in Orders, who \in {"user", "admin"} : RenewStart(p, o, who)
  <2>1. PICK o \in Orders, who \in {"user", "admin"} : RenewStart(p, o, who)
    BY <1>4
  <2>2. /\ Takes(p, "find", Opened(o, who)) /\ Opened(o, who) \in Held /\ stage[p] = "idle"
        /\ \A q \in Orders : Opened(o, who).docs[q] \in {order[q], NoDocuments[q]}
    <3>1. Takes(p, "find", Opened(o, who))
      BY <2>1, RenewStartTakes
    <3>2. Opened(o, who) \in Held /\ stage[p] = "idle"
      BY <2>1, <3>1 DEF Takes, RenewStart
    <3>3. /\ Opened(o, who).docs[o] = order[o]
          /\ \A q \in Orders \ {o} : Opened(o, who).docs[q] = NoDocuments[q]
      BY <2>1, RenewStartTakes
    <3> QED  BY <3>1, <3>2, <3>3
  <2>3. UNCHANGED <<remote, order, live, behind>>
    BY <2>1 DEF RenewStart, docVars
  <2>4. \A q \in Orders : Opened(o, who).docs[q].end \in {0, order[q].end}
    BY <1>0, <2>2
  <2> QED  BY <1>1, <2>2, <2>3, <2>4 DEF Stages
<1>5. CASE RenewFind(p)
  <2>1. stage[p] = "find" /\ UNCHANGED <<remote, order, live, behind>>
    BY <1>5 DEF RenewFind, docVars, histVars
  <2>2. ASSUME NEW l \in {"debit", "provider"}, NEW j \in Held, Takes(p, l, j), j.docs = task[p].docs
        PROVE  PromiseInv'
    BY <1>1, <2>1, <2>2 DEF Stages
  <2>3. ASSUME Takes(p, "idle", Idle) PROVE PromiseInv'
    <3>1. \A o \in Orders : Idle.docs[o].end = 0
      BY DEF Idle, NoDocuments
    <3> QED  BY <1>1, <2>1, <2>3, <3>1, IdleIsHeld DEF Stages
  <2>4. \/ Takes(p, "idle", Idle)
        \/ \E l \in {"debit", "provider"}, j \in Held : Takes(p, l, j) /\ j.docs = task[p].docs
    <3>1. ASSUME NEW l \in {"debit", "provider"}, NEW j \in Held, Takes(p, l, j), j.docs = task[p].docs
          PROVE  \E m \in {"debit", "provider"}, k \in Held : Takes(p, m, k) /\ k.docs = task[p].docs
      BY <3>1
    <3> QED  BY <1>5, <3>1, RenewFindTakes
  <2> QED  BY <2>2, <2>3, <2>4
<1>6. CASE \E picked \in [Orders -> SUBSET Slots] :
             (\A o \in Orders : picked[o] \subseteq Owned[o]) /\ BulkStart(p, picked)
  <2>1. PICK picked \in [Orders -> SUBSET Slots] :
             (\A o \in Orders : picked[o] \subseteq Owned[o]) /\ BulkStart(p, picked)
    BY <1>6
  <2>2. PICK j \in Held : Takes(p, "select", j) /\ j.docs = NoDocuments
    BY <2>1, BulkStartTakes
  <2>3. stage[p] = "idle" /\ UNCHANGED <<remote, order, live, behind>>
    BY <2>1 DEF BulkStart, docVars
  <2> QED  BY <1>0, <1>1, <2>2, <2>3 DEF Stages
<1>7. CASE BulkSelect(p)
  <2>1. stage[p] = "select" /\ UNCHANGED <<remote, order, live, behind>>
    BY <1>7 DEF BulkSelect, docVars, histVars
  <2>2. Fails(p, "failed") \/ \E j \in Held : Takes(p, "load", j) /\ j.docs = task[p].docs
    BY <1>7, BulkSelectTakes
  <2> QED  BY <1>1, <1>2, <2>1, <2>2 DEF Stages
<1>8. CASE BulkLoad(p)
  <2>1. stage[p] = "load" /\ UNCHANGED <<remote, order, live, behind>>
    BY <1>8 DEF BulkLoad, docVars, histVars
  <2>2. Fails(p, "failed") \/ \E j \in Held : /\ Takes(p, "wallet", j)
                                              /\ \A o \in Orders : j.docs[o] \in {order[o], task[p].docs[o]}
    BY <1>8, BulkLoadTakes
  <2>3. ASSUME NEW j \in Held, Takes(p, "wallet", j), \A o \in Orders : j.docs[o] \in {order[o], task[p].docs[o]}
        PROVE  PromiseInv'
    <3>1. \A o \in Orders : j.docs[o].end \in {order[o].end, task[p].docs[o].end}
      BY <2>3
    <3> QED  BY <1>1, <2>1, <2>3, <3>1 DEF Stages
  <2> QED  BY <1>2, <2>1, <2>2, <2>3
<1>9. CASE BulkWallet(p)
  <2>1. stage[p] = "wallet" /\ UNCHANGED <<remote, order, live, behind>>
    BY <1>9 DEF BulkWallet, docVars, histVars
  <2> QED  BY <1>1, <1>2, <1>9, <2>1, BulkWalletTakes, HeldTypes DEF Stages
<1>10. CASE Debit(p)
  <2>1. stage[p] = "debit" /\ UNCHANGED <<remote, order, live, behind>>
    BY <1>10 DEF Debit, docVars
  <2>2. (\E r, t : Settles(p, r, t)) \/ \E j \in Held : Takes(p, "provider", j) /\ j.docs = task[p].docs
    BY <1>10, DebitTakes DEF Keeps
  <2> QED  BY <1>1, <1>2, <2>1, <2>2 DEF Stages
<1>11. CASE SaveRenewal(p)
  BY <1>11, SavePromise
<1>12. CASE Prune(p)
  <2>1. stage[p] = "prune" /\ UNCHANGED <<remote, order, behind>> /\ task[p].at \in Orders
    BY <1>12, AtHand DEF Prune, histVars, Hand
  <2>2. live' = live \/ live' = [live EXCEPT ![task[p].at] = @ \cap task[p].picked[task[p].at]]
    BY <1>12, PruneTakes
  <2>3. live'[task[p].at] \subseteq task[p].picked[task[p].at]
    BY <1>12, <2>1, PruneTakes, Typed
  <2>4. \A o \in Orders : live'[o] \subseteq live[o]
    BY <2>1, <2>2, Typed
  <2>5. \E l \in {"idle", "record", "debit", "count"}, j \in Held :
          Takes(p, l, j) /\ \A o \in Orders : j.docs[o].end \in {0, task[p].docs[o].end}
    <3>1. CASE Takes(p, "count", task[p])
      BY <3>1, HeldTypes
    <3>2. CASE Settles(p, "renewed", task[p].todo)
      <4>1. PICK l \in {"idle", "record", "debit"}, j \in Held :
              Takes(p, l, j) /\ \A o \in Orders : j.docs[o].end \in {0, task[p].docs[o].end}
        BY <3>2, SettlesAt
      <4>2. l \in {"idle", "record", "debit", "count"}
        OBVIOUS
      <4> QED  BY <4>1, <4>2
    <3>3. Takes(p, "count", task[p]) \/ Settles(p, "renewed", task[p].todo)
      BY <1>12, PruneTakes
    <3> QED  BY <3>1, <3>2, <3>3
  <2> QED  BY <2>1, <2>3, <2>4, <2>5, IdlePromise DEF Stages
<1>13. CASE PruneCount(p)
  <2>1. stage[p] = "count" /\ UNCHANGED <<remote, live, behind>> /\ task[p].at \in Orders
    BY <1>13, AtHand DEF PruneCount, histVars, Hand
  <2>2. \A o \in Orders : order'[o].end = order[o].end
    BY <1>13, <2>1, Typed DEF PruneCount, Document
  <2>3. \E l \in {"idle", "record", "debit"}, j \in Held :
          Takes(p, l, j) /\ \A o \in Orders : j.docs[o].end \in {0, task[p].docs[o].end}
    BY <1>13, PruneCountTakes, SettlesAt
  <2> QED  BY <2>1, <2>2, <2>3, IdlePromise DEF Stages
<1>14. CASE Acknowledge(p)
  BY <1>14, AcknowledgePromise
<1>15. CASE ScanStart(p)
  <2>1. UNCHANGED <<remote, order, live, behind>> /\ stage[p] = "idle"
    BY <1>15 DEF ScanStart, docVars, histVars
  <2>2. ASSUME Takes(p, "list", Between({})) PROVE PromiseInv'
    <3>1. Between({}).docs = NoDocuments
      BY DEF Between, Idle
    <3> QED  BY <1>0, <1>1, <2>1, <2>2, <3>1 DEF Stages, Takes
  <2> QED  BY <1>3, <1>15, <2>1, <2>2, ScanStartTakes
<1>16. CASE ScanList(p)
  <2>1. UNCHANGED <<remote, order, live, behind>> /\ stage[p] = "list"
    BY <1>16 DEF ScanList, docVars, histVars
  <2>2. PICK j \in Held : Takes(p, "run", j) /\ j.docs = task[p].docs
    BY <1>16, ScanListTakes
  <2> QED  BY <1>1, <2>1, <2>2 DEF Stages
<1>17. CASE RunFind(p)
  <2>1. UNCHANGED <<remote, order, live, behind>> /\ stage[p] = "run"
    BY <1>17 DEF RunFind, docVars
  <2>2. PICK l \in {"run", "claim"}, j \in Held : Takes(p, l, j) /\ j.docs = NoDocuments
    BY <1>17, RunFindTakes
  <2> QED  BY <1>0, <1>1, <2>1, <2>2 DEF Stages
<1>18. ASSUME NEW runs, Takes(p, "run", Between(runs)), UNCHANGED <<remote, order, live, behind>>,
              stage[p] \notin {"save", "prune"}
       PROVE  PromiseInv'
  <2>1. Between(runs).docs = NoDocuments
    BY DEF Between, Idle
  <2> QED  BY <1>0, <1>1, <1>18, <2>1 DEF Stages, Takes
<1>19. CASE RunClaim(p)
  <2>1. UNCHANGED <<remote, order, live, behind>> /\ stage[p] = "claim"
    BY <1>19 DEF RunClaim, docVars, histVars
  <2>2. ASSUME Takes(p, "select", task[p]) PROVE PromiseInv'
    BY <1>1, <2>1, <2>2, HeldTypes DEF Stages
  <2> QED  BY <1>18, <1>19, <2>1, <2>2, RunClaimTakes
<1>20. CASE RunRecord(p)
  <2>1. UNCHANGED <<remote, order, live, behind>> /\ stage[p] = "record"
    BY <1>20 DEF RunRecord, docVars, histVars
  <2> QED  BY <1>18, <1>20, <2>1, RunRecordTakes
<1>21. CASE ScanUnlock(p)
  <2>1. UNCHANGED <<remote, order, live, behind>> /\ stage[p] = "run" /\ Takes(p, "idle", Idle)
    BY <1>21, FinishTakes DEF ScanUnlock, docVars, histVars
  <2>2. \A o \in Orders : Idle.docs[o].end = 0
    BY DEF Idle, NoDocuments
  <2> QED  BY <1>1, <2>1, <2>2, IdleIsHeld DEF Stages
<1> QED  BY <1>4, <1>5, <1>6, <1>7, <1>8, <1>9, <1>10, <1>11, <1>12, <1>13, <1>14, <1>15, <1>16, <1>17,
            <1>19, <1>20, <1>21 DEF Goes

\* So does every failure.
LEMMA StumblesPromise ==
    ASSUME JobInv, PromiseInv, NEW p \in Executions, Stumbles(p)
    PROVE  PromiseInv'
<1>0. \A o \in Orders : Idle.docs[o].end = 0
  BY DEF Idle, NoDocuments
<1>1. CASE AcknowledgeSome(p)
  BY <1>1, AcknowledgePromise
<1>2. CASE Refuse(p)
  <2> DEFINE at == task[p].at
  <2>1. stage[p] = "provider" /\ at \in Orders /\ UNCHANGED <<order, live>>
    BY <1>2, AtHand DEF Refuse, Hand
  <2>2. PICK renewed \in SUBSET WithId(task[p], at) :
          \/ UNCHANGED <<remote, unsaved, behind>>
          \/ /\ Extend(at, renewed)
             /\ behind' = [behind EXCEPT ![at] = @ \cup ((live[at] \cap Ids[at]) \ renewed)]
    BY <1>2 DEF Refuse
  <2>3. \E l \in {"idle", "refund"}, j \in Held : Takes(p, l, j) /\ \A o \in Orders : j.docs[o].end \in {0, task[p].docs[o].end}
    <3>1. CASE Takes(p, "idle", Idle)
      BY <1>0, <3>1, IdleIsHeld
    <3>2. CASE Takes(p, "refund", task[p])
      BY <3>2, HeldTypes
    <3> QED  BY <1>2, <3>1, <3>2, RefuseTakes
  <2>4. PICK l \in {"idle", "refund"}, j \in Held : Takes(p, l, j) /\ \A o \in Orders : j.docs[o].end \in {0, task[p].docs[o].end}
    BY <2>3
  <2>5. CASE UNCHANGED <<remote, unsaved, behind>>
    BY <2>1, <2>4, <2>5, IdlePromise DEF Stages
  <2>6. CASE ~UNCHANGED <<remote, unsaved, behind>>
    <3>1. Extend(at, renewed) /\ renewed \in SUBSET Slots
      BY <2>1, <2>2, <2>6, ConstantTypes DEF WithId
    <3>2. /\ behind'[at] = behind[at] \cup ((live[at] \cap Ids[at]) \ renewed)
          /\ \A o \in Orders : behind[o] \subseteq behind'[o]
      BY <2>1, <2>2, <2>6, Typed
    <3>3. \A s \in (live[at] \cap Ids[at]) \ behind'[at] : s \in renewed \/ (l = "save" /\ s \notin j.picked[at])
      BY <3>2
    <3>4. l \in Stages \ {"prune"} /\ l # "save" /\ Takes(p, l, j) /\ stage[p] = "provider" /\ order' = order /\ live' = live
          /\ \A o \in Orders : j.docs[o].end \in {0, task[p].docs[o].end}
      BY <2>1, <2>4 DEF Stages
    <3> QED  BY <3>1, <3>2, <3>3, <3>4, RenewsPromise
  <2> QED  BY <2>5, <2>6
<1>3. CASE Refund(p)
  <2>1. stage[p] = "refund" /\ UNCHANGED <<remote, order, live, behind>>
    BY <1>3 DEF Refund, docVars, histVars
  <2> QED  BY <1>3, <2>1, RefundTakes, SettlesAt, IdlePromise DEF Stages
<1>4. CASE SaveFails(p)
  <2> DEFINE at == task[p].at
  <2>1. stage[p] = "save" /\ at \in Orders /\ UNCHANGED <<order, live, remote>>
        /\ behind' = [behind EXCEPT ![at] = @ \cup (live[at] \ task[p].picked[at])]
    BY <1>4, AtHand DEF SaveFails, Hand, docVars
  <2>2. /\ behind'[at] = behind[at] \cup (live[at] \ task[p].picked[at])
        /\ \A o \in Orders : behind[o] \subseteq behind'[o]
    BY <2>1, Typed
  <2>3. (live'[at] \cap Ids[at]) \ behind'[at] \subseteq task[p].picked[at]
    BY <2>1, <2>2
  <2>4. PICK l \in {"idle", "record", "debit"}, j \in Held :
          Takes(p, l, j) /\ \A o \in Orders : j.docs[o].end \in {0, task[p].docs[o].end}
    BY <1>4, SaveFailsTakes, SettlesAt
  <2> QED  BY <2>1, <2>2, <2>3, <2>4, IdlePromise DEF Stages
<1>5. CASE Die(p)
  <2>1. UNCHANGED <<order, live, remote>> /\ Takes(p, "idle", Idle)
    BY <1>5, FinishTakes DEF Die, docVars
  <2>2. \A o \in Orders : behind'[o] = behind[o] \cup
                    (IF stage[p] \in {"save", "prune"} /\ task[p].at = o THEN live[o] \ task[p].picked[o] ELSE {})
    BY <1>5 DEF Die
  <2>3. stage[p] \in {"save", "prune"} => (live'[task[p].at] \cap Ids[task[p].at]) \ behind'[task[p].at] \subseteq task[p].picked[task[p].at]
    BY <2>1, <2>2, AtHand DEF Hand
  <2> QED  BY <1>0, <2>1, <2>2, <2>3, IdlePromise, IdleIsHeld DEF Stages
<1> QED  BY <1>1, <1>2, <1>3, <1>4, <1>5 DEF Stumbles

\* Every step keeps the promises (PromiseKept).
LEMMA NextPromises == JobInv /\ PromiseInv /\ [RenewalNext]_renewalVars => PromiseInv'
<1> SUFFICES ASSUME JobInv, PromiseInv, [RenewalNext]_renewalVars PROVE PromiseInv'
  OBVIOUS
<1>1. ASSUME UNCHANGED <<stage, task, live, behind, remote>>, \A o \in Orders : order'[o].end = order[o].end
      PROVE  PromiseInv'
  BY <1>1 DEF PromiseInv, Ahead, Leaving, Covered, Noted
<1>2. ASSUME NEW p \in Executions, Goes(p) \/ Stumbles(p)
      PROVE  PromiseInv'
  BY <1>2, GoesPromise, StumblesPromise
<1>3. CASE Environment
  <2>1. UNCHANGED <<stage, task, live, behind, remote>>
    BY <1>3 DEF Environment, CreateSelection, SwitchSchedule, DeleteSelection, SwitchPartner, Expire, NextDay,
                LockLapse, docVars, histVars
  <2>2. order' = order \/ \E o \in Orders : order' = [order EXCEPT ![o].status = "EXPIRED"]
    BY <1>3 DEF Environment, CreateSelection, SwitchSchedule, DeleteSelection, SwitchPartner, Expire, NextDay,
                LockLapse, docVars
  <2>3. \A o \in Orders : order'[o].end = order[o].end
    <3>1. order \in [Orders -> Document]
      BY Typed
    <3>2. ASSUME NEW o \in Orders, order' = [order EXCEPT ![o].status = "EXPIRED"], NEW q \in Orders
          PROVE  order'[q].end = order[q].end
      BY <3>1, <3>2 DEF Document
    <3> QED  BY <2>2, <3>2
  <2> QED  BY <1>1, <2>1, <2>3
<1>4. CASE UNCHANGED renewalVars
  BY <1>1, <1>4 DEF renewalVars, docVars, histVars
<1> QED  BY <1>2, <1>3, <1>4, NextGoes

\* At the start every proxy ends with its order.
LEMMA InitPromises == RenewalInit => PromiseInv
<1> SUFFICES ASSUME RenewalInit PROVE PromiseInv
  OBVIOUS
<1>1. \A o \in Orders : order[o].end = FirstEnd /\ \A s \in Slots : remote[o][s] = FirstEnd
  BY DEF RenewalInit
<1>2. \A p \in Executions : stage[p] = "idle" /\ task[p] = Idle
  BY DEF RenewalInit
<1>3. \A p \in Executions, o \in Orders : task[p].docs[o].end = 0
  BY <1>2 DEF Idle, NoDocuments
<1>4. \A o \in Orders, s \in Slots : Covered(o, s)
  BY <1>1, <1>2, <1>3, ConstantTypes DEF Covered, Writes
<1>5. \A p \in Executions : Noted(p)
  BY <1>2 DEF Noted
<1> QED  BY <1>4, <1>5 DEF PromiseInv

-----------------------------------------------------------------------------
(* Counted renewals.                                                       *)

\* The end of an order after its n-th renewal.
Ended(n) == FirstEnd + n * Term

\* Execution j, at label l, has order o renewed but is not done with it.
Finishing(l, j, o) == l \in {"save", "prune", "count"} /\ j.at = o

\* Execution j, at label l, has yet to look for the proxies it was asked to renew.
Picking(l, j) == l = "find" \/ (l = "select" /\ j.who = "bulk")

\* What execution j, at label l, read and picked of order o still stands.
Sees(o, l, j) ==
    /\ Holds(l, j, o) => j.docs[o] = order[o] /\ order[o].status = "ACTIVE"
    /\ o \in Engaged(j) /\ ~Picking(l, j) => j.picked[o] \subseteq live[o]

\* The renewals of order o are counted, but for the one that execution j is about to save.
Counts(o, l, j) ==
    ~unsaved[o] =>
        order[o].renews + (IF l = "save" /\ j.at = o THEN 1 ELSE 0) = acked[o]

\* Its end and its proxies' have moved by as many terms, when all were renewed together.
Dates(o, l, j) ==
    ~unsaved[o] /\ behind[o] = {} =>
        /\ order[o].end + (IF l = "save" /\ j.at = o THEN Term ELSE 0) = Ended(acked[o])
        /\ \A s \in live[o] \cap Ids[o] :
              s \in j.picked[o] \/ ~(l \in {"save", "prune"} /\ j.at = o) => remote[o][s] = Ended(acked[o])
        /\ l = "save" /\ j.at = o => j.end \in {None, Ended(acked[o])}

\* Its quantity is that of its proxies, unless execution j is about to correct it.
Numbers(o, l, j) ==
    troubles = 0 /\ ~(l = "count" /\ j.at = o) => order[o].quantity = Cardinality(live[o])

Account(o, l, j) == Sees(o, l, j) /\ Counts(o, l, j) /\ Dates(o, l, j) /\ Numbers(o, l, j)

\* At most one execution renews order o, and it accounts for it.
Accounted(o) ==
    /\ \A p, q \in Executions : o \in Engaged(task[p]) /\ o \in Engaged(task[q]) => p = q
    /\ \A p \in Executions : o \in Engaged(task[p]) => Account(o, stage[p], task[p])
    /\ (\A p \in Executions : o \notin Engaged(task[p])) => Account(o, "idle", Idle)

CountInv == \A o \in Orders : ~overlap[o] => Accounted(o)
\* One renewal more, one term more.
LEMMA EndedNext ==
    ASSUME NEW n \in Nat
    PROVE  Ended(n) \in Nat /\ Ended(n + 1) = Ended(n) + Term
<1>1. FirstEnd \in Nat /\ Term \in Nat
  BY ConstantTypes
<1>2. (n + 1) * Term = n * Term + Term /\ n * Term \in Nat
  BY <1>1
<1> QED  BY <1>1, <1>2 DEF Ended

\* An execution renews only orders of which it picked proxies.
LEMMA HoldsEngaged ==
    ASSUME NEW l \in Stages, NEW j \in Held, NEW d, HeldOk(l, j, d), NEW o \in Orders, Holds(l, j, o)
    PROVE  o \in Engaged(j)
<1>1. CASE l = "find"
  BY <1>1 DEF HeldOk, Holds, Hand
<1>2. CASE l # "find"
  BY <1>2 DEF HeldOk, WithId, Engaged
<1> QED  BY <1>1, <1>2

\* An execution that picked nothing of an order accounts for it as an idle one does.
LEMMA Apart ==
    ASSUME NEW l \in Stages, NEW j \in Held, NEW d, HeldOk(l, j, d), NEW o \in Orders, o \notin Engaged(j)
    PROVE  Account(o, l, j) <=> Account(o, "idle", Idle)
<1>1. ~Holds(l, j, o)
  BY HoldsEngaged
<1>2. ~Holds("idle", Idle, o) /\ o \notin Engaged(Idle)
  BY DEF Holds, Hand, Idle, Engaged, NoProxies
<1>3. ~(l \in {"save", "prune", "count"} /\ j.at = o)
  BY <1>1 DEF Holds, Hand
<1> QED  BY <1>1, <1>2, <1>3 DEF Account, Sees, Picking, Counts, Dates, Numbers

\* What counts of order o stays as it is.
Same(o) ==
    /\ order'[o] = order[o] /\ live'[o] = live[o] /\ remote'[o] = remote[o] /\ behind'[o] = behind[o]
    /\ unsaved'[o] = unsaved[o] /\ acked'[o] = acked[o]
    /\ troubles' = 0 => troubles = 0

\* Where what counts of an order stays, so does its account.
LEMMA SameAccount ==
    ASSUME NEW o, NEW l, NEW j, Same(o), Account(o, l, j)
    PROVE  Account(o, l, j)'
  BY DEF Same, Account, Sees, Counts, Dates, Numbers

\* An execution renews the order alone, before or after its step: it accounts for it.
LEMMA Before ==
    ASSUME JobInv, NEW o \in Orders, Accounted(o), NEW p \in Executions,
           o \in Engaged(task[p]) \/ \A q \in Executions \ {p} : o \notin Engaged(task[q])
    PROVE  Account(o, stage[p], task[p])
<1>1. CASE o \in Engaged(task[p])
  BY <1>1 DEF Accounted
<1>2. CASE o \notin Engaged(task[p])
  <2>1. Account(o, "idle", Idle)
    BY <1>2 DEF Accounted
  <2>2. stage[p] \in Stages /\ task[p] \in Held /\ HeldOk(stage[p], task[p], now)
    BY DEF JobInv, RenewalTypes
  <2>3. ASSUME NEW l \in Stages, NEW j \in Held, HeldOk(l, j, now), o \notin Engaged(j)
        PROVE  Account(o, l, j)
    BY <2>1, <2>3, Apart
  <2> QED  BY <1>2, <2>2, <2>3
<1> QED  BY <1>1, <1>2

\* Nobody else has begun to renew order o.
Free(p, o) == \A q \in Executions \ {p} : o \notin Engaged(task[q])

\* A step of execution p accounts for the order when p does.
LEMMA Recounted ==
    ASSUME JobInv, NEW o \in Orders, Accounted(o), NEW p \in Executions, NEW l \in Stages, NEW j \in Held,
           Takes(p, l, j), NEW d, HeldOk(l, j, d),
           o \in Engaged(j) => o \in Engaged(task[p]) \/ Free(p, o),
           o \notin Engaged(task[p]) /\ o \notin Engaged(j) => Same(o),
           Account(o, stage[p], task[p]) /\ (o \in Engaged(task[p]) \/ o \in Engaged(j)) => Account(o, l, j)'
    PROVE  Accounted(o)'
<1>0. /\ stage'[p] = l /\ task'[p] = j
      /\ \A q \in Executions \ {p} : stage'[q] = stage[q] /\ task'[q] = task[q]
  BY DEF Takes
<1>1. CASE o \in Engaged(task[p]) \/ o \in Engaged(j)
  <2>1. Free(p, o)
    BY <1>1 DEF Free, Accounted
  <2>2. Account(o, l, j)'
    BY <1>1, <2>1, Before DEF Free
  <2>3. \A q \in Executions \ {p} : o \notin Engaged(task'[q])
    BY <1>0, <2>1 DEF Free
  <2>4. \A q \in Executions : o \in Engaged(task'[q]) => q = p
    BY <2>3
  <2>5. ASSUME NEW q \in Executions, o \in Engaged(task'[q])
        PROVE  Account(o, stage[q], task[q])'
    <3>1. stage'[q] = l /\ task'[q] = j
      BY <1>0, <2>4, <2>5
    <3> QED  BY <2>2, <3>1 DEF Account, Sees, Picking, Counts, Dates, Numbers
  <2>6. (\A q \in Executions : o \notin Engaged(task'[q])) => Account(o, "idle", Idle)'
    <3> SUFFICES ASSUME o \notin Engaged(j) PROVE Account(o, "idle", Idle)'
      BY <1>0
    <3>1. ~Holds(l, j, o)
      BY HoldsEngaged
    <3>2. ~Holds("idle", Idle, o) /\ o \notin Engaged(Idle)
      BY DEF Holds, Hand, Idle, Engaged, NoProxies
    <3>3. ~(l \in {"save", "prune", "count"} /\ j.at = o)
      BY <3>1 DEF Holds, Hand
    <3> QED  BY <2>2, <3>1, <3>2, <3>3 DEF Account, Sees, Picking, Counts, Dates, Numbers
  <2> QED  BY <2>4, <2>5, <2>6 DEF Accounted
<1>2. CASE o \notin Engaged(task[p]) /\ o \notin Engaged(j)
  <2>1. Same(o)
    BY <1>2
  <2>2. \A q \in Executions : o \in Engaged(task'[q]) => q # p /\ o \in Engaged(task[q]) /\ stage'[q] = stage[q] /\ task'[q] = task[q]
    BY <1>0, <1>2
  <2>3. \A q \in Executions : o \in Engaged(task[q]) => o \in Engaged(task'[q])
    BY <1>0, <1>2
  <2>4. ASSUME NEW q \in Executions, o \in Engaged(task'[q])
        PROVE  Account(o, stage[q], task[q])'
    <3>1. PICK m, k : m = stage[q] /\ k = task[q]
      OBVIOUS
    <3>2. Account(o, m, k)
      BY <2>2, <2>4, <3>1 DEF Accounted
    <3>3. Account(o, m, k)'
      BY <2>1, <3>2, SameAccount
    <3>4. stage'[q] = m /\ task'[q] = k
      BY <2>2, <2>4, <3>1
    <3> QED  BY <3>3, <3>4 DEF Account, Sees, Picking, Counts, Dates, Numbers
  <2>5. ASSUME \A q \in Executions : o \notin Engaged(task'[q]) PROVE Account(o, "idle", Idle)'
    <3>1. Account(o, "idle", Idle)
      BY <1>2, <2>3, <2>5 DEF Accounted
    <3> QED  BY <2>1, <3>1, SameAccount
  <2>6. \A q, r \in Executions : o \in Engaged(task'[q]) /\ o \in Engaged(task'[r]) => q = r
    BY <2>2 DEF Accounted
  <2> QED  BY <2>4, <2>5, <2>6 DEF Accounted
<1> QED  BY <1>1, <1>2

\* Where order o is not the one a step of execution p finishes, the step accounts for it.
Follows(p, l, j, o) ==
    /\ ~Finishing(stage[p], task[p], o) /\ ~Finishing(l, j, o)
    /\ Holds(l, j, o) => \/ Holds(stage[p], task[p], o) /\ j.docs[o] = task[p].docs[o]
                         \/ j.docs[o] = order[o] /\ order[o].status = "ACTIVE"
    /\ o \in Engaged(j) => o \in Engaged(task[p]) \/ Free(p, o)
    /\ o \in Engaged(j) /\ ~Picking(l, j) =>
          \/ j.picked[o] \subseteq live[o]
          \/ o \in Engaged(task[p]) /\ ~Picking(stage[p], task[p]) /\ j.picked[o] = task[p].picked[o]

\* An execution that goes on as the count expects keeps the count.
LEMMA FollowsCounted ==
    ASSUME JobInv, NEW o \in Orders, Accounted(o), NEW p \in Executions, NEW l \in Stages, NEW j \in Held,
           Takes(p, l, j), NEW d, HeldOk(l, j, d), Follows(p, l, j, o), Same(o)
    PROVE  Accounted(o)'
<1>1. ASSUME NEW m, NEW k, m = stage[p], k = task[p], Account(o, m, k)
      PROVE  Account(o, l, j)'
  <2>1. Sees(o, l, j)'
    BY <1>1 DEF Account, Sees, Follows, Same
  <2>2. ~(l \in {"save", "prune", "count"} /\ j.at = o) /\ ~(m \in {"save", "prune", "count"} /\ k.at = o)
    BY <1>1 DEF Follows, Finishing
  <2>3. Counts(o, l, j)'
    BY <1>1, <2>2 DEF Account, Counts, Same
  <2>4. Dates(o, l, j)'
    BY <1>1, <2>2 DEF Account, Dates, Same
  <2>5. Numbers(o, l, j)'
    BY <1>1, <2>2 DEF Account, Numbers, Same
  <2> QED  BY <2>1, <2>3, <2>4, <2>5 DEF Account
<1>2. o \in Engaged(j) => o \in Engaged(task[p]) \/ Free(p, o)
  BY DEF Follows
<1>3. Account(o, stage[p], task[p]) => Account(o, l, j)'
  BY <1>1
<1> QED  BY <1>2, <1>3, Recounted

\* Nothing moves: the count stays.
LEMMA SameCounted ==
    ASSUME NEW o \in Orders, Accounted(o), UNCHANGED <<stage, task>>, Same(o)
    PROVE  Accounted(o)'
<1>1. ASSUME NEW l, NEW j, Account(o, l, j) PROVE Account(o, l, j)'
  BY <1>1, SameAccount
<1>2. ASSUME NEW q \in Executions, o \in Engaged(task[q])
      PROVE  Account(o, stage[q], task[q])'
  <2>1. PICK m, k : m = stage[q] /\ k = task[q]
    OBVIOUS
  <2>2. Account(o, m, k)
    BY <1>2, <2>1 DEF Accounted
  <2>3. Account(o, m, k)'
    BY <1>1, <2>2
  <2>4. stage'[q] = m /\ task'[q] = k
    BY <2>1
  <2> QED  BY <2>3, <2>4 DEF Account, Sees, Picking, Counts, Dates, Numbers
<1>3. (\A q \in Executions : o \notin Engaged(task[q])) => Account(o, "idle", Idle)'
  BY <1>1 DEF Accounted
<1> QED  BY <1>2, <1>3 DEF Accounted

\* A step that ends the renewal of an order follows the others.
Leaves(p, l, j, todo) ==
    /\ Takes(p, l, j) /\ HeldOk(l, j, now)
    /\ \A o \in Orders : ~Finishing(stage[p], task[p], o) => Follows(p, l, j, o)
    /\ \A o \in Orders : ~Finishing(l, j, o) /\ (Holds(l, j, o) => o \in todo)
    /\ \A o \in Orders : j.picked[o] \in {{}, task[p].picked[o]}

\* An execution that ends leaves its orders.
LEMMA IdleLeaves ==
    ASSUME JobInv, NEW p \in Executions, Takes(p, "idle", Idle), NEW todo
    PROVE  Leaves(p, "idle", Idle, todo)
<1>1. Idle.todo = {} /\ \A o \in Orders : o \notin Engaged(Idle) /\ Idle.picked[o] = {}
  BY DEF Idle, Engaged, NoProxies
<1>2. HeldOk("idle", Idle, now)
  BY IdleIsHeld, HeldTypes
<1> QED  BY <1>1, <1>2 DEF Leaves, Follows, Finishing, Holds, Hand

\* A settled order is left.
LEMMA SettlesLeaves ==
    ASSUME JobInv, NEW p \in Executions, NEW r, NEW todo, stage[p] \in Renewing, todo \subseteq task[p].todo, Settles(p, r, todo)
    PROVE  \E l \in {"idle", "record", "debit"}, j \in Held : Leaves(p, l, j, todo)
<1>1. CASE Takes(p, "idle", Idle)
  BY <1>1, IdleLeaves, IdleIsHeld
<1>2. ASSUME NEW l \in {"record", "debit"}, NEW j \in Held,
             Takes(p, l, j), HeldOk(l, j, now), Keeps(task[p], j), j.todo = todo
      PROVE  Leaves(p, l, j, todo)
  <2>1. \A o \in Orders : /\ ~Finishing(l, j, o) /\ (Holds(l, j, o) => o \in todo)
                          /\ o \in todo => Holds(stage[p], task[p], o)
    BY <1>2 DEF Finishing, Holds, Hand
  <2>2. \A o \in Orders : j.picked[o] = task[p].picked[o] /\ j.docs[o] = task[p].docs[o]
    BY <1>2 DEF Keeps
  <2>3. \A o \in Orders : o \in Engaged(j) => o \in Engaged(task[p])
    BY <2>2 DEF Engaged
  <2>4. ~Picking(stage[p], task[p])
    BY DEF Picking, Renewing
  <2> QED  BY <1>2, <2>1, <2>2, <2>3, <2>4 DEF Leaves, Follows
<1> QED  BY <1>1, <1>2 DEF Settles

\* A failed bulk renewal leaves all its orders.
LEMMA FailsLeaves ==
    ASSUME JobInv, NEW p \in Executions, NEW r, stage[p] \in {"select", "load", "wallet"}, Fails(p, r)
    PROVE  \E l \in {"idle", "record", "debit"}, j \in Held : Leaves(p, l, j, task[p].todo)
<1>1. CASE Takes(p, "idle", Idle)
  BY <1>1, IdleLeaves, IdleIsHeld
<1>2. ASSUME NEW j \in Held, Takes(p, "record", j), HeldOk("record", j, now), Keeps(task[p], j), j.who = "auto",
             j.todo = task[p].todo
      PROVE  Leaves(p, "record", j, task[p].todo)
  <2>1. \A o \in Orders : /\ ~Finishing("record", j, o) /\ (Holds("record", j, o) => o \in task[p].todo)
                          /\ o \in task[p].todo => Holds(stage[p], task[p], o)
    BY <1>2 DEF Finishing, Holds, Hand
  <2>2. \A o \in Orders : j.picked[o] = task[p].picked[o] /\ j.docs[o] = task[p].docs[o]
    BY <1>2 DEF Keeps
  <2>3. \A o \in Orders : o \in Engaged(j) => o \in Engaged(task[p])
    BY <2>2 DEF Engaged
  <2>4. ~Picking(stage[p], task[p])
    BY <1>2 DEF Picking, Keeps
  <2> QED  BY <1>2, <2>1, <2>2, <2>3, <2>4 DEF Leaves, Follows
<1> QED  BY <1>1, <1>2 DEF Fails

\* An order that no execution renewed together with another so far was not before either.
LEMMA FollowsAll ==
    ASSUME JobInv, CountInv, NEW p \in Executions, NEW l \in Stages, NEW j \in Held, Takes(p, l, j), HeldOk(l, j, now),
           \A o \in Orders : overlap[o] => overlap'[o],
           \A o \in Orders : ~overlap'[o] => Follows(p, l, j, o) /\ Same(o)
    PROVE  CountInv'
  BY FollowsCounted DEF CountInv

\* A step that changes no document counts as before.
Steady ==
    /\ UNCHANGED <<order, live, remote, acked, behind, unsaved>>
    /\ troubles' = 0 => troubles = 0

\* When no document moves, nothing of an order moves.
LEMMA SteadySame == ASSUME Steady, NEW o PROVE Same(o)
  BY DEF Steady, Same

\* An execution may leave orders it has not written.
LEMMA LeavesCounted ==
    ASSUME JobInv, CountInv, NEW p \in Executions, stage[p] \notin {"save", "prune", "count"}, Steady, overlap' = overlap,
           NEW l \in Stages, NEW j \in Held, NEW todo, Leaves(p, l, j, todo)
    PROVE  CountInv'
<1>1. \A o \in Orders : Follows(p, l, j, o) /\ Same(o)
  BY SteadySame DEF Leaves, Finishing
<1> QED  BY <1>1, FollowsAll DEF Leaves

\* Executions that meet at an order overlap.
LEMMA MeetsFree ==
    ASSUME JobInv, NEW p \in Executions, NEW orders, Meets(p, orders)
    PROVE  /\ \A o \in Orders : overlap[o] => overlap'[o]
           /\ \A o \in Orders : ~overlap'[o] /\ o \in orders => Free(p, o)
<1>1. \A o \in Orders : overlap'[o] = (overlap[o] \/ (o \in orders /\ \E q \in Executions \ {p} : o \in Engaged(task[q])))
  BY Zenon DEF Meets
<1> QED  BY <1>1 DEF Free

\* Opening and searching keep the counts.
LEMMA BeginsCounted ==
    ASSUME JobInv, CountInv, NEW p \in Executions,
           \/ \E o \in Orders, who \in {"user", "admin"} : RenewStart(p, o, who)
           \/ RenewFind(p)
           \/ \E picked \in [Orders -> SUBSET Slots] :
                (\A o \in Orders : picked[o] \subseteq Owned[o]) /\ BulkStart(p, picked)
           \/ BulkSelect(p) \/ BulkLoad(p)
    PROVE  CountInv'
<1>1. CASE \E o \in Orders, who \in {"user", "admin"} : RenewStart(p, o, who)
  <2>1. PICK o \in Orders, who \in {"user", "admin"} : RenewStart(p, o, who)
    BY <1>1
  <2>2. /\ stage[p] = "idle" /\ Steady /\ Meets(p, {o}) /\ order[o].status = "ACTIVE"
    BY <2>1 DEF RenewStart, Renewable, Steady, docVars
  <2>3. PICK j \in Held : /\ j = Opened(o, who) /\ Takes(p, "find", j) /\ HeldOk("find", j, now)
                          /\ j.docs[o] = order[o] /\ \A q \in Orders \ {o} : j.picked[q] = {}
    BY <2>1, RenewStartTakes DEF Takes
  <2>4. \A q \in Orders : /\ q \in Engaged(j) => q = o
                          /\ Holds("find", j, q) => q = o
    BY <2>3, HoldsEngaged DEF Engaged, Stages
  <2>5. ASSUME NEW q \in Orders, ~overlap'[q] PROVE Follows(p, "find", j, q)
    <3>1. q = o => Free(p, q)
      BY <2>2, <2>5, MeetsFree
    <3> QED  BY <2>2, <2>3, <2>4, <3>1 DEF Follows, Finishing, Picking
  <2> QED  BY <2>2, <2>3, <2>5, SteadySame, MeetsFree, FollowsAll DEF Stages
<1>2. CASE RenewFind(p)
  <2> DEFINE at == task[p].at
  <2>1. stage[p] = "find" /\ Steady /\ overlap' = overlap
    BY <1>2 DEF RenewFind, Steady, docVars, histVars, bounds
  <2>2. HeldOk("find", task[p], now) /\ at \in Orders /\ Engaged(task[p]) = {at} /\ Holds("find", task[p], at)
    BY <2>1, HeldTypes DEF HeldOk, Hand, Holds
  <2>3. ASSUME Takes(p, "idle", Idle) PROVE CountInv'
    BY <2>1, <2>3, IdleLeaves, LeavesCounted, IdleIsHeld DEF Stages
  <2>4. ASSUME NEW l \in {"debit", "provider"}, NEW j \in Held, Takes(p, l, j), HeldOk(l, j, now),
               j.docs = task[p].docs,
               j.picked = [task[p].picked EXCEPT ![task[p].at] = live[task[p].at] \cap Ids[task[p].at]]
        PROVE  CountInv'
    <3>1. /\ \A q \in Orders \ {at} : j.picked[q] = {}
          /\ j.picked[at] \subseteq live[at]
      BY <2>2, <2>4, HeldTypes DEF Engaged
    <3>2. ASSUME NEW q \in Orders
          PROVE  (q \in Engaged(j) => q = at) /\ (Holds(l, j, q) => q \in Engaged(j))
      <4>1. l \in Stages
        BY DEF Stages
      <4>2. Holds(l, j, q) => q \in Engaged(j)
        BY <2>4, <4>1, HoldsEngaged
      <4> QED  BY <3>1, <4>2 DEF Engaged
    <3>3. ASSUME NEW q \in Orders PROVE Follows(p, l, j, q)
      BY <2>1, <2>2, <2>4, <3>1, <3>2 DEF Follows, Finishing, Picking
    <3> QED  BY <2>1, <2>4, <3>3, SteadySame, FollowsAll DEF Stages
  <2> QED  BY <1>2, <2>3, <2>4, RenewFindTakes
<1>3. CASE \E picked \in [Orders -> SUBSET Slots] :
             (\A o \in Orders : picked[o] \subseteq Owned[o]) /\ BulkStart(p, picked)
  <2>1. PICK picked \in [Orders -> SUBSET Slots] :
             (\A o \in Orders : picked[o] \subseteq Owned[o]) /\ BulkStart(p, picked)
    BY <1>3
  <2>2. stage[p] = "idle" /\ Steady /\ Meets(p, {o \in Orders : picked[o] # {}})
    BY <2>1 DEF BulkStart, Steady, docVars
  <2>3. PICK j \in Held : /\ Takes(p, "select", j) /\ HeldOk("select", j, now)
                          /\ j.who = "bulk" /\ j.picked = picked /\ j.todo = {}
    BY <2>1, BulkStartTakes
  <2>4. ASSUME NEW q \in Orders, ~overlap'[q] PROVE Follows(p, "select", j, q)
    <3>1. q \in Engaged(j) => Free(p, q)
      BY <2>2, <2>3, <2>4, MeetsFree DEF Engaged
    <3> QED  BY <2>2, <2>3, <3>1 DEF Follows, Finishing, Picking, Holds, Hand
  <2> QED  BY <2>2, <2>3, <2>4, SteadySame, MeetsFree, FollowsAll DEF Stages
<1>4. CASE BulkSelect(p)
  <2>1. stage[p] = "select" /\ Steady /\ overlap' = overlap
    BY <1>4 DEF BulkSelect, Steady, docVars, histVars, bounds
  <2>2. ASSUME Fails(p, "failed") PROVE CountInv'
    BY <2>1, <2>2, FailsLeaves, LeavesCounted DEF Stages
  <2>3. ASSUME NEW j \in Held, Takes(p, "load", j), HeldOk("load", j, now),
               j.picked = [o \in Orders |-> task[p].picked[o] \cap live[o]], j.todo = {}
        PROVE  CountInv'
    <3>1. \A q \in Orders : /\ j.picked[q] \subseteq live[q]
                            /\ q \in Engaged(j) => q \in Engaged(task[p])
      BY <2>3 DEF Engaged
    <3>2. \A q \in Orders : Follows(p, "load", j, q)
      BY <2>1, <2>3, <3>1 DEF Follows, Finishing, Picking, Holds, Hand
    <3> QED  BY <2>1, <2>3, <3>2, SteadySame, FollowsAll DEF Stages
  <2> QED  BY <1>4, <2>2, <2>3, BulkSelectTakes
<1>5. CASE BulkLoad(p)
  <2>1. stage[p] = "load" /\ Steady /\ overlap' = overlap
    BY <1>5 DEF BulkLoad, Steady, docVars, histVars, bounds
  <2>2. ASSUME Fails(p, "failed") PROVE CountInv'
    BY <2>1, <2>2, FailsLeaves, LeavesCounted DEF Stages
  <2>3. ASSUME NEW j \in Held, Takes(p, "wallet", j), HeldOk("wallet", j, now), j.picked = task[p].picked,
               j.todo = {o \in Orders : WithId(task[p], o) # {} /\ BulkTakes(o, order[o], WithId(task[p], o))},
               \A o \in Orders : j.docs[o] = IF o \in j.todo THEN order[o] ELSE task[p].docs[o]
        PROVE  CountInv'
    <3>1. \A q \in Orders : q \in j.todo => j.docs[q] = order[q] /\ order[q].status = "ACTIVE"
      BY <2>3 DEF BulkTakes, Renewable
    <3>2. \A q \in Orders : q \in Engaged(j) => q \in Engaged(task[p])
      BY <2>3 DEF Engaged
    <3>3. ~Picking(stage[p], task[p])
      BY <2>1 DEF Picking
    <3>4. \A q \in Orders : Follows(p, "wallet", j, q)
      BY <2>1, <2>3, <3>1, <3>2, <3>3 DEF Follows, Finishing, Holds, Hand
    <3> QED  BY <2>1, <2>3, <3>4, SteadySame, FollowsAll DEF Stages
  <2> QED  BY <1>5, <2>2, <2>3, BulkLoadTakes
<1> QED  BY <1>1, <1>2, <1>3, <1>4, <1>5

\* So do the steps of a scan.
LEMMA ScansCounted ==
    ASSUME JobInv, CountInv, NEW p \in Executions,
           \/ ScanStart(p) \/ ScanList(p) \/ RunFind(p) \/ RunClaim(p) \/ RunRecord(p) \/ ScanUnlock(p)
    PROVE  CountInv'
<1>1. ASSUME NEW l \in Stages, NEW j \in Held, Takes(p, l, j), HeldOk(l, j, now), Engaged(j) = {},
             l \notin {"save", "prune", "count"}, Steady, overlap' = overlap,
             stage[p] \notin {"save", "prune", "count"}
      PROVE  CountInv'
  <2>1. \A o \in Orders : ~Holds(l, j, o)
    BY <1>1, HoldsEngaged
  <2>2. \A o \in Orders : Follows(p, l, j, o)
    BY <1>1, <2>1 DEF Follows, Finishing
  <2> QED  BY <1>1, <2>2, SteadySame, FollowsAll
<1>2. ASSUME NEW runs, NEW l \in {"list", "run"}, Takes(p, l, Between(runs)), HeldOk(l, Between(runs), now),
             Steady, overlap' = overlap, stage[p] \notin {"save", "prune", "count"}
      PROVE  CountInv'
  <2>1. Engaged(Between(runs)) = {}
    BY DEF Between, Idle, Engaged, NoProxies
  <2>2. Between(runs) \in Held
    BY <1>2 DEF Takes
  <2>3. l \in Stages /\ l \notin {"save", "prune", "count"}
    BY DEF Stages
  <2> HIDE DEF Between
  <2> QED  BY <1>1, <1>2, <2>1, <2>2, <2>3
<1>3. ASSUME UNCHANGED <<stage, task>>, Steady, overlap' = overlap PROVE CountInv'
  BY <1>3, SteadySame, SameCounted DEF CountInv
<1>4. CASE ScanStart(p)
  <2>1. stage[p] = "idle" /\ Steady /\ overlap' = overlap
    BY <1>4 DEF ScanStart, Steady, docVars, histVars, bounds
  <2> QED  BY <1>2, <1>3, <1>4, <2>1, ScanStartTakes
<1>5. CASE ScanList(p)
  <2>1. stage[p] = "list" /\ Steady /\ overlap' = overlap
    BY <1>5 DEF ScanList, Steady, docVars, histVars, bounds
  <2> QED  BY <1>1, <1>5, <2>1, ScanListTakes DEF Stages
<1>6. CASE RunFind(p)
  <2>1. stage[p] = "run" /\ Steady
    BY <1>6 DEF RunFind, Steady, docVars, bounds
  <2>2. ASSUME NEW j \in Held, Takes(p, "run", j), HeldOk("run", j, now), Engaged(j) = {}, overlap' = overlap
        PROVE  CountInv'
    BY <1>1, <2>1, <2>2 DEF Stages
  <2>3. ASSUME NEW s, NEW j \in Held, Takes(p, "claim", j), HeldOk("claim", j, now), Meets(p, Due(s)), Engaged(j) = Due(s), j.todo = {},
               \A o \in Orders : j.picked[o] = IF o \in Due(s) THEN Chosen[s][o] \cap live[o] \cap Ids[o] ELSE {}
        PROVE  CountInv'
    <3>1. ASSUME NEW o \in Orders, ~overlap'[o] PROVE Follows(p, "claim", j, o)
      <4>1. o \in Engaged(j) => Free(p, o)
        BY <2>3, <3>1, MeetsFree
      <4>2. j.picked[o] \subseteq live[o]
        BY <2>3
      <4>3. ~Holds("claim", j, o)
        BY <2>3 DEF Holds, Hand
      <4> QED  BY <2>1, <4>1, <4>2, <4>3 DEF Follows, Finishing
    <3> QED  BY <2>1, <2>3, <3>1, SteadySame, MeetsFree, FollowsAll DEF Stages
  <2>4. PICK s \in task[p].runs, j \in Held :
              /\ s \in Selections /\ j.runs = task[p].runs \ {s} /\ j.who = "auto" /\ j.docs = NoDocuments
              /\ \/ /\ Due(s) = {} /\ Takes(p, "run", j) /\ HeldOk("run", j, now) /\ Engaged(j) = {}
                    /\ overlap' = overlap
                 \/ /\ Due(s) # {} /\ Takes(p, "claim", j) /\ HeldOk("claim", j, now)
                    /\ j.sel = s /\ j.day = now /\ Meets(p, Due(s)) /\ Engaged(j) = Due(s)
                    /\ j.todo = {}
                    /\ \A o \in Orders : j.picked[o] = IF o \in Due(s)
                                                       THEN Chosen[s][o] \cap live[o] \cap Ids[o] ELSE {}
    BY <1>6, RunFindTakes
  <2> QED  BY <2>2, <2>3, <2>4
<1>7. CASE RunClaim(p)
  <2>1. stage[p] = "claim" /\ Steady /\ overlap' = overlap
    BY <1>7 DEF RunClaim, Steady, docVars, histVars, bounds
  <2>2. ASSUME Takes(p, "select", task[p]), HeldOk("select", task[p], now), task[p].todo = {}
        PROVE  CountInv'
    <3>1. ASSUME NEW o \in Orders PROVE Follows(p, "select", task[p], o)
      <4>1. ~Holds("select", task[p], o) /\ ~Picking("claim", task[p])
        BY <2>2 DEF Holds, Hand, Picking
      <4> QED  BY <2>1, <4>1 DEF Follows, Finishing
    <3> QED  BY <2>1, <2>2, <3>1, HeldTypes, SteadySame, FollowsAll DEF Stages
  <2> QED  BY <1>2, <1>7, <2>1, <2>2, RunClaimTakes
<1>8. CASE RunRecord(p)
  <2>1. stage[p] = "record" /\ Steady /\ overlap' = overlap
    BY <1>8 DEF RunRecord, Steady, docVars, histVars, bounds
  <2> QED  BY <1>2, <1>8, <2>1, RunRecordTakes
<1>9. CASE ScanUnlock(p)
  <2>1. stage[p] = "run" /\ Steady /\ overlap' = overlap /\ Takes(p, "idle", Idle)
    BY <1>9, FinishTakes DEF ScanUnlock, Steady, docVars, histVars, bounds
  <2> QED  BY <2>1, IdleLeaves, LeavesCounted, IdleIsHeld DEF Stages
<1> QED  BY <1>4, <1>5, <1>6, <1>7, <1>8, <1>9

\* A step of execution p that settles accounts at the order at hand, and leaves the others.
LEMMA HereCounted ==
    ASSUME JobInv, CountInv, NEW p \in Executions, NEW at \in Orders, at \in Engaged(task[p]),
           overlap' = overlap, NEW l \in Stages, NEW j \in Held, Takes(p, l, j), HeldOk(l, j, now),
           \A o \in Orders \ {at} : Follows(p, l, j, o) /\ Same(o),
           Account(at, stage[p], task[p]) => Account(at, l, j)'
    PROVE  CountInv'
<1>1. ASSUME NEW o \in Orders, o # at, ~overlap[o] PROVE Accounted(o)'
  BY <1>1, FollowsCounted DEF CountInv
<1>2. ASSUME ~overlap[at] PROVE Accounted(at)'
  BY <1>2, Recounted DEF CountInv
<1> QED  BY <1>1, <1>2 DEF CountInv

\* What an execution does with the order at hand leaves the others as they are.
LEMMA StaysFollows ==
    ASSUME JobInv, NEW p \in Executions, stage[p] \in Renewing, NEW l \in Hand \ {"find"}, NEW j, Stays(task[p], j),
           NEW o \in Orders, o # task[p].at
    PROVE  Follows(p, l, j, o)
<1>1. /\ j.at = task[p].at /\ j.todo = task[p].todo /\ j.docs = task[p].docs /\ j.picked = task[p].picked
      /\ \A q \in Orders : q \in Engaged(j) => q \in Engaged(task[p])
  BY DEF Stays, Keeps, Engaged
<1>2. ~Picking(stage[p], task[p]) /\ (Holds(l, j, o) => Holds(stage[p], task[p], o))
  BY <1>1 DEF Picking, Renewing, Holds
<1> QED  BY <1>1, <1>2 DEF Follows, Finishing

\* The proxies that the provider renewed at once end together, a term later.
LEMMA AcknowledgeCounted ==
    ASSUME JobInv, CountInv, NEW p \in Executions, Acknowledge(p) \/ AcknowledgeSome(p)
    PROVE  CountInv'
<1>0. PICK at, k : at = task[p].at /\ k = task[p]
  OBVIOUS
<1>1. PICK renewed, told \in SUBSET WithId(task[p], at), j \in Held :
         /\ told \subseteq renewed
         /\ j.end \in Answers(at, told) /\ Extend(at, renewed) /\ stage[p] = "provider"
         /\ Takes(p, "save", j) /\ HeldOk("save", j, now) /\ Stays(task[p], j)
         /\ acked' = [acked EXCEPT ![at] = @ + 1]
         /\ behind' = [behind EXCEPT ![at] = @ \cup LeftBehind(task[p], at, renewed)]
         /\ troubles' = troubles \/ troubles' = troubles + 1
  BY <1>0, AcknowledgeTakes
<1>2. /\ at \in Orders /\ at \in Engaged(task[p]) /\ renewed \in SUBSET Slots
      /\ Holds(stage[p], task[p], at) /\ ~Picking(stage[p], task[p])
  BY <1>0, <1>1, AtHand DEF Hand, WithId, Engaged, Holds, Picking
<1>3. UNCHANGED <<order, live, overlap, unsaved>> /\ (troubles' = 0 => troubles = 0)
  <2>1. UNCHANGED <<order, live, overlap, unsaved>>
    BY DEF Acknowledge, AcknowledgeSome
  <2>2. troubles' = 0 => troubles = 0
    BY <1>1, Typed
  <2> QED  BY <2>1, <2>2
<1>4. /\ behind'[at] = behind[at] \cup LeftBehind(task[p], at, renewed)
      /\ acked'[at] = acked[at] + 1 /\ acked[at] \in Nat
      /\ \A s \in Slots : remote'[at][s] = remote[at][s] + (IF s \in renewed THEN Term ELSE 0)
      /\ \A o \in Orders \ {at} : behind'[o] = behind[o] /\ acked'[o] = acked[o] /\ remote'[o] = remote[o]
  BY <1>1, <1>2, Typed, Extends
<1>5. /\ j.at = at /\ j.docs = task[p].docs /\ j.who = task[p].who /\ j.picked = task[p].picked /\ j.todo = task[p].todo
      /\ Engaged(j) = Engaged(task[p])
  BY <1>0, <1>1 DEF Stays, Keeps, Engaged
<1>6. \A o \in Orders \ {at} : Follows(p, "save", j, o) /\ Same(o)
  BY <1>0, <1>1, <1>3, <1>4, StaysFollows DEF Renewing, Hand, Same
<1>7. ASSUME Account(at, "provider", k)
      PROVE  Account(at, "save", j)'
  <2>0. order[at].renews \in Nat /\ order[at].end \in Int /\ live[at] \subseteq Slots /\ Term \in Nat
    BY <1>2, Typed, ConstantTypes DEF Document
  <2>1. Sees(at, "save", j)'
    BY <1>0, <1>1, <1>2, <1>3, <1>5, <1>7 DEF Account, Sees, Picking
  <2>2. Counts(at, "save", j)'
    <3> SUFFICES ASSUME ~unsaved[at]
                 PROVE  order[at].renews + 1 = acked'[at]
      BY <1>3, <1>5 DEF Counts
    <3>1. order[at].renews + 0 = acked[at]
      BY <1>7 DEF Account, Counts
    <3> QED  BY <1>4, <2>0, <3>1
  <2>3. Dates(at, "save", j)'
    <3> SUFFICES ASSUME ~unsaved[at], behind'[at] = {}
                 PROVE  /\ order[at].end + Term = Ended(acked'[at])
                        /\ \A s \in live[at] \cap Ids[at] : s \in k.picked[at] => remote'[at][s] = Ended(acked'[at])
                        /\ j.end \in {None, Ended(acked'[at])}
      BY <1>0, <1>3, <1>5, <1>7 DEF Dates
    <3> DEFINE e == Ended(acked[at])
    <3>1. behind[at] = {} /\ LeftBehind(k, at, renewed) = {}
      BY <1>0, <1>4, <1>7
    <3>2. order[at].end + 0 = e /\ \A s \in live[at] \cap Ids[at] : remote[at][s] = e
      BY <1>7, <3>1 DEF Account, Dates
    <3>3. Ended(acked'[at]) = e + Term /\ e \in Nat
      BY <1>4, EndedNext
    <3>4. \A s \in live[at] \cap Ids[at] : s \in k.picked[at] => s \in renewed
      BY <3>1 DEF LeftBehind, WithId
    <3>5. renewed \subseteq live[at] \cap Ids[at]
      <4>1. k.picked[at] \subseteq live[at]
        BY <1>0, <1>1, <1>2, <1>7 DEF Account, Sees
      <4> QED  BY <1>0, <1>1, <1>7, <4>1 DEF WithId
    <3> HIDE DEF e
    <3>6. \A s \in renewed : remote'[at][s] = e + Term
      BY <1>2, <1>4, <3>2, <3>5
    <3>7. j.end \in {None, e + Term}
      BY <1>1, <3>6 DEF Answers
    <3> QED  BY <2>0, <3>2, <3>3, <3>4, <3>6, <3>7
  <2>4. Numbers(at, "save", j)'
    BY <1>3, <1>7 DEF Account, Numbers
  <2> QED  BY <2>1, <2>2, <2>3, <2>4 DEF Account
<1>8. Account(at, stage[p], task[p]) => Account(at, "save", j)'
  BY <1>0, <1>1, <1>7
<1> QED  BY <1>1, <1>2, <1>3, <1>6, <1>8, HereCounted DEF Stages

\* What a step that settles does to the accounts of the orders that are not at hand.
LEMMA SettlesCounted ==
    ASSUME JobInv, CountInv, NEW p \in Executions, stage[p] \in Hand \ {"find"}, NEW at, at = task[p].at, overlap' = overlap,
           NEW l \in Stages, NEW j \in Held, Leaves(p, l, j, task[p].todo),
           \A o \in Orders \ {at} : Same(o),
           NEW m, NEW k, m = stage[p], k = task[p],
           Account(at, m, k) /\ ~Holds(l, j, at) /\ ~Finishing(l, j, at) /\ j.picked[at] \in {{}, k.picked[at]}
               => Account(at, l, j)'
    PROVE  CountInv'
<1>1. at \in Orders /\ at \notin task[p].todo /\ at \in Engaged(task[p])
  BY AtHand DEF Engaged
<1>2. /\ Takes(p, l, j) /\ HeldOk(l, j, now)
      /\ ~Holds(l, j, at) /\ ~Finishing(l, j, at) /\ j.picked[at] \in {{}, k.picked[at]}
  BY <1>1 DEF Leaves
<1>3. \A o \in Orders \ {at} : Follows(p, l, j, o) /\ Same(o)
  BY DEF Leaves, Finishing
<1>4. Account(at, stage[p], task[p]) => Account(at, l, j)'
  BY <1>2
<1> QED  BY <1>1, <1>2, <1>3, <1>4, HereCounted

\* Its order is then accounted for by what it left behind.
LEMMA LeftAccount ==
    ASSUME NEW at \in Orders, NEW m, NEW k, NEW l, NEW j, Account(at, m, k), ~Picking(m, k),
           at \in Engaged(k), ~Holds(l, j, at), ~Finishing(l, j, at), j.picked[at] \in {{}, k.picked[at]},
           live'[at] = live[at],
           Counts(at, l, j)', Dates(at, l, j)', Numbers(at, l, j)'
    PROVE  Account(at, l, j)'
  BY DEF Account, Sees, Engaged

\* A renewal that threw and was done in part, or whole, is noted as unsaved: the counts of others stay.
LEMMA RefuseCounted ==
    ASSUME JobInv, CountInv, NEW p \in Executions, Refuse(p)
    PROVE  CountInv'
<1>1. PICK at, m, k : at = task[p].at /\ m = stage[p] /\ k = task[p]
  OBVIOUS
<1>2. PICK renewed \in SUBSET WithId(k, at) :
         \/ UNCHANGED <<remote, unsaved, behind>>
         \/ /\ Extend(at, renewed)
            /\ unsaved' = [unsaved EXCEPT ![at] = TRUE]
            /\ behind' = [behind EXCEPT ![at] = @ \cup ((live[at] \cap Ids[at]) \ renewed)]
  BY <1>1 DEF Refuse
<1>3. stage[p] = "provider" /\ UNCHANGED <<order, live, acked, overlap>> /\ troubles' = troubles + 1
  BY DEF Refuse
<1>4. /\ at \in Orders /\ at \in Engaged(k) /\ Holds(m, k, at) /\ ~Picking(m, k)
      /\ m \in Hand \ {"find"} /\ m \in Renewing /\ at \notin k.todo
  BY <1>1, <1>3, AtHand DEF Hand, Engaged, Holds, Picking, Renewing
<1>5. troubles' # 0
  BY <1>3, Typed
<1>6. \A o \in Orders \ {at} : remote'[o] = remote[o] /\ unsaved'[o] = unsaved[o] /\ behind'[o] = behind[o]
  BY <1>2, <1>4, Typed, Extends
<1>7. \A o \in Orders \ {at} : Same(o)
  BY <1>3, <1>5, <1>6 DEF Same
<1>8. unsaved'[at] \/ (remote' = remote /\ behind' = behind /\ unsaved'[at] = unsaved[at])
  BY <1>2, <1>4, Typed
<1>9. ASSUME NEW l \in {"idle", "refund"}, NEW j, Account(at, m, k)
      PROVE  Counts(at, l, j)' /\ Dates(at, l, j)' /\ Numbers(at, l, j)'
  <2>1. CASE unsaved'[at]
    BY <1>5, <2>1 DEF Counts, Dates, Numbers
  <2>2. CASE remote' = remote /\ behind' = behind /\ unsaved'[at] = unsaved[at]
    <3>1. ~(m \in {"save", "prune"}) /\ ~(l \in {"save", "prune"})
      BY <1>1, <1>3
    <3> QED  BY <1>3, <1>5, <1>9, <2>2, <3>1 DEF Account, Counts, Dates, Numbers
  <2> QED  BY <1>8, <2>1, <2>2
<1>10. CASE Takes(p, "idle", Idle)
  <2>1. Leaves(p, "idle", Idle, task[p].todo) /\ Idle \in Held /\ "idle" \in Stages
    BY <1>10, IdleLeaves, IdleIsHeld DEF Stages
  <2>2. ASSUME Account(at, m, k), ~Holds("idle", Idle, at), ~Finishing("idle", Idle, at), Idle.picked[at] \in {{}, k.picked[at]}
        PROVE  Account(at, "idle", Idle)'
    BY <1>3, <1>4, <1>9, <2>2, LeftAccount
  <2> QED  BY <1>1, <1>3, <1>4, <1>7, <2>1, <2>2, SettlesCounted
<1>11. CASE Takes(p, "refund", task[p]) /\ HeldOk("refund", task[p], now)
  <2>1. ASSUME Account(at, m, k)
        PROVE  Account(at, "refund", k)'
    <3>1. Sees(at, "refund", k)'
      BY <1>3, <1>4, <2>1 DEF Account, Sees
    <3> QED  BY <1>9, <2>1, <3>1 DEF Account
  <2>2. Account(at, stage[p], task[p]) => Account(at, "refund", k)'
    BY <1>1, <2>1
  <2>3. \A o \in Orders \ {at} : Follows(p, "refund", k, o)
    BY <1>1, <1>4, StaysFollows DEF Stays, Keeps, Hand
  <2>4. Takes(p, "refund", k) /\ HeldOk("refund", k, now) /\ k \in Held /\ "refund" \in Stages
    BY <1>1, <1>11, HeldTypes DEF Stages
  <2> QED  BY <1>1, <1>3, <1>4, <1>7, <2>2, <2>3, <2>4, HereCounted
<1> QED  BY <1>10, <1>11, RefuseTakes

\* A failed save is noted as unsaved.
LEMMA SaveFailsCounted ==
    ASSUME JobInv, CountInv, NEW p \in Executions, SaveFails(p)
    PROVE  CountInv'
<1>1. PICK at, m, k : at = task[p].at /\ m = stage[p] /\ k = task[p]
  OBVIOUS
<1>2. /\ stage[p] = "save" /\ UNCHANGED <<order, live, remote, acked, overlap>> /\ troubles' = troubles + 1
      /\ unsaved' = [unsaved EXCEPT ![at] = TRUE]
      /\ behind' = [behind EXCEPT ![at] = @ \cup (live[at] \ k.picked[at])]
  BY <1>1 DEF SaveFails, docVars
<1>3. /\ at \in Orders /\ at \in Engaged(k) /\ ~Picking(m, k) /\ m \in Hand \ {"find"} /\ m \in Renewing
  BY <1>1, <1>2, AtHand DEF Hand, Engaged, Picking, Renewing
<1>4. troubles' # 0 /\ unsaved'[at] /\ \A o \in Orders \ {at} : unsaved'[o] = unsaved[o] /\ behind'[o] = behind[o]
  BY <1>2, <1>3, Typed
<1>5. \A o \in Orders \ {at} : Same(o)
  BY <1>2, <1>4 DEF Same
<1>6. PICK l \in {"idle", "record", "debit"}, j \in Held : Leaves(p, l, j, task[p].todo)
  BY <1>1, <1>3, SaveFailsTakes, SettlesLeaves
<1>7. ASSUME Account(at, m, k), ~Holds(l, j, at), ~Finishing(l, j, at), j.picked[at] \in {{}, k.picked[at]}
      PROVE  Account(at, l, j)'
  <2>1. Counts(at, l, j)' /\ Dates(at, l, j)' /\ Numbers(at, l, j)'
    BY <1>4 DEF Counts, Dates, Numbers
  <2> QED  BY <1>2, <1>3, <1>7, <2>1, LeftAccount
<1>8. l \in Stages /\ stage[p] \in Hand \ {"find"} /\ overlap' = overlap
  BY <1>1, <1>2, <1>3 DEF Stages
<1> QED  BY <1>1, <1>5, <1>6, <1>7, <1>8, SettlesCounted

\* An order that was not behind counts the renewal that is saved.
LEMMA SaveCounted ==
    ASSUME JobInv, PromiseInv, CountInv, NEW p \in Executions, SaveRenewal(p)
    PROVE  CountInv'
<1>1. PICK at, m, k : at = task[p].at /\ m = stage[p] /\ k = task[p]
  OBVIOUS
<1> DEFINE doc == Renewed(k, at)
<1>2. /\ m = "save" /\ UNCHANGED <<live, remote, acked, behind, unsaved, troubles, overlap>>
      /\ order' = [order EXCEPT ![at].end = Saved(@, k.docs[at].end, doc.end),
                                ![at].renews = Saved(@, k.docs[at].renews, doc.renews)]
  BY <1>1, SaveTakes DEF SaveRenewal, bounds
<1>3. /\ at \in Orders /\ at \in Engaged(k) /\ ~Picking(m, k) /\ m \in Hand \ {"find"} /\ m \in Renewing
      /\ Holds(m, k, at) /\ k \in Held /\ stage[p] \in Hand \ {"find"} /\ stage[p] \in Renewing
  BY <1>1, <1>2, AtHand, HeldTypes DEF Hand, Engaged, Picking, Renewing, Holds
<1>4. /\ doc \in Document /\ k.docs[at] \in Document
      /\ doc.end = IF k.end = None THEN k.docs[at].end + Term ELSE k.end
      /\ doc.renews = k.docs[at].renews + 1
      /\ doc.status = k.docs[at].status /\ doc.quantity = k.docs[at].quantity
  BY <1>3, RenewedIs DEF Held
<1> HIDE DEF doc
<1>5. \A o \in Orders \ {at} : Same(o)
  BY <1>2, Typed DEF Same
<1>6. ASSUME k.docs[at] = order[at]
      PROVE  order'[at] = doc
  <2>1. order \in [Orders -> Document]
    BY Typed
  <2>2. order' = [order EXCEPT ![at].end = doc.end, ![at].renews = doc.renews]
    BY <1>2, <1>3, <1>6 DEF Saved
  <2>3. order'[at] = [order[at] EXCEPT !.end = doc.end, !.renews = doc.renews]
    BY <1>3, <2>1, <2>2
  <2> QED  BY <1>4, <1>6, <2>3 DEF Document
<1>7. ASSUME NEW l \in Stages \ {"save", "count"}, NEW j, Account(at, m, k),
             l = "prune" \/ (live[at] \cap Ids[at]) \ k.picked[at] \subseteq behind[at],
             l = "prune" => j.picked = k.picked /\ j.at = at
      PROVE  Counts(at, l, j)' /\ Dates(at, l, j)' /\ Numbers(at, l, j)'
  <2>1. order'[at] = doc /\ k.docs[at] = order[at]
    BY <1>3, <1>6, <1>7 DEF Account, Sees
  <2>2. k.at = at
    BY <1>1
  <2>3. Counts(at, l, j)'
    <3> SUFFICES ASSUME ~unsaved[at] PROVE doc.renews + 0 = acked[at]
      BY <1>2, <2>1 DEF Counts
    <3>1. order[at].renews + 1 = acked[at]
      BY <1>2, <1>7, <2>2 DEF Account, Counts
    <3> QED  BY <1>4, <2>1, <3>1 DEF Document
  <2>4. Dates(at, l, j)'
    <3> DEFINE e == Ended(acked[at])
    <3> SUFFICES ASSUME ~unsaved[at], behind[at] = {}
                 PROVE  /\ doc.end + 0 = e
                        /\ \A s \in live[at] \cap Ids[at] :
                              s \in j.picked[at] \/ ~(l \in {"save", "prune"} /\ j.at = at) => remote[at][s] = e
      BY <1>2, <2>1 DEF Dates
    <3>1. /\ order[at].end + Term = e /\ k.end \in {None, e}
          /\ \A s \in live[at] \cap Ids[at] : s \in k.picked[at] => remote[at][s] = e
      BY <1>2, <1>7, <2>2 DEF Account, Dates
    <3>2. doc.end = e
      BY <1>4, <2>1, <3>1
    <3>3. doc.end \in Int
      BY <1>4 DEF Document
    <3> HIDE DEF e
    <3>4. doc.end + 0 = e
      BY <3>2, <3>3
    <3>5. \A s \in live[at] \cap Ids[at] : s \in j.picked[at] \/ ~(l \in {"save", "prune"} /\ j.at = at)
              => s \in k.picked[at]
      BY <1>7
    <3> QED  BY <3>1, <3>4, <3>5
  <2>5. Numbers(at, l, j)'
    BY <1>2, <1>4, <1>7, <2>1 DEF Account, Numbers
  <2> QED  BY <2>3, <2>4, <2>5
<1>8. ASSUME k.who = "bulk", NEW j \in Held, Takes(p, "prune", j), HeldOk("prune", j, now),
             j.picked = k.picked, j.todo = k.todo, j.at = k.at, j.docs = [k.docs EXCEPT ![k.at] = Renewed(k, k.at)]
      PROVE  CountInv'
  <2>1. /\ j.docs[at] = doc /\ (\A o \in Orders \ {at} : j.docs[o] = k.docs[o])
        /\ j.at = at /\ k.at = at
    BY <1>1, <1>3, <1>8 DEF Held, doc
  <2>2. ASSUME NEW o \in Orders, o # at PROVE Follows(p, "prune", j, o)
    <3>1. Holds("prune", j, o) => Holds(m, k, o) /\ j.docs[o] = k.docs[o]
      BY <1>8, <2>1, <2>2 DEF Holds
    <3>2. (o \in Engaged(j) => o \in Engaged(k)) /\ j.picked[o] = k.picked[o]
      BY <1>8 DEF Engaged
    <3> QED  BY <1>1, <1>3, <2>1, <2>2, <3>1, <3>2 DEF Follows, Finishing
  <2>3. ASSUME Account(at, m, k) PROVE Account(at, "prune", j)'
    <3>1. order'[at] = doc /\ k.docs[at] = order[at] /\ order[at].status = "ACTIVE" /\ k.picked[at] \subseteq live[at]
      BY <1>3, <1>6, <2>3 DEF Account, Sees
    <3>2. Sees(at, "prune", j)'
      BY <1>2, <1>4, <1>8, <2>1, <3>1 DEF Sees
    <3> QED  BY <1>7, <1>8, <2>1, <2>3, <3>2 DEF Account, Stages
  <2>4. Account(at, stage[p], task[p]) => Account(at, "prune", j)'
    BY <1>1, <2>3
  <2>5. "prune" \in Stages /\ at \in Engaged(task[p]) /\ overlap' = overlap
    BY <1>1, <1>2, <1>3 DEF Stages
  <2> QED  BY <1>3, <1>5, <1>8, <2>2, <2>4, <2>5, HereCounted
<1>9. ASSUME k.who # "bulk", NEW r, Settles(p, r, k.todo)
      PROVE  CountInv'
  <2>1. PICK l \in {"idle", "record", "debit"}, j \in Held : Leaves(p, l, j, task[p].todo)
    BY <1>1, <1>3, <1>9, SettlesLeaves
  <2>2. (live[at] \cap Ids[at]) \ k.picked[at] \subseteq behind[at]
    BY <1>1, <1>2, <1>9 DEF PromiseInv, Noted
  <2>3. l \in Stages /\ l \in Stages \ {"save", "count"} /\ l # "prune" /\ overlap' = overlap
    BY <1>2 DEF Stages
  <2>4. ASSUME Account(at, m, k), ~Holds(l, j, at), ~Finishing(l, j, at), j.picked[at] \in {{}, k.picked[at]}
        PROVE  Account(at, l, j)'
    <3>1. Counts(at, l, j)' /\ Dates(at, l, j)' /\ Numbers(at, l, j)'
      BY <1>7, <2>2, <2>3, <2>4
    <3> QED  BY <1>2, <1>3, <2>4, <3>1, LeftAccount
  <2> QED  BY <1>1, <1>3, <1>5, <2>1, <2>3, <2>4, SettlesCounted
<1> QED  BY <1>1, <1>8, <1>9, SaveTakes

\* What a bulk renewal prunes, the quantity no longer counts.
LEMMA PruneCounted ==
    ASSUME JobInv, CountInv, NEW p \in Executions, Prune(p)
    PROVE  CountInv'
<1>1. PICK at, m, k : at = task[p].at /\ m = stage[p] /\ k = task[p]
  OBVIOUS
<1>2. m = "prune" /\ UNCHANGED <<order, remote, acked, behind, unsaved, troubles, overlap>>
  BY <1>1 DEF Prune, histVars, bounds
<1>3. /\ at \in Orders /\ at \in Engaged(k) /\ ~Picking(m, k) /\ k \in Held /\ Holds(m, k, at)
      /\ stage[p] \in Hand \ {"find"} /\ stage[p] \in Renewing
  BY <1>1, <1>2, AtHand, HeldTypes DEF Hand, Engaged, Picking, Renewing, Holds
<1>4. ASSUME live[at] \subseteq k.picked[at], live' = live, Settles(p, "renewed", k.todo)
      PROVE  CountInv'
  <2>1. PICK l \in {"idle", "record", "debit"}, j \in Held : Leaves(p, l, j, task[p].todo)
    BY <1>1, <1>3, <1>4, SettlesLeaves
  <2>2. l \in Stages /\ l \notin {"save", "prune", "count"} /\ overlap' = overlap
    BY <1>2 DEF Stages
  <2>3. ASSUME Account(at, m, k), ~Holds(l, j, at), ~Finishing(l, j, at), j.picked[at] \in {{}, k.picked[at]}
        PROVE  Account(at, l, j)'
    <3>1. Counts(at, l, j)' /\ Numbers(at, l, j)'
      BY <1>2, <1>4, <2>2, <2>3 DEF Account, Counts, Numbers
    <3>2. Dates(at, l, j)'
      BY <1>2, <1>4, <2>2, <2>3 DEF Account, Dates
    <3> QED  BY <1>3, <1>4, <2>3, <3>1, <3>2, LeftAccount
  <2>4. \A o \in Orders \ {at} : Same(o)
    BY <1>2, <1>4 DEF Same
  <2> QED  BY <1>1, <1>3, <2>1, <2>2, <2>3, <2>4, SettlesCounted
<1>5. ASSUME live' = [live EXCEPT ![at] = @ \cap k.picked[at]],
             Takes(p, "count", k), HeldOk("count", k, now)
      PROVE  CountInv'
  <2>1. live'[at] = live[at] \cap k.picked[at] /\ \A o \in Orders \ {at} : live'[o] = live[o]
    BY <1>3, <1>5, Typed
  <2>2. \A o \in Orders \ {at} : Same(o)
    BY <1>2, <2>1 DEF Same
  <2>3. \A o \in Orders \ {at} : Follows(p, "count", k, o)
    BY <1>1, <1>3, StaysFollows DEF Stays, Keeps, Hand
  <2>4. ASSUME Account(at, m, k) PROVE Account(at, "count", k)'
    <3>1. Sees(at, "count", k)'
      BY <1>2, <1>3, <2>1, <2>4 DEF Account, Sees
    <3>2. Counts(at, "count", k)'
      BY <1>2, <2>4 DEF Account, Counts
    <3>3. Dates(at, "count", k)'
      BY <1>2, <2>1, <2>4 DEF Account, Dates
    <3>4. Numbers(at, "count", k)'
      BY <1>1 DEF Numbers
    <3> QED  BY <3>1, <3>2, <3>3, <3>4 DEF Account
  <2>5. Account(at, stage[p], task[p]) => Account(at, "count", k)'
    BY <1>1, <2>4
  <2>6. "count" \in Stages /\ at \in Engaged(task[p]) /\ overlap' = overlap
    BY <1>1, <1>2, <1>3 DEF Stages
  <2> QED  BY <1>3, <1>5, <2>2, <2>3, <2>5, <2>6, HereCounted
<1> QED  BY <1>1, <1>4, <1>5, PruneTakes

\* The quantity becomes the number of the proxies that remain.
LEMMA PruneCountCounted ==
    ASSUME JobInv, CountInv, NEW p \in Executions, PruneCount(p)
    PROVE  CountInv'
<1>1. PICK at, m, k : at = task[p].at /\ m = stage[p] /\ k = task[p]
  OBVIOUS
<1> DEFINE n == Cardinality(live[at])
<1>2. /\ m = "count" /\ UNCHANGED <<live, remote, acked, behind, unsaved, troubles, overlap>>
      /\ order' = [order EXCEPT ![at].quantity = Saved(@, k.docs[at].quantity, n)]
  BY <1>1 DEF PruneCount, histVars, bounds
<1> HIDE DEF n
<1>3. /\ at \in Orders /\ at \in Engaged(k) /\ ~Picking(m, k) /\ Holds(m, k, at)
      /\ stage[p] \in Hand \ {"find"} /\ stage[p] \in Renewing
  BY <1>1, <1>2, AtHand DEF Hand, Engaged, Picking, Renewing, Holds
<1>4. \A o \in Orders \ {at} : Same(o)
  BY <1>2, Typed DEF Same
<1>5. PICK l \in {"idle", "record", "debit"}, j \in Held : Leaves(p, l, j, task[p].todo)
  BY <1>1, <1>3, PruneCountTakes, SettlesLeaves
<1>6. ASSUME Account(at, m, k), ~Holds(l, j, at), ~Finishing(l, j, at), j.picked[at] \in {{}, k.picked[at]}
      PROVE  Account(at, l, j)'
  <2>1. k.docs[at] = order[at]
    BY <1>3, <1>6 DEF Account, Sees
  <2>2. order' = [order EXCEPT ![at].quantity = n]
    BY <1>2, <2>1 DEF Saved
  <2>3. order'[at].renews = order[at].renews /\ order'[at].end = order[at].end /\ order'[at].quantity = n
    BY <1>3, <2>2, Typed DEF Document
  <2>4. l \notin {"save", "prune", "count"}
    OBVIOUS
  <2>5. Counts(at, l, j)' /\ Dates(at, l, j)'
    BY <1>2, <1>6, <2>3, <2>4 DEF Account, Counts, Dates
  <2>6. Numbers(at, l, j)'
    BY <1>2, <2>3 DEF Numbers, n
  <2> QED  BY <1>2, <1>3, <1>6, <2>5, <2>6, LeftAccount
<1>7. l \in Stages /\ overlap' = overlap
  BY <1>2 DEF Stages
<1> QED  BY <1>1, <1>3, <1>4, <1>5, <1>6, <1>7, SettlesCounted

\* A process that dies between provider and save leaves an unsaved renewal.
LEMMA AbortCounted ==
    ASSUME JobInv, CountInv, NEW p \in Executions, Die(p)
    PROVE  CountInv'
<1>1. /\ UNCHANGED <<order, live, remote, acked, overlap>> /\ troubles' = troubles + 1 /\ Takes(p, "idle", Idle)
      /\ \A o \in Orders : unsaved'[o] = (unsaved[o] \/ (stage[p] = "save" /\ task[p].at = o))
      /\ \A o \in Orders : behind'[o] = behind[o] \cup
            (IF stage[p] \in {"save", "prune"} /\ task[p].at = o THEN live[o] \ task[p].picked[o] ELSE {})
  BY FinishTakes DEF Die, docVars
<1>2. troubles' # 0
  BY <1>1, Typed
<1>3. /\ Leaves(p, "idle", Idle, {}) /\ Idle \in Held /\ "idle" \in Stages /\ HeldOk("idle", Idle, now)
  BY <1>1, IdleLeaves, IdleIsHeld, HeldTypes DEF Stages
<1>4. ASSUME NEW o \in Orders, ~overlap[o], ~Finishing(stage[p], task[p], o)
      PROVE  Accounted(o)'
  <2>0. ~(stage[p] \in {"save", "prune"} /\ task[p].at = o) /\ ~(stage[p] = "save" /\ task[p].at = o)
    BY <1>4 DEF Finishing
  <2>1. unsaved'[o] = unsaved[o] /\ behind'[o] = behind[o]
    <3>1. unsaved'[o] = unsaved[o]
      BY <1>1, <2>0, Typed
    <3>2. behind'[o] = behind[o]
      <4>1. (IF stage[p] \in {"save", "prune"} /\ task[p].at = o THEN live[o] \ task[p].picked[o] ELSE {}) = {}
        BY <2>0
      <4>2. behind'[o] = behind[o] \cup
               (IF stage[p] \in {"save", "prune"} /\ task[p].at = o THEN live[o] \ task[p].picked[o] ELSE {})
        BY <1>1
      <4>3. behind'[o] = behind[o] \cup {}
        BY <4>1, <4>2
      <4> QED  BY <4>3
    <3> QED  BY <3>1, <3>2
  <2>2. Same(o)
    BY <1>1, <1>2, <2>1 DEF Same
  <2>3. Follows(p, "idle", Idle, o)
    BY <1>3, <1>4 DEF Leaves
  <2> QED  BY <1>1, <1>3, <1>4, <2>2, <2>3, FollowsCounted DEF CountInv
<1>5. ASSUME NEW o \in Orders, ~overlap[o], Finishing(stage[p], task[p], o)
      PROVE  Accounted(o)'
  <2>1. PICK m, k : m = stage[p] /\ k = task[p]
    OBVIOUS
  <2>2. m \in {"save", "prune", "count"} /\ k.at = o
    BY <1>5, <2>1 DEF Finishing
  <2>3. o \in Engaged(k) /\ ~Picking(m, k)
    BY <2>1, <2>2, AtHand DEF Hand, Engaged, Picking
  <2>4. Idle.picked[o] = {} /\ ~Holds("idle", Idle, o) /\ ~Finishing("idle", Idle, o)
    BY DEF Idle, NoProxies, Holds, Hand, Finishing
  <2>5. ASSUME Account(o, m, k) PROVE Account(o, "idle", Idle)'
    <3>1. CASE m = "save"
      <4>1. unsaved'[o]
        BY <1>1, <2>1, <2>2, <3>1
      <4> QED  BY <1>1, <1>2, <2>3, <2>4, <2>5, <4>1, LeftAccount DEF Counts, Dates, Numbers
    <3>2. CASE m # "save"
      <4>1. unsaved'[o] = unsaved[o]
        BY <1>1, <2>1, <3>2, Typed
      <4>2. m = "prune" /\ behind'[o] = {} => live[o] \subseteq k.picked[o]
        BY <1>1, <2>1, <2>2
      <4>3. behind'[o] = {} => behind[o] = {}
        BY <1>1
      <4>4. Counts(o, "idle", Idle)'
        BY <1>1, <2>2, <2>5, <3>2, <4>1 DEF Account, Counts
      <4>5. Dates(o, "idle", Idle)'
        BY <1>1, <2>2, <2>5, <3>2, <4>1, <4>2, <4>3 DEF Account, Dates
      <4>6. Numbers(o, "idle", Idle)'
        BY <1>2 DEF Numbers
      <4> QED  BY <1>1, <2>3, <2>4, <2>5, <4>4, <4>5, <4>6, LeftAccount
    <3> QED  BY <3>1, <3>2
  <2>6. Account(o, stage[p], task[p]) => Account(o, "idle", Idle)'
    BY <2>1, <2>5
  <2> QED  BY <1>1, <1>3, <1>5, <2>1, <2>3, <2>6, Recounted DEF CountInv
<1> QED  BY <1>1, <1>4, <1>5 DEF CountInv

\* Every step of an execution keeps the counts.
LEMMA GoesCounted ==
    ASSUME JobInv, PromiseInv, CountInv, NEW p \in Executions, Goes(p) \/ Stumbles(p)
    PROVE  CountInv'
<1>1. CASE BulkWallet(p)
  <2>1. stage[p] = "wallet" /\ Steady /\ overlap' = overlap
    BY <1>1 DEF BulkWallet, Steady, docVars, histVars, bounds
  <2>2. ASSUME Fails(p, "broke") PROVE CountInv'
    BY <2>1, <2>2, FailsLeaves, LeavesCounted DEF Stages
  <2>3. ASSUME Takes(p, "debit", task[p]), HeldOk("debit", task[p], now) PROVE CountInv'
    <3>1. ASSUME NEW o \in Orders PROVE Follows(p, "debit", task[p], o)
      <4>1. ~Picking(stage[p], task[p]) /\ (Holds("debit", task[p], o) => Holds(stage[p], task[p], o))
        BY <2>1 DEF Picking, Holds, Hand
      <4> QED  BY <2>1, <4>1 DEF Follows, Finishing
    <3> QED  BY <2>1, <2>3, <3>1, HeldTypes, SteadySame, FollowsAll DEF Stages
  <2> QED  BY <1>1, <2>2, <2>3, BulkWalletTakes
<1>2. CASE Debit(p)
  <2>1. stage[p] = "debit" /\ Steady /\ overlap' = overlap /\ stage[p] \in Renewing
    BY <1>2 DEF Debit, Steady, docVars, bounds, Renewing
  <2>2. ASSUME NEW r, NEW todo, todo \subseteq task[p].todo, Settles(p, r, todo) PROVE CountInv'
    <3>1. PICK l \in {"idle", "record", "debit"}, j \in Held : Leaves(p, l, j, todo)
      BY <2>1, <2>2, SettlesLeaves
    <3> QED  BY <2>1, <3>1, LeavesCounted DEF Stages
  <2>3. ASSUME NEW q \in task[p].todo, NEW j \in Held, Takes(p, "provider", j), HeldOk("provider", j, now),
               Keeps(task[p], j), j.todo = task[p].todo \ {q}, j.at = q
        PROVE  CountInv'
    <3>1. ASSUME NEW o \in Orders PROVE Follows(p, "provider", j, o)
      <4>1. Holds("provider", j, o) => Holds(stage[p], task[p], o)
        BY <2>3 DEF Holds
      <4>2. j.docs = task[p].docs /\ j.picked = task[p].picked /\ (o \in Engaged(j) => o \in Engaged(task[p]))
        BY <2>3 DEF Keeps, Engaged
      <4>3. ~Picking(stage[p], task[p])
        BY <2>1 DEF Picking
      <4> QED  BY <2>1, <4>1, <4>2, <4>3 DEF Follows, Finishing
    <3> QED  BY <2>1, <2>3, <3>1, SteadySame, FollowsAll DEF Stages
  <2>4. \/ \E q \in task[p].todo, r \in Results : Settles(p, r, task[p].todo \ {q})
        \/ \E q \in task[p].todo, j \in Held :
              /\ Takes(p, "provider", j) /\ HeldOk("provider", j, now)
              /\ Keeps(task[p], j) /\ j.todo = task[p].todo \ {q} /\ j.at = q
    BY <1>2, DebitTakes DEF Results
  <2> QED  BY <2>2, <2>3, <2>4
<1>3. CASE Refund(p)
  <2>1. stage[p] = "refund" /\ Steady /\ overlap' = overlap /\ stage[p] \in Renewing
    BY <1>3 DEF Refund, Steady, docVars, histVars, bounds, Renewing
  <2>2. PICK l \in {"idle", "record", "debit"}, j \in Held : Leaves(p, l, j, task[p].todo)
    BY <1>3, <2>1, RefundTakes, SettlesLeaves
  <2> QED  BY <2>1, <2>2, LeavesCounted DEF Stages
<1> QED  BY <1>1, <1>2, <1>3, BeginsCounted, ScansCounted, AcknowledgeCounted, RefuseCounted, SaveFailsCounted,
            SaveCounted, PruneCounted, PruneCountCounted, AbortCounted DEF Goes, Stumbles

\* An order expires under an execution that renews it: they overlap.
LEMMA ExpireCounted ==
    ASSUME JobInv, CountInv, NEW o \in Orders, Expire(o)
    PROVE  CountInv'
<1>1. /\ order' = [order EXCEPT ![o].status = "EXPIRED"]
      /\ overlap' = [overlap EXCEPT ![o] = @ \/ \E p \in Executions : o \in Engaged(task[p])]
      /\ UNCHANGED <<live, remote, acked, behind, unsaved, troubles, stage, task>>
  BY DEF Expire, bounds
<1>2. ASSUME NEW q \in Orders, q # o, ~overlap'[q] PROVE Accounted(q)'
  <2>1. ~overlap[q] /\ Same(q)
    BY <1>1, <1>2, Typed DEF Same
  <2> QED  BY <1>1, <2>1, SameCounted DEF CountInv
<1>3. ASSUME ~overlap'[o] PROVE Accounted(o)'
  <2>1. ~overlap[o] /\ \A p \in Executions : o \notin Engaged(task[p])
    BY <1>1, <1>3, Typed
  <2>2. Account(o, "idle", Idle)
    BY <2>1 DEF CountInv, Accounted
  <2>3. /\ order'[o].renews = order[o].renews /\ order'[o].end = order[o].end
        /\ order'[o].quantity = order[o].quantity
    BY <1>1, Typed DEF Document
  <2>4. ~Holds("idle", Idle, o) /\ o \notin Engaged(Idle)
    BY DEF Holds, Hand, Idle, Engaged, NoProxies
  <2>5. Account(o, "idle", Idle)'
    BY <1>1, <2>2, <2>3, <2>4 DEF Account, Sees, Counts, Dates, Numbers
  <2> QED  BY <1>1, <2>1, <2>5 DEF Accounted
<1> QED  BY <1>2, <1>3 DEF CountInv

\* Every step keeps the counts (RenewalsCounted).
LEMMA NextCounts == JobInv /\ PromiseInv /\ CountInv /\ [RenewalNext]_renewalVars => CountInv'
<1> SUFFICES ASSUME JobInv, PromiseInv, CountInv, [RenewalNext]_renewalVars PROVE CountInv'
  OBVIOUS
<1>1. ASSUME UNCHANGED <<stage, task, overlap>>, Steady PROVE CountInv'
  BY <1>1, SteadySame, SameCounted DEF CountInv
<1>2. CASE \E o \in Orders : Expire(o)
  BY <1>2, ExpireCounted
<1>3. CASE Environment /\ ~\E o \in Orders : Expire(o)
  <2>1. UNCHANGED <<stage, task, overlap, order, live, remote, acked, behind, unsaved>>
    BY <1>3 DEF Environment, CreateSelection, SwitchSchedule, DeleteSelection, SwitchPartner, NextDay,
                LockLapse, docVars, histVars
  <2>2. troubles' = troubles \/ troubles' = troubles + 1
    BY <1>3 DEF Environment, CreateSelection, SwitchSchedule, DeleteSelection, SwitchPartner, NextDay,
                LockLapse, bounds
  <2>3. troubles' = 0 => troubles = 0
    BY <2>2, Typed
  <2> QED  BY <1>1, <2>1, <2>3 DEF Steady
<1>4. CASE UNCHANGED renewalVars
  BY <1>1, <1>4 DEF renewalVars, docVars, histVars, bounds, Steady
<1> QED  BY <1>2, <1>3, <1>4, GoesCounted, NextGoes

\* At the start no renewal was acknowledged, and none is counted.
LEMMA InitCounts == RenewalInit => CountInv
<1> SUFFICES ASSUME RenewalInit PROVE CountInv
  OBVIOUS
<1>1. /\ order = [o \in Orders |-> [status |-> "ACTIVE", end |-> FirstEnd, renews |-> 0,
                                    quantity |-> Cardinality(Owned[o])]]
      /\ live = Owned /\ remote = [o \in Orders |-> [s \in Slots |-> FirstEnd]]
      /\ acked = [o \in Orders |-> 0] /\ \A p \in Executions : task[p] = Idle
  BY DEF RenewalInit
<1>2. \A o \in Orders : o \notin Engaged(Idle) /\ ~Holds("idle", Idle, o)
  BY DEF Holds, Hand, Idle, Engaged, NoProxies
<1>3. ASSUME NEW o \in Orders PROVE Account(o, "idle", Idle)
  <2>1. /\ order[o].renews = 0 /\ order[o].end = FirstEnd /\ order[o].quantity = Cardinality(live[o])
        /\ acked[o] = 0 /\ live[o] \subseteq Slots /\ \A s \in Slots : remote[o][s] = FirstEnd
    BY <1>1, ConstantTypes
  <2>2. Ended(0) = FirstEnd /\ FirstEnd \in Nat
    BY ConstantTypes DEF Ended
  <2>3. Counts(o, "idle", Idle)
    BY <2>1 DEF Counts
  <2>4. Dates(o, "idle", Idle)
    BY <2>1, <2>2 DEF Dates
  <2> QED  BY <1>2, <2>1, <2>3, <2>4 DEF Account, Sees, Numbers
<1> QED  BY <1>1, <1>2, <1>3 DEF CountInv, Accounted

\* Where every order is accounted for, its renewals are counted.
LEMMA CountsRenewals == JobInv /\ CountInv => RenewalsCounted
<1> SUFFICES ASSUME JobInv, CountInv, NEW o \in Orders, ~overlap[o], ~unsaved[o],
                    \A p \in Executions : o \notin Engaged(task[p])
             PROVE  /\ order[o].renews = acked[o]
                    /\ behind[o] = {} => order[o].end = FirstEnd + acked[o] * Term
                    /\ troubles = 0 => order[o].quantity = Cardinality(live[o])
  BY DEF RenewalsCounted
<1>1. Account(o, "idle", Idle)
  BY DEF CountInv, Accounted
<1>2. order[o].renews \in Nat /\ order[o].end \in Int
  BY Typed DEF Document
<1>3. order[o].renews + 0 = acked[o] /\ (behind[o] = {} => order[o].end + 0 = Ended(acked[o]))
  BY <1>1 DEF Account, Counts, Dates
<1>4. troubles = 0 => order[o].quantity = Cardinality(live[o])
  BY <1>1 DEF Account, Numbers
<1> QED  BY <1>2, <1>3, <1>4 DEF Ended

-----------------------------------------------------------------------------
(* Service.                                                                *)

\* Execution j, past its search, renews all the proxies it has to of each of its
\* orders: a single renewal those the provider knows, an automatic one the chosen ones.
Whole(l, j) ==
    l # "find" => \A o \in Engaged(j) :
        /\ j.who \in {"user", "admin"} => live[o] \cap Ids[o] \subseteq j.picked[o]
        /\ j.who = "auto" => /\ Chosen[j.sel][o] \cap live[o] \cap Ids[o] \subseteq j.picked[o]
                             /\ j.picked[o] \subseteq Chosen[j.sel][o]

PickInv == \A p \in Executions : Whole(stage[p], task[p])

\* Execution j, at label l, runs selection s, or is to run it.
RunsIt(l, j, s) == j.who = "auto" /\ l \in Running /\ j.sel = s
Pends(l, j, s) == RunsIt(l, j, s) \/ (j.who = "auto" /\ (l = "list" \/ s \in j.runs))

\* Undisturbed, schedules run on the day they are due, and nothing is left behind
\* that the one schedule of an order holds.
CalmInv ==
    troubles = 0 =>
        /\ \A o \in Orders : open[o]
        /\ \A p \in Executions : stage[p] # "refund"
        /\ scanLock # None => task[scanLock].who = "auto"
        /\ fired = 0 => scanLock = None
        /\ \A s \in Selections : selection[s].auto => selection[s].state = "saved"
        /\ \A p \in Executions : task[p].who = "auto" /\ stage[p] \in Running => task[p].day = now
        /\ \A s \in Selections, o \in Orders :
              Serves(s, o) => Chosen[s][o] \cap live[o] \cap Ids[o] \cap behind[o] = {}

\* Proxies of the order that its schedule holds, and that stay.
Holding(s, o) == {u \in Chosen[s][o] \cap live[o] \cap Ids[o] : ~Leaving(o, u)}

\* The order needs no renewal today.
Later(o) == order[o].end >= now + 2

\* Execution j, a run of the order's schedule, has still to renew it, or found too little money.
Owes(l, j, o) ==
    /\ o \in Engaged(j)
    /\ l \in {"claim", "select", "load"} \/ "broke" \in j.results \/ (l # "record" /\ Holds(l, j, o))

\* The end that execution j is about to save is a term later at least.
Prolongs(l, j, o) == l = "save" /\ j.at = o => j.end = None \/ j.end >= order[o].end + Term

ServeAt(s, o) ==
    /\ order[o].status = "ACTIVE" /\ order[o].end >= now + 1
    /\ \A p \in Executions : Prolongs(stage[p], task[p], o)
    /\ Later(o) \/ fired = 0 \/ \E p \in Executions : Pends(stage[p], task[p], s)
    /\ <<s, now>> \in dayLocks => Later(o) \/ \E p \in Executions : RunsIt(stage[p], task[p], s) /\ stage[p] # "claim"
    /\ \A p \in Executions : RunsIt(stage[p], task[p], s) => Later(o) \/ Owes(stage[p], task[p], o)

\* The schedule that is to renew the order: it is on, and holds proxies that stay.
Serviced(s, o) == Serves(s, o) /\ selection[s].auto /\ ~overlap[o] /\ Holding(s, o) # {}

ServeInv == troubles = 0 => \A s \in Selections, o \in Orders : Serviced(s, o) => ServeAt(s, o)

\* Proxies leave an order, and none joins it.
LEMMA StepPicks ==
    ASSUME JobInv, PickInv, NEW p \in Executions, NEW l \in Stages, NEW j \in Held, Takes(p, l, j),
           \A o \in Orders : live'[o] \subseteq live[o], Whole(l, j)
    PROVE  PickInv'
<1>0. /\ stage'[p] = l /\ task'[p] = j
      /\ \A q \in Executions \ {p} : stage'[q] = stage[q] /\ task'[q] = task[q]
  BY DEF Takes
<1>1. ASSUME NEW m, NEW k, Whole(m, k) PROVE Whole(m, k)'
  BY <1>1 DEF Whole, Engaged
<1>2. ASSUME NEW q \in Executions PROVE Whole(stage[q], task[q])'
  <2>1. PICK m, k : m = stage'[q] /\ k = task'[q]
    OBVIOUS
  <2>2. Whole(m, k)
    BY <1>0, <2>1 DEF PickInv
  <2>3. Whole(m, k)'
    BY <1>1, <2>2
  <2> QED  BY <2>1, <2>3 DEF Whole
<1> QED  BY <1>2 DEF PickInv

\* An execution that keeps what it picked keeps all of it.
LEMMA KeepsWhole ==
    ASSUME NEW m, NEW k, NEW l, NEW j, Whole(m, k), m # "find", j.who = k.who, j.sel = k.sel, j.picked = k.picked
    PROVE  Whole(l, j)
  BY DEF Whole, Engaged

\* A job that picked nothing has nothing to complete.
LEMMA FreeWhole == ASSUME NEW l, NEW j, Engaged(j) = {} PROVE Whole(l, j)
  BY DEF Whole

\* An idle execution, and a scan between two runs, picked nothing.
LEMMA IdleFree == Engaged(Idle) = {} /\ \A runs : Engaged(Between(runs)) = {}
  BY DEF Idle, Between, Engaged, NoProxies

\* Settling keeps what was picked.
LEMMA SettlesPicks ==
    ASSUME JobInv, PickInv, NEW p \in Executions, stage[p] # "find", NEW r,
           Fails(p, r) \/ \E todo : Settles(p, r, todo),
           \A o \in Orders : live'[o] \subseteq live[o]
    PROVE  PickInv'
<1>1. Whole(stage[p], task[p])
  BY DEF PickInv
<1>2. CASE Takes(p, "idle", Idle)
  BY <1>2, IdleFree, FreeWhole, StepPicks, IdleIsHeld DEF Stages
<1>3. ASSUME NEW l \in {"record", "debit"}, NEW j \in Held, Takes(p, l, j), Keeps(task[p], j)
      PROVE  PickInv'
  <2>1. Whole(l, j)
    BY <1>1, <1>3, KeepsWhole DEF Keeps
  <2> QED  BY <1>3, <2>1, StepPicks DEF Stages
<1>4. ASSUME Fails(p, r) PROVE PickInv'
  BY <1>2, <1>3, <1>4 DEF Fails
<1>5. ASSUME NEW todo, Settles(p, r, todo) PROVE PickInv'
  BY <1>2, <1>3, <1>5 DEF Settles
<1> QED  BY <1>4, <1>5

\* Every step of an execution that goes on keeps its picks whole.
LEMMA GoesPicks ==
    ASSUME JobInv, PickInv, NEW p \in Executions, Goes(p)
    PROVE  PickInv'
<1>0. PICK m, k : m = stage[p] /\ k = task[p] /\ Whole(m, k)
  BY DEF PickInv
<1>1. CASE \E o \in Orders, who \in {"user", "admin"} : RenewStart(p, o, who)
  <2>1. PICK o \in Orders, who \in {"user", "admin"} : RenewStart(p, o, who)
    BY <1>1
  <2>2. Takes(p, "find", Opened(o, who)) /\ Opened(o, who) \in Held
    BY <2>1, RenewStartTakes DEF Takes
  <2>3. live' = live
    BY <2>1 DEF RenewStart, docVars
  <2>4. Whole("find", Opened(o, who))
    BY DEF Whole
  <2> QED  BY <2>2, <2>3, <2>4, StepPicks DEF Stages
<1>2. CASE RenewFind(p)
  <2>1. m = "find" /\ live' = live /\ HeldOk("find", k, now) /\ k \in Held
    BY <1>0, <1>2, HeldTypes DEF RenewFind, docVars
  <2>2. k.at \in Orders /\ Engaged(k) = {k.at}
    BY <2>1 DEF HeldOk, Hand
  <2>3. ASSUME Takes(p, "idle", Idle) PROVE PickInv'
    BY <2>1, <2>3, IdleFree, FreeWhole, StepPicks, IdleIsHeld DEF Stages
  <2>4. ASSUME NEW l \in {"debit", "provider"}, NEW j \in Held, Takes(p, l, j), j.who # "auto",
               j.picked = [k.picked EXCEPT ![k.at] = live[k.at] \cap Ids[k.at]]
        PROVE  PickInv'
    <3>1. \A o \in Engaged(j) : o = k.at /\ j.picked[o] = live[o] \cap Ids[o]
      BY <2>1, <2>2, <2>4 DEF Engaged, Held
    <3>2. Whole(l, j)
      BY <2>4, <3>1 DEF Whole
    <3> QED  BY <2>1, <2>4, <3>2, StepPicks DEF Stages
  <2> QED  BY <1>0, <1>2, <2>3, <2>4, RenewFindTakes
<1>3. CASE \E picked \in [Orders -> SUBSET Slots] :
             (\A o \in Orders : picked[o] \subseteq Owned[o]) /\ BulkStart(p, picked)
  <2>1. PICK picked \in [Orders -> SUBSET Slots] :
             (\A o \in Orders : picked[o] \subseteq Owned[o]) /\ BulkStart(p, picked)
    BY <1>3
  <2>2. PICK j \in Held : Takes(p, "select", j) /\ j.who = "bulk"
    BY <2>1, BulkStartTakes
  <2>3. live' = live
    BY <2>1 DEF BulkStart, docVars
  <2>4. Whole("select", j)
    BY <2>2 DEF Whole
  <2> QED  BY <2>2, <2>3, <2>4, StepPicks DEF Stages
<1>4. CASE BulkSelect(p)
  <2>1. m = "select" /\ live' = live
    BY <1>0, <1>4 DEF BulkSelect, docVars
  <2>2. ASSUME Fails(p, "failed") PROVE PickInv'
    BY <1>0, <2>1, <2>2, SettlesPicks
  <2>3. ASSUME NEW j \in Held, Takes(p, "load", j), j.who = k.who, j.sel = k.sel,
               j.picked = [o \in Orders |-> k.picked[o] \cap live[o]]
        PROVE  PickInv'
    <3>1. \A o \in Engaged(j) : o \in Engaged(k) /\ j.picked[o] = k.picked[o] \cap live[o]
      BY <2>3 DEF Engaged
    <3>2. Whole("load", j)
      BY <1>0, <2>1, <2>3, <3>1 DEF Whole
    <3> QED  BY <2>1, <2>3, <3>2, StepPicks DEF Stages
  <2> QED  BY <1>0, <1>4, <2>2, <2>3, BulkSelectTakes
<1>5. CASE BulkLoad(p)
  <2>1. m = "load" /\ live' = live
    BY <1>0, <1>5 DEF BulkLoad, docVars
  <2>2. ASSUME Fails(p, "failed") PROVE PickInv'
    BY <1>0, <2>1, <2>2, SettlesPicks
  <2>3. ASSUME NEW j \in Held, Takes(p, "wallet", j), j.who = k.who, j.sel = k.sel, j.picked = k.picked
        PROVE  PickInv'
    <3>1. Whole("wallet", j)
      BY <1>0, <2>1, <2>3, KeepsWhole
    <3> QED  BY <2>1, <2>3, <3>1, StepPicks DEF Stages
  <2> QED  BY <1>0, <1>5, <2>2, <2>3, BulkLoadTakes
<1>6. CASE BulkWallet(p)
  <2>1. m = "wallet" /\ live' = live
    BY <1>0, <1>6 DEF BulkWallet, docVars
  <2>2. ASSUME Fails(p, "broke") PROVE PickInv'
    BY <1>0, <2>1, <2>2, SettlesPicks
  <2>3. ASSUME Takes(p, "debit", k) PROVE PickInv'
    <3>1. Whole("debit", k) /\ k \in Held
      BY <1>0, <2>1, KeepsWhole, HeldTypes
    <3> QED  BY <2>1, <2>3, <3>1, StepPicks DEF Stages
  <2> QED  BY <1>0, <1>6, <2>2, <2>3, BulkWalletTakes
<1>7. CASE Debit(p)
  <2>1. m = "debit" /\ live' = live
    BY <1>0, <1>7 DEF Debit, docVars
  <2>2. ASSUME NEW r, NEW todo, Settles(p, r, todo) PROVE PickInv'
    BY <1>0, <2>1, <2>2, SettlesPicks
  <2>3. ASSUME NEW j \in Held, Takes(p, "provider", j), Keeps(k, j) PROVE PickInv'
    <3>1. Whole("provider", j)
      BY <1>0, <2>1, <2>3, KeepsWhole DEF Keeps
    <3> QED  BY <2>1, <2>3, <3>1, StepPicks DEF Stages
  <2>4. (\E r, todo : Settles(p, r, todo)) \/ \E j \in Held : Takes(p, "provider", j) /\ Keeps(k, j)
    BY <1>0, <1>7, DebitTakes
  <2> QED  BY <2>2, <2>3, <2>4
<1>8. CASE Acknowledge(p)
  <2>1. PICK j \in Held : Takes(p, "save", j) /\ Keeps(k, j) /\ m = "provider"
    BY <1>0, <1>8, AcknowledgeTakes DEF Stays
  <2>2. live' = live
    BY <1>8 DEF Acknowledge
  <2>3. Whole("save", j)
    BY <1>0, <2>1, KeepsWhole DEF Keeps
  <2> QED  BY <2>1, <2>2, <2>3, StepPicks DEF Stages
<1>9. CASE SaveRenewal(p)
  <2>1. m = "save" /\ live' = live
    BY <1>0, <1>9 DEF SaveRenewal
  <2>2. ASSUME NEW r, NEW todo, Settles(p, r, todo) PROVE PickInv'
    BY <1>0, <2>1, <2>2, SettlesPicks
  <2>3. ASSUME NEW j \in Held, Takes(p, "prune", j), j.who = "bulk" PROVE PickInv'
    <3>1. Whole("prune", j)
      BY <2>3 DEF Whole
    <3> QED  BY <2>1, <2>3, <3>1, StepPicks DEF Stages
  <2> QED  BY <1>9, <2>2, <2>3, SaveTakes
<1>10. CASE Prune(p)
  <2>1. m = "prune" /\ \A o \in Orders : live'[o] \subseteq live[o]
    <3>1. m = "prune" /\ task[p].at \in Orders
      BY <1>0, <1>10, AtHand DEF Prune, Hand
    <3>2. live' = live \/ live' = [live EXCEPT ![task[p].at] = @ \cap task[p].picked[task[p].at]]
      BY <1>10, PruneTakes
    <3> QED  BY <3>1, <3>2, Typed
  <2>2. ASSUME Settles(p, "renewed", task[p].todo) PROVE PickInv'
    BY <1>0, <2>1, <2>2, SettlesPicks
  <2>3. ASSUME Takes(p, "count", task[p]) PROVE PickInv'
    <3>1. Whole("count", k) /\ k \in Held
      BY <1>0, <2>1, KeepsWhole, HeldTypes
    <3> QED  BY <1>0, <2>1, <2>3, <3>1, StepPicks DEF Stages
  <2> QED  BY <1>10, <2>2, <2>3, PruneTakes
<1>11. CASE PruneCount(p)
  <2>1. m = "count" /\ live' = live
    BY <1>0, <1>11 DEF PruneCount
  <2> QED  BY <1>0, <1>11, <2>1, PruneCountTakes, SettlesPicks
<1>12. ASSUME live' = live, UNCHANGED <<stage, task>> PROVE PickInv'
  BY <1>12 DEF PickInv, Whole
<1>13. ASSUME NEW l \in Stages, NEW j \in Held, Takes(p, l, j), Engaged(j) = {}, live' = live PROVE PickInv'
  BY <1>13, FreeWhole, StepPicks
<1>14. ASSUME NEW l \in {"list", "run"}, NEW runs, Takes(p, l, Between(runs)), live' = live PROVE PickInv'
  <2>1. Between(runs) \in Held /\ l \in Stages
    BY <1>14 DEF Takes, Stages
  <2> QED  BY <1>13, <1>14, <2>1, IdleFree
<1>15. CASE ScanStart(p)
  <2>1. live' = live
    BY <1>15 DEF ScanStart, docVars
  <2> QED  BY <1>12, <1>14, <1>15, <2>1, ScanStartTakes
<1>16. CASE ScanList(p)
  <2>1. live' = live
    BY <1>16 DEF ScanList, docVars
  <2> QED  BY <1>13, <1>16, <2>1, ScanListTakes DEF Stages
<1>17. CASE RunFind(p)
  <2>1. live' = live
    BY <1>17 DEF RunFind, docVars
  <2>2. ASSUME NEW s \in Selections, NEW j \in Held, Takes(p, "claim", j), j.sel = s, j.who = "auto", Engaged(j) = Due(s),
               \A o \in Orders : j.picked[o] = IF o \in Due(s) THEN Chosen[s][o] \cap live[o] \cap Ids[o] ELSE {}
        PROVE  PickInv'
    <3>1. \A o \in Engaged(j) : j.picked[o] = Chosen[s][o] \cap live[o] \cap Ids[o]
      BY <2>2 DEF Engaged
    <3>2. Whole("claim", j)
      BY <2>2, <3>1 DEF Whole
    <3> QED  BY <2>1, <2>2, <3>2, StepPicks DEF Stages
  <2>3. ASSUME NEW j \in Held, Takes(p, "run", j), Engaged(j) = {} PROVE PickInv'
    BY <1>13, <2>1, <2>3 DEF Stages
  <2>4. PICK s \in task[p].runs, j \in Held :
              /\ s \in Selections /\ j.runs = task[p].runs \ {s} /\ j.who = "auto" /\ j.docs = NoDocuments
              /\ \/ /\ Due(s) = {} /\ Takes(p, "run", j) /\ HeldOk("run", j, now) /\ Engaged(j) = {}
                    /\ overlap' = overlap
                 \/ /\ Due(s) # {} /\ Takes(p, "claim", j) /\ HeldOk("claim", j, now)
                    /\ j.sel = s /\ j.day = now /\ Meets(p, Due(s)) /\ Engaged(j) = Due(s)
                    /\ j.todo = {}
                    /\ \A o \in Orders : j.picked[o] = IF o \in Due(s)
                                                       THEN Chosen[s][o] \cap live[o] \cap Ids[o] ELSE {}
    BY <1>17, RunFindTakes
  <2> QED  BY <2>2, <2>3, <2>4
<1>18. CASE RunClaim(p)
  <2>1. live' = live /\ m = "claim"
    BY <1>0, <1>18 DEF RunClaim, docVars
  <2>2. ASSUME Takes(p, "select", task[p]) PROVE PickInv'
    <3>1. Whole("select", k) /\ k \in Held
      BY <1>0, <2>1, KeepsWhole, HeldTypes
    <3> QED  BY <1>0, <2>1, <2>2, <3>1, StepPicks DEF Stages
  <2> QED  BY <1>14, <1>18, <2>1, <2>2, RunClaimTakes
<1>19. CASE RunRecord(p)
  <2>1. live' = live
    BY <1>19 DEF RunRecord, docVars
  <2> QED  BY <1>14, <1>19, <2>1, RunRecordTakes
<1>20. CASE ScanUnlock(p)
  <2>1. live' = live /\ Takes(p, "idle", Idle)
    BY <1>20, FinishTakes DEF ScanUnlock, docVars
  <2> QED  BY <1>13, <2>1, IdleFree, IdleIsHeld DEF Stages
<1> QED  BY <1>1, <1>2, <1>3, <1>4, <1>5, <1>6, <1>7, <1>8, <1>9, <1>10, <1>11, <1>15, <1>16, <1>17, <1>18,
            <1>19, <1>20 DEF Goes

\* So does every failure.
LEMMA StumblesPicks ==
    ASSUME JobInv, PickInv, NEW p \in Executions, Stumbles(p)
    PROVE  PickInv'
<1>0. PICK m, k : m = stage[p] /\ k = task[p] /\ Whole(m, k)
  BY DEF PickInv
<1>1. CASE AcknowledgeSome(p)
  <2>1. PICK j \in Held : Takes(p, "save", j) /\ Keeps(k, j) /\ m = "provider"
    BY <1>0, <1>1, AcknowledgeTakes DEF Stays
  <2>2. live' = live
    BY <1>1 DEF AcknowledgeSome
  <2>3. Whole("save", j)
    BY <1>0, <2>1, KeepsWhole DEF Keeps
  <2> QED  BY <2>1, <2>2, <2>3, StepPicks DEF Stages
<1>2. ASSUME Takes(p, "idle", Idle), live' = live PROVE PickInv'
  BY <1>2, IdleFree, FreeWhole, StepPicks, IdleIsHeld DEF Stages
<1>3. CASE Refuse(p)
  <2>1. live' = live /\ m = "provider"
    BY <1>0, <1>3 DEF Refuse
  <2>2. ASSUME Takes(p, "refund", task[p]) PROVE PickInv'
    <3>1. Whole("refund", k) /\ k \in Held
      BY <1>0, <2>1, KeepsWhole, HeldTypes
    <3> QED  BY <1>0, <2>1, <2>2, <3>1, StepPicks DEF Stages
  <2> QED  BY <1>2, <1>3, <2>1, <2>2, RefuseTakes
<1>4. CASE Refund(p)
  <2>1. live' = live /\ m = "refund"
    BY <1>0, <1>4 DEF Refund, docVars
  <2> QED  BY <1>0, <1>4, <2>1, RefundTakes, SettlesPicks
<1>5. CASE SaveFails(p)
  <2>1. live' = live /\ m = "save"
    BY <1>0, <1>5 DEF SaveFails, docVars
  <2> QED  BY <1>0, <1>5, <2>1, SaveFailsTakes, SettlesPicks
<1>6. CASE Die(p)
  <2>1. live' = live /\ Takes(p, "idle", Idle)
    BY <1>6, FinishTakes DEF Die, docVars
  <2> QED  BY <1>2, <2>1
<1> QED  BY <1>1, <1>3, <1>4, <1>5, <1>6 DEF Stumbles

\* What the environment leaves alone.
LEMMA EnvironmentKeeps ==
    ASSUME Environment \/ UNCHANGED renewalVars
    PROVE  UNCHANGED <<stage, task, live, remote, acked, behind, unsaved, wallet, booked, drained, charged, dayLocks>>
  BY DEF Environment, CreateSelection, SwitchSchedule, DeleteSelection, SwitchPartner, Expire, NextDay, LockLapse,
         renewalVars, docVars, moneyVars, lockVars, histVars, bounds

\* Every step keeps the picks of the executions whole.
LEMMA NextPicks == JobInv /\ PickInv /\ [RenewalNext]_renewalVars => PickInv'
<1> SUFFICES ASSUME JobInv, PickInv, [RenewalNext]_renewalVars PROVE PickInv'
  OBVIOUS
<1>1. ASSUME UNCHANGED <<stage, task, live>> PROVE PickInv'
  BY <1>1 DEF PickInv, Whole
<1>2. CASE Environment \/ UNCHANGED renewalVars
  BY <1>1, <1>2, EnvironmentKeeps
<1> QED  BY <1>2, GoesPicks, StumblesPicks, NextGoes

\* At the start nothing is picked.
LEMMA InitPicks == RenewalInit => PickInv
<1> SUFFICES ASSUME RenewalInit, NEW p \in Executions PROVE Whole(stage[p], task[p])
  BY DEF PickInv
<1>1. task[p] = Idle
  BY DEF RenewalInit
<1> QED  BY <1>1, IdleFree, FreeWhole

\* Undisturbed, an automatic execution stays automatic until its scan ends.
Automatic(p, l, j) ==
    /\ j.who = "auto" => task[p].who = "auto" \/ ScanStart(p)
    /\ task[p].who = "auto" => j.who = "auto"
    /\ j.who = "auto" /\ l \in Running => j.day = now \/ (task[p].who = "auto" /\ stage[p] \in Running /\ j.day = task[p].day)

\* Settling and failing keep an automatic execution automatic, on its day.
LEMMA SettlesAutomatic ==
    ASSUME JobInv, NEW p \in Executions, stage[p] \in Renewing \cup {"select", "load", "wallet"}, NEW r,
           Fails(p, r) \/ \E todo : Settles(p, r, todo)
    PROVE  \E l \in {"idle", "record", "debit"}, j \in Held : Takes(p, l, j) /\ Automatic(p, l, j)
<1>1. stage[p] \in Running \/ task[p].who # "auto"
  <2>1. stage[p] \in Ways(task[p].who)
    BY HeldTypes DEF HeldOk
  <2> QED  BY <2>1 DEF Ways, Running, Past, Renewing
<1>2. ASSUME Takes(p, "idle", Idle), task[p].who # "auto"
      PROVE  \E l \in {"idle", "record", "debit"}, j \in Held : Takes(p, l, j) /\ Automatic(p, l, j)
  <2>0. Idle.who # "auto"
    BY DEF Idle
  <2>1. Automatic(p, "idle", Idle)
    BY <1>2, <2>0 DEF Automatic
  <2> QED  BY <1>2, <2>1, IdleIsHeld
<1>3. ASSUME NEW l \in {"record", "debit"}, NEW j \in Held, Takes(p, l, j), Keeps(task[p], j)
      PROVE  Automatic(p, l, j)
  BY <1>1, <1>3 DEF Automatic, Keeps
<1>4. ASSUME Fails(p, r)
      PROVE  \E l \in {"idle", "record", "debit"}, j \in Held : Takes(p, l, j) /\ Automatic(p, l, j)
  BY <1>2, <1>3, <1>4 DEF Fails
<1>5. ASSUME NEW todo, Settles(p, r, todo)
      PROVE  \E l \in {"idle", "record", "debit"}, j \in Held : Takes(p, l, j) /\ Automatic(p, l, j)
  BY <1>2, <1>3, <1>5 DEF Settles
<1> QED  BY <1>4, <1>5

\* Undisturbed, an execution goes on with the order it renews.
LEMMA GoesAutomatic ==
    ASSUME JobInv, NEW p \in Executions, Goes(p), ~ScanUnlock(p)
    PROVE  \/ UNCHANGED <<stage, task>>
           \/ \E l \in Stages \ {"refund"}, j \in Held :
                 Takes(p, l, j) /\ Automatic(p, l, j) /\ (l = "save" => Acknowledge(p))
<1>0. PICK m, k : m = stage[p] /\ k = task[p] /\ HeldOk(m, k, now) /\ k \in Held
  BY HeldTypes
<1>1. m \in {"idle", "find", "prune", "count"} => k.who # "auto"
  BY <1>0 DEF HeldOk, Ways, Held, Askers
<1>2. m \in {"list", "run", "claim", "record"} => k.who = "auto"
  BY <1>0 DEF HeldOk, Ways, Held, Askers
<1>3. k.who = "auto" /\ m \notin {"list", "run"} => m \in Running
  BY <1>0 DEF HeldOk, Ways, Running, Past
<1> DEFINE Result == \E l \in Stages \ {"refund"}, j \in Held :
                        Takes(p, l, j) /\ Automatic(p, l, j) /\ (l = "save" => Acknowledge(p))
<1>4. ASSUME NEW l \in Stages \ {"refund", "save"}, NEW j \in Held, Takes(p, l, j), j.who # "auto", k.who # "auto" PROVE Result
  BY <1>0, <1>4 DEF Automatic
<1>5. ASSUME NEW l \in Stages \ {"refund", "save"}, NEW j \in Held, Takes(p, l, j), j.who = k.who, j.day = k.day, m \notin {"list", "run"}
      PROVE Result
  BY <1>0, <1>3, <1>5 DEF Automatic
<1>6. ASSUME NEW l \in Stages \ ({"refund", "save"} \cup Running), NEW j \in Held, Takes(p, l, j), j.who = "auto",
             k.who = "auto" \/ ScanStart(p)
      PROVE  Result
  BY <1>0, <1>6 DEF Automatic, Running, Past
<1>7. ASSUME NEW r, m \in Renewing \cup {"select", "load", "wallet"}, Fails(p, r) \/ \E todo : Settles(p, r, todo) PROVE Result
  <2>1. {"idle", "record", "debit"} \subseteq Stages \ {"refund", "save"}
    BY DEF Stages
  <2> QED  BY <1>0, <1>7, <2>1, SettlesAutomatic
<1>8. ASSUME NEW runs, NEW l \in {"list", "run"}, Takes(p, l, Between(runs)), k.who = "auto" \/ ScanStart(p) PROVE Result
  <2>1. Between(runs) \in Held /\ Between(runs).who = "auto"
    BY <1>8, BetweenTaken
  <2>2. l \in Stages \ ({"refund", "save"} \cup Running)
    BY DEF Stages, Running, Past
  <2> QED  BY <1>6, <1>8, <2>1, <2>2
<1> SUFFICES Result \/ UNCHANGED <<stage, task>>
  OBVIOUS
<1> HIDE DEF Result
<1>9. CASE \E o \in Orders, who \in {"user", "admin"} : RenewStart(p, o, who)
  <2>1. PICK o \in Orders, who \in {"user", "admin"} : RenewStart(p, o, who)
    BY <1>9
  <2>2. Takes(p, "find", Opened(o, who)) /\ Opened(o, who) \in Held
    BY <2>1, RenewStartTakes DEF Takes
  <2>3. Opened(o, who).who # "auto"
    BY DEF Opened, Idle
  <2>4. m = "idle"
    BY <1>0, <2>1 DEF RenewStart
  <2> QED  BY <1>1, <1>4, <2>2, <2>3, <2>4 DEF Stages
<1>10. CASE RenewFind(p)
  <2>1. m = "find"
    BY <1>0, <1>10 DEF RenewFind
  <2>2. CASE Takes(p, "idle", Idle)
    BY <1>1, <1>4, <2>1, <2>2, IdleIsHeld DEF Stages, Idle
  <2>3. ASSUME NEW l \in {"debit", "provider"}, NEW j \in Held, Takes(p, l, j), j.who # "auto" PROVE Result
    BY <1>1, <1>4, <2>1, <2>3 DEF Stages
  <2> QED  BY <1>10, <2>2, <2>3, RenewFindTakes
<1>11. CASE \E picked \in [Orders -> SUBSET Slots] :
             (\A o \in Orders : picked[o] \subseteq Owned[o]) /\ BulkStart(p, picked)
  <2>1. PICK picked \in [Orders -> SUBSET Slots] :
             (\A o \in Orders : picked[o] \subseteq Owned[o]) /\ BulkStart(p, picked)
    BY <1>11
  <2>2. PICK j \in Held : Takes(p, "select", j) /\ j.who = "bulk"
    BY <2>1, BulkStartTakes
  <2>3. m = "idle"
    BY <1>0, <2>1 DEF BulkStart
  <2> QED  BY <1>1, <1>4, <2>2, <2>3 DEF Stages
<1>12. CASE BulkSelect(p)
  <2>1. m = "select"
    BY <1>0, <1>12 DEF BulkSelect
  <2>2. CASE Fails(p, "failed")
    BY <1>7, <2>1, <2>2
  <2>3. ASSUME NEW j \in Held, Takes(p, "load", j), j.who = k.who, j.day = k.day PROVE Result
    BY <1>5, <2>1, <2>3 DEF Stages
  <2> QED  BY <1>0, <1>12, <2>2, <2>3, BulkSelectTakes
<1>13. CASE BulkLoad(p)
  <2>1. m = "load"
    BY <1>0, <1>13 DEF BulkLoad
  <2>2. CASE Fails(p, "failed")
    BY <1>7, <2>1, <2>2
  <2>3. ASSUME NEW j \in Held, Takes(p, "wallet", j), j.who = k.who, j.day = k.day PROVE Result
    BY <1>5, <2>1, <2>3 DEF Stages
  <2> QED  BY <1>0, <1>13, <2>2, <2>3, BulkLoadTakes
<1>14. CASE BulkWallet(p)
  <2>1. m = "wallet"
    BY <1>0, <1>14 DEF BulkWallet
  <2>2. CASE Fails(p, "broke")
    BY <1>7, <2>1, <2>2
  <2>3. CASE Takes(p, "debit", k)
    BY <1>0, <1>5, <2>1, <2>3 DEF Stages
  <2> QED  BY <1>0, <1>14, <2>2, <2>3, BulkWalletTakes
<1>15. CASE Debit(p)
  <2>1. m = "debit"
    BY <1>0, <1>15 DEF Debit
  <2>2. ASSUME NEW r, NEW todo, Settles(p, r, todo) PROVE Result
    BY <1>7, <2>1, <2>2 DEF Renewing
  <2>3. ASSUME NEW j \in Held, Takes(p, "provider", j), Keeps(k, j) PROVE Result
    BY <1>5, <2>1, <2>3 DEF Stages, Keeps
  <2>4. (\E r, todo : Settles(p, r, todo)) \/ \E j \in Held : Takes(p, "provider", j) /\ Keeps(k, j)
    BY <1>0, <1>15, DebitTakes
  <2> QED  BY <2>2, <2>3, <2>4
<1>16. CASE Acknowledge(p)
  <2>1. PICK j \in Held : Takes(p, "save", j) /\ Keeps(k, j) /\ m = "provider"
    BY <1>0, <1>16, AcknowledgeTakes DEF Stays
  <2>2. Automatic(p, "save", j)
    BY <1>0, <1>3, <2>1 DEF Automatic, Keeps
  <2> QED  BY <1>16, <2>1, <2>2 DEF Stages, Result
<1>17. CASE SaveRenewal(p)
  <2>1. m = "save"
    BY <1>0, <1>17 DEF SaveRenewal
  <2>2. ASSUME NEW r, NEW todo, Settles(p, r, todo) PROVE Result
    BY <1>7, <2>1, <2>2 DEF Renewing
  <2>3. ASSUME NEW j \in Held, Takes(p, "prune", j), j.who = "bulk", k.who = "bulk" PROVE Result
    BY <1>4, <2>3 DEF Stages
  <2> QED  BY <1>0, <1>17, <2>2, <2>3, SaveTakes
<1>18. CASE Prune(p)
  <2>1. m = "prune"
    BY <1>0, <1>18 DEF Prune
  <2>2. CASE Settles(p, "renewed", task[p].todo)
    BY <1>7, <2>1, <2>2 DEF Renewing
  <2>3. CASE Takes(p, "count", task[p])
    BY <1>0, <1>5, <2>1, <2>3 DEF Stages
  <2> QED  BY <1>18, <2>2, <2>3, PruneTakes
<1>19. CASE PruneCount(p)
  <2>1. m = "count"
    BY <1>0, <1>19 DEF PruneCount
  <2> QED  BY <1>7, <1>19, <2>1, PruneCountTakes DEF Renewing
<1>20. CASE ScanStart(p)
  BY <1>8, <1>20, ScanStartTakes
<1>21. CASE ScanList(p)
  <2>0. k.who = "auto"
    BY <1>0, <1>2, <1>21 DEF ScanList
  <2>1. "run" \in Stages \ ({"refund", "save"} \cup Running)
    BY DEF Stages, Running, Past
  <2> QED  BY <1>6, <1>21, <2>0, <2>1, ScanListTakes
<1>22. CASE RunFind(p)
  <2>0. k.who = "auto"
    BY <1>0, <1>2, <1>22 DEF RunFind
  <2>1. "run" \in Stages \ ({"refund", "save"} \cup Running)
    BY DEF Stages, Running, Past
  <2>2. ASSUME NEW j \in Held, Takes(p, "run", j), j.who = "auto" PROVE Result
    BY <1>6, <2>0, <2>1, <2>2
  <2>3. ASSUME NEW j \in Held, Takes(p, "claim", j), j.who = "auto", j.day = now PROVE Result
    BY <1>0, <2>0, <2>3 DEF Automatic, Stages, Result
  <2> QED  BY <1>22, <2>2, <2>3, RunFindTakes
<1>23. CASE RunClaim(p)
  <2>1. m = "claim"
    BY <1>0, <1>23 DEF RunClaim
  <2>2. CASE Takes(p, "select", task[p])
    BY <1>0, <1>5, <2>1, <2>2 DEF Stages
  <2> QED  BY <1>2, <1>8, <1>23, <2>1, <2>2, RunClaimTakes
<1>24. CASE RunRecord(p)
  <2>1. k.who = "auto"
    BY <1>0, <1>2, <1>24 DEF RunRecord
  <2> QED  BY <1>8, <1>24, <2>1, RunRecordTakes
<1> QED  BY <1>9, <1>10, <1>11, <1>12, <1>13, <1>14, <1>15, <1>16, <1>17, <1>18, <1>19, <1>20, <1>21, <1>22,
            <1>23, <1>24 DEF Goes

\* What a step of an execution leaves alone, or moves one way.
LEMMA GoesKeeps ==
    ASSUME JobInv, NEW p \in Executions, Goes(p)
    PROVE  /\ troubles' = troubles /\ open' = open /\ now' = now
           /\ fired' = fired \/ ScanStart(p)
           /\ scanLock' = scanLock \/ ScanStart(p) \/ (ScanUnlock(p) /\ scanLock' = None)
           /\ selection' = selection \/ RunRecord(p)
           /\ dayLocks' = dayLocks \/ RunClaim(p)
           /\ behind' = behind \/ Acknowledge(p)
           /\ live' = live \/ Prune(p)
           /\ order' = order \/ SaveRenewal(p) \/ PruneCount(p)
<1>1. CASE \E o \in Orders, who \in {"user", "admin"} : RenewStart(p, o, who)
  BY <1>1 DEF RenewStart, docVars, lockVars, timeVars
<1>2. CASE RenewFind(p)
  BY <1>2 DEF RenewFind, docVars, lockVars, timeVars, histVars, bounds
<1>3. CASE \E picked \in [Orders -> SUBSET Slots] :
             (\A o \in Orders : picked[o] \subseteq Owned[o]) /\ BulkStart(p, picked)
  BY <1>3 DEF BulkStart, docVars, lockVars, timeVars
<1>4. CASE BulkSelect(p) \/ BulkLoad(p) \/ BulkWallet(p)
  BY <1>4 DEF BulkSelect, BulkLoad, BulkWallet, docVars, lockVars, timeVars, histVars, bounds
<1>5. CASE Debit(p) \/ Acknowledge(p) \/ SaveRenewal(p)
  BY <1>5 DEF Debit, Acknowledge, SaveRenewal, docVars, lockVars, timeVars, histVars, bounds
<1>6. CASE Prune(p) \/ PruneCount(p)
  BY <1>6 DEF Prune, PruneCount, docVars, lockVars, timeVars, histVars, bounds
<1>7. CASE ScanStart(p) \/ ScanList(p) \/ RunFind(p)
  BY <1>7 DEF ScanStart, ScanList, RunFind, docVars, lockVars, timeVars, histVars, bounds
<1>8. CASE RunClaim(p) \/ RunRecord(p) \/ ScanUnlock(p)
  BY <1>8 DEF RunClaim, RunRecord, ScanUnlock, docVars, lockVars, timeVars, histVars, bounds
<1> QED  BY <1>1, <1>2, <1>3, <1>4, <1>5, <1>6, <1>7, <1>8 DEF Goes

\* Undisturbed, nothing else happens but these.
LEMMA CalmSteps ==
    ASSUME JobInv, CalmInv, [RenewalNext]_renewalVars, troubles' = 0
    PROVE  /\ troubles = 0
           /\ \/ \E p \in Executions : Goes(p)
              \/ \E s \in Selections : CreateSelection(s)
              \/ \E o \in Orders : Expire(o)
              \/ NextDay
              \/ UNCHANGED renewalVars
<1>1. troubles \in Nat
  BY DEF JobInv, Counters
<1>2. CASE \E p \in Executions : Goes(p)
  BY <1>2, GoesKeeps
<1>3. ASSUME NEW p \in Executions, Stumbles(p) PROVE FALSE
  <2>1. ASSUME troubles' = troubles + 1 PROVE FALSE
    BY <1>1, <2>1
  <2>4. ~AcknowledgeSome(p)
    BY <2>1 DEF AcknowledgeSome
  <2>5. ~Refuse(p)
    BY <2>1 DEF Refuse
  <2>6. ~SaveFails(p)
    BY <2>1 DEF SaveFails
  <2>7. ~Die(p)
    BY <2>1 DEF Die
  <2>2. Refund(p)
    BY <1>3, <2>4, <2>5, <2>6, <2>7 DEF Stumbles
  <2>3. troubles = 0 /\ stage[p] = "refund"
    BY <2>2 DEF Refund, bounds
  <2> QED  BY <2>3 DEF CalmInv
<1>4. CASE Environment
  <2>1. \A s \in Selections : ~SwitchSchedule(s) /\ ~DeleteSelection(s)
    BY <1>1 DEF SwitchSchedule, DeleteSelection
  <2>2. \A o \in Orders : ~SwitchPartner(o)
    BY <1>1 DEF SwitchPartner
  <2>3. ~LockLapse
    <3> SUFFICES ASSUME LockLapse PROVE FALSE
      OBVIOUS
    <3>1. scanLock # None
      BY DEF LockLapse
    <3>2. task[scanLock].who # "auto" /\ troubles = 0
      BY <1>1 DEF LockLapse
    <3> QED  BY <3>1, <3>2 DEF CalmInv
  <2>4. (\E s \in Selections : CreateSelection(s)) \/ (\E o \in Orders : Expire(o)) \/ NextDay
    BY <1>4, <2>1, <2>2, <2>3 DEF Environment
  <2>5. troubles' = troubles
    BY <2>4 DEF CreateSelection, Expire, NextDay, bounds
  <2> QED  BY <2>4, <2>5
<1>5. CASE UNCHANGED renewalVars
  BY <1>5 DEF renewalVars, bounds
<1> QED  BY <1>2, <1>3, <1>4, <1>5, NextGoes

\* What renews an order that selection s serves, other than a bulk renewal, renews
\* all the proxies of s; and no other run renews it.
LEMMA HoldsChosen ==
    ASSUME JobInv, PickInv, NEW p \in Executions, stage[p] # "find", NEW o \in Orders, o \in Engaged(task[p]),
           task[p].who # "bulk", NEW s \in Selections, Serves(s, o)
    PROVE  /\ Chosen[s][o] \cap live[o] \cap Ids[o] \subseteq task[p].picked[o]
           /\ task[p].who = "auto" => task[p].sel = s
<1>0. PICK m, k : m = stage[p] /\ k = task[p] /\ Whole(m, k) /\ HeldOk(m, k, now) /\ k \in Held
  BY HeldTypes DEF PickInv
<1>1. k.who # "none"
  <2> SUFFICES ASSUME k.who = "none" PROVE FALSE
    OBVIOUS
  <2>1. m = "idle" /\ k = Idle
    BY <1>0 DEF HeldOk, Ways
  <2> QED  BY <1>0, <2>1, IdleFree
<1>2. CASE k.who \in {"user", "admin"}
  BY <1>0, <1>2 DEF Whole
<1>3. CASE k.who = "auto"
  <2>1. k.sel \in Selections
    <3>1. m \in Running
      BY <1>0, <1>3 DEF HeldOk, Ways, Running, Past
    <3> QED  BY <1>0, <1>3, <3>1 DEF HeldOk
  <2>2. Chosen[k.sel][o] \cap live[o] \cap Ids[o] \subseteq k.picked[o] /\ k.picked[o] \subseteq Chosen[k.sel][o]
    BY <1>0, <1>3 DEF Whole
  <2>3. k.picked[o] # {}
    BY <1>0 DEF Engaged
  <2>4. k.sel = s
    BY <2>1, <2>2, <2>3 DEF Serves
  <2> QED  BY <1>0, <2>2, <2>4
<1> QED  BY <1>0, <1>1, <1>2, <1>3 DEF Held, Askers

\* No step of an execution adds a proxy to an order.
LEMMA LiveShrinks ==
    ASSUME JobInv, NEW p \in Executions, Goes(p)
    PROVE  \A o \in Orders : live'[o] \subseteq live[o]
<1>1. CASE Prune(p)
  <2>1. stage[p] = "prune"
    BY <1>1 DEF Prune
  <2>2. task[p].at \in Orders
    BY <2>1, AtHand DEF Hand
  <2>3. live' = live \/ live' = [live EXCEPT ![task[p].at] = @ \cap task[p].picked[task[p].at]]
    BY <1>1, PruneTakes
  <2> QED  BY <2>2, <2>3, Typed
<1> QED  BY <1>1, GoesKeeps

\* A renewal that is acknowledged in full leaves no proxy of the order's schedule behind.
LEMMA GoesBehind ==
    ASSUME JobInv, PickInv, CalmInv, NEW p \in Executions, Goes(p), troubles = 0, troubles' = 0,
           NEW s \in Selections, NEW o \in Orders, Serves(s, o)
    PROVE  Chosen[s][o] \cap live'[o] \cap Ids[o] \cap behind'[o] = {}
<1>1. Chosen[s][o] \cap live[o] \cap Ids[o] \cap behind[o] = {} /\ live'[o] \subseteq live[o]
  BY LiveShrinks DEF CalmInv
<1>2. CASE behind' = behind
  BY <1>1, <1>2
<1>3. CASE Acknowledge(p)
  <2>0. PICK k, at : k = task[p] /\ at = k.at
    OBVIOUS
  <2>1. PICK renewed \in SUBSET WithId(k, at) :
              /\ stage[p] = "provider"
              /\ behind' = [behind EXCEPT ![at] = @ \cup LeftBehind(k, at, renewed)]
              /\ renewed = WithId(k, at) \/ troubles' = troubles + 1
    BY <1>3, <2>0, AcknowledgeTakes
  <2>2. behind' = [behind EXCEPT ![at] = @ \cup LeftBehind(k, at, WithId(k, at))]
    BY <2>1
  <2>3. behind \in [Orders -> SUBSET Slots]
    BY DEF JobInv, Counters
  <2>4. CASE o # at
    BY <1>1, <2>2, <2>3, <2>4
  <2>5. CASE o = at
    <3>1. o \in Engaged(k)
      BY <2>0, <2>1, <2>5, AtHand DEF Engaged, Hand
    <3>2. behind'[o] = behind[o] \cup LeftBehind(k, o, WithId(k, o))
      BY <2>2, <2>3, <2>5
    <3>3. Chosen[s][o] \cap live[o] \cap Ids[o] \cap LeftBehind(k, o, WithId(k, o)) = {}
      <4>1. CASE k.who = "bulk"
        BY <4>1 DEF LeftBehind
      <4>2. CASE k.who # "bulk"
        <5>1. Chosen[s][o] \cap live[o] \cap Ids[o] \subseteq k.picked[o]
          BY <2>0, <2>1, <3>1, <4>2, HoldsChosen
        <5> QED  BY <4>2, <5>1 DEF LeftBehind, WithId
      <4> QED  BY <4>1, <4>2
    <3> QED  BY <1>1, <3>2, <3>3
  <2> QED  BY <2>4, <2>5
<1> QED  BY <1>2, <1>3, GoesKeeps

\* Recording a run may switch its schedule off, and no other.
LEMMA RecordsSchedule ==
    ASSUME JobInv, NEW p \in Executions, RunRecord(p)
    PROVE  /\ task[p].who = "auto" /\ task[p].sel \in Selections
           /\ \A t \in Selections : selection'[t].state = selection[t].state
           /\ \A t \in Selections : selection'[t].auto => selection[t].auto
           /\ \A t \in Selections : t = task[p].sel /\ selection'[t].auto =>
                  selection[t].state = "deleted" \/ "broke" \notin task[p].results
<1>1. PICK m, k : m = stage[p] /\ k = task[p] /\ HeldOk(m, k, now) /\ k \in Held
  BY HeldTypes
<1>2. m = "record"
  BY <1>1 DEF RunRecord
<1>3. k.who = "auto" /\ k.sel \in Selections
  <2>1. k.who = "auto"
    BY <1>1, <1>2 DEF HeldOk, Ways, Held, Askers
  <2> QED  BY <1>1, <1>2, <2>1 DEF HeldOk, Running, Past
<1>4. PICK last, s : /\ last = Outcome(k.results) /\ s = k.sel
                     /\ selection' = IF selection[s].state = "deleted" THEN selection
                                     ELSE [selection EXCEPT ![s].last = last,
                                                            ![s].auto = @ /\ last # "disabled"]
  BY <1>1 DEF RunRecord
<1>5. selection \in [Selections -> [state: {"none", "saved", "deleted"}, auto: BOOLEAN, last: Runs]]
  BY Typed
<1>6. "broke" \in k.results => last = "disabled"
  BY <1>4 DEF Outcome
<1>7. CASE selection[s].state = "deleted"
  BY <1>1, <1>3, <1>4, <1>7
<1>8. CASE selection[s].state # "deleted"
  <2> DEFINE b == selection[s].auto /\ last # "disabled"
             r == [[selection[s] EXCEPT !.last = last] EXCEPT !.auto = b]
  <2>1. selection' = [selection EXCEPT ![s] = r]
    BY <1>3, <1>4, <1>5, <1>8
  <2>2. r.state = selection[s].state /\ r.auto = b
    BY <1>3, <1>4, <1>5
  <2>3. b => selection[s].auto /\ last # "disabled"
    OBVIOUS
  <2> HIDE DEF b, r
  <2>4. selection'[s] = r /\ \A t \in Selections \ {s} : selection'[t] = selection[t]
    BY <1>3, <1>4, <1>5, <2>1
  <2> QED  BY <1>1, <1>3, <1>4, <1>6, <2>2, <2>3, <2>4
<1> QED  BY <1>7, <1>8

\* A step of an execution keeps schedules calm.
LEMMA GoesCalm ==
    ASSUME JobInv, PickInv, CalmInv, NEW p \in Executions, Goes(p), troubles = 0, troubles' = 0
    PROVE  CalmInv'
<1>0. now' = now /\ open' = open
  BY GoesKeeps
<1>1. \A o \in Orders : open'[o]
  BY <1>0 DEF CalmInv
<1>2. /\ \A q \in Executions : stage'[q] # "refund"
      /\ \A q \in Executions : task'[q].who = "auto" /\ stage'[q] \in Running => task'[q].day = now'
      /\ ~ScanUnlock(p) => \A q \in Executions : task[q].who = "auto" => task'[q].who = "auto"
  <2>0. /\ \A q \in Executions : stage[q] # "refund"
        /\ \A q \in Executions : task[q].who = "auto" /\ stage[q] \in Running => task[q].day = now'
    BY <1>0 DEF CalmInv
  <2>1. CASE UNCHANGED <<stage, task>>
    BY <2>0, <2>1
  <2>2. ASSUME NEW l \in Stages \ {"refund"}, NEW j \in Held, Takes(p, l, j), Automatic(p, l, j)
        PROVE  /\ \A q \in Executions : stage'[q] # "refund"
               /\ \A q \in Executions : task'[q].who = "auto" /\ stage'[q] \in Running => task'[q].day = now'
               /\ \A q \in Executions : task[q].who = "auto" => task'[q].who = "auto"
    <3>1. stage'[p] = l /\ task'[p] = j /\ \A q \in Executions \ {p} : stage'[q] = stage[q] /\ task'[q] = task[q]
      BY <2>2 DEF Takes
    <3>2. /\ task[p].who = "auto" => j.who = "auto"
          /\ j.who = "auto" /\ l \in Running => j.day = now'
      BY <1>0, <2>0, <2>2 DEF Automatic
    <3> QED  BY <2>0, <2>2, <3>1, <3>2
  <2>3. CASE ScanUnlock(p)
    <3>1. Takes(p, "idle", Idle)
      BY <2>3, FinishTakes DEF ScanUnlock
    <3>2. stage'[p] = "idle" /\ task'[p] = Idle /\ \A q \in Executions \ {p} : stage'[q] = stage[q] /\ task'[q] = task[q]
      BY <3>1 DEF Takes
    <3>3. "idle" \notin Running
      BY DEF Running, Past
    <3> QED  BY <2>0, <2>3, <3>2, <3>3
  <2>4. CASE ~ScanUnlock(p) /\ ~UNCHANGED <<stage, task>>
    <3>1. PICK l \in Stages \ {"refund"}, j \in Held : Takes(p, l, j) /\ Automatic(p, l, j)
      BY <2>4, GoesAutomatic
    <3> QED  BY <2>2, <3>1
  <2> QED  BY <2>1, <2>3, <2>4
<1>3. (scanLock' # None => task'[scanLock'].who = "auto") /\ (fired' = 0 => scanLock' = None)
  <2>0. (scanLock # None => task[scanLock].who = "auto") /\ (fired = 0 => scanLock = None) /\ fired \in Nat
        /\ scanLock \in Executions \cup {None}
    BY Typed, ConstantTypes DEF CalmInv
  <2>1. CASE ScanStart(p)
    <3>1. fired' # 0
      BY <2>0, <2>1 DEF ScanStart
    <3>2. ASSUME scanLock' = p, Takes(p, "list", Between({})) PROVE task'[scanLock'].who = "auto"
      <4>1. task'[p] = Between({})
        BY <3>2 DEF Takes
      <4>2. Between({}).who = "auto"
        BY <3>2, BetweenTaken
      <4> QED  BY <3>2, <4>1, <4>2
    <3>3. ASSUME scanLock # None, UNCHANGED <<scanLock, stage, task>> PROVE task'[scanLock'].who = "auto"
      BY <2>0, <3>3
    <3> QED  BY <2>1, <3>1, <3>2, <3>3, ScanStartTakes
  <2>2. CASE scanLock' = None
    BY <2>2
  <2>3. CASE ~ScanStart(p) /\ ~ScanUnlock(p)
    <3>1. scanLock' = scanLock /\ fired' = fired
      BY <2>3, GoesKeeps
    <3>2. scanLock # None => scanLock \in Executions /\ task'[scanLock].who = "auto"
      BY <1>2, <2>0, <2>3
    <3> QED  BY <2>0, <3>1, <3>2
  <2>4. ScanUnlock(p) => scanLock' = None
    BY DEF ScanUnlock
  <2> QED  BY <2>1, <2>2, <2>3, <2>4
<1>4. \A s \in Selections : selection'[s].auto => selection'[s].state = "saved"
  <2>1. \A s \in Selections : selection[s].auto => selection[s].state = "saved"
    BY DEF CalmInv
  <2>2. CASE RunRecord(p)
    <3>1. \A s \in Selections : selection'[s].state = selection[s].state /\ (selection'[s].auto => selection[s].auto)
      BY <2>2, RecordsSchedule
    <3> QED  BY <2>1, <3>1
  <2>3. CASE selection' = selection
    BY <2>1, <2>3
  <2> QED  BY <2>2, <2>3, GoesKeeps
<1>5. \A s \in Selections, o \in Orders : Serves(s, o) => Chosen[s][o] \cap live'[o] \cap Ids[o] \cap behind'[o] = {}
  BY GoesBehind
<1>6. \A s, o : Serves(s, o)' <=> Serves(s, o)
  BY DEF Serves
<1> QED  BY <1>1, <1>2, <1>3, <1>4, <1>5, <1>6 DEF CalmInv

\* Every step keeps schedules calm, for as long as nothing disturbs them.
LEMMA NextCalm == JobInv /\ PickInv /\ CalmInv /\ [RenewalNext]_renewalVars => CalmInv'
<1> SUFFICES ASSUME JobInv, PickInv, CalmInv, [RenewalNext]_renewalVars, troubles' = 0 PROVE CalmInv'
  BY DEF CalmInv
<1>1. troubles = 0
  BY CalmSteps
<1>2. ASSUME NEW p \in Executions, Goes(p) PROVE CalmInv'
  BY <1>1, <1>2, GoesCalm
<1>3. ASSUME UNCHANGED <<stage, task, live, behind, open, selection, scanLock, now, fired>> PROVE CalmInv'
  BY <1>1, <1>3 DEF CalmInv, Serves
<1>4. ASSUME NEW o \in Orders, Expire(o) PROVE CalmInv'
  BY <1>3, <1>4 DEF Expire, lockVars, timeVars
<1>5. ASSUME NEW s \in Selections, CreateSelection(s) PROVE CalmInv'
  <2>1. UNCHANGED <<stage, task, live, behind, open, scanLock, now, fired>>
    BY <1>5 DEF CreateSelection, docVars, timeVars, histVars
  <2>2. selection' = [selection EXCEPT ![s] = [selection[s] EXCEPT !.state = "saved"]]
    BY <1>5 DEF CreateSelection
  <2>3. \A t \in Selections : selection'[t].auto => selection'[t].state = "saved"
    <3>1. selection[s] \in [state: {"none", "saved", "deleted"}, auto: BOOLEAN, last: Runs]
      BY Typed
    <3>2. [selection[s] EXCEPT !.state = "saved"].state = "saved"
      BY <3>1
    <3>3. \A t \in Selections : t = s \/ selection'[t] = selection[t]
      BY <2>2, Typed
    <3>4. selection'[s] = [selection[s] EXCEPT !.state = "saved"]
      BY <2>2, Typed
    <3> QED  BY <1>1, <3>2, <3>3, <3>4 DEF CalmInv
  <2> QED  BY <1>1, <2>1, <2>3 DEF CalmInv, Serves
<1>6. CASE NextDay
  <2>1. UNCHANGED <<stage, task, live, behind, open, selection, scanLock>>
    BY <1>6 DEF NextDay, docVars, lockVars, histVars
  <2>2. \A q \in Executions : task[q].who # "auto"
    BY <1>6 DEF NextDay
  <2>3. scanLock = None
    BY <1>1, <2>2, Typed DEF CalmInv
  <2> QED  BY <1>1, <2>1, <2>2, <2>3 DEF CalmInv, Serves
<1>7. CASE UNCHANGED renewalVars
  BY <1>3, <1>7 DEF renewalVars, docVars, lockVars, timeVars, histVars
<1> QED  BY <1>2, <1>4, <1>5, <1>6, <1>7, CalmSteps

\* At the start no schedule that is on is unsaved, and nothing is left behind.
LEMMA InitCalm == RenewalInit => CalmInv
<1> SUFFICES ASSUME RenewalInit PROVE CalmInv
  OBVIOUS
<1>1. \A p \in Executions : stage[p] = "idle" /\ task[p] = Idle
  BY DEF RenewalInit
<1>2. \A p \in Executions : stage[p] # "refund" /\ (task[p].who = "auto" /\ stage[p] \in Running => task[p].day = now)
  BY <1>1 DEF Running, Past
<1>3. \A s \in Selections : selection[s].auto => selection[s].state = "saved"
  BY DEF RenewalInit
<1>4. scanLock = None /\ \A o \in Orders : open[o] /\ behind[o] = {}
  BY DEF RenewalInit, NoProxies
<1> QED  BY <1>2, <1>3, <1>4 DEF CalmInv

\* What a step of execution p, to label l with j, does for the runs of selection s.
Serving(p, l, j, s) ==
    /\ Pends(stage[p], task[p], s) => Pends(l, j, s) \/ \E q \in Executions \ {p} : Pends(stage[q], task[q], s)
    /\ RunsIt(stage[p], task[p], s) /\ stage[p] # "claim" => RunsIt(l, j, s) /\ l # "claim"
    /\ <<s, now>> \in dayLocks' => <<s, now>> \in dayLocks \/ (RunsIt(l, j, s) /\ l # "claim")
    /\ fired' = fired \/ Pends(l, j, s)

\* It serves order o.
Carries(p, s, o) ==
    \E l \in Stages \ {"save"}, j \in Held :
        Takes(p, l, j) /\ Serving(p, l, j, s) /\ (RunsIt(l, j, s) => Owes(l, j, o))

\* An order that is served stays so through a step that leaves its end and serves it, or does not need to.
LEMMA StepServes ==
    ASSUME JobInv, NEW s \in Selections, NEW o \in Orders, ServeAt(s, o),
           NEW p \in Executions, NEW l \in Stages, NEW j \in Held, Takes(p, l, j), now' = now,
           order'[o].status = order[o].status, order'[o].end = order[o].end, Prolongs(l, j, o),
           Later(o) \/ (Serving(p, l, j, s) /\ (RunsIt(l, j, s) => Owes(l, j, o)))
    PROVE  ServeAt(s, o)'
<1>0. PICK m, k : m = stage[p] /\ k = task[p]
  OBVIOUS
<1>1. stage'[p] = l /\ task'[p] = j /\ \A q \in Executions \ {p} : stage'[q] = stage[q] /\ task'[q] = task[q]
  BY DEF Takes
<1>2. order'[o].status = "ACTIVE" /\ order'[o].end >= now' + 1 /\ (Later(o) => Later(o)')
  BY DEF ServeAt, Later
<1>3. ASSUME NEW q \in Executions PROVE Prolongs(stage[q], task[q], o)'
  <2>1. PICK n, h : n = stage'[q] /\ h = task'[q]
    OBVIOUS
  <2>2. Prolongs(n, h, o)
    BY <1>1, <2>1 DEF ServeAt
  <2>3. Prolongs(n, h, o)'
    BY <2>2 DEF Prolongs
  <2> QED  BY <2>1, <2>3 DEF Prolongs
<1>4. CASE Later(o)
  BY <1>2, <1>3, <1>4 DEF ServeAt
<1>5. CASE ~Later(o)
  <2>0. /\ Serving(p, l, j, s) /\ (RunsIt(l, j, s) => Owes(l, j, o))
        /\ fired = 0 \/ \E q \in Executions : Pends(stage[q], task[q], s)
        /\ <<s, now>> \in dayLocks => \E q \in Executions : RunsIt(stage[q], task[q], s) /\ stage[q] # "claim"
        /\ \A q \in Executions : RunsIt(stage[q], task[q], s) => Owes(stage[q], task[q], o)
    BY <1>5 DEF ServeAt
  <2>1. fired' = 0 \/ \E q \in Executions : Pends(stage'[q], task'[q], s)
    <3>1. ASSUME NEW q \in Executions, Pends(stage[q], task[q], s) PROVE \E r \in Executions : Pends(stage'[r], task'[r], s)
      <4>1. CASE q = p
        BY <1>1, <2>0, <3>1, <4>1 DEF Serving
      <4>2. CASE q # p
        BY <1>1, <3>1, <4>2
      <4> QED  BY <4>1, <4>2
    <3>2. CASE fired = 0
      BY <1>1, <2>0, <3>2 DEF Serving
    <3> QED  BY <2>0, <3>1, <3>2
  <2>2. <<s, now'>> \in dayLocks' => \E q \in Executions : RunsIt(stage'[q], task'[q], s) /\ stage'[q] # "claim"
    <3>1. ASSUME NEW q \in Executions, RunsIt(stage[q], task[q], s), stage[q] # "claim"
          PROVE  \E r \in Executions : RunsIt(stage'[r], task'[r], s) /\ stage'[r] # "claim"
      <4>1. CASE q = p
        BY <1>1, <2>0, <3>1, <4>1 DEF Serving
      <4>2. CASE q # p
        BY <1>1, <3>1, <4>2
      <4> QED  BY <4>1, <4>2
    <3>2. CASE RunsIt(l, j, s) /\ l # "claim"
      BY <1>1, <3>2
    <3> QED  BY <2>0, <3>1, <3>2 DEF Serving
  <2>3. \A q \in Executions : RunsIt(stage'[q], task'[q], s) => Owes(stage'[q], task'[q], o)
    BY <1>1, <2>0
  <2> QED  BY <1>2, <1>3, <2>1, <2>2, <2>3 DEF ServeAt, Pends, RunsIt, Owes, Engaged, Holds
<1> QED  BY <1>4, <1>5

\* Nothing but time passes.
LEMMA StillServes ==
    ASSUME NEW s \in Selections, NEW o \in Orders, ServeAt(s, o), UNCHANGED <<stage, task>>,
           order'[o].status = order[o].status, order'[o].end = order[o].end, order'[o].end >= now' + 1,
           Later(o)' \/ (~Later(o) /\ now' = now /\ dayLocks' = dayLocks /\ (fired = 0 => fired' = 0))
    PROVE  ServeAt(s, o)'
<1>1. \A q \in Executions : Prolongs(stage[q], task[q], o)'
  BY DEF ServeAt, Prolongs
<1>2. CASE Later(o)'
  BY <1>1, <1>2 DEF ServeAt
<1>3. CASE ~Later(o)'
  BY <1>1, <1>3 DEF ServeAt, Pends, RunsIt, Owes, Engaged, Holds
<1> QED  BY <1>2, <1>3

\* Orders once renewed by two at a time stay marked.
LEMMA OverlapStays ==
    ASSUME JobInv, NEW p \in Executions, Goes(p)
    PROVE  \A o \in Orders : overlap[o] => overlap'[o]
<1>1. ASSUME NEW orders, Meets(p, orders) PROVE \A o \in Orders : overlap[o] => overlap'[o]
  BY <1>1, MeetsFree
<1>2. CASE \E o \in Orders, who \in {"user", "admin"} : RenewStart(p, o, who)
  BY <1>1, <1>2 DEF RenewStart
<1>3. CASE \E picked \in [Orders -> SUBSET Slots] :
             (\A o \in Orders : picked[o] \subseteq Owned[o]) /\ BulkStart(p, picked)
  BY <1>1, <1>3 DEF BulkStart
<1>4. CASE RunFind(p)
  BY <1>1, <1>4, RunFindTakes
<1>5. CASE RenewFind(p) \/ BulkSelect(p) \/ BulkLoad(p) \/ BulkWallet(p)
  BY <1>5 DEF RenewFind, BulkSelect, BulkLoad, BulkWallet, histVars
<1>6. CASE Debit(p) \/ Acknowledge(p) \/ SaveRenewal(p)
  BY <1>6 DEF Debit, Acknowledge, SaveRenewal
<1>7. CASE Prune(p) \/ PruneCount(p)
  BY <1>7 DEF Prune, PruneCount, histVars
<1>8. CASE ScanStart(p) \/ ScanList(p)
  BY <1>8 DEF ScanStart, ScanList, histVars
<1>9. CASE RunClaim(p) \/ RunRecord(p) \/ ScanUnlock(p)
  BY <1>9 DEF RunClaim, RunRecord, ScanUnlock, histVars
<1> QED  BY <1>2, <1>3, <1>4, <1>5, <1>6, <1>7, <1>8, <1>9 DEF Goes

\* Of the proxies that a schedule holds of its order, a step may take some away.
LEMMA HoldingShrinks ==
    ASSUME JobInv, PickInv, NEW p \in Executions, Goes(p), NEW s \in Selections, NEW o \in Orders, Serves(s, o)
    PROVE  Holding(s, o)' \subseteq Holding(s, o)
<1>0. PICK m, k, at : m = stage[p] /\ k = task[p] /\ at = k.at
  OBVIOUS
<1> SUFFICES ASSUME NEW u, u \in Holding(s, o)', Leaving(o, u) PROVE FALSE
  BY LiveShrinks DEF Holding
<1>1. u \in Chosen[s][o] /\ u \in live'[o] /\ u \in Ids[o] /\ u \in live[o]
  BY LiveShrinks DEF Holding
<1>2. \A r \in Executions : ~(stage'[r] \in {"save", "prune"} /\ task'[r].at = o /\ u \notin task'[r].picked[o])
  BY DEF Holding, Leaving
<1>3. PICK q \in Executions : stage[q] \in {"save", "prune"} /\ task[q].at = o /\ u \notin task[q].picked[o]
  BY DEF Leaving
<1>4. ASSUME NEW l, NEW j, Takes(p, l, j)
      PROVE  q = p /\ ~(l \in {"save", "prune"} /\ j.at = o /\ u \notin j.picked[o])
  <2>1. stage'[p] = l /\ task'[p] = j /\ \A r \in Executions \ {p} : stage'[r] = stage[r] /\ task'[r] = task[r]
    BY <1>4 DEF Takes
  <2> QED  BY <1>2, <1>3, <2>1
<1>5. q = p
  <2>1. CASE UNCHANGED <<stage, task>>
    BY <1>2, <1>3, <2>1
  <2>2. CASE ScanUnlock(p)
    BY <1>4, <2>2, FinishTakes DEF ScanUnlock
  <2>3. CASE ~ScanUnlock(p) /\ ~UNCHANGED <<stage, task>>
    BY <1>4, <2>3, GoesAutomatic
  <2> QED  BY <2>1, <2>2, <2>3
<1>6. m \in {"save", "prune"} /\ at = o /\ u \notin k.picked[o] /\ o \in Engaged(k)
  <2>1. m \in {"save", "prune"} /\ at = o /\ u \notin k.picked[o]
    BY <1>0, <1>3, <1>5
  <2> QED  BY <1>0, <2>1, AtHand DEF Engaged, Hand
<1>7. SaveRenewal(p) \/ Prune(p)
  <2>1. stage[p] \in {"save", "prune"}
    BY <1>0, <1>6
  <2> QED  BY <2>1 DEF Goes, RenewStart, RenewFind, BulkStart, BulkSelect, BulkLoad, BulkWallet, Debit, Acknowledge,
              PruneCount, ScanStart, ScanList, RunFind, RunClaim, RunRecord, ScanUnlock
<1>8. CASE SaveRenewal(p)
  <2>1. m = "save"
    BY <1>0, <1>8 DEF SaveRenewal
  <2>2. k.who = "bulk"
    BY <1>0, <1>1, <1>6, <2>1, HoldsChosen
  <2>3. PICK j : Takes(p, "prune", j) /\ j.picked = k.picked /\ j.at = at
    BY <1>0, <1>8, <2>2, SaveTakes
  <2> QED  BY <1>4, <1>6, <2>3
<1>9. CASE Prune(p)
  <2>1. CASE live[at] \subseteq k.picked[at]
    BY <1>1, <1>6, <2>1
  <2>2. CASE live' = [live EXCEPT ![at] = @ \cap k.picked[at]]
    BY <1>1, <1>6, <2>2, Typed
  <2> QED  BY <1>0, <1>9, <2>1, <2>2, PruneTakes
<1> QED  BY <1>7, <1>8, <1>9

\* No step of an execution has an order served that was not.
LEMMA ServicedBefore ==
    ASSUME JobInv, PickInv, NEW p \in Executions, Goes(p), NEW s \in Selections, NEW o \in Orders, Serviced(s, o)'
    PROVE  Serviced(s, o)
<1>1. Serves(s, o) /\ selection'[s].auto /\ ~overlap'[o] /\ Holding(s, o)' # {}
  BY DEF Serviced, Serves
<1>2. selection[s].auto
  BY <1>1, GoesKeeps, RecordsSchedule
<1>3. ~overlap[o] /\ Holding(s, o) # {}
  BY <1>1, OverlapStays, HoldingShrinks
<1> QED  BY <1>1, <1>2, <1>3 DEF Serviced

\* Only saving a renewal moves the end of an order.
LEMMA EndStays ==
    ASSUME JobInv, NEW p \in Executions, Goes(p), ~SaveRenewal(p), NEW o \in Orders
    PROVE  order'[o].end = order[o].end /\ order'[o].status = order[o].status
<1>1. CASE order' = order
  BY <1>1
<1>2. CASE PruneCount(p)
  <2>1. stage[p] = "count"
    BY <1>2 DEF PruneCount
  <2>2. task[p].at \in Orders
    BY <2>1, AtHand DEF Hand
  <2> QED  BY <1>2, <2>2, Typed DEF PruneCount, Document
<1> QED  BY <1>1, <1>2, GoesKeeps

\* An execution that is not automatic serves no schedule, and disturbs none.
LEMMA OthersServe ==
    ASSUME JobInv, NEW p \in Executions, Goes(p), task[p].who # "auto", ~ScanStart(p), ~Acknowledge(p),
           NEW s \in Selections, NEW o \in Orders
    PROVE  UNCHANGED <<stage, task>> \/ Carries(p, s, o)
<1>1. stage[p] \notin {"list", "run", "claim", "record"}
  BY HeldTypes DEF HeldOk, Ways, Askers
<1>2. ~ScanUnlock(p) /\ ~RunClaim(p)
  BY <1>1 DEF ScanUnlock, RunClaim
<1>3. dayLocks' = dayLocks /\ fired' = fired
  BY <1>2, GoesKeeps
<1>4. ASSUME NEW l \in Stages, NEW j \in Held, Takes(p, l, j), Automatic(p, l, j), l # "save" PROVE Carries(p, s, o)
  <2>1. j.who # "auto"
    BY <1>4 DEF Automatic
  <2>2. Serving(p, l, j, s) /\ ~RunsIt(l, j, s)
    BY <1>3, <2>1 DEF Serving, Pends, RunsIt
  <2> QED  BY <1>4, <2>2 DEF Carries
<1> QED  BY <1>2, <1>4, GoesAutomatic

\* An automatic execution goes on with its run.
LEMMA SameRun ==
    ASSUME NEW p \in Executions, task[p].who = "auto", stage[p] \in Running, NEW s,
           NEW l \in Past, NEW j \in Held, Takes(p, l, j), l # "save",
           j.who = "auto", j.runs = task[p].runs, j.sel = task[p].sel, dayLocks' = dayLocks, fired' = fired,
           NEW o, RunsIt(stage[p], task[p], s) => Owes(l, j, o)
    PROVE  Carries(p, s, o)
<1>1. l \in Running /\ l # "claim" /\ stage[p] # "list" /\ l \in Stages
  BY DEF Running, Past, Stages
<1>2. Serving(p, l, j, s)
  BY <1>1 DEF Serving, Pends, RunsIt
<1>3. RunsIt(l, j, s) => Owes(l, j, o)
  BY DEF RunsIt
<1> QED  BY <1>1, <1>2, <1>3 DEF Carries

\* An execution of the order's schedule has its proxies in hand.
LEMMA RunPicks ==
    ASSUME JobInv, PickInv, NEW p \in Executions, NEW s \in Selections, NEW o \in Orders, Serviced(s, o),
           RunsIt(stage[p], task[p], s), o \in Engaged(task[p])
    PROVE  task[p].picked[o] \cap live[o] \cap Ids[o] # {}
<1>1. PICK u : u \in Holding(s, o)
  BY DEF Serviced
<1>2. u \in Chosen[s][o] \cap live[o] \cap Ids[o]
  BY <1>1 DEF Holding
<1>3. stage[p] # "find" /\ task[p].who # "bulk"
  BY DEF RunsIt, Running, Past
<1>4. u \in task[p].picked[o]
  BY <1>2, <1>3, HoldsChosen DEF Serviced
<1> QED  BY <1>2, <1>4

\* The run of a served order that needs a renewal today has still to renew it.
LEMMA RunOwes ==
    ASSUME NEW p \in Executions, NEW s, NEW o, ServeAt(s, o), ~Later(o), RunsIt(stage[p], task[p], s)
    PROVE  Owes(stage[p], task[p], o) /\ o \in Engaged(task[p])
  BY DEF ServeAt, Owes

\* A scan is to run every schedule that is on.
LEMMA ListServes ==
    ASSUME JobInv, NEW p \in Executions, ScanList(p), NEW s \in Selections, NEW o \in Orders, Serviced(s, o)
    PROVE  Carries(p, s, o)
<1>1. PICK j \in Held : Takes(p, "run", j) /\ j.runs = {t \in Selections : selection[t].auto} /\ j.who = "auto"
  BY ScanListTakes
<1>2. stage[p] = "list" /\ dayLocks' = dayLocks /\ fired' = fired
  BY DEF ScanList, lockVars, timeVars
<1>3. s \in j.runs
  BY <1>1 DEF Serviced
<1>4. ~RunsIt("run", j, s) /\ ~RunsIt(stage[p], task[p], s)
  BY <1>2 DEF RunsIt, Running, Past
<1>5. Serving(p, "run", j, s)
  BY <1>1, <1>2, <1>3, <1>4 DEF Serving, Pends
<1> QED  BY <1>1, <1>4, <1>5 DEF Carries, Stages

\* A selection whose order needs a renewal today finds it due.
LEMMA FindServes ==
    ASSUME JobInv, NEW p \in Executions, RunFind(p), NEW s \in Selections, NEW o \in Orders, Serviced(s, o),
           ServeAt(s, o), ~Later(o)
    PROVE  Carries(p, s, o)
<1>1. PICK t \in task[p].runs, j \in Held :
              /\ t \in Selections /\ j.runs = task[p].runs \ {t} /\ j.who = "auto"
              /\ \/ Due(t) = {} /\ Takes(p, "run", j)
                 \/ Takes(p, "claim", j) /\ j.sel = t /\ Engaged(j) = Due(t)
  BY RunFindTakes
<1>2. stage[p] = "run" /\ dayLocks' = dayLocks /\ fired' = fired
  BY DEF RunFind, lockVars, timeVars
<1>3. ~RunsIt(stage[p], task[p], s) /\ ~RunsIt("run", j, s)
  BY <1>2 DEF RunsIt, Running, Past
<1>4. o \in Due(s)
  <2>1. Chosen[s][o] \cap live[o] \cap Ids[o] # {}
    BY DEF Serviced, Holding
  <2>2. order[o].status = "ACTIVE"
    BY DEF ServeAt
  <2>3. order[o].end <= now + Threshold
    BY EndTypes, Typed, ConstantTypes DEF Later
  <2> QED  BY <2>1, <2>2, <2>3 DEF Due
<1>5. CASE Due(t) = {} /\ Takes(p, "run", j)
  <2>1. t # s
    BY <1>4, <1>5
  <2>2. Serving(p, "run", j, s)
    BY <1>1, <1>2, <1>3, <2>1 DEF Serving, Pends
  <2> QED  BY <1>3, <1>5, <2>2 DEF Carries, Stages
<1>6. CASE Takes(p, "claim", j) /\ j.sel = t /\ Engaged(j) = Due(t)
  <2>1. t = s => RunsIt("claim", j, s)
    BY <1>1, <1>6 DEF RunsIt, Running
  <2>2. Serving(p, "claim", j, s)
    BY <1>1, <1>2, <1>3, <2>1 DEF Serving, Pends
  <2>3. RunsIt("claim", j, s) => Owes("claim", j, o)
    BY <1>4, <1>6 DEF RunsIt, Owes
  <2> QED  BY <1>6, <2>2, <2>3 DEF Carries, Stages
<1> QED  BY <1>1, <1>5, <1>6

\* A run that finds its day taken leaves the order to the run that took it.
LEMMA ClaimServes ==
    ASSUME JobInv, CalmInv, troubles = 0, NEW p \in Executions, RunClaim(p), NEW s \in Selections, NEW o \in Orders,
           ServeAt(s, o), ~Later(o)
    PROVE  Carries(p, s, o)
<1>0. PICK k : k = task[p] /\ k \in Held
  BY HeldTypes
<1>1. stage[p] = "claim" /\ fired' = fired /\ k.who = "auto" /\ stage[p] \in Running
  <2>1. stage[p] = "claim" /\ fired' = fired
    BY DEF RunClaim, timeVars
  <2>2. k.who = "auto"
    BY <1>0, <2>1, HeldTypes DEF HeldOk, Ways, Askers
  <2> QED  BY <2>1, <2>2 DEF Running
<1>2. k.day = now
  BY <1>0, <1>1 DEF CalmInv
<1>3. ASSUME <<k.sel, k.day>> \in dayLocks, dayLocks' = dayLocks, Takes(p, "run", Between(k.runs))
      PROVE  Carries(p, s, o)
  <2>1. PICK j : j = Between(k.runs) /\ j \in Held /\ j.who = "auto" /\ j.runs = k.runs
    BY <1>3, BetweenTaken
  <2>2. ~RunsIt("run", j, s)
    BY DEF RunsIt, Running, Past
  <2>3. RunsIt(stage[p], task[p], s) => \E q \in Executions \ {p} : Pends(stage[q], task[q], s)
    <3> SUFFICES ASSUME RunsIt(stage[p], task[p], s) PROVE \E q \in Executions \ {p} : Pends(stage[q], task[q], s)
      OBVIOUS
    <3>1. <<s, now>> \in dayLocks
      BY <1>0, <1>2, <1>3 DEF RunsIt
    <3>2. PICK q \in Executions : RunsIt(stage[q], task[q], s) /\ stage[q] # "claim"
      BY <3>1 DEF ServeAt
    <3> QED  BY <1>1, <3>2 DEF Pends
  <2>4. Serving(p, "run", j, s)
    BY <1>0, <1>1, <1>3, <2>1, <2>3 DEF Serving, Pends
  <2> QED  BY <1>3, <2>1, <2>2, <2>4 DEF Carries, Stages
<1>4. ASSUME dayLocks' = dayLocks \cup {<<k.sel, k.day>>}, Takes(p, "select", k)
      PROVE  Carries(p, s, o)
  <2>1. RunsIt("select", k, s) <=> k.sel = s
    BY <1>1 DEF RunsIt, Running, Past
  <2>2. Serving(p, "select", k, s)
    BY <1>0, <1>1, <1>4, <2>1 DEF Serving, Pends, RunsIt
  <2>3. RunsIt("select", k, s) => Owes("select", k, o)
    <3> SUFFICES ASSUME k.sel = s PROVE Owes("select", k, o)
      BY <2>1
    <3>1. o \in Engaged(k)
      BY <1>0, <1>1, RunOwes DEF RunsIt
    <3> QED  BY <3>1 DEF Owes
  <2> QED  BY <1>0, <1>4, <2>2, <2>3 DEF Carries, Stages
<1> QED  BY <1>0, <1>3, <1>4, RunClaimTakes

\* Before its first debit, a run of the order's schedule can only fail for want of money.
LEMMA FailsServes ==
    ASSUME JobInv, NEW p \in Executions, task[p].who = "auto", stage[p] \in Running, NEW s, NEW o, NEW r, Fails(p, r),
           RunsIt(stage[p], task[p], s) => r = "broke" /\ o \in Engaged(task[p]),
           dayLocks' = dayLocks, fired' = fired
    PROVE  Carries(p, s, o)
<1>1. PICK j \in Held : Takes(p, "record", j) /\ Keeps(task[p], j) /\ j.who = "auto" /\ j.results = {r}
  BY DEF Fails
<1>2. RunsIt(stage[p], task[p], s) => Owes("record", j, o)
  BY <1>1 DEF Owes, Keeps, Engaged
<1> QED  BY <1>1, <1>2, SameRun DEF Keeps, Past

\* A run of the order's schedule takes the order on.
LEMMA BulkServes ==
    ASSUME JobInv, PickInv, CalmInv, troubles = 0, NEW p \in Executions, task[p].who = "auto",
           BulkSelect(p) \/ BulkLoad(p) \/ BulkWallet(p),
           NEW s \in Selections, NEW o \in Orders, Serviced(s, o), ServeAt(s, o), ~Later(o)
    PROVE  Carries(p, s, o)
<1>0. PICK m, k : m = stage[p] /\ k = task[p] /\ k \in Held /\ HeldOk(m, k, now)
  BY HeldTypes
<1>1. /\ m \in {"select", "load", "wallet"} /\ m \in Running /\ stage[p] \in Running
      /\ dayLocks' = dayLocks /\ fired' = fired
  BY <1>0 DEF BulkSelect, BulkLoad, BulkWallet, lockVars, timeVars, Running, Past
<1>2. RunsIt(m, k, s) => o \in Engaged(k) /\ Owes(m, k, o) /\ k.picked[o] \cap live[o] \cap Ids[o] # {}
  BY <1>0, RunOwes, RunPicks
<1>3. CASE BulkSelect(p)
  <2>1. ASSUME Fails(p, "failed"), \A x \in Orders : k.picked[x] \cap live[x] \cap Ids[x] = {} PROVE Carries(p, s, o)
    BY <1>0, <1>1, <1>2, <2>1, FailsServes
  <2>2. ASSUME NEW j \in Held, Takes(p, "load", j), j.who = k.who, j.runs = k.runs, j.sel = k.sel,
               j.picked = [x \in Orders |-> k.picked[x] \cap live[x]]
        PROVE  Carries(p, s, o)
    <3>1. RunsIt(m, k, s) => Owes("load", j, o)
      BY <1>2, <2>2 DEF Owes, Engaged
    <3> QED  BY <1>0, <1>1, <2>2, <3>1, SameRun DEF Past
  <2>3. CASE Fails(p, "failed") /\ \A x \in Orders : task[p].picked[x] \cap live[x] \cap Ids[x] = {}
    BY <1>0, <2>1, <2>3
  <2>4. ASSUME NEW j \in Held, Takes(p, "load", j), j.who = task[p].who, j.runs = task[p].runs,
               j.sel = task[p].sel, j.picked = [x \in Orders |-> task[p].picked[x] \cap live[x]]
        PROVE  Carries(p, s, o)
    BY <1>0, <2>2, <2>4
  <2> QED  BY <1>3, <2>3, <2>4, BulkSelectTakes
<1>4. CASE BulkLoad(p)
  <2>1. RunsIt(m, k, s) => WithId(k, o) # {} /\ BulkTakes(o, order[o], WithId(k, o))
    <3> SUFFICES ASSUME RunsIt(m, k, s) PROVE WithId(k, o) # {} /\ BulkTakes(o, order[o], WithId(k, o))
      OBVIOUS
    <3>1. WithId(k, o) # {}
      BY <1>2 DEF WithId
    <3>2. Renewable(o, order[o], WholePartner)
      BY DEF Renewable, WholePartner, ServeAt, CalmInv, Serviced, Serves
    <3>3. Kind[o] \notin {"alone", "never", "gpnip"}
      BY DEF Serviced, Serves
    <3> QED  BY <3>1, <3>2, <3>3 DEF BulkTakes
  <2>2. ASSUME Fails(p, "failed"), \A x \in Orders : WithId(k, x) # {} => ~BulkTakes(x, order[x], WithId(k, x))
        PROVE  Carries(p, s, o)
    BY <1>0, <1>1, <2>1, <2>2, FailsServes
  <2>3. ASSUME NEW j \in Held, Takes(p, "wallet", j), j.who = k.who, j.runs = k.runs, j.sel = k.sel, j.picked = k.picked,
               j.todo = {x \in Orders : WithId(k, x) # {} /\ BulkTakes(x, order[x], WithId(k, x))}
        PROVE  Carries(p, s, o)
    <3>1. RunsIt(m, k, s) => Owes("wallet", j, o)
      BY <1>2, <2>1, <2>3 DEF Owes, Engaged, Holds
    <3> QED  BY <1>0, <1>1, <2>3, <3>1, SameRun DEF Past
  <2> QED  BY <1>0, <1>4, <2>2, <2>3, BulkLoadTakes
<1>5. CASE BulkWallet(p)
  <2>1. m = "wallet"
    BY <1>0, <1>5 DEF BulkWallet
  <2>2. CASE Fails(p, "broke")
    BY <1>0, <1>1, <1>2, <2>2, FailsServes
  <2>3. CASE Takes(p, "debit", k)
    <3>1. RunsIt(m, k, s) => Owes("debit", k, o)
      BY <1>2, <2>1 DEF Owes, Holds, Hand
    <3> QED  BY <1>0, <1>1, <2>3, <3>1, SameRun DEF Past
  <2> QED  BY <1>0, <1>5, <2>2, <2>3, BulkWalletTakes
<1> QED  BY <1>3, <1>4, <1>5

\* A run done with one order owes the others, and this one when the money ran out.
LEMMA SettlesServes ==
    ASSUME JobInv, NEW p \in Executions, task[p].who = "auto", stage[p] \in Running, NEW s, NEW o, NEW r, NEW todo,
           Settles(p, r, todo), dayLocks' = dayLocks, fired' = fired,
           RunsIt(stage[p], task[p], s) =>
               o \in Engaged(task[p]) /\ (o \in todo \/ "broke" \in task[p].results \cup {r})
    PROVE  Carries(p, s, o)
<1>1. PICK l \in {"record", "debit"}, j \in Held :
          /\ l = "record" <=> todo = {}
          /\ Takes(p, l, j) /\ Keeps(task[p], j) /\ j.todo = todo /\ j.results = task[p].results \cup {r}
  BY DEF Settles
<1>2. RunsIt(stage[p], task[p], s) => Owes(l, j, o)
  BY <1>1 DEF Owes, Keeps, Engaged, Holds
<1> QED  BY <1>1, <1>2, SameRun DEF Keeps, Past

\* What a run of the order's schedule debits, its adapter takes.
LEMMA DebitServes ==
    ASSUME JobInv, NEW p \in Executions, task[p].who = "auto", Debit(p),
           NEW s \in Selections, NEW o \in Orders, Serviced(s, o), ServeAt(s, o), ~Later(o)
    PROVE  Carries(p, s, o)
<1>0. PICK m, k : m = stage[p] /\ k = task[p] /\ k \in Held /\ HeldOk(m, k, now)
  BY HeldTypes
<1>1. m = "debit" /\ m \in Running /\ dayLocks' = dayLocks /\ fired' = fired
  BY <1>0 DEF Debit, lockVars, timeVars, Running, Past
<1>2. RunsIt(m, k, s) => o \in Engaged(k) /\ (o \in k.todo \/ "broke" \in k.results)
  <2>1. RunsIt(m, k, s) => o \in Engaged(k) /\ Owes(m, k, o)
    BY <1>0, RunOwes
  <2> QED  BY <1>1, <2>1 DEF Owes, Holds, Hand
<1>3. o \in k.todo => Accepted(o, k.docs[o], WithId(k, o), Charge(k, o))
  <2> SUFFICES ASSUME o \in k.todo PROVE Accepted(o, k.docs[o], WithId(k, o), Charge(k, o))
    OBVIOUS
  <2>1. WithId(k, o) # {} /\ WithId(k, o) \subseteq Slots
    BY <1>0, <1>1 DEF HeldOk, Holds, WithId, Held
  <2>2. Cardinality(WithId(k, o)) \in Nat /\ Cardinality(WithId(k, o)) # 0
    BY <2>1, ConstantTypes, FS_Subset, FS_EmptySet, FS_CardinalityType
  <2>3. Charge(k, o) > 0
    BY <1>0, <2>2 DEF Charge
  <2>4. Kind[o] \notin {"never", "gpnip", "whole"}
    BY DEF Serviced, Serves
  <2> QED  BY <2>3, <2>4 DEF Accepted
<1>4. PICK x \in k.todo :
              \/ /\ ~Accepted(x, k.docs[x], WithId(k, x), Charge(k, x))
                 /\ Settles(p, "failed", k.todo \ {x})
              \/ Settles(p, "broke", k.todo \ {x})
              \/ \E j \in Held : /\ Takes(p, "provider", j) /\ Keeps(k, j)
                                 /\ j.todo = k.todo \ {x} /\ j.at = x /\ j.results = k.results
  BY <1>0, DebitTakes
<1>5. CASE Settles(p, "failed", k.todo \ {x}) /\ ~Accepted(x, k.docs[x], WithId(k, x), Charge(k, x))
  <2>1. RunsIt(m, k, s) => o \in Engaged(k) /\ (o \in k.todo \ {x} \/ "broke" \in k.results \cup {"failed"})
    BY <1>2, <1>3, <1>5
  <2> QED  BY <1>0, <1>1, <1>5, <2>1, SettlesServes
<1>6. CASE Settles(p, "broke", k.todo \ {x})
  <2>1. RunsIt(m, k, s) => o \in Engaged(k) /\ (o \in k.todo \ {x} \/ "broke" \in k.results \cup {"broke"})
    BY <1>2
  <2> QED  BY <1>0, <1>1, <1>6, <2>1, SettlesServes
<1>7. ASSUME NEW j \in Held, Takes(p, "provider", j), Keeps(k, j), j.todo = k.todo \ {x}, j.at = x, j.results = k.results
      PROVE  Carries(p, s, o)
  <2>1. RunsIt(m, k, s) => Owes("provider", j, o)
    BY <1>2, <1>7 DEF Owes, Keeps, Engaged, Holds, Hand
  <2> QED  BY <1>0, <1>1, <1>7, <2>1, SameRun DEF Keeps, Past
<1> QED  BY <1>4, <1>5, <1>6, <1>7

\* A run that is recorded leaves its schedule on only when it owes the order nothing.
LEMMA RecordServes ==
    ASSUME JobInv, CalmInv, troubles = 0, NEW p \in Executions, RunRecord(p),
           NEW s \in Selections, NEW o \in Orders, Serviced(s, o), Serviced(s, o)', ServeAt(s, o), ~Later(o)
    PROVE  Carries(p, s, o)
<1>0. PICK m, k : m = stage[p] /\ k = task[p]
  OBVIOUS
<1>1. m = "record" /\ dayLocks' = dayLocks /\ fired' = fired
  BY <1>0 DEF RunRecord, timeVars
<1>2. ~RunsIt(m, k, s)
  <2> SUFFICES ASSUME RunsIt(m, k, s) PROVE FALSE
    OBVIOUS
  <2>1. "broke" \in k.results
    <3>1. Owes(m, k, o)
      BY <1>0, RunOwes
    <3> QED  BY <1>1, <3>1 DEF Owes
  <2>2. selection'[s].auto /\ selection[s].state = "saved"
    BY DEF Serviced, CalmInv
  <2>3. s = task[p].sel
    BY <1>0 DEF RunsIt
  <2> QED  BY <1>0, <2>1, <2>2, <2>3, RecordsSchedule
<1>3. PICK j : j = Between(k.runs) /\ Takes(p, "run", j) /\ j \in Held /\ j.who = "auto" /\ j.runs = k.runs
  BY <1>0, RunRecordTakes, BetweenTaken
<1>4. ~RunsIt("run", j, s)
  BY DEF RunsIt, Running, Past
<1>5. Serving(p, "run", j, s)
  BY <1>0, <1>1, <1>2, <1>3, <1>4 DEF Serving, Pends
<1> QED  BY <1>3, <1>4, <1>5 DEF Carries, Stages

\* A scan ends when no schedule is left to run.
LEMMA UnlockServes ==
    ASSUME JobInv, NEW p \in Executions, ScanUnlock(p), NEW s, NEW o
    PROVE  Carries(p, s, o)
<1>1. stage[p] = "run" /\ task[p].runs = {} /\ dayLocks' = dayLocks /\ fired' = fired /\ Takes(p, "idle", Idle)
  BY FinishTakes DEF ScanUnlock, timeVars
<1>2. ~RunsIt("idle", Idle, s) /\ ~RunsIt(stage[p], task[p], s)
  BY <1>1 DEF RunsIt, Running, Past
<1>3. Serving(p, "idle", Idle, s)
  BY <1>1, <1>2 DEF Serving, Pends
<1> QED  BY <1>1, <1>2, <1>3, IdleIsHeld DEF Carries, Stages

\* What a provider answers for an order that a schedule serves is a term later at least.
LEMMA AcknowledgeProlongs ==
    ASSUME JobInv, PickInv, CalmInv, PromiseInv, CountInv, troubles = 0, troubles' = 0, NEW p \in Executions, Acknowledge(p),
           NEW s \in Selections, NEW o \in Orders, Serviced(s, o), Serviced(s, o)'
    PROVE  \E j \in Held : stage[p] = "provider" /\ Takes(p, "save", j) /\ Stays(task[p], j) /\ Prolongs("save", j, o)
<1>0. PICK k, at : k = task[p] /\ at = k.at
  OBVIOUS
<1>1. PICK renewed, told \in SUBSET WithId(k, at), j \in Held :
              /\ told \subseteq renewed
              /\ j.end \in Answers(at, told) /\ Extend(at, renewed) /\ stage[p] = "provider"
              /\ Takes(p, "save", j) /\ Stays(k, j)
              /\ (renewed = WithId(k, at) /\ told = renewed) \/ troubles' = troubles + 1
  BY <1>0, AcknowledgeTakes
<1>2. told = renewed /\ renewed = WithId(k, at) /\ j.at = at /\ j.picked = k.picked
  BY <1>0, <1>1 DEF Stays, Keeps
<1>3. CASE at # o
  BY <1>0, <1>1, <1>2, <1>3 DEF Prolongs
<1>4. CASE at = o
  <2>1. o \in Engaged(k) /\ k.picked[o] \subseteq Owned[o] /\ k.picked[o] \subseteq Slots
    BY <1>0, <1>1, <1>4, AtHand DEF Hand, Engaged
  <2>2. Accounted(o)
    BY DEF CountInv, Serviced
  <2>3. \A x : ~Leaving(o, x)
    <3> SUFFICES ASSUME NEW q \in Executions, stage[q] \in {"save", "prune"}, task[q].at = o PROVE FALSE
      BY DEF Leaving
    <3>1. o \in Engaged(task[q])
      BY AtHand DEF Hand, Engaged
    <3> QED  BY <1>0, <1>1, <2>1, <2>2, <3>1 DEF Accounted
  <2>4. k.picked[o] \subseteq live[o]
    <3>1. Account(o, stage[p], k)
      BY <1>0, <2>1, <2>2 DEF Accounted
    <3> QED  BY <1>1, <2>1, <3>1 DEF Account, Sees, Picking
  <2>5. ASSUME NEW x \in renewed, x \in Chosen[s][o] PROVE x \in Slots /\ remote'[o][x] >= order[o].end + Term
    <3>1. x \in live[o] /\ x \in Ids[o] /\ x \in Slots
      BY <1>2, <1>4, <2>1, <2>4, <2>5 DEF WithId
    <3>2. x \notin behind[o]
      BY <2>5, <3>1 DEF CalmInv, Serviced
    <3>3. order[o].end <= remote[o][x]
      BY <2>3, <3>1, <3>2 DEF PromiseInv, Ahead, Covered
    <3>4. remote'[o][x] = remote[o][x] + Term
      BY <1>1, <1>4, <2>5, <3>1, Extends
    <3> QED  BY <3>1, <3>3, <3>4, EndTypes
  <2>6. j.end = None \/ j.end >= order[o].end + Term
    <3>1. CASE Kind[o] = "slots" /\ Owned[o] \cap Ids[o] \subseteq Chosen[s][o]
      <4>1. \A x \in renewed : remote'[o][x] >= order[o].end + Term
        BY <1>2, <1>4, <2>1, <2>5, <3>1 DEF WithId
      <4>2. j.end = None \/ \E x \in renewed : j.end = remote'[o][x]
        BY <1>1, <1>4, <3>1 DEF Answers
      <4> QED  BY <4>1, <4>2
    <3>2. CASE Kind[o] = "latest"
      <4>1. PICK u : u \in Holding(s, o)'
        BY DEF Serviced
      <4>2. u \in Chosen[s][o] /\ u \in Ids[o] /\ ~Leaving(o, u)'
        BY <4>1 DEF Holding
      <4>3. u \in k.picked[o]
        <5>1. ~(stage'[p] \in {"save", "prune"} /\ task'[p].at = o /\ u \notin task'[p].picked[o])
          BY <4>2 DEF Leaving
        <5>2. stage'[p] = "save" /\ task'[p] = j
          BY <1>1 DEF Takes
        <5> QED  BY <1>2, <1>4, <5>1, <5>2
      <4>4. u \in renewed
        BY <1>2, <1>4, <4>2, <4>3 DEF WithId
      <4>5. u \in Slots /\ remote'[o][u] >= order[o].end + Term
        BY <2>5, <4>2, <4>4
      <4>6. j.end = None \/ \E x \in renewed : j.end = remote'[o][x] /\ remote'[o][u] <= remote'[o][x]
        BY <1>1, <1>4, <3>2, <4>4 DEF Answers
      <4>7. \A x \in renewed : x \in Slots /\ remote'[o][x] \in Nat
        BY <1>1, <1>2, <1>4, <2>1, Extends DEF WithId
      <4>8. order[o].end + Term \in Int
        BY EndTypes
      <4> QED  BY <4>4, <4>5, <4>6, <4>7, <4>8
    <3> QED  BY <3>1, <3>2 DEF Serviced, Serves
  <2> QED  BY <1>0, <1>1, <2>6 DEF Prolongs
<1> QED  BY <1>3, <1>4

\* A renewal that is acknowledged is still to be saved, by the same run.
LEMMA AcknowledgeServes ==
    ASSUME JobInv, PickInv, CalmInv, PromiseInv, CountInv, troubles = 0, troubles' = 0, NEW p \in Executions, Acknowledge(p),
           NEW s \in Selections, NEW o \in Orders, Serviced(s, o), Serviced(s, o)', ServeAt(s, o)
    PROVE  ServeAt(s, o)'
<1>0. PICK m, k : m = stage[p] /\ k = task[p]
  OBVIOUS
<1>1. PICK j \in Held : m = "provider" /\ Takes(p, "save", j) /\ Stays(k, j) /\ Prolongs("save", j, o)
  BY <1>0, AcknowledgeProlongs
<1>2. dayLocks' = dayLocks /\ fired' = fired /\ order' = order /\ now' = now
  BY DEF Acknowledge, lockVars, timeVars
<1>3. j.who = k.who /\ j.sel = k.sel /\ j.runs = k.runs /\ j.picked = k.picked
      /\ j.todo = k.todo /\ j.at = k.at /\ j.results = k.results
  BY <1>1 DEF Stays, Keeps
<1>4. RunsIt("save", j, s) <=> RunsIt(m, k, s)
  BY <1>1, <1>3 DEF RunsIt, Running, Past
<1>5. Serving(p, "save", j, s)
  BY <1>0, <1>1, <1>2, <1>3, <1>4 DEF Serving, Pends
<1>6. ~Later(o) /\ RunsIt("save", j, s) => Owes("save", j, o)
  <2> SUFFICES ASSUME ~Later(o), RunsIt(m, k, s) PROVE Owes("save", j, o)
    BY <1>4
  <2>1. Owes(m, k, o)
    BY <1>0, RunOwes
  <2> QED  BY <1>1, <1>3, <2>1 DEF Owes, Engaged, Holds, Hand
<1> QED  BY <1>1, <1>2, <1>5, <1>6, StepServes DEF Stages

\* A renewal that is saved moves its order on; the others wait for theirs.
LEMMA SaveServes ==
    ASSUME JobInv, CountInv, NEW p \in Executions, SaveRenewal(p), NEW s \in Selections, NEW o \in Orders, Serviced(s, o), ServeAt(s, o)
    PROVE  ServeAt(s, o)'
<1>0. PICK m, k, at : m = stage[p] /\ k = task[p] /\ at = k.at /\ k \in Held /\ HeldOk(m, k, now)
  BY HeldTypes
<1>1. /\ m = "save" /\ dayLocks' = dayLocks /\ fired' = fired /\ now' = now
      /\ at \in Orders /\ at \in Engaged(k)
  <2>1. m = "save" /\ dayLocks' = dayLocks /\ fired' = fired /\ now' = now
    BY <1>0 DEF SaveRenewal, lockVars, timeVars
  <2> QED  BY <1>0, <2>1, AtHand DEF Hand, Engaged
<1>2. /\ order' = [order EXCEPT ![at].end = Saved(@, k.docs[at].end, Renewed(k, at).end),
                                ![at].renews = Saved(@, k.docs[at].renews, Renewed(k, at).renews)]
      /\ \/ k.who = "bulk" /\ \E j \in Held : Takes(p, "prune", j) /\ j.who = "bulk"
         \/ k.who # "bulk" /\ \E r \in {"partial", "renewed"} : Settles(p, r, k.todo)
  BY <1>0, SaveTakes
<1>3. CASE at # o
  <2>1. order'[o] = order[o]
    BY <1>1, <1>2, <1>3, Typed
  <2>2. ASSUME Carries(p, s, o) \/ Later(o), NEW l \in Stages \ {"save"}, NEW j \in Held, Takes(p, l, j) PROVE ServeAt(s, o)'
    <3>1. \A n, h : n # "save" => Prolongs(n, h, o)
      BY DEF Prolongs
    <3>2. CASE Later(o)
      BY <1>1, <2>1, <2>2, <3>1, <3>2, StepServes
    <3>3. CASE Carries(p, s, o)
      BY <1>1, <2>1, <3>1, <3>3, StepServes DEF Carries
    <3> QED  BY <2>2, <3>2, <3>3
  <2>3. ASSUME NEW l \in Stages \ {"save"}, NEW j \in Held, Takes(p, l, j), k.who # "auto", j.who # "auto" PROVE ServeAt(s, o)'
    <3>1. Carries(p, s, o)
      BY <1>0, <1>1, <2>3 DEF Carries, Serving, Pends, RunsIt
    <3> QED  BY <2>2, <2>3, <3>1
  <2>4. CASE k.who = "bulk"
    BY <1>2, <2>3, <2>4 DEF Stages
  <2>5. ASSUME NEW r, Settles(p, r, k.todo), k.who # "auto" PROVE ServeAt(s, o)'
    <3>1. CASE Takes(p, "idle", Idle)
      BY <2>3, <2>5, <3>1, IdleIsHeld DEF Stages, Idle
    <3>2. ASSUME NEW l \in {"record", "debit"}, NEW j \in Held, Takes(p, l, j), Keeps(k, j) PROVE ServeAt(s, o)'
      BY <2>3, <2>5, <3>2 DEF Stages, Keeps
    <3> QED  BY <1>0, <2>5, <3>1, <3>2 DEF Settles
  <2>6. ASSUME NEW r, Settles(p, r, k.todo), k.who = "auto" PROVE ServeAt(s, o)'
    <3>1. RunsIt(m, k, s) /\ ~Later(o) => o \in Engaged(k) /\ (o \in k.todo \/ "broke" \in k.results \cup {r})
      <4> SUFFICES ASSUME RunsIt(m, k, s), ~Later(o)
                   PROVE  o \in Engaged(k) /\ (o \in k.todo \/ "broke" \in k.results \cup {r})
        OBVIOUS
      <4>1. Owes(m, k, o) /\ o \in Engaged(k)
        BY <1>0, RunOwes
      <4> QED  BY <1>0, <1>1, <1>3, <4>1 DEF Owes, Holds
    <3>2. Later(o) \/ Carries(p, s, o)
      <4>1. stage[p] \in Running
        BY <1>0, <1>1 DEF Running, Past
      <4> QED  BY <1>0, <1>1, <2>6, <3>1, <4>1, SettlesServes
    <3>3. \E l \in Stages \ {"save"}, j \in Held : Takes(p, l, j)
      BY <2>6, SettlesAt DEF Stages
    <3> QED  BY <2>2, <3>2, <3>3
  <2> QED  BY <1>2, <2>4, <2>5, <2>6
<1>4. CASE at = o
  <2>1. Accounted(o) /\ o \in Engaged(k)
    BY <1>1, <1>4 DEF CountInv, Serviced
  <2>2. k.docs[o] = order[o]
    <3>1. Account(o, m, k)
      BY <1>0, <2>1 DEF Accounted
    <3> QED  BY <1>0, <1>1, <1>4, <3>1 DEF Account, Sees, Holds, Hand
  <2>3. /\ order[o] \in Document /\ order[o].end \in Int /\ Term \in Nat /\ Term >= 1 /\ now \in Nat
        /\ k.end \in Nat \cup {None}
    BY <1>0, EndTypes, ConstantTypes, Typed
  <2>4. Renewed(k, o).end = (IF k.end = None THEN order[o].end + Term ELSE k.end)
        /\ Renewed(k, o).end \in Int /\ Renewed(k, o).renews \in Nat
    BY <1>0, <2>2, <2>3, RenewedIs DEF Held, Document
  <2>5. Renewed(k, o).end >= order[o].end + Term
    <3>1. Prolongs(m, k, o)
      BY <1>0 DEF ServeAt
    <3> QED  BY <1>0, <1>1, <1>4, <2>3, <2>4, <3>1 DEF Prolongs
  <2> DEFINE e == Renewed(k, o).end
             n == Renewed(k, o).renews
  <2>6. order'[o].end = e /\ order'[o].status = order[o].status
    <3>1. order' = [order EXCEPT ![o].end = Saved(@, order[o].end, e), ![o].renews = Saved(@, order[o].renews, n)]
      BY <1>2, <1>4, <2>2
    <3>2. Saved(order[o].end, order[o].end, e) = e
      BY DEF Saved
    <3> HIDE DEF e, n
    <3> QED  BY <3>1, <3>2, <2>3, Typed DEF Document
  <2>7. order'[o].status = "ACTIVE" /\ order'[o].end >= now' + 2
    <3>1. order[o].status = "ACTIVE" /\ order[o].end >= now + 1
      BY DEF ServeAt
    <3> HIDE DEF e, n
    <3>2. e >= order[o].end + Term /\ e \in Int
      BY <2>4, <2>5 DEF e
    <3> QED  BY <1>1, <2>3, <2>6, <3>1, <3>2
  <2>8. \A q \in Executions : ~(stage'[q] = "save" /\ task'[q].at = o)
    <3>1. ASSUME NEW l \in Stages \ {"save"}, NEW j \in Held, Takes(p, l, j), NEW q \in Executions,
                 stage'[q] = "save", task'[q].at = o
          PROVE  FALSE
      <4>1. q # p /\ stage[q] = "save" /\ task[q].at = o
        BY <3>1 DEF Takes
      <4>2. o \in Engaged(task[q])
        BY <4>1, AtHand DEF Hand, Engaged
      <4> QED  BY <1>0, <2>1, <4>1, <4>2 DEF Accounted
    <3>2. \E l \in Stages \ {"save"}, j \in Held : Takes(p, l, j)
      BY <1>0, <1>2, SettlesAt DEF Stages
    <3> QED  BY <3>1, <3>2
  <2>9. \A q \in Executions : Prolongs(stage[q], task[q], o)'
    BY <2>8 DEF Prolongs
  <2>10. order'[o].end >= now' + 1 /\ Later(o)'
    <3>1. order'[o].end \in Int
      BY <2>4, <2>6
    <3>2. order'[o].end >= now + 2
      BY <1>1, <2>7
    <3>3. order'[o].end >= now + 1
      BY <2>3, <3>1, <3>2
    <3> QED  BY <1>1, <3>2, <3>3 DEF Later
  <2> QED  BY <2>7, <2>9, <2>10 DEF ServeAt
<1> QED  BY <1>3, <1>4

\* A scan that begins will run every schedule; one that is under way goes on.
LEMMA StartServes ==
    ASSUME JobInv, CalmInv, troubles = 0, NEW p \in Executions, ScanStart(p),
           NEW s \in Selections, NEW o \in Orders, ServeAt(s, o)
    PROVE  ServeAt(s, o)'
<1>1. stage[p] = "idle" /\ dayLocks' = dayLocks /\ order' = order /\ now' = now /\ fired' = fired + 1 /\ fired \in Nat
  BY Typed, ConstantTypes DEF ScanStart, docVars
<1>2. CASE scanLock = None
  <2>1. PICK j : j = Between({}) /\ Takes(p, "list", j) /\ j \in Held /\ j.who = "auto"
    BY <1>2, ScanStartTakes, BetweenTaken
  <2>2. ~RunsIt("list", j, s) /\ ~RunsIt(stage[p], task[p], s) /\ Pends("list", j, s)
    BY <1>1, <2>1 DEF RunsIt, Pends, Running, Past
  <2>3. Serving(p, "list", j, s)
    BY <1>1, <2>2 DEF Serving
  <2>4. Prolongs("list", j, o)
    BY DEF Prolongs
  <2> QED  BY <1>1, <2>1, <2>2, <2>3, <2>4, StepServes DEF Stages
<1>3. CASE scanLock # None
  <2>1. UNCHANGED <<stage, task>> /\ fired # 0
    BY <1>3, ScanStartTakes DEF CalmInv
  <2>2. order'[o].end >= now' + 1 /\ (Later(o) <=> Later(o)')
    BY <1>1 DEF ServeAt, Later
  <2> QED  BY <1>1, <2>1, <2>2, StillServes
<1> QED  BY <1>2, <1>3

\* Undisturbed, every step of an execution serves the orders that schedules serve.
LEMMA GoesServes ==
    ASSUME JobInv, PickInv, CalmInv, PromiseInv, CountInv, ServeInv, troubles = 0, troubles' = 0, NEW p \in Executions, Goes(p),
           NEW s \in Selections, NEW o \in Orders, Serviced(s, o)'
    PROVE  ServeAt(s, o)'
<1>1. Serviced(s, o) /\ ServeAt(s, o)
  BY ServicedBefore DEF ServeInv
<1>2. CASE SaveRenewal(p)
  BY <1>1, <1>2, SaveServes
<1>3. CASE Acknowledge(p)
  BY <1>1, <1>3, AcknowledgeServes
<1>4. CASE ScanStart(p)
  BY <1>1, <1>4, StartServes
<1>5. CASE ~SaveRenewal(p) /\ ~Acknowledge(p) /\ ~ScanStart(p)
  <2>1. /\ now' = now /\ order'[o].end = order[o].end /\ order'[o].status = order[o].status /\ fired' = fired
    BY <1>5, GoesKeeps, EndStays
  <2>2. \A l, j : l # "save" => Prolongs(l, j, o)
    BY DEF Prolongs
  <2>3. CASE Carries(p, s, o)
    BY <1>1, <2>1, <2>2, <2>3, StepServes DEF Carries
  <2>4. CASE Later(o)
    <3>1. CASE UNCHANGED <<stage, task>>
      <4>1. order'[o].end >= now' + 1 /\ Later(o)'
        BY <1>1, <2>1, <2>4 DEF ServeAt, Later
      <4> QED  BY <1>1, <2>1, <3>1, <4>1, StillServes
    <3>2. ASSUME NEW l \in Stages \ {"save"}, NEW j \in Held, Takes(p, l, j) PROVE ServeAt(s, o)'
      BY <1>1, <2>1, <2>2, <2>4, <3>2, StepServes
    <3>3. CASE ScanUnlock(p)
      <4>1. Takes(p, "idle", Idle)
        BY <3>3, FinishTakes DEF ScanUnlock
      <4> QED  BY <3>2, <4>1, IdleIsHeld DEF Stages
    <3> QED  BY <1>5, <3>1, <3>2, <3>3, GoesAutomatic
  <2>5. CASE ~Later(o) /\ task[p].who # "auto"
    <3>1. CASE UNCHANGED <<stage, task>>
      <4>1. dayLocks' = dayLocks
        <5>1. ~RunClaim(p)
          <6> SUFFICES ASSUME stage[p] = "claim" PROVE FALSE
            BY DEF RunClaim
          <6> QED  BY <2>5, HeldTypes DEF HeldOk, Ways, Askers
        <5> QED  BY <5>1, GoesKeeps
      <4>2. order'[o].end >= now' + 1
        BY <1>1, <2>1 DEF ServeAt
      <4> QED  BY <1>1, <2>1, <2>5, <3>1, <4>1, <4>2, StillServes
    <3> QED  BY <1>5, <2>3, <2>5, <3>1, OthersServe
  <2>6. CASE ~Later(o) /\ task[p].who = "auto"
    <3>1. CASE ScanList(p)
      BY <1>1, <2>3, <3>1, ListServes
    <3>2. CASE RunFind(p)
      BY <1>1, <2>3, <2>6, <3>2, FindServes
    <3>3. CASE RunClaim(p)
      BY <1>1, <2>3, <2>6, <3>3, ClaimServes
    <3>4. CASE RunRecord(p)
      BY <1>1, <2>3, <2>6, <3>4, RecordServes
    <3>5. CASE ScanUnlock(p)
      BY <2>3, <3>5, UnlockServes
    <3>6. CASE BulkSelect(p) \/ BulkLoad(p) \/ BulkWallet(p)
      BY <1>1, <2>3, <2>6, <3>6, BulkServes
    <3>7. CASE Debit(p)
      BY <1>1, <2>3, <2>6, <3>7, DebitServes
    <3>8. stage[p] \notin {"idle", "find", "prune", "count"}
      BY <2>6, HeldTypes DEF HeldOk, Ways
    <3> QED  BY <1>5, <3>1, <3>2, <3>3, <3>4, <3>5, <3>6, <3>7, <3>8
             DEF Goes, RenewStart, RenewFind, BulkStart, Prune, PruneCount
  <2> QED  BY <2>4, <2>5, <2>6
<1> QED  BY <1>2, <1>3, <1>4, <1>5

\* Every step serves them, for as long as nothing disturbs the schedules.
LEMMA NextServes ==
    JobInv /\ PickInv /\ CalmInv /\ PromiseInv /\ CountInv /\ ServeInv /\ [RenewalNext]_renewalVars => ServeInv'
<1> SUFFICES ASSUME JobInv, PickInv, CalmInv, PromiseInv, CountInv, ServeInv, [RenewalNext]_renewalVars, troubles' = 0,
                    NEW s \in Selections, NEW o \in Orders, Serviced(s, o)'
             PROVE  ServeAt(s, o)'
  BY DEF ServeInv
<1>1. troubles = 0
  BY CalmSteps
<1>2. ASSUME NEW p \in Executions, Goes(p) PROVE ServeAt(s, o)'
  BY <1>1, <1>2, GoesServes
<1>3. ASSUME UNCHANGED <<stage, task, live>>, selection'[s].auto => selection[s].auto, overlap[o] => overlap'[o]
      PROVE  Serviced(s, o) /\ ServeAt(s, o) /\ order[o].end >= now + 1
  <2>1. Holding(s, o)' = Holding(s, o)
    BY <1>3 DEF Holding, Leaving
  <2>2. Serviced(s, o)
    BY <1>3, <2>1 DEF Serviced, Serves
  <2> QED  BY <1>1, <2>2 DEF ServeInv, ServeAt
<1>4. ASSUME UNCHANGED <<stage, task, live, order, now, dayLocks, fired, overlap>>, selection'[s].auto => selection[s].auto
      PROVE  ServeAt(s, o)'
  <2>1. ServeAt(s, o) /\ order'[o].end >= now' + 1
    BY <1>3, <1>4
  <2>2. CASE Later(o)
    BY <1>4, <2>1, <2>2, StillServes DEF Later
  <2>3. CASE ~Later(o)
    BY <1>4, <2>1, <2>3, StillServes
  <2> QED  BY <2>2, <2>3
<1>5. CASE UNCHANGED renewalVars
  BY <1>4, <1>5 DEF renewalVars, docVars, lockVars, timeVars, histVars
<1>6. ASSUME NEW t \in Selections, CreateSelection(t) PROVE ServeAt(s, o)'
  <2>1. selection' = [selection EXCEPT ![t] = [selection[t] EXCEPT !.state = "saved"]]
    BY <1>6 DEF CreateSelection
  <2>2. selection'[s].auto = selection[s].auto
    <3>1. selection[t] \in [state: {"none", "saved", "deleted"}, auto: BOOLEAN, last: Runs]
      BY Typed
    <3>2. [selection[t] EXCEPT !.state = "saved"].auto = selection[t].auto
      BY <3>1
    <3>3. s = t \/ selection'[s] = selection[s]
      BY <2>1, Typed
    <3>4. selection'[t] = [selection[t] EXCEPT !.state = "saved"]
      BY <2>1, Typed
    <3> QED  BY <3>2, <3>3, <3>4
  <2> QED  BY <1>4, <1>6, <2>2 DEF CreateSelection, docVars, timeVars, histVars
<1>7. ASSUME NEW x \in Orders, Expire(x) PROVE ServeAt(s, o)'
  <2>1. /\ UNCHANGED <<stage, task, live, selection, now, dayLocks, fired>>
        /\ order[x].end <= now /\ order' = [order EXCEPT ![x].status = "EXPIRED"]
    BY <1>7 DEF Expire, lockVars, timeVars
  <2>2. overlap[o] => overlap'[o]
    <3>1. o = x \/ overlap'[o] = overlap[o]
      BY <1>7, Typed DEF Expire
    <3>2. overlap'[x] = (overlap[x] \/ \E q \in Executions : x \in Engaged(task[q]))
      BY <1>7, Typed DEF Expire
    <3> QED  BY <3>1, <3>2
  <2>3. ServeAt(s, o) /\ order[o].end >= now + 1
    BY <1>3, <2>1, <2>2
  <2>4. x # o
    BY <2>1, <2>3, EndTypes, Typed
  <2>5. order'[o] = order[o]
    BY <2>1, <2>4, Typed
  <2>6. CASE Later(o)
    BY <2>1, <2>3, <2>5, <2>6, StillServes DEF Later
  <2>7. CASE ~Later(o)
    BY <2>1, <2>3, <2>5, <2>7, StillServes
  <2> QED  BY <2>6, <2>7
<1>8. CASE NextDay
  <2>1. /\ UNCHANGED <<stage, task, live, selection, order, dayLocks, overlap>> /\ now' = now + 1 /\ fired > 0
        /\ \A q \in Executions : task[q].who # "auto"
    BY <1>8 DEF NextDay, docVars, lockVars, histVars
  <2>2. ServeAt(s, o)
    BY <1>3, <2>1
  <2>3. \A q \in Executions : ~Pends(stage[q], task[q], s) /\ ~RunsIt(stage[q], task[q], s)
    BY <2>1 DEF Pends, RunsIt
  <2>4. Later(o)
    <3>1. fired # 0
      BY <2>1, Typed, ConstantTypes
    <3> QED  BY <2>2, <2>3, <3>1 DEF ServeAt
  <2>5. order'[o].end >= now' + 1
    BY <2>1, <2>4, EndTypes, Typed DEF Later
  <2>6. <<s, now'>> \notin dayLocks'
    BY <2>1, Typed
  <2>7. fired' = 0
    BY <1>8 DEF NextDay
  <2>8. \A q \in Executions : Prolongs(stage[q], task[q], o)'
    BY <2>1, <2>2 DEF ServeAt, Prolongs
  <2>9. order'[o].status = "ACTIVE"
    BY <2>1, <2>2 DEF ServeAt
  <2>10. \A q \in Executions : ~RunsIt(stage[q], task[q], s)'
    BY <2>1, <2>3 DEF RunsIt
  <2> QED  BY <2>5, <2>6, <2>7, <2>8, <2>9, <2>10 DEF ServeAt
<1> QED  BY <1>2, <1>5, <1>6, <1>7, <1>8, CalmSteps

\* At the start no scan has fired and no order has ended.
LEMMA InitServes == RenewalInit => ServeInv
<1> SUFFICES ASSUME RenewalInit, NEW s \in Selections, NEW o \in Orders PROVE ServeAt(s, o)
  BY DEF ServeInv
<1>1. now = 0 /\ fired = 0 /\ dayLocks = {} /\ order[o].status = "ACTIVE" /\ order[o].end = FirstEnd
      /\ \A p \in Executions : stage[p] = "idle"
  BY DEF RenewalInit
<1>2. order[o].end >= now + 1
  BY <1>1, ConstantTypes
<1>3. \A p \in Executions : Prolongs(stage[p], task[p], o) /\ ~RunsIt(stage[p], task[p], s)
  BY <1>1 DEF Prolongs, RunsIt, Running, Past
<1> QED  BY <1>1, <1>2, <1>3 DEF ServeAt

\* An order that its schedule serves has not expired; nor has one whose proxies are all being renewed.
LEMMA ServesOrders == JobInv /\ PickInv /\ CountInv /\ ServeInv => ScheduleServes
<1> SUFFICES ASSUME JobInv, CountInv, ServeInv, troubles = 0, NEW s \in Selections, NEW o \in Orders,
                    ~overlap[o], Serves(s, o), Chosen[s][o] \cap live[o] \cap Ids[o] # {}, selection[s].auto
             PROVE  order[o].status = "ACTIVE"
  BY DEF ScheduleServes
<1>1. CASE Holding(s, o) # {}
  BY <1>1 DEF ServeInv, Serviced, ServeAt
<1>2. CASE Holding(s, o) = {}
  <2>1. PICK u : u \in Chosen[s][o] \cap live[o] \cap Ids[o]
    OBVIOUS
  <2>2. PICK p \in Executions : stage[p] \in {"save", "prune"} /\ task[p].at = o
    BY <1>2, <2>1 DEF Holding, Leaving
  <2>3. o \in Engaged(task[p]) /\ Holds(stage[p], task[p], o)
    BY <2>2, AtHand DEF Hand, Engaged, Holds
  <2>4. Account(o, stage[p], task[p])
    BY <2>3 DEF CountInv, Accounted
  <2> QED  BY <2>3, <2>4 DEF Account, Sees
<1> QED  BY <1>1, <1>2
-----------------------------------------------------------------------------
(* Theorems.                                                               *)

\* The inductive invariant: what executions hold, the days, the wallet, the promises,
\* the counts, the picks and the service of the schedules.
RenewalInv ==
    /\ JobInv /\ DayInv /\ WalletRenews /\ PromiseInv /\ CountInv
    /\ PickInv /\ CalmInv /\ ServeInv

\* It holds from the start, and through every step.
LEMMA RenewalHolds == RenewalSpec => []RenewalInv
<1>1. RenewalInit => RenewalInv
  BY InitJobs, InitDays, InitWallet, InitPromises, InitCounts, InitPicks, InitCalm, InitServes
     DEF RenewalInv
<1>2. RenewalInv /\ [RenewalNext]_renewalVars => RenewalInv'
  BY NextJobs, NextDays, NextWallet, NextPromises, NextCounts, NextPicks, NextCalm, NextServes
     DEF RenewalInv
<1> QED  BY <1>1, <1>2, PTL DEF RenewalSpec

\* What a renewal takes, it gives, once (RenewalsPaid): every debit is booked,
\* paid back, under way or lost with its execution; an order that one execution at
\* a time renewed counts each renewal its provider acknowledged, in its number, its
\* end and its quantity; and a selection debits an order once a day.
THEOREM RenewalsArePaid == RenewalSpec => []RenewalsPaid
<1>1. RenewalInv => RenewalsPaid
  BY CountsRenewals DEF RenewalInv, JobInv, DayInv, RenewalsPaid
<1> QED  BY <1>1, RenewalHolds, PTL

\* No order promises a proxy longer than its provider keeps it, but for those left
\* behind by a renewal of others or about to be pruned (PromiseKept).
THEOREM PromisesAreKept == RenewalSpec => []PromiseKept
<1>1. RenewalInv => PromiseKept
  <2> SUFFICES ASSUME JobInv, PromiseInv, NEW o \in Orders, NEW s \in (live[o] \cap Ids[o]) \ behind[o], ~Leaving(o, s)
               PROVE  order[o].end <= remote[o][s]
    BY DEF RenewalInv, PromiseKept, Leaving
  <2>1. s \in Slots /\ Ahead(o, s)
    BY EndTypes DEF Ahead
  <2> QED  BY <2>1 DEF PromiseInv, Covered
<1> QED  BY <1>1, RenewalHolds, PTL

\* Unless something got in the way, an order that one schedule serves expires only
\* when that schedule was switched off (ScheduleServes): every morning a scan runs the
\* schedules that are due, the renewal it saves is of a term at least, and a run that
\* does not renew the order ran out of money and is switched off.
THEOREM SchedulesServe == RenewalSpec => []ScheduleServes
<1>1. RenewalInv => ScheduleServes
  BY ServesOrders DEF RenewalInv
<1> QED  BY <1>1, RenewalHolds, PTL
=============================================================================
