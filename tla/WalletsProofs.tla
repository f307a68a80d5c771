---------------------------- MODULE WalletsProofs ----------------------------
(***************************************************************************)
(* Theorems about the two balances of a user: the affiliate balance of     *)
(* Payouts, for every set of commissions and executions, and the wallet    *)
(* that DirectPurchase spends, for every set of requests and keys, with    *)
(* any number of deaths, failed calls, edits and lapsed locks.             *)
(*                                                                         *)
(* PayInv, besides the types, says which commissions an execution may set  *)
(* back without looking, and what was paid by the one about to say so; the *)
(* balance follows.  ShopInv says which requests know their order and hold *)
(* their lock; while no lock of a key lapsed and no two requests of it     *)
(* overlapped, an order of the key is guarded by its lock or its answer.   *)
(***************************************************************************)
EXTENDS MCWallets, Totals, FiniteSetTheorems, TLAPS

Jobs == [ids : SUBSET Commissions, total : Nat]

Worthy == {"CREDITED", "REQUESTED", "PAID"}

\* The single request that took a commission may return it: it is credited still.
OursInv ==
    \A p \in Procs :
        /\ pc[p] = "mark" => \E c \in Commissions : job[p].ids = {c}
        /\ pc[p] \in {"debit", "undo"} => \A c \in job[p].ids : status[c] \in Worthy

\* The withdrawal of an approval under way is paid.
PayingInv ==
    \A p \in Procs : pc[p] = "pay" =>
        \E w \in 1..Len(withdrawals) :
            withdrawals[w].status = "PAID" /\ withdrawals[w].ids = job[p].ids

PayInv == TypeOK /\ OursInv /\ PayingInv /\ PaidIsListed /\ PayoutsBacked

-----------------------------------------------------------------------------

\* What a request holds, and which labels know what.
Requests == [key : Keys \cup {Shop!NoKey}, sync : BOOLEAN, order : Nat \cup {Shop!None}, ok : BOOLEAN]

HandAt(p) ==
    /\ step[p] \in {"prior", "cached", "lock", "keep", "error", "unlock"} => request[p].key \in Keys
    /\ step[p] \in {"push", "keep", "error", "poll"} => request[p].order \in DOMAIN orders
    /\ request[p].ok => request[p].order \in DOMAIN orders
    /\ step[p] = "idle" => request[p] = Shop!Idle

HandInv == request \in [Procs -> Requests] /\ \A p \in Procs : HandAt(p)

\* An answer kept names an order that exists.
CacheInv ==
    \A k \in Keys : cache[k].is = "order" => cache[k].order \in DOMAIN orders

\* What a debit has in hand for which there is no order yet.
Saving == [p \in Procs |-> IF step[p] = "save" THEN Price ELSE 0]

BoughtOrders == {o \in DOMAIN orders : orders[o].bought}

MoneyInv ==
    /\ troubles \in Nat
    /\ money + spent + unbooked + SumFunctionOnSet(Shop!Hands, Procs) = StartMoney
    /\ troubles = 0 => unbooked = 0
    /\ Cardinality(BoughtOrders) * Price + SumFunctionOnSet(Saving, Procs) <= StartMoney - money

\* Requests past the lock of their key.
Inside == {"validate", "debit", "save", "push", "keep", "error", "unlock"}

\* While nothing lapsed, a key has one request at most; past the lock, it is locked; the order
\* of a key is guarded by the lock or by the answer.
KeyAt(p, k) ==
    request[p].key = k =>
        /\ step[p] \in Inside => lock[k] # Shop!None
        /\ step[p] = "lock" => cache[k].is = "none"
        /\ step[p] \in {"validate", "debit", "save"} => Shop!Bought(k) = {}
        /\ step[p] = "unlock" /\ cache[k].is = "none" => Shop!Bought(k) = {}

AloneWith(k) == \A p, q \in Procs : request[p].key = k /\ request[q].key = k => p = q

Guarded(k) ==
    /\ AloneWith(k)
    /\ \A p \in Procs : KeyAt(p, k)
    /\ Shop!Bought(k) # {} => lock[k] # Shop!None \/ cache[k].is # "none"
    /\ \A o, q \in Shop!Bought(k) : o = q

KeyInv == \A k \in Keys : ~overlap[k] /\ ~lapsed[k] => Guarded(k)

FlagTypes == overlap \in [Keys -> BOOLEAN] /\ lapsed \in [Keys -> BOOLEAN]

ShopInv == Shop!TypeOK /\ FlagTypes /\ HandInv /\ CacheInv /\ MoneyInv /\ KeyInv

-----------------------------------------------------------------------------
(* The affiliate balance: what a step does to an execution.                *)

\* Execution p goes to label l with j in hand, and the others stay where they are.
At(p, l, j) ==
    /\ pc' \in [Procs -> Steps] /\ job' \in [Procs -> Jobs]
    /\ pc'[p] = l /\ job'[p] = j
    /\ \A q \in Procs \ {p} : pc'[q] = pc[q] /\ job'[q] = job[q]

\* Goto, Begin and Finish.
LEMMA GotoAt ==
    ASSUME TypeOK, NEW p \in Procs, NEW l \in Steps, Goto(p, l) PROVE At(p, l, job[p])
  BY DEF TypeOK, Goto, At, Jobs

LEMMA BeginAt ==
    ASSUME TypeOK, NEW p \in Procs, NEW l \in Steps, NEW j \in Jobs, Begin(p, l, j)
    PROVE  pc[p] = "idle" /\ At(p, l, j)
  BY DEF TypeOK, Begin, At, Jobs

LEMMA FinishAt == ASSUME TypeOK, NEW p \in Procs, Finish(p) PROVE At(p, "idle", NoJob)
  BY DEF TypeOK, Finish, At, Jobs, NoJob, Steps

\* The other collections keep their types.
LEMMA TypeAt ==
    ASSUME TypeOK, NEW p \in Procs, NEW l, NEW j, At(p, l, j),
           status' \in [Commissions -> Statuses], balance' \in Nat,
           withdrawals' \in Seq(Withdrawals), expired' \subseteq Commissions,
           bank' = bank, crashes' \in 0..MaxCrashes
    PROVE  TypeOK'
  BY DEF TypeOK, At, Jobs

\* The steps of an execution, as Next has them.
Acts(p) ==
    \/ \E S \in SUBSET Commissions : Sweep(p, S)
    \/ \E c \in Commissions : Approve(p, c) \/ RequestWithdraw(p, c)
    \/ Confirm(p) \/ Credit(p) \/ Crash(p)
    \/ RequestWithdrawAll(p) \/ Check(p) \/ List(p) \/ MarkAll(p)
    \/ Mark(p) \/ Debit(p) \/ Undo(p) \/ UndoAll(p) \/ Record(p)
    \/ \E w \in 1..Len(withdrawals) : ApproveWithdraw(p, w) \/ RejectWithdraw(p, w)
    \/ Pay(p) \/ Return(p) \/ Repay(p)

LEMMA NextActs ==
    ASSUME Next
    PROVE  UpdateBankInfo \/ (\E c \in Commissions : Earn(c)) \/ (\E p \in Procs : Acts(p))
  BY DEF Next, Acts

\* What is read of a withdrawal.
LEMMA WithdrawalType ==
    ASSUME TypeOK, NEW w \in 1..Len(withdrawals)
    PROVE  /\ withdrawals[w] \in Withdrawals /\ w \in DOMAIN withdrawals
           /\ [ids |-> withdrawals[w].ids, total |-> withdrawals[w].total] \in Jobs
<1>1. withdrawals \in Seq(Withdrawals)
  BY DEF TypeOK
<1>2. withdrawals[w] \in Withdrawals /\ w \in DOMAIN withdrawals
  BY <1>1
<1> QED  BY <1>2 DEF Withdrawals, Jobs

\* Where each step that takes one label to one other goes.
LEMMA Goes ==
    ASSUME TypeOK, NEW p \in Procs
    PROVE  /\ Confirm(p) \/ Credit(p) \/ Undo(p) \/ UndoAll(p) \/ Record(p) \/ Pay(p) \/ Repay(p)
              \/ Crash(p) => At(p, "idle", NoJob)
           /\ MarkAll(p) => At(p, "debitAll", job[p])
           /\ Return(p) => At(p, "repay", job[p])
           /\ Check(p) => At(p, "list", job[p]) \/ At(p, "idle", NoJob)
           /\ Mark(p) => \/ At(p, "debit", job[p]) /\ status' # status
                         \/ At(p, "idle", NoJob) /\ status' = status
           /\ List(p) => \/ At(p, "markAll", [job[p] EXCEPT !.ids = Having("CREDITED")])
                         \/ At(p, "idle", NoJob)
           /\ Debit(p) => \/ At(p, "record", job[p]) /\ Covers(job[p].total)
                                /\ balance' = balance - job[p].total
                          \/ At(p, "undo", job[p]) /\ pc[p] = "debit" /\ balance' = balance
                          \/ At(p, "undoAll", job[p]) /\ pc[p] = "debitAll" /\ balance' = balance
<1> USE DEF Steps
<1>1. Confirm(p) \/ Credit(p) \/ Undo(p) \/ UndoAll(p) \/ Record(p) \/ Pay(p) \/ Repay(p)
          \/ Crash(p) => At(p, "idle", NoJob)
  BY FinishAt DEF Confirm, Credit, Undo, UndoAll, Record, Pay, Repay, Crash
<1>2. (MarkAll(p) => At(p, "debitAll", job[p])) /\ (Return(p) => At(p, "repay", job[p]))
  BY GotoAt DEF MarkAll, Return
<1>3. Check(p) => At(p, "list", job[p]) \/ At(p, "idle", NoJob)
  BY GotoAt, FinishAt DEF Check
<1>4. Mark(p) => \/ At(p, "debit", job[p]) /\ status' # status
                 \/ At(p, "idle", NoJob) /\ status' = status
  BY GotoAt, FinishAt DEF Mark
<1>5. List(p) => \/ At(p, "markAll", [job[p] EXCEPT !.ids = Having("CREDITED")])
                 \/ At(p, "idle", NoJob)
  <2> SUFFICES ASSUME List(p), Having("CREDITED") # {}
               PROVE  At(p, "markAll", [job[p] EXCEPT !.ids = Having("CREDITED")])
    BY FinishAt DEF List
  <2> DEFINE j == [job[p] EXCEPT !.ids = Having("CREDITED")]
  <2>1. job \in [Procs -> Jobs] /\ pc \in [Procs -> Steps]
    BY DEF TypeOK, Jobs
  <2>2. j \in Jobs
    BY <2>1 DEF Jobs, Having
  <2>3. pc' = [pc EXCEPT ![p] = "markAll"] /\ job' = [job EXCEPT ![p] = j]
    BY DEF List
  <2> HIDE DEF j
  <2>4. At(p, "markAll", j)
    BY <2>1, <2>2, <2>3 DEF At
  <2> QED  BY <2>4 DEF j
<1>6. Debit(p) => \/ At(p, "record", job[p]) /\ Covers(job[p].total)
                        /\ balance' = balance - job[p].total
                  \/ At(p, "undo", job[p]) /\ pc[p] = "debit" /\ balance' = balance
                  \/ At(p, "undoAll", job[p]) /\ pc[p] = "debitAll" /\ balance' = balance
  BY GotoAt DEF Debit
<1> QED  BY <1>1, <1>2, <1>3, <1>4, <1>5, <1>6

\* Where each request begins.
LEMMA Begins ==
    ASSUME TypeOK, NEW p \in Procs
    PROVE  /\ \A S \in SUBSET Commissions :
                  Sweep(p, S) => pc[p] = "idle" /\ At(p, "confirm", [ids |-> S, total |-> 0])
           /\ \A c \in Commissions :
                  /\ Approve(p, c) =>
                         pc[p] = "idle" /\ At(p, "credit", [ids |-> {c}, total |-> Amount[c]])
                  /\ RequestWithdraw(p, c) =>
                         pc[p] = "idle" /\ At(p, "mark", [ids |-> {c}, total |-> Amount[c]])
           /\ RequestWithdrawAll(p) =>
                  pc[p] = "idle" /\ At(p, "check", [ids |-> {}, total |-> balance])
           /\ \A w \in 1..Len(withdrawals) : \A s, l :
                  Decide(p, w, s, l) /\ l \in Steps =>
                      /\ pc[p] = "idle"
                      /\ At(p, l, [ids |-> withdrawals[w].ids, total |-> withdrawals[w].total])
<1> USE DEF Steps
<1>1. ASSUME NEW S \in SUBSET Commissions, Sweep(p, S)
      PROVE  pc[p] = "idle" /\ At(p, "confirm", [ids |-> S, total |-> 0])
  <2>1. [ids |-> S, total |-> 0] \in Jobs /\ [NoJob EXCEPT !.ids = S] = [ids |-> S, total |-> 0]
    BY DEF Jobs, NoJob
  <2> QED  BY <1>1, <2>1, BeginAt DEF Sweep
<1>2. ASSUME NEW c \in Commissions, Approve(p, c) \/ RequestWithdraw(p, c)
      PROVE  /\ pc[p] = "idle"
             /\ Approve(p, c) => At(p, "credit", [ids |-> {c}, total |-> Amount[c]])
             /\ RequestWithdraw(p, c) => At(p, "mark", [ids |-> {c}, total |-> Amount[c]])
  <2>1. [ids |-> {c}, total |-> Amount[c]] \in Jobs
    BY PayoutsAssumption DEF Jobs
  <2> QED  BY <1>2, <2>1, BeginAt DEF Approve, RequestWithdraw
<1>3. ASSUME RequestWithdrawAll(p)
      PROVE  pc[p] = "idle" /\ At(p, "check", [ids |-> {}, total |-> balance])
  <2>1. balance \in Nat /\ {} \in SUBSET Commissions
    BY DEF TypeOK
  <2>2. [ids |-> {}, total |-> balance] \in Jobs
    BY <2>1 DEF Jobs
  <2>3. [NoJob EXCEPT !.total = balance] = [ids |-> {}, total |-> balance]
    BY DEF NoJob
  <2> QED  BY <1>3, <2>2, <2>3, BeginAt DEF RequestWithdrawAll
<1>4. ASSUME NEW w \in 1..Len(withdrawals), NEW s, NEW l, Decide(p, w, s, l), l \in Steps
      PROVE  /\ pc[p] = "idle"
             /\ At(p, l, [ids |-> withdrawals[w].ids, total |-> withdrawals[w].total])
  BY <1>4, WithdrawalType, BeginAt DEF Decide
<1> QED  BY <1>1, <1>2, <1>3, <1>4

\* Commissions that change go from s to t.
Changes(s, t) ==
    /\ status' \in [Commissions -> Statuses]
    /\ \A c \in Commissions : status'[c] # status[c] => status[c] = s /\ status'[c] = t

LEMMA MoveChanges ==
    ASSUME TypeOK, NEW S, NEW s \in Statuses, NEW t \in Statuses, Move(S, s, t)
    PROVE  /\ Changes(s, t)
           /\ \A c \in Commissions : status'[c] # status[c] => c \in S
           /\ \A c \in Commissions : c \in S /\ status[c] = s => status'[c] = t
  BY DEF TypeOK, Move, Changes

\* What each step does to the commissions.
LEMMA Changed ==
    ASSUME TypeOK
    PROVE  /\ \A c \in Commissions : Earn(c) => Changes("NONE", "PENDING")
           /\ \A p \in Procs :
                /\ Confirm(p) => Changes("PENDING", "CONFIRMED")
                /\ \A c \in Commissions :
                      Approve(p, c) => /\ Changes("CONFIRMED", "CREDITED")
                                       /\ status[c] = "CONFIRMED" /\ status'[c] = "CREDITED"
                                       /\ \A d \in Commissions : status'[d] # status[d] => d = c
                /\ Mark(p) \/ MarkAll(p) => Changes("CREDITED", "REQUESTED")
                /\ UndoAll(p) \/ Return(p) => Changes("REQUESTED", "CREDITED")
                /\ Pay(p) => /\ Changes("REQUESTED", "PAID")
                             /\ \A c \in Commissions : status'[c] # status[c] => c \in job[p].ids
                /\ Mark(p) => \A c \in Commissions : status'[c] # status[c] => c \in job[p].ids
                /\ Undo(p) => /\ status' \in [Commissions -> Statuses]
                              /\ \A c \in Commissions :
                                    status'[c] # status[c] =>
                                        c \in job[p].ids /\ status'[c] = "CREDITED"
<1> USE DEF Statuses
<1>1. \A c \in Commissions : Earn(c) => Changes("NONE", "PENDING")
  BY MoveChanges DEF Earn
<1>2. ASSUME NEW p \in Procs
      PROVE  /\ Confirm(p) => Changes("PENDING", "CONFIRMED")
             /\ Mark(p) \/ MarkAll(p) => Changes("CREDITED", "REQUESTED")
             /\ UndoAll(p) \/ Return(p) => Changes("REQUESTED", "CREDITED")
             /\ Pay(p) => /\ Changes("REQUESTED", "PAID")
                          /\ \A c \in Commissions : status'[c] # status[c] => c \in job[p].ids
             /\ Mark(p) => \A c \in Commissions : status'[c] # status[c] => c \in job[p].ids
  BY MoveChanges DEF Confirm, Mark, MarkAll, UndoAll, Return, Pay, Closes
<1>3. ASSUME NEW p \in Procs, NEW c \in Commissions, Approve(p, c)
      PROVE  /\ Changes("CONFIRMED", "CREDITED")
             /\ status[c] = "CONFIRMED" /\ status'[c] = "CREDITED"
             /\ \A d \in Commissions : status'[d] # status[d] => d = c
  BY <1>3, MoveChanges DEF Approve
<1>4. ASSUME NEW p \in Procs, Undo(p)
      PROVE  /\ status' \in [Commissions -> Statuses]
             /\ \A c \in Commissions :
                   status'[c] # status[c] => c \in job[p].ids /\ status'[c] = "CREDITED"
  BY <1>4 DEF Undo, TypeOK
<1> QED  BY <1>1, <1>2, <1>3, <1>4

\* No other step changes them.
LEMMA Unchanged ==
    ASSUME Next, status' # status
    PROVE  \/ \E c \in Commissions : Earn(c)
           \/ \E p \in Procs : \/ \E c \in Commissions : Approve(p, c)
                               \/ Confirm(p) \/ Mark(p) \/ MarkAll(p) \/ Undo(p) \/ UndoAll(p)
                               \/ Pay(p) \/ Return(p)
  BY DEF Next, UpdateBankInfo, Sweep, RequestWithdraw, Credit, Crash, RequestWithdrawAll, Check,
         List, Debit, Record, ApproveWithdraw, RejectWithdraw, Decide, Repay

\* Every step keeps the types.
LEMMA PayTypes == ASSUME TypeOK, [Next]_vars PROVE TypeOK'
<1> USE PayoutsAssumption
<1>1. CASE UNCHANGED vars
  BY <1>1 DEF vars, TypeOK
<1>2. CASE UpdateBankInfo
  BY <1>2 DEF UpdateBankInfo, TypeOK
<1>4. ASSUME NEW c \in Commissions, Earn(c) PROVE TypeOK'
  BY <1>4, Changed DEF Earn, TypeOK, Changes
<1>3. ASSUME NEW p \in Procs, Acts(p) PROVE TypeOK'
  <2>0. /\ status \in [Commissions -> Statuses] /\ balance \in Nat /\ crashes \in 0..MaxCrashes
        /\ withdrawals \in Seq(Withdrawals) /\ expired \subseteq Commissions
        /\ job[p] \in Jobs
    BY DEF TypeOK, Jobs
  <2>a. ASSUME Changes("CONFIRMED", "CREDITED") \/ Changes("PENDING", "CONFIRMED")
               \/ Changes("CREDITED", "REQUESTED") \/ Changes("REQUESTED", "CREDITED")
               \/ Changes("REQUESTED", "PAID")
        PROVE  status' \in [Commissions -> Statuses]
    BY <2>a DEF Changes
  <2>1. ASSUME NEW S \in SUBSET Commissions, Sweep(p, S) PROVE TypeOK'
    BY <2>0, <2>1, Begins, TypeAt DEF Sweep
  <2>2. ASSUME NEW c \in Commissions, Approve(p, c) PROVE TypeOK'
    <3>1. status' \in [Commissions -> Statuses]
      BY <2>2, <2>a, Changed
    <3>2. \E l, j : At(p, l, j)
      BY <2>2, Begins
    <3> QED  BY <2>0, <2>2, <3>1, <3>2, TypeAt DEF Approve
  <2>3. CASE Confirm(p)
    BY <2>0, <2>3, <2>a, Goes, Changed, TypeAt DEF Confirm
  <2>4. CASE Credit(p) \/ Repay(p)
    <3>1. balance' \in Nat
      BY <2>0, <2>4 DEF Credit, Repay, Jobs
    <3>2. At(p, "idle", NoJob)
      BY <2>4, Goes
    <3> QED  BY <2>0, <2>4, <3>1, <3>2, TypeAt DEF Credit, Repay
  <2>5. CASE Crash(p)
    <3>1. crashes' \in 0..MaxCrashes
      BY <2>0, <2>5 DEF Crash
    <3>2. At(p, "idle", NoJob)
      BY <2>5, Goes
    <3> QED  BY <2>0, <2>5, <3>1, <3>2, TypeAt DEF Crash
  <2>6. CASE RequestWithdrawAll(p)
    BY <2>0, <2>6, Begins, TypeAt DEF RequestWithdrawAll
  <2>13. ASSUME NEW c \in Commissions, RequestWithdraw(p, c) PROVE TypeOK'
    BY <2>0, <2>13, Begins, TypeAt DEF RequestWithdraw
  <2>7. CASE Check(p) \/ List(p)
    BY <2>0, <2>7, Goes, TypeAt DEF Check, List
  <2>8. CASE MarkAll(p) \/ Mark(p) \/ UndoAll(p) \/ Pay(p) \/ Return(p)
    <3>1. status' \in [Commissions -> Statuses]
      BY <2>8, <2>a, Changed
    <3>2. \E l, j : At(p, l, j)
      BY <2>8, Goes
    <3> QED  BY <2>0, <2>8, <3>1, <3>2, TypeAt DEF MarkAll, Mark, UndoAll, Pay, Return
  <2>9. CASE Debit(p)
    <3>1. job[p].total \in Nat
      BY <2>0 DEF Jobs
    <3>2. \/ balance' = balance
          \/ balance >= job[p].total /\ balance' = balance - job[p].total
      BY <2>9, Goes DEF Covers
    <3>3. balance' \in Nat
      BY <2>0, <3>1, <3>2
    <3>4. \E l, j : At(p, l, j)
      BY <2>9, Goes
    <3> QED  BY <2>0, <2>9, <3>3, <3>4, TypeAt DEF Debit
  <2>10. CASE Undo(p)
    BY <2>0, <2>10, Goes, Changed, TypeAt DEF Undo
  <2>11. CASE Record(p)
    <3>1. [ids |-> job[p].ids, total |-> job[p].total, status |-> "REQUESTED"] \in Withdrawals
      BY <2>0 DEF Jobs, Withdrawals
    <3>2. withdrawals' \in Seq(Withdrawals)
      BY <2>0, <2>11, <3>1 DEF Record
    <3> QED  BY <2>0, <2>11, <3>2, Goes, TypeAt DEF Record
  <2>12. ASSUME NEW w \in 1..Len(withdrawals), ApproveWithdraw(p, w) \/ RejectWithdraw(p, w)
         PROVE  TypeOK'
    <3>1. PICK s \in {"PAID", "REJECTED"}, l \in Steps : Decide(p, w, s, l)
      BY <2>12 DEF ApproveWithdraw, RejectWithdraw, Steps
    <3>2. [withdrawals[w] EXCEPT !.status = s] \in Withdrawals
      BY WithdrawalType DEF Withdrawals
    <3>3. withdrawals' = [withdrawals EXCEPT ![w] = [withdrawals[w] EXCEPT !.status = s]]
      BY <3>1 DEF Decide
    <3>4. withdrawals' \in Seq(Withdrawals)
      <4> DEFINE v == [withdrawals[w] EXCEPT !.status = s]
      <4> HIDE DEF v
      <4> QED  BY <2>0, <3>2, <3>3 DEF v
    <3> QED  BY <2>0, <3>1, <3>4, Begins, TypeAt DEF Decide
  <2> QED  BY <1>3, <2>1, <2>2, <2>3, <2>4, <2>5, <2>6, <2>7, <2>8, <2>9, <2>10, <2>11, <2>12,
              <2>13 DEF Acts
<1> QED  BY <1>1, <1>2, <1>3, <1>4, NextActs

-----------------------------------------------------------------------------
(* What commissions and withdrawals keep.                                  *)

\* A commission once credited is credited, asked for or paid from then on.
LEMMA StaysWorthy ==
    ASSUME TypeOK, [Next]_vars, NEW c \in Commissions, status[c] \in Worthy
    PROVE  status'[c] \in Worthy
<1>1. CASE status'[c] = status[c]
  BY <1>1
<1>2. CASE status'[c] # status[c]
  BY <1>2, Changed, Unchanged DEF Changes, Worthy, vars
<1> QED  BY <1>1, <1>2

\* A withdrawal keeps its commissions, and once paid is paid.
LEMMA StaysPaid ==
    ASSUME TypeOK, [Next]_vars, NEW w \in 1..Len(withdrawals)
    PROVE  /\ w \in 1..Len(withdrawals') /\ withdrawals'[w].ids = withdrawals[w].ids
           /\ withdrawals[w].status = "PAID" => withdrawals'[w].status = "PAID"
<1>0. withdrawals \in Seq(Withdrawals) /\ withdrawals[w] \in Withdrawals /\ w \in Nat
  BY WithdrawalType DEF TypeOK
<1>1. CASE withdrawals' = withdrawals
  BY <1>1
<1>2. CASE withdrawals' # withdrawals
  <2>1. PICK p \in Procs : Acts(p)
    BY <1>2, NextActs DEF UpdateBankInfo, Earn, vars
  <2>2. \/ Record(p)
        \/ \E v \in 1..Len(withdrawals) : ApproveWithdraw(p, v) \/ RejectWithdraw(p, v)
    BY <1>2, <2>1
       DEF Acts, Sweep, Approve, RequestWithdraw, Confirm, Credit, Crash, RequestWithdrawAll, Check,
           List, MarkAll, Mark, Debit, Undo, UndoAll, Pay, Return, Repay
  <2>3. CASE Record(p)
    BY <1>0, <2>3 DEF Record
  <2>4. ASSUME NEW v \in 1..Len(withdrawals), ApproveWithdraw(p, v) \/ RejectWithdraw(p, v)
        PROVE  /\ w \in 1..Len(withdrawals') /\ withdrawals'[w].ids = withdrawals[w].ids
               /\ withdrawals[w].status = "PAID" => withdrawals'[w].status = "PAID"
    <3>1. PICK s, l : Decide(p, v, s, l)
      BY <2>4 DEF ApproveWithdraw, RejectWithdraw
    <3>2. /\ withdrawals[v].status = "REQUESTED"
          /\ withdrawals' = [withdrawals EXCEPT ![v] = [withdrawals[v] EXCEPT !.status = s]]
      BY <3>1 DEF Decide
    <3>3. withdrawals[v] \in Withdrawals /\ v \in DOMAIN withdrawals
      BY WithdrawalType
    <3>4. [withdrawals[v] EXCEPT !.status = s].ids = withdrawals[v].ids
      BY <3>3 DEF Withdrawals
    <3>5. Len(withdrawals') = Len(withdrawals)
      BY <1>0, <3>2
    <3>6. CASE w = v
      BY <1>0, <3>2, <3>3, <3>4, <3>5, <3>6
    <3>7. CASE w # v
      BY <1>0, <3>2, <3>5, <3>7
    <3> QED  BY <3>6, <3>7
  <2> QED  BY <2>2, <2>3, <2>4
<1> QED  BY <1>1, <1>2

\* What a request may return, and the one commission of it.
LEMMA OursStep == ASSUME TypeOK, OursInv, [Next]_vars PROVE OursInv'
<1> DEFINE Ours(q) == /\ pc[q] = "mark" => \E c \in Commissions : job[q].ids = {c}
                      /\ pc[q] \in {"debit", "undo"} => \A c \in job[q].ids : status[c] \in Worthy
<1>0. \A q \in Procs : pc[q] \in Steps /\ job[q] \in Jobs
  BY DEF TypeOK, Jobs
<1>1. ASSUME NEW q \in Procs, pc'[q] = pc[q], job'[q] = job[q] PROVE Ours(q)'
  BY <1>0, <1>1, StaysWorthy DEF OursInv, Jobs
<1>2. CASE UNCHANGED <<pc, job>>
  BY <1>1, <1>2 DEF OursInv
<1>3. ASSUME NEW p \in Procs, NEW l, NEW j, At(p, l, j), l \notin {"mark", "debit", "undo"}
      PROVE  OursInv'
  BY <1>1, <1>3 DEF OursInv, At
<1>4. ASSUME NEW p \in Procs, Acts(p) PROVE OursInv'
  <2>1. ASSUME NEW c \in Commissions, RequestWithdraw(p, c) PROVE OursInv'
    <3>1. At(p, "mark", [ids |-> {c}, total |-> Amount[c]])
      BY <2>1, Begins
    <3>2. Ours(p)'
      BY <3>1 DEF At
    <3> QED  BY <1>1, <3>1, <3>2 DEF OursInv, At
  <2>2. CASE Mark(p)
    <3>1. CASE status' = status
      BY <1>3, <2>2, <3>1, Goes
    <3>2. CASE status' # status
      <4>1. At(p, "debit", job[p])
        BY <2>2, <3>2, Goes
      <4>2. PICK c \in Commissions : job[p].ids = {c}
        BY <2>2 DEF Mark, OursInv
      <4>3. status \in [Commissions -> Statuses] /\ status' \in [Commissions -> Statuses]
        BY <2>2, Changed DEF Changes, TypeOK
      <4>4. PICK d \in Commissions : status'[d] # status[d]
        BY <3>2, <4>3
      <4>5. status'[c] = "REQUESTED"
        BY <2>2, <4>2, <4>4, Changed DEF Changes
      <4>6. Ours(p)'
        BY <4>1, <4>2, <4>5 DEF At, Worthy
      <4> QED  BY <1>1, <4>1, <4>6 DEF OursInv, At
    <3> QED  BY <3>1, <3>2
  <2>3. CASE Debit(p)
    <3>1. CASE At(p, "undo", job[p]) /\ pc[p] = "debit"
      <4>1. status' = status
        BY <2>3 DEF Debit
      <4>2. Ours(p)'
        BY <3>1, <4>1 DEF At, OursInv
      <4> QED  BY <1>1, <3>1, <4>2 DEF OursInv, At
    <3> QED  BY <1>3, <2>3, <3>1, Goes
  <2>4. ASSUME NEW w \in 1..Len(withdrawals), ApproveWithdraw(p, w) \/ RejectWithdraw(p, w)
        PROVE  OursInv'
    <3>1. \E l \in {"pay", "return"} : Decide(p, w, "PAID", l) \/ Decide(p, w, "REJECTED", l)
      BY <2>4 DEF ApproveWithdraw, RejectWithdraw
    <3>2. \E l \in {"pay", "return"} : \E j : At(p, l, j)
      BY <3>1, Begins DEF Steps
    <3> QED  BY <1>3, <3>2
  <2>5. CASE \/ \E S \in SUBSET Commissions : Sweep(p, S)
             \/ \E c \in Commissions : Approve(p, c)
             \/ RequestWithdrawAll(p)
    <3>1. \E l \in {"confirm", "credit", "check"} : \E j : At(p, l, j)
      BY <2>5, Begins
    <3> QED  BY <1>3, <3>1
  <2>6. CASE \/ Confirm(p) \/ Credit(p) \/ Crash(p) \/ Check(p) \/ List(p) \/ MarkAll(p) \/ Undo(p)
             \/ UndoAll(p) \/ Record(p) \/ Pay(p) \/ Return(p) \/ Repay(p)
    <3>1. \E l \in {"idle", "list", "markAll", "debitAll", "repay"} : \E j : At(p, l, j)
      BY <2>6, Goes
    <3> QED  BY <1>3, <3>1
  <2> QED  BY <1>4, <2>1, <2>2, <2>3, <2>4, <2>5, <2>6 DEF Acts
<1> QED  BY <1>2, <1>4, NextActs DEF UpdateBankInfo, Earn, vars

\* The withdrawal of an approval under way stays paid, and only it is closed.
LEMMA ListedStep ==
    ASSUME TypeOK, PayingInv, PaidIsListed, [Next]_vars PROVE PayingInv' /\ PaidIsListed'
<1> DEFINE PaidWith(ids) ==
               \E w \in 1..Len(withdrawals) : withdrawals[w].status = "PAID" /\ withdrawals[w].ids = ids
           Listed(c) ==
               \E w \in 1..Len(withdrawals) : withdrawals[w].status = "PAID" /\ c \in withdrawals[w].ids
<1>1. \A ids : PaidWith(ids) => PaidWith(ids)'
  BY StaysPaid
<1>2. \A c : Listed(c) => Listed(c)'
  BY StaysPaid
<1>3. PayingInv'
  <2> SUFFICES ASSUME NEW q \in Procs, pc'[q] = "pay" PROVE PaidWith(job[q].ids)'
    BY DEF PayingInv
  <2>1. CASE pc'[q] = pc[q] /\ job'[q] = job[q]
    <3>1. PaidWith(job[q].ids)
      BY <2>1 DEF PayingInv
    <3>2. PaidWith(job[q].ids)'
      BY <1>1, <2>1, <3>1
    <3> QED  BY <3>2
  <2>2. CASE \E w \in 1..Len(withdrawals) : ApproveWithdraw(q, w)
    <3>1. PICK w \in 1..Len(withdrawals) : ApproveWithdraw(q, w)
      BY <2>2
    <3>2. /\ withdrawals' = [withdrawals EXCEPT ![w] = [withdrawals[w] EXCEPT !.status = "PAID"]]
          /\ At(q, "pay", [ids |-> withdrawals[w].ids, total |-> withdrawals[w].total])
      BY <3>1, Begins DEF ApproveWithdraw, Decide, Steps
    <3>3. withdrawals \in Seq(Withdrawals) /\ withdrawals[w] \in Withdrawals
      BY WithdrawalType DEF TypeOK
    <3>4. /\ [withdrawals[w] EXCEPT !.status = "PAID"].ids = withdrawals[w].ids
          /\ [withdrawals[w] EXCEPT !.status = "PAID"].status = "PAID"
      BY <3>3 DEF Withdrawals
    <3>5. /\ w \in 1..Len(withdrawals')
          /\ withdrawals'[w] = [withdrawals[w] EXCEPT !.status = "PAID"]
      BY <3>2, <3>3
    <3>6. job'[q].ids = withdrawals[w].ids
      BY <3>2 DEF At
    <3> QED  BY <3>4, <3>5, <3>6
  <2>3. ASSUME NEW p \in Procs, NEW l, NEW j, At(p, l, j), l # "pay" PROVE PaidWith(job[q].ids)'
    BY <2>1, <2>3 DEF At
  <2>4. ASSUME NEW p \in Procs, Acts(p) PROVE PaidWith(job[q].ids)'
    <3>1. ASSUME NEW w \in 1..Len(withdrawals), ApproveWithdraw(p, w) PROVE PaidWith(job[q].ids)'
      <4>1. At(p, "pay", [ids |-> withdrawals[w].ids, total |-> withdrawals[w].total])
        BY <3>1, Begins DEF ApproveWithdraw, Steps
      <4> QED  BY <2>1, <2>2, <3>1, <4>1 DEF At
    <3>2. ASSUME NEW w \in 1..Len(withdrawals), RejectWithdraw(p, w) PROVE PaidWith(job[q].ids)'
      <4>1. \E j : At(p, "return", j)
        BY <3>2, Begins DEF RejectWithdraw, Steps
      <4> QED  BY <2>3, <4>1
    <3>3. CASE \/ \E S \in SUBSET Commissions : Sweep(p, S)
               \/ \E c \in Commissions : Approve(p, c) \/ RequestWithdraw(p, c)
               \/ RequestWithdrawAll(p)
      BY <2>3, <3>3, Begins
    <3>4. CASE \/ Confirm(p) \/ Credit(p) \/ Crash(p) \/ Check(p) \/ List(p) \/ MarkAll(p) \/ Undo(p)
               \/ UndoAll(p) \/ Record(p) \/ Pay(p) \/ Return(p) \/ Repay(p) \/ Mark(p) \/ Debit(p)
      BY <2>3, <3>4, Goes
    <3> QED  BY <2>4, <3>1, <3>2, <3>3, <3>4 DEF Acts
  <2> QED  BY <2>1, <2>4, NextActs DEF UpdateBankInfo, Earn, vars
<1>4. PaidIsListed'
  <2> SUFFICES ASSUME NEW c \in Commissions, status'[c] = "PAID" PROVE Listed(c)'
    BY DEF PaidIsListed, Having
  <2>1. CASE status[c] = "PAID"
    BY <1>2, <2>1 DEF PaidIsListed, Having
  <2>2. CASE status[c] # "PAID"
    <3> USE DEF Statuses
    <3>1. PICK p \in Procs : Pay(p)
      BY <2>2, Changed, Unchanged DEF Changes, vars
    <3>3. c \in job[p].ids
      BY <2>2, <3>1, Changed
    <3>4. Listed(c)
      BY <3>1, <3>3 DEF PayingInv, Pay
    <3> QED  BY <1>2, <3>4
  <2> QED  BY <2>1, <2>2
<1> QED  BY <1>3, <1>4

-----------------------------------------------------------------------------
(* The affiliate balance is backed.                                        *)

\* The three sums of PayoutsBacked.
EarnedOf  == [c \in Commissions |-> Earned(c)]
TakenOf   == [w \in DOMAIN withdrawals |-> Taken(w)]
CarriedOf == [p \in Procs |-> Carried(p)]

EarnedSum  == SumFunctionOnSet(EarnedOf, Commissions)
TakenSum   == SumFunctionOnSet(TakenOf, DOMAIN withdrawals)
CarriedSum == SumFunctionOnSet(CarriedOf, Procs)

\* All of them are sums of natural numbers over finite sets.
SummandsTyped ==
    /\ \A c \in Commissions : EarnedOf[c] = Earned(c) /\ Earned(c) \in Nat
    /\ \A w \in DOMAIN withdrawals : TakenOf[w] = Taken(w) /\ Taken(w) \in Nat
    /\ \A p \in Procs : CarriedOf[p] = Carried(p) /\ Carried(p) \in Nat
    /\ IsFiniteSet(DOMAIN withdrawals)
    /\ EarnedSum \in Nat /\ TakenSum \in Nat /\ CarriedSum \in Nat

LEMMA SummandTypes == TypeOK => SummandsTyped
<1> SUFFICES ASSUME TypeOK PROVE SummandsTyped
  OBVIOUS
<1>1. \A c \in Commissions : EarnedOf[c] = Earned(c) /\ Earned(c) \in Nat
  BY PayoutsAssumption DEF EarnedOf, Earned
<1>2. ASSUME NEW w \in DOMAIN withdrawals
      PROVE  TakenOf[w] = Taken(w) /\ Taken(w) \in Nat
  <2>1. withdrawals \in Seq(Withdrawals)
    BY DEF TypeOK
  <2>2. withdrawals[w] \in Withdrawals
    BY <2>1
  <2> QED  BY <2>2 DEF TakenOf, Taken, Withdrawals
<1>3. \A p \in Procs : CarriedOf[p] = Carried(p) /\ Carried(p) \in Nat
  BY DEF CarriedOf, Carried, TypeOK
<1>4. IsFiniteSet(DOMAIN withdrawals)
  <2>1. Len(withdrawals) \in Nat /\ DOMAIN withdrawals = 1..Len(withdrawals)
    BY DEF TypeOK
  <2> QED  BY <2>1, FS_Interval
<1>5. EarnedSum \in Nat /\ TakenSum \in Nat /\ CarriedSum \in Nat
  BY <1>1, <1>2, <1>3, <1>4, SumNat, PayoutsAssumption DEF EarnedSum, TakenSum, CarriedSum
<1> QED  BY <1>1, <1>2, <1>3, <1>4, <1>5 DEF SummandsTyped

LEMMA SummandTypesNext == TypeOK' => SummandsTyped'
  BY SummandTypes, PTL

\* The sums are those of the property.
LEMMA BackedIs ==
    /\ Credited = EarnedSum /\ Credited' = EarnedSum'
    /\ Held = balance + TakenSum + CarriedSum /\ Held' = balance' + TakenSum' + CarriedSum'
  BY DEF Credited, Held, EarnedSum, TakenSum, CarriedSum, EarnedOf, TakenOf, CarriedOf

\* A step of one execution changes what it carries.
LEMMA CarriedStep ==
    ASSUME TypeOK, TypeOK', NEW p \in Procs, NEW l, NEW j, At(p, l, j)
    PROVE  CarriedSum' = CarriedSum - Carried(p) + Carried(p)'
<1>1. \A q \in Procs \ {p} : Carried(q)' = Carried(q)
  BY DEF At, Carried
<1>2. /\ \A q \in Procs : CarriedOf[q] = Carried(q) /\ Carried(q) \in Nat
      /\ \A q \in Procs : CarriedOf'[q] = Carried(q)' /\ Carried(q)' \in Nat
  BY SummandTypes, SummandTypesNext DEF SummandsTyped
<1>3. /\ IsFiniteSet(Procs) /\ CarriedOf'[p] \in Int
      /\ \A q \in Procs : CarriedOf[q] \in Int
      /\ \A q \in Procs \ {p} : CarriedOf'[q] = CarriedOf[q]
  BY <1>1, <1>2, PayoutsAssumption
<1>4. SumFunctionOnSet(CarriedOf', Procs)
          = SumFunctionOnSet(CarriedOf, Procs) - CarriedOf[p] + CarriedOf'[p]
  BY <1>3, SumChange
<1> QED  BY <1>2, <1>4 DEF CarriedSum

\* Commissions that stay credited, or not, keep their sum.
LEMMA EarnedStays ==
    ASSUME TypeOK, TypeOK',
           \A c \in Commissions : status[c] \in Worthy <=> status'[c] \in Worthy
    PROVE  EarnedSum' = EarnedSum
<1>1. \A c \in Commissions : EarnedOf[c] = EarnedOf'[c]
  BY DEF EarnedOf, Earned, Worthy
<1>2. IsFiniteSet(Commissions)
  BY PayoutsAssumption
<1>3. SumFunctionOnSet(EarnedOf, Commissions) = SumFunctionOnSet(EarnedOf', Commissions)
  BY <1>1, <1>2, SumSame
<1> QED  BY <1>3 DEF EarnedSum

\* One more is credited.
LEMMA EarnedOne ==
    ASSUME TypeOK, TypeOK', NEW c \in Commissions,
           status[c] \notin Worthy, status'[c] \in Worthy,
           \A d \in Commissions : status'[d] # status[d] => d = c
    PROVE  EarnedSum' = EarnedSum + Amount[c]
<1>1. Earned(c) = 0 /\ Earned(c)' = Amount[c] /\ \A d \in Commissions \ {c} : Earned(d)' = Earned(d)
  BY DEF Earned, Worthy
<1>2. /\ \A d \in Commissions : EarnedOf[d] = Earned(d) /\ Earned(d) \in Nat
      /\ \A d \in Commissions : EarnedOf'[d] = Earned(d)' /\ Earned(d)' \in Nat
      /\ EarnedSum \in Nat /\ EarnedSum' \in Nat
  BY SummandTypes, SummandTypesNext DEF SummandsTyped
<1> DEFINE f == EarnedOf
           e == EarnedOf'
<1>3. /\ IsFiniteSet(Commissions) /\ e[c] \in Int
      /\ \A d \in Commissions : f[d] \in Int
      /\ \A d \in Commissions \ {c} : e[d] = f[d]
  BY <1>1, <1>2, PayoutsAssumption
<1> HIDE DEF f, e
<1>4. SumFunctionOnSet(e, Commissions) = SumFunctionOnSet(f, Commissions) - f[c] + e[c]
  BY <1>3, SumChange
<1> USE DEF f, e
<1>5. EarnedOf[c] = 0 /\ EarnedOf'[c] = Amount[c]
  BY <1>1, <1>2
<1>6. EarnedSum' = EarnedSum - 0 + Amount[c]
  BY <1>4, <1>5 DEF EarnedSum
<1> QED  BY <1>2, <1>6, PayoutsAssumption

\* A withdrawal more, with what it takes.
LEMMA TakenMore ==
    ASSUME TypeOK, TypeOK', NEW v \in Withdrawals, withdrawals' = Append(withdrawals, v),
           v.status = "REQUESTED"
    PROVE  TakenSum' = TakenSum + v.total
<1>0. PICK n : n = Len(withdrawals) + 1
  OBVIOUS
<1>1. /\ withdrawals \in Seq(Withdrawals) /\ DOMAIN withdrawals' = DOMAIN withdrawals \cup {n}
      /\ n \notin DOMAIN withdrawals /\ withdrawals'[n] = v
      /\ \A w \in DOMAIN withdrawals : withdrawals'[w] = withdrawals[w]
  BY <1>0 DEF TypeOK
<1>2. Taken(n)' = v.total /\ \A w \in DOMAIN withdrawals : Taken(w)' = Taken(w)
  <2>1. Taken(n)' = v.total
    BY <1>1, Zenon DEF Taken
  <2>2. \A w \in DOMAIN withdrawals : Taken(w)' = Taken(w)
    BY <1>1, Zenon DEF Taken
  <2> QED  BY <2>1, <2>2
<1>3. /\ \A w \in DOMAIN withdrawals : TakenOf[w] = Taken(w) /\ Taken(w) \in Nat
      /\ \A w \in DOMAIN withdrawals' : TakenOf'[w] = Taken(w)' /\ Taken(w)' \in Nat
      /\ IsFiniteSet(DOMAIN withdrawals)
  BY SummandTypes, SummandTypesNext DEF SummandsTyped
<1>4. \A w \in DOMAIN withdrawals : TakenOf[w] \in Int /\ TakenOf'[w] = TakenOf[w]
  BY <1>1, <1>2, <1>3
<1>5. TakenOf'[n] = v.total /\ TakenOf'[n] \in Int
  <2>1. n \in DOMAIN withdrawals'
    BY <1>1
  <2>2. TakenOf'[n] = Taken(n)' /\ Taken(n)' \in Nat
    BY <1>3, <2>1, Zenon
  <2> QED  BY <1>2, <2>2
<1>6. SumFunctionOnSet(TakenOf', DOMAIN withdrawals \cup {n})
          = SumFunctionOnSet(TakenOf, DOMAIN withdrawals) + TakenOf'[n]
  BY <1>1, <1>3, <1>4, <1>5, SumMore
<1> QED  BY <1>1, <1>5, <1>6 DEF TakenSum

\* A change of one withdrawal changes what is taken by as much.
LEMMA TakenStep ==
    ASSUME TypeOK, TypeOK', NEW x \in DOMAIN withdrawals,
           DOMAIN withdrawals' = DOMAIN withdrawals,
           \A u \in DOMAIN withdrawals \ {x} : Taken(u)' = Taken(u)
    PROVE  TakenSum' = TakenSum - Taken(x) + Taken(x)'
<1> DEFINE dom == DOMAIN withdrawals
<1>1. /\ \A u \in dom : TakenOf[u] = Taken(u) /\ Taken(u) \in Nat
      /\ \A u \in dom : TakenOf'[u] = Taken(u)' /\ Taken(u)' \in Nat
      /\ IsFiniteSet(dom)
  BY SummandTypes, SummandTypesNext DEF SummandsTyped
<1>2. /\ x \in dom /\ TakenOf'[x] \in Int
      /\ \A u \in dom : TakenOf[u] \in Int
      /\ \A u \in dom \ {x} : TakenOf'[u] = TakenOf[u]
  BY <1>1
<1>3. TakenSum = SumFunctionOnSet(TakenOf, dom) /\ TakenSum' = SumFunctionOnSet(TakenOf', dom)
  BY DEF TakenSum
<1> HIDE DEF dom
<1>4. SumFunctionOnSet(TakenOf', dom) = SumFunctionOnSet(TakenOf, dom) - TakenOf[x] + TakenOf'[x]
  BY <1>1, <1>2, SumChange
<1> QED  BY <1>1, <1>2, <1>3, <1>4

\* A withdrawal that is decided: only a rejected one no longer takes anything.
LEMMA TakenDecides ==
    ASSUME TypeOK, TypeOK', NEW p \in Procs, NEW w \in 1..Len(withdrawals),
           NEW s \in {"PAID", "REJECTED"}, NEW l, Decide(p, w, s, l)
    PROVE  TakenSum' = TakenSum - (IF s = "REJECTED" THEN withdrawals[w].total ELSE 0)
<1>1. /\ withdrawals[w].status = "REQUESTED"
      /\ withdrawals' = [withdrawals EXCEPT ![w] = [withdrawals[w] EXCEPT !.status = s]]
  BY DEF Decide
<1>2. withdrawals \in Seq(Withdrawals) /\ withdrawals[w] \in Withdrawals /\ w \in DOMAIN withdrawals
  BY WithdrawalType DEF TypeOK
<1> DEFINE v == [withdrawals[w] EXCEPT !.status = s]
<1>3. v.status = s /\ v.total = withdrawals[w].total /\ withdrawals[w].total \in Nat
  BY <1>2 DEF Withdrawals
<1> HIDE DEF v
<1>4. /\ DOMAIN withdrawals' = DOMAIN withdrawals /\ withdrawals'[w] = v
      /\ \A u \in DOMAIN withdrawals \ {w} : withdrawals'[u] = withdrawals[u]
  BY <1>1, <1>2 DEF v
<1>5. /\ Taken(w) = withdrawals[w].total
      /\ Taken(w)' = IF s = "REJECTED" THEN 0 ELSE withdrawals[w].total
      /\ \A u \in DOMAIN withdrawals \ {w} : Taken(u)' = Taken(u)
  BY <1>1, <1>3, <1>4 DEF Taken
<1>6. TakenSum \in Nat
  BY SummandTypes DEF SummandsTyped
<1>9. TakenSum' = TakenSum - withdrawals[w].total + Taken(w)'
  BY <1>2, <1>4, <1>5, TakenStep
<1>10. CASE s = "REJECTED"
  BY <1>3, <1>5, <1>6, <1>9, <1>10
<1>11. CASE s # "REJECTED"
  BY <1>3, <1>5, <1>6, <1>9, <1>11
<1> QED  BY <1>10, <1>11

\* What is held and what was credited change alike, except that a death may lose some.
LEMMA BackedWhen ==
    ASSUME TypeOK, TypeOK', PayoutsBacked,
           \/ /\ crashes' = crashes
              /\ (balance' - balance) + (TakenSum' - TakenSum) + (CarriedSum' - CarriedSum)
                     = EarnedSum' - EarnedSum
           \/ /\ crashes' # 0 /\ balance' = balance /\ TakenSum' = TakenSum
              /\ CarriedSum' <= CarriedSum /\ EarnedSum' = EarnedSum
    PROVE  PayoutsBacked'
<1>1. /\ EarnedSum \in Nat /\ TakenSum \in Nat /\ CarriedSum \in Nat /\ balance \in Nat
      /\ EarnedSum' \in Nat /\ TakenSum' \in Nat /\ CarriedSum' \in Nat /\ balance' \in Nat
  BY SummandTypes, SummandTypesNext DEF SummandsTyped, TypeOK
<1>2. /\ balance + TakenSum + CarriedSum <= EarnedSum
      /\ crashes = 0 => balance + TakenSum + CarriedSum = EarnedSum
  BY BackedIs DEF PayoutsBacked
<1> DEFINE held == balance + TakenSum + CarriedSum
<1>3. held' <= EarnedSum' /\ (crashes' = 0 => held' = EarnedSum')
  <2>1. CASE /\ crashes' = crashes
             /\ (balance' - balance) + (TakenSum' - TakenSum) + (CarriedSum' - CarriedSum)
                    = EarnedSum' - EarnedSum
    <3>1. held' - held = EarnedSum' - EarnedSum /\ held \in Int /\ held' \in Int
      BY <1>1, <2>1
    <3> HIDE DEF held
    <3>2. held <= EarnedSum => held' <= EarnedSum'
      BY <1>1, <3>1
    <3>3. held = EarnedSum => held' = EarnedSum'
      BY <1>1, <3>1
    <3> QED  BY <1>2, <2>1, <3>2, <3>3 DEF held
  <2>2. CASE /\ crashes' # 0 /\ balance' = balance /\ TakenSum' = TakenSum
             /\ CarriedSum' <= CarriedSum /\ EarnedSum' = EarnedSum
    <3>1. ASSUME NEW b \in Nat, NEW t \in Nat, NEW c \in Nat, NEW d \in Nat, NEW e \in Nat,
                 b + t + c <= e, d <= c
          PROVE  b + t + d <= e
      BY <3>1
    <3>2. CarriedSum' <= CarriedSum /\ balance' = balance /\ TakenSum' = TakenSum
      BY <2>2
    <3>3. held' <= EarnedSum'
      <4>1. balance + TakenSum + CarriedSum' <= EarnedSum
        BY <1>1, <1>2, <3>1, <3>2
      <4> QED  BY <2>2, <4>1
    <3> QED  BY <2>2, <3>3
  <2> QED  BY <2>1, <2>2
<1> QED  BY <1>3, BackedIs DEF PayoutsBacked

\* What an execution carries at each label.
LEMMA CarriedAt ==
    ASSUME NEW p \in Procs, NEW l, NEW j, At(p, l, j)
    PROVE  Carried(p)' = IF l \in {"credit", "record", "return", "repay"} THEN j.total ELSE 0
  BY DEF At, Carried

\* What is held stays backed.
LEMMA BackedStep ==
    ASSUME TypeOK, OursInv, PayoutsBacked, [Next]_vars PROVE PayoutsBacked'
<1>0. /\ TypeOK' /\ balance \in Nat
      /\ EarnedSum \in Nat /\ TakenSum \in Nat /\ CarriedSum \in Nat
  BY PayTypes, SummandTypes DEF SummandsTyped, TypeOK
<1>1. ASSUME withdrawals' = withdrawals PROVE TakenSum' = TakenSum
  BY <1>1 DEF TakenSum, TakenOf, Taken
<1>2. ASSUME pc' = pc, job' = job PROVE CarriedSum' = CarriedSum
  BY <1>2 DEF CarriedSum, CarriedOf, Carried
<1>3. ASSUME status' = status PROVE EarnedSum' = EarnedSum
  BY <1>0, <1>3, EarnedStays
<1>4. ASSUME NEW s, NEW t, Changes(s, t), s \in Worthy <=> t \in Worthy PROVE EarnedSum' = EarnedSum
  BY <1>0, <1>4, EarnedStays DEF Changes
<1>5. CASE UNCHANGED vars \/ UpdateBankInfo
  BY <1>0, <1>1, <1>2, <1>3, <1>5, BackedWhen DEF vars, UpdateBankInfo
<1>6. ASSUME NEW c \in Commissions, Earn(c) PROVE PayoutsBacked'
  <2>1. EarnedSum' = EarnedSum
    BY <1>4, <1>6, Changed DEF Worthy
  <2> QED  BY <1>0, <1>1, <1>2, <1>6, <2>1, BackedWhen DEF Earn
<1>7. ASSUME NEW p \in Procs, Acts(p) PROVE PayoutsBacked'
  <2>0. Carried(p) \in Nat /\ job[p].total \in Nat /\ job[p] \in Jobs
    BY SummandTypes DEF SummandsTyped, TypeOK, Jobs
  <2>1. ASSUME NEW l, NEW j, At(p, l, j), l \notin {"credit", "record", "return", "repay"},
               pc[p] \notin {"credit", "record", "return", "repay"}
        PROVE  CarriedSum' = CarriedSum
    <3>1. Carried(p) = 0 /\ Carried(p)' = 0
      BY <2>1, CarriedAt DEF Carried
    <3>2. CarriedSum' = CarriedSum - 0 + 0
      BY <1>0, <2>1, <3>1, CarriedStep
    <3> QED  BY <1>0, <3>2
  <2>2. ASSUME NEW l, NEW j, At(p, l, j), l \in {"credit", "record", "return", "repay"},
               pc[p] \notin {"credit", "record", "return", "repay"}
        PROVE  CarriedSum' = CarriedSum + j.total
    <3>1. Carried(p) = 0 /\ Carried(p)' = j.total
      BY <2>2, CarriedAt DEF Carried
    <3>2. CarriedSum' = CarriedSum - 0 + j.total
      BY <1>0, <2>2, <3>1, CarriedStep
    <3> QED  BY <1>0, <3>2
  <2>3. ASSUME NEW l, NEW j, At(p, l, j), l \notin {"credit", "record", "return", "repay"},
               pc[p] \in {"credit", "record", "return", "repay"}
        PROVE  CarriedSum' = CarriedSum - job[p].total
    <3>1. Carried(p) = job[p].total /\ Carried(p)' = 0
      BY <2>3, CarriedAt DEF Carried
    <3>2. CarriedSum' = CarriedSum - job[p].total + 0
      BY <1>0, <2>3, <3>1, CarriedStep
    <3> QED  BY <1>0, <2>0, <3>2
  <2>4. ASSUME NEW S \in SUBSET Commissions, Sweep(p, S) PROVE PayoutsBacked'
    <3>1. \E j : At(p, "confirm", j) /\ pc[p] = "idle"
      BY <2>4, Begins
    <3>2. CarriedSum' = CarriedSum
      BY <2>1, <3>1
    <3> QED  BY <1>0, <1>1, <1>3, <2>4, <3>2, BackedWhen DEF Sweep
  <2>5. ASSUME NEW c \in Commissions, Approve(p, c) PROVE PayoutsBacked'
    <3>1. At(p, "credit", [ids |-> {c}, total |-> Amount[c]]) /\ pc[p] = "idle"
      BY <2>5, Begins
    <3>2. CarriedSum' = CarriedSum + Amount[c]
      BY <2>2, <3>1
    <3>3. EarnedSum' = EarnedSum + Amount[c]
      BY <1>0, <2>5, Changed, EarnedOne DEF Worthy
    <3>4. Amount[c] \in Nat
      BY PayoutsAssumption
    <3>5. balance' = balance /\ TakenSum' = TakenSum /\ crashes' = crashes
      BY <1>1, <2>5 DEF Approve
    <3> QED  BY <1>0, <3>2, <3>3, <3>4, <3>5, BackedWhen
  <2>6. ASSUME NEW c \in Commissions, RequestWithdraw(p, c) PROVE PayoutsBacked'
    <3>1. \E j : At(p, "mark", j) /\ pc[p] = "idle"
      BY <2>6, Begins
    <3>2. CarriedSum' = CarriedSum
      BY <2>1, <3>1
    <3> QED  BY <1>0, <1>1, <1>3, <2>6, <3>2, BackedWhen DEF RequestWithdraw
  <2>7. CASE RequestWithdrawAll(p)
    <3>1. CarriedSum' = CarriedSum
      BY <2>1, <2>7, Begins
    <3> QED  BY <1>0, <1>1, <1>3, <2>7, <3>1, BackedWhen DEF RequestWithdrawAll
  <2>8. CASE Confirm(p) \/ Mark(p) \/ MarkAll(p) \/ UndoAll(p) \/ Pay(p)
    <3>1. \E l \in {"idle", "debit", "debitAll"} : \E j : At(p, l, j)
      BY <2>8, Goes
    <3>2. pc[p] \in {"confirm", "mark", "markAll", "undoAll", "pay"}
      BY <2>8 DEF Confirm, Mark, MarkAll, UndoAll, Pay
    <3>3. CarriedSum' = CarriedSum
      BY <2>1, <3>1, <3>2
    <3>4. EarnedSum' = EarnedSum
      BY <1>4, <2>8, Changed DEF Worthy
    <3>5. balance' = balance /\ withdrawals' = withdrawals /\ crashes' = crashes
      BY <2>8 DEF Confirm, Mark, MarkAll, UndoAll, Pay
    <3> QED  BY <1>0, <1>1, <3>3, <3>4, <3>5, BackedWhen
  <2>9. CASE Undo(p)
    <3>1. CarriedSum' = CarriedSum
      BY <2>1, <2>9, Goes DEF Undo
    <3>2. \A c \in Commissions : status'[c] # status[c] => status[c] \in Worthy /\ status'[c] \in Worthy
      BY <2>9, Changed DEF OursInv, Undo, Worthy
    <3>3. EarnedSum' = EarnedSum
      BY <1>0, <3>2, EarnedStays
    <3> QED  BY <1>0, <1>1, <2>9, <3>1, <3>3, BackedWhen DEF Undo
  <2>10. CASE Check(p) \/ List(p)
    <3>1. \E l \in {"idle", "list", "markAll"} : \E j : At(p, l, j)
      BY <2>10, Goes
    <3>2. pc[p] \in {"check", "list"}
      BY <2>10 DEF Check, List
    <3>3. CarriedSum' = CarriedSum
      BY <2>1, <3>1, <3>2
    <3>4. status' = status /\ balance' = balance /\ withdrawals' = withdrawals /\ crashes' = crashes
      BY <2>10 DEF Check, List
    <3> QED  BY <1>0, <1>1, <1>3, <3>3, <3>4, BackedWhen
  <2>11. CASE Credit(p) \/ Repay(p)
    <3>1. At(p, "idle", NoJob) /\ pc[p] \in {"credit", "repay"}
      BY <2>11, Goes DEF Credit, Repay
    <3>2. CarriedSum' = CarriedSum - job[p].total
      BY <2>3, <3>1
    <3>3. /\ balance' = balance + job[p].total
          /\ status' = status /\ withdrawals' = withdrawals /\ crashes' = crashes
      BY <2>11 DEF Credit, Repay
    <3>4. TakenSum' = TakenSum /\ EarnedSum' = EarnedSum
      BY <1>1, <1>3, <3>3
    <3> QED  BY <1>0, <2>0, <3>2, <3>3, <3>4, BackedWhen
  <2>12. CASE Debit(p)
    <3>1. /\ pc[p] \in {"debit", "debitAll"}
          /\ status' = status /\ withdrawals' = withdrawals /\ crashes' = crashes
      BY <2>12 DEF Debit
    <3>2. TakenSum' = TakenSum /\ EarnedSum' = EarnedSum
      BY <1>1, <1>3, <3>1
    <3>3. CASE At(p, "record", job[p]) /\ balance' = balance - job[p].total
      <4>1. CarriedSum' = CarriedSum + job[p].total
        BY <2>2, <3>1, <3>3
      <4> QED  BY <1>0, <2>0, <3>1, <3>2, <3>3, <4>1, BackedWhen
    <3>4. CASE (At(p, "undo", job[p]) \/ At(p, "undoAll", job[p])) /\ balance' = balance
      <4>1. CarriedSum' = CarriedSum
        BY <2>1, <3>1, <3>4
      <4> QED  BY <1>0, <3>1, <3>2, <3>4, <4>1, BackedWhen
    <3> QED  BY <2>12, <3>3, <3>4, Goes
  <2>13. CASE Record(p)
    <3> DEFINE v == [ids |-> job[p].ids, total |-> job[p].total, status |-> "REQUESTED"]
    <3>1. At(p, "idle", NoJob) /\ pc[p] = "record"
      BY <2>13, Goes DEF Record
    <3>2. CarriedSum' = CarriedSum - job[p].total
      BY <2>3, <3>1
    <3>3. v \in Withdrawals /\ v.total = job[p].total /\ v.status = "REQUESTED"
      BY <2>0 DEF Jobs, Withdrawals
    <3>4. /\ withdrawals' = Append(withdrawals, v)
          /\ status' = status /\ balance' = balance /\ crashes' = crashes
      BY <2>13 DEF Record
    <3> HIDE DEF v
    <3>5. TakenSum' = TakenSum + job[p].total
      BY <1>0, <3>3, <3>4, TakenMore
    <3>6. EarnedSum' = EarnedSum
      BY <1>3, <3>4
    <3> QED  BY <1>0, <2>0, <3>2, <3>4, <3>5, <3>6, BackedWhen
  <2>14. ASSUME NEW w \in 1..Len(withdrawals), ApproveWithdraw(p, w) PROVE PayoutsBacked'
    <3>1. Decide(p, w, "PAID", "pay")
      BY <2>14 DEF ApproveWithdraw
    <3>2. \E j : At(p, "pay", j) /\ pc[p] = "idle"
      BY <3>1, Begins DEF Steps
    <3>3. CarriedSum' = CarriedSum
      BY <2>1, <3>2
    <3>4. TakenSum' = TakenSum - 0
      BY <1>0, <3>1, TakenDecides
    <3>5. status' = status /\ balance' = balance /\ crashes' = crashes
      BY <3>1 DEF Decide
    <3> QED  BY <1>0, <1>3, <3>3, <3>4, <3>5, BackedWhen
  <2>15. ASSUME NEW w \in 1..Len(withdrawals), RejectWithdraw(p, w) PROVE PayoutsBacked'
    <3>1. Decide(p, w, "REJECTED", "return")
      BY <2>15 DEF RejectWithdraw
    <3> DEFINE j == [ids |-> withdrawals[w].ids, total |-> withdrawals[w].total]
    <3>2. At(p, "return", j) /\ pc[p] = "idle" /\ j.total = withdrawals[w].total
      BY <3>1, Begins DEF Steps
    <3> HIDE DEF j
    <3>3. CarriedSum' = CarriedSum + withdrawals[w].total
      BY <2>2, <3>2
    <3>4. TakenSum' = TakenSum - withdrawals[w].total
      BY <1>0, <3>1, TakenDecides
    <3>5. status' = status /\ balance' = balance /\ crashes' = crashes
      BY <3>1 DEF Decide
    <3>6. withdrawals[w].total \in Nat
      BY WithdrawalType DEF Withdrawals
    <3> QED  BY <1>0, <1>3, <3>3, <3>4, <3>5, <3>6, BackedWhen
  <2>16. CASE Return(p)
    <3>1. At(p, "repay", job[p]) /\ pc[p] = "return"
      BY <2>16, Goes DEF Return
    <3>2. Carried(p) = job[p].total /\ Carried(p)' = job[p].total
      BY <3>1, CarriedAt DEF Carried
    <3>3. CarriedSum' = CarriedSum - job[p].total + job[p].total
      BY <1>0, <3>1, <3>2, CarriedStep
    <3>4. EarnedSum' = EarnedSum
      BY <1>4, <2>16, Changed DEF Worthy
    <3>5. balance' = balance /\ withdrawals' = withdrawals /\ crashes' = crashes
      BY <2>16 DEF Return
    <3> QED  BY <1>0, <1>1, <2>0, <3>3, <3>4, <3>5, BackedWhen
  <2>17. CASE Crash(p)
    <3>1. At(p, "idle", NoJob)
      BY <2>17, Goes
    <3>2. Carried(p)' = 0
      BY <3>1, CarriedAt
    <3>3. CarriedSum' = CarriedSum - Carried(p) + 0
      BY <1>0, <3>1, <3>2, CarriedStep
    <3>4. CarriedSum' <= CarriedSum
      BY <1>0, <2>0, <3>3
    <3>5. /\ status' = status /\ balance' = balance /\ withdrawals' = withdrawals
          /\ crashes' = crashes + 1 /\ crashes \in Nat
      BY <2>17, PayoutsAssumption DEF Crash, TypeOK
    <3>6. crashes' # 0
      BY <3>5
    <3> QED  BY <1>0, <1>1, <1>3, <3>4, <3>5, <3>6, BackedWhen
  <2> QED  BY <1>7, <2>4, <2>5, <2>6, <2>7, <2>8, <2>9, <2>10, <2>11, <2>12, <2>13, <2>14, <2>15,
              <2>16, <2>17 DEF Acts
<1> QED  BY <1>5, <1>6, <1>7, NextActs

\* The invariant holds at the start.
LEMMA PayInit == ASSUME Init PROVE PayInv
<1>1. TypeOK
  BY PayoutsAssumption DEF Init, TypeOK, Statuses, Steps, NoJob
<1>2. OursInv /\ PayingInv
  BY DEF Init, OursInv, PayingInv
<1>3. PaidIsListed
  BY DEF Init, PaidIsListed, Having
<1>4. \A c \in Commissions : EarnedOf[c] = 0
  BY DEF Init, EarnedOf, Earned
<1>5. \A p \in Procs : CarriedOf[p] = 0
  BY DEF Init, CarriedOf, Carried
<1>6. DOMAIN withdrawals = {} /\ balance = 0
  BY DEF Init
<1>7. EarnedSum = 0 /\ CarriedSum = 0
  BY <1>4, <1>5, SumZero, PayoutsAssumption DEF EarnedSum, CarriedSum
<1>8. TakenSum = 0
  <2>1. IsFiniteSet(DOMAIN withdrawals) /\ \A w \in DOMAIN withdrawals : TakenOf[w] = 0
    BY <1>1, <1>6, SummandTypes DEF SummandsTyped
  <2> QED  BY <2>1, SumZero DEF TakenSum
<1>9. PayoutsBacked
  BY <1>1, <1>6, <1>7, <1>8, BackedIs DEF PayoutsBacked
<1> QED  BY <1>1, <1>2, <1>3, <1>9 DEF PayInv

\* Every step keeps it.
LEMMA PayStep == ASSUME PayInv, [Next]_vars PROVE PayInv'
  BY PayTypes, OursStep, ListedStep, BackedStep DEF PayInv

\* Money leaves once, whichever way the requests for it cross.
THEOREM WithdrawalsAreBacked == Spec => []WithdrawalsBacked
<1>1. Init => PayInv
  BY PayInit
<1>2. PayInv /\ [Next]_vars => PayInv'
  BY PayStep
<1>3. PayInv => WithdrawalsBacked
  BY DEF PayInv, WithdrawalsBacked
<1> QED  BY <1>1, <1>2, <1>3, PTL DEF Spec

-----------------------------------------------------------------------------
(* The wallet: what a step does to a request and to the orders.            *)

\* What PurchaseAssumption says of the numbers and the names.
LEMMA ShopNumbers ==
    /\ IsFiniteSet(Procs) /\ Shop!None \notin Procs /\ Shop!NoKey \notin Keys
    /\ Price \in Nat /\ StartMoney \in Nat
<1>1. /\ IsFiniteSet(Procs) /\ Shop!None \notin Procs /\ Shop!NoKey \notin Keys
      /\ {Price, StartMoney, MaxRequests, MaxOrders, MaxTroubles} \subseteq Nat
  BY ShopAssumption, PayoutsAssumption DEF Shop!PurchaseAssumption
<1> QED  BY <1>1

\* The library's operators are the same when they are reached through Shop.
LEMMA SumAsHere == ASSUME NEW f, NEW S PROVE Shop!SumFunctionOnSet(f, S) = SumFunctionOnSet(f, S)
  BY Zenon DEF Shop!SumFunctionOnSet, SumFunctionOnSet, Shop!FoldFunctionOnSet, FoldFunctionOnSet,
               Shop!MapThenFoldSet, MapThenFoldSet

LEMMA SizeAsHere == ASSUME NEW S PROVE Shop!Cardinality(S) = Cardinality(S)
  BY DEF Shop!Cardinality, Cardinality

\* Request p goes to label l with j in hand, and the others stay where they are.
ShopAt(p, l, j) ==
    /\ step' \in [Procs -> Shop!Labels] /\ request' \in [Procs -> Requests]
    /\ step'[p] = l /\ request'[p] = j
    /\ \A q \in Procs \ {p} : step'[q] = step[q] /\ request'[q] = request[q]

\* It ends.
Ends(p) == ShopAt(p, "idle", Shop!Idle)

\* It ends, by way of its lock if it has a key.
Leaves(p) == Ends(p) \/ (request[p].key # Shop!NoKey /\ ShopAt(p, "unlock", request[p]))

LEMMA IdleRequest == Shop!Idle \in Requests /\ Shop!Idle.key = Shop!NoKey /\ ~Shop!Idle.ok
  BY DEF Shop!Idle, Requests, Shop!None

LEMMA ShopGoto ==
    ASSUME Shop!TypeOK, HandInv, NEW p \in Procs, NEW l \in Shop!Labels, NEW j \in Requests,
           Shop!Goto(p, l, j)
    PROVE  ShopAt(p, l, j)
  BY DEF Shop!TypeOK, HandInv, Shop!Goto, ShopAt

LEMMA ShopFinish ==
    ASSUME Shop!TypeOK, HandInv, NEW p \in Procs, Shop!Finish(p) PROVE Ends(p)
  BY IdleRequest, ShopGoto DEF Shop!Finish, Ends, Shop!Labels

LEMMA ShopLeave ==
    ASSUME Shop!TypeOK, HandInv, NEW p \in Procs, Shop!Leave(p, request[p]) PROVE Leaves(p)
<1>1. request[p] \in Requests
  BY DEF HandInv
<1>2. CASE request[p].key = Shop!NoKey
  BY <1>2, ShopFinish DEF Shop!Leave, Leaves
<1>3. CASE request[p].key # Shop!NoKey
  BY <1>1, <1>3, ShopGoto DEF Shop!Leave, Leaves, Shop!Labels
<1> QED  BY <1>2, <1>3

LEMMA ShopAnswered ==
    ASSUME Shop!TypeOK, HandInv, NEW p \in Procs, NEW j \in Requests, Shop!Answered(p, j)
    PROVE  Ends(p) \/ ShopAt(p, "poll", j)
<1>1. CASE j.sync
  BY <1>1, ShopGoto DEF Shop!Answered, Shop!Labels
<1>2. CASE ~j.sync
  BY <1>2, ShopFinish DEF Shop!Answered
<1> QED  BY <1>1, <1>2

\* Where each step of a request goes.
LEMMA ShopGoes ==
    ASSUME Shop!TypeOK, HandInv, NEW p \in Procs
    PROVE  /\ \A k \in Keys \cup {Shop!NoKey}, sync \in BOOLEAN :
                 Shop!BuyStart(p, k, sync) =>
                     /\ step[p] = "idle"
                     /\ ShopAt(p, IF k = Shop!NoKey THEN "validate" ELSE "prior",
                               [Shop!Idle EXCEPT !.key = k, !.sync = sync])
           /\ Shop!BuyPrior(p) =>
                 step[p] = "prior" /\ (Ends(p) \/ ShopAt(p, "cached", request[p]))
           /\ Shop!BuyCached(p) =>
                 /\ step[p] = "cached"
                 /\ \/ cache[request[p].key].is = "none" /\ ShopAt(p, "lock", request[p])
                    \/ Ends(p)
                    \/ /\ cache[request[p].key].is = "order"
                       /\ ShopAt(p, "poll",
                                 [request[p] EXCEPT !.order = cache[request[p].key].order])
           /\ Shop!BuyLock(p) =>
                 /\ step[p] = "lock"
                 /\ \/ Ends(p) /\ lock' = lock
                    \/ /\ lock[request[p].key] = Shop!None
                       /\ lock' = [lock EXCEPT ![request[p].key] = p]
                       /\ ShopAt(p, "validate", request[p])
           /\ Shop!BuyValidate(p) =>
                 step[p] = "validate" /\ (ShopAt(p, "debit", request[p]) \/ Leaves(p))
           /\ Shop!BuyDebit(p) =>
                 /\ step[p] = "debit"
                 /\ \/ money' = money /\ Leaves(p)
                    \/ ~(money < Price) /\ money' = money - Price /\ ShopAt(p, "save", request[p])
           /\ Shop!BuySave(p) =>
                 /\ step[p] = "save"
                 /\ ShopAt(p, "push", [request[p] EXCEPT !.order = Len(orders) + 1])
           /\ Shop!BuySaveFails(p) => step[p] = "save" /\ Leaves(p)
           /\ Shop!BuyPush(p) =>
                 /\ step[p] = "push"
                 /\ \/ request[p].key = Shop!NoKey /\ (Ends(p) \/ ShopAt(p, "poll", request[p]))
                    \/ request[p].key # Shop!NoKey /\ ShopAt(p, "keep", request[p])
           /\ Shop!BuyPushFails(p) =>
                 /\ step[p] = "push"
                 /\ Ends(p) \/ (request[p].key # Shop!NoKey /\ ShopAt(p, "error", request[p]))
           /\ Shop!BuyKeep(p) =>
                 step[p] = "keep" /\ ShopAt(p, "unlock", [request[p] EXCEPT !.ok = TRUE])
           /\ Shop!BuyKeepFails(p) => step[p] = "keep" /\ ShopAt(p, "error", request[p])
           /\ Shop!BuyError(p) \/ Shop!BuyErrorFails(p) =>
                 step[p] = "error" /\ ShopAt(p, "unlock", request[p])
           /\ Shop!BuyUnlock(p) =>
                 /\ step[p] = "unlock"
                 /\ Ends(p) \/ (request[p].ok /\ ShopAt(p, "poll", request[p]))
           /\ Shop!PollAnswer(p) \/ Shop!PollTimeout(p) => step[p] = "poll" /\ Ends(p)
           /\ Shop!Abort(p) => Ends(p)
<1>0. request[p] \in Requests
  BY DEF HandInv
<1>1. ASSUME NEW k \in Keys \cup {Shop!NoKey}, NEW sync \in BOOLEAN, Shop!BuyStart(p, k, sync)
      PROVE  /\ step[p] = "idle"
             /\ ShopAt(p, IF k = Shop!NoKey THEN "validate" ELSE "prior",
                       [Shop!Idle EXCEPT !.key = k, !.sync = sync])
  <2> DEFINE j == [Shop!Idle EXCEPT !.key = k, !.sync = sync]
             l == IF k = Shop!NoKey THEN "validate" ELSE "prior"
  <2>1. j \in Requests
    BY DEF Shop!Idle, Requests
  <2>2. l \in Shop!Labels
    BY DEF Shop!Labels
  <2>3. step[p] = "idle" /\ Shop!Goto(p, l, j)
    BY <1>1 DEF Shop!BuyStart
  <2> HIDE DEF j, l
  <2>4. ShopAt(p, l, j)
    BY <2>1, <2>2, <2>3, ShopGoto
  <2> QED  BY <2>3, <2>4 DEF j, l
<1>2. Shop!BuyPrior(p) => step[p] = "prior" /\ (Ends(p) \/ ShopAt(p, "cached", request[p]))
  BY <1>0, ShopFinish, ShopGoto DEF Shop!BuyPrior, Shop!Labels
<1>3. ASSUME Shop!BuyCached(p)
      PROVE  /\ step[p] = "cached"
             /\ \/ cache[request[p].key].is = "none" /\ ShopAt(p, "lock", request[p])
                \/ Ends(p)
                \/ /\ cache[request[p].key].is = "order"
                   /\ ShopAt(p, "poll", [request[p] EXCEPT !.order = cache[request[p].key].order])
  <2> DEFINE j == [request[p] EXCEPT !.order = cache[request[p].key].order]
  <2>1. /\ step[p] = "cached"
        /\ \/ cache[request[p].key].is = "none" /\ Shop!Goto(p, "lock", request[p])
           \/ cache[request[p].key].is = "error" /\ Shop!Finish(p)
           \/ cache[request[p].key].is = "order" /\ Shop!Answered(p, j)
    BY <1>3 DEF Shop!BuyCached
  <2>2. CASE cache[request[p].key].is = "order" /\ Shop!Answered(p, j)
    <3>1. request[p].key \in Keys
      BY <2>1 DEF HandInv, HandAt
    <3>2. /\ cache[request[p].key].order \in DOMAIN orders \cup {Shop!None}
          /\ DOMAIN orders \subseteq Nat
      BY <3>1 DEF Shop!TypeOK
    <3>3. j \in Requests
      BY <1>0, <3>2 DEF Requests
    <3> HIDE DEF j
    <3>4. Ends(p) \/ ShopAt(p, "poll", j)
      BY <2>2, <3>3, ShopAnswered
    <3> QED  BY <2>1, <2>2, <3>4 DEF j
  <2>3. CASE cache[request[p].key].is = "none" /\ Shop!Goto(p, "lock", request[p])
    BY <1>0, <2>1, <2>3, ShopGoto DEF Shop!Labels
  <2>4. CASE Shop!Finish(p)
    BY <2>1, <2>4, ShopFinish
  <2> QED  BY <2>1, <2>2, <2>3, <2>4
<1>4. Shop!BuyLock(p) =>
          /\ step[p] = "lock"
          /\ \/ Ends(p) /\ lock' = lock
             \/ /\ lock[request[p].key] = Shop!None
                /\ lock' = [lock EXCEPT ![request[p].key] = p]
                /\ ShopAt(p, "validate", request[p])
  BY <1>0, ShopFinish, ShopGoto DEF Shop!BuyLock, Shop!Labels
<1>5. Shop!BuyValidate(p) =>
          step[p] = "validate" /\ (ShopAt(p, "debit", request[p]) \/ Leaves(p))
  BY <1>0, ShopLeave, ShopGoto DEF Shop!BuyValidate, Shop!Labels
<1>6. Shop!BuyDebit(p) =>
          /\ step[p] = "debit"
          /\ \/ money' = money /\ Leaves(p)
             \/ ~(money < Price) /\ money' = money - Price /\ ShopAt(p, "save", request[p])
  BY <1>0, ShopLeave, ShopGoto DEF Shop!BuyDebit, Shop!Labels
<1>7. ASSUME Shop!BuySave(p)
      PROVE  step[p] = "save" /\ ShopAt(p, "push", [request[p] EXCEPT !.order = Len(orders) + 1])
  <2> DEFINE j == [request[p] EXCEPT !.order = Len(orders) + 1]
  <2>1. step[p] = "save" /\ Shop!Goto(p, "push", j)
    BY <1>7 DEF Shop!BuySave
  <2>2. Len(orders) + 1 \in Nat
    BY DEF Shop!TypeOK
  <2>3. j \in Requests
    BY <1>0, <2>2 DEF Requests
  <2> HIDE DEF j
  <2>4. ShopAt(p, "push", j)
    BY <2>1, <2>3, ShopGoto DEF Shop!Labels
  <2> QED  BY <2>1, <2>4 DEF j
<1>8. Shop!BuySaveFails(p) => step[p] = "save" /\ Leaves(p)
  BY ShopLeave DEF Shop!BuySaveFails
<1>9. Shop!BuyPush(p) =>
          /\ step[p] = "push"
          /\ \/ request[p].key = Shop!NoKey /\ (Ends(p) \/ ShopAt(p, "poll", request[p]))
             \/ request[p].key # Shop!NoKey /\ ShopAt(p, "keep", request[p])
  BY <1>0, ShopAnswered, ShopGoto DEF Shop!BuyPush, Shop!Labels
<1>10. Shop!BuyPushFails(p) =>
          /\ step[p] = "push"
          /\ Ends(p) \/ (request[p].key # Shop!NoKey /\ ShopAt(p, "error", request[p]))
  BY <1>0, ShopFinish, ShopGoto DEF Shop!BuyPushFails, Shop!Labels
<1>11. ASSUME Shop!BuyKeep(p)
       PROVE  step[p] = "keep" /\ ShopAt(p, "unlock", [request[p] EXCEPT !.ok = TRUE])
  <2> DEFINE j == [request[p] EXCEPT !.ok = TRUE]
  <2>1. step[p] = "keep" /\ Shop!Goto(p, "unlock", j)
    BY <1>11 DEF Shop!BuyKeep
  <2>2. j \in Requests
    BY <1>0 DEF Requests
  <2> HIDE DEF j
  <2>3. ShopAt(p, "unlock", j)
    BY <2>1, <2>2, ShopGoto DEF Shop!Labels
  <2> QED  BY <2>1, <2>3 DEF j
<1>12. Shop!BuyKeepFails(p) => step[p] = "keep" /\ ShopAt(p, "error", request[p])
  BY <1>0, ShopGoto DEF Shop!BuyKeepFails, Shop!Labels
<1>13. Shop!BuyError(p) \/ Shop!BuyErrorFails(p) =>
           step[p] = "error" /\ ShopAt(p, "unlock", request[p])
  BY <1>0, ShopGoto DEF Shop!BuyError, Shop!BuyErrorFails, Shop!Labels
<1>14. ASSUME Shop!BuyUnlock(p)
       PROVE  step[p] = "unlock" /\ (Ends(p) \/ (request[p].ok /\ ShopAt(p, "poll", request[p])))
  <2>1. CASE request[p].ok
    BY <1>0, <1>14, <2>1, ShopAnswered DEF Shop!BuyUnlock
  <2>2. CASE ~request[p].ok
    BY <1>14, <2>2, ShopFinish DEF Shop!BuyUnlock
  <2> QED  BY <2>1, <2>2
<1>15. Shop!PollAnswer(p) \/ Shop!PollTimeout(p) => step[p] = "poll" /\ Ends(p)
  BY ShopFinish DEF Shop!PollAnswer, Shop!PollTimeout
<1>16. Shop!Abort(p) => Ends(p)
  BY ShopFinish DEF Shop!Abort
<1> QED  BY <1>1, <1>2, <1>3, <1>4, <1>5, <1>6, <1>7, <1>8, <1>9, <1>10, <1>11, <1>12, <1>13,
            <1>14, <1>15, <1>16

\* The orders there are keep their key and whether they were bought.
OrdersKeep ==
    \A o \in DOMAIN orders : /\ o \in DOMAIN orders'
                             /\ orders'[o].key = orders[o].key /\ orders'[o].bought = orders[o].bought

\* There is no other, or one more.
OrdersSame == OrdersKeep /\ DOMAIN orders' = DOMAIN orders

OrdersMore(n, k, b) ==
    /\ OrdersKeep /\ DOMAIN orders' = DOMAIN orders \cup {n} /\ n \notin DOMAIN orders
    /\ orders'[n].key = k /\ orders'[n].bought = b

LEMMA OrderAppended ==
    ASSUME Shop!TypeOK, NEW v \in Shop!Document, orders' = Append(orders, v)
    PROVE  orders' \in Seq(Shop!Document) /\ OrdersMore(Len(orders) + 1, v.key, v.bought)
<1>1. orders \in Seq(Shop!Document)
  BY DEF Shop!TypeOK
<1>2. PICK n : n = Len(orders) + 1
  OBVIOUS
<1>3. /\ orders' \in Seq(Shop!Document) /\ DOMAIN orders' = DOMAIN orders \cup {n}
      /\ n \notin DOMAIN orders /\ orders'[n] = v
      /\ \A o \in DOMAIN orders : orders'[o] = orders[o]
  BY <1>1, <1>2
<1> QED  BY <1>2, <1>3, Zenon DEF OrdersMore, OrdersKeep

LEMMA OrderEdited ==
    ASSUME Shop!TypeOK, NEW o \in DOMAIN orders, NEW v \in Shop!Document,
           v.key = orders[o].key, v.bought = orders[o].bought,
           orders' = [orders EXCEPT ![o] = v]
    PROVE  orders' \in Seq(Shop!Document) /\ OrdersSame
<1>1. orders \in Seq(Shop!Document)
  BY DEF Shop!TypeOK
<1>2. orders' \in Seq(Shop!Document) /\ DOMAIN orders' = DOMAIN orders
  BY <1>1
<1>3. \A u \in DOMAIN orders : orders'[u] = IF u = o THEN v ELSE orders[u]
  BY <1>1
<1> QED  BY <1>2, <1>3 DEF OrdersSame, OrdersKeep

\* What each step does to the orders.
LEMMA ShopOrders ==
    ASSUME Shop!TypeOK, HandInv, Shop!Next
    PROVE  /\ orders' \in Seq(Shop!Document)
           /\ \/ OrdersSame
              \/ \E p \in Procs :
                     Shop!BuySave(p) /\ OrdersMore(Len(orders) + 1, request[p].key, TRUE)
              \/ \E paid \in BOOLEAN :
                     /\ Shop!AdminCreate(paid)
                     /\ OrdersMore(Len(orders) + 1, Shop!NoKey, FALSE)
<1> USE DEF Shop!Statuses
<1>0. orders \in Seq(Shop!Document)
  BY DEF Shop!TypeOK
<1>1. CASE orders' = orders
  BY <1>0, <1>1 DEF OrdersSame, OrdersKeep
<1>2. ASSUME NEW p \in Procs, Shop!BuySave(p)
      PROVE  orders' \in Seq(Shop!Document) /\ OrdersMore(Len(orders) + 1, request[p].key, TRUE)
  <2> DEFINE v == [key |-> request[p].key, status |-> "PENDING", paid |-> TRUE, bought |-> TRUE]
  <2>1. v \in Shop!Document /\ v.key = request[p].key /\ v.bought = TRUE
    BY DEF Shop!Document, HandInv, Requests
  <2>2. orders' = Append(orders, v)
    BY <1>2 DEF Shop!BuySave
  <2> HIDE DEF v
  <2>3. OrdersMore(Len(orders) + 1, v.key, v.bought) /\ orders' \in Seq(Shop!Document)
    BY <2>1, <2>2, OrderAppended
  <2> QED  BY <2>1, <2>3
<1>3. ASSUME NEW paid \in BOOLEAN, Shop!AdminCreate(paid)
      PROVE  orders' \in Seq(Shop!Document) /\ OrdersMore(Len(orders) + 1, Shop!NoKey, FALSE)
  <2> DEFINE v == [key |-> Shop!NoKey, status |-> "PENDING", paid |-> paid, bought |-> FALSE]
  <2>1. v \in Shop!Document /\ v.key = Shop!NoKey /\ v.bought = FALSE
    BY DEF Shop!Document
  <2>2. orders' = Append(orders, v)
    BY <1>3 DEF Shop!AdminCreate
  <2> HIDE DEF v
  <2>3. OrdersMore(Len(orders) + 1, v.key, v.bought) /\ orders' \in Seq(Shop!Document)
    BY <2>1, <2>2, OrderAppended
  <2> QED  BY <2>1, <2>3
<1>4. ASSUME NEW o \in DOMAIN orders, NEW s \in Shop!Statuses,
             orders' = [orders EXCEPT ![o].status = s]
      PROVE  orders' \in Seq(Shop!Document) /\ OrdersSame
  <2> DEFINE v == [orders[o] EXCEPT !.status = s]
  <2>1. orders[o] \in Shop!Document
    BY <1>0
  <2>2. v \in Shop!Document /\ v.key = orders[o].key /\ v.bought = orders[o].bought
    BY <2>1 DEF Shop!Document
  <2>3. orders' = [orders EXCEPT ![o] = v]
    BY <1>4
  <2> HIDE DEF v
  <2> QED  BY <2>2, <2>3, OrderEdited
<1>5. ASSUME NEW o \in DOMAIN orders, NEW paid \in BOOLEAN,
             orders' = [orders EXCEPT ![o].paid = paid]
      PROVE  orders' \in Seq(Shop!Document) /\ OrdersSame
  <2> DEFINE v == [orders[o] EXCEPT !.paid = paid]
  <2>1. orders[o] \in Shop!Document
    BY <1>0
  <2>2. v \in Shop!Document /\ v.key = orders[o].key /\ v.bought = orders[o].bought
    BY <2>1 DEF Shop!Document
  <2>3. orders' = [orders EXCEPT ![o] = v]
    BY <1>5
  <2> HIDE DEF v
  <2> QED  BY <2>2, <2>3, OrderEdited
<1>6. ASSUME NEW o \in DOMAIN orders,
             \/ Shop!Work(o) \/ Shop!Requeue(o)
             \/ \E s \in Shop!Statuses, paid \in BOOLEAN : Shop!AdminEdits(o, s, paid)
      PROVE  orders' \in Seq(Shop!Document) /\ OrdersSame
  BY <1>1, <1>4, <1>5, <1>6 DEF Shop!Work, Shop!Requeue, Shop!AdminEdits, OrdersSame, OrdersMore
<1>7. ASSUME NEW p \in Procs, Shop!Buy(p) \/ Shop!Abort(p), ~Shop!BuySave(p)
      PROVE  orders' = orders
  BY <1>7
     DEF Shop!Buy, Shop!Abort, Shop!BuyStart, Shop!BuyPrior, Shop!BuyCached, Shop!BuyLock,
         Shop!BuyValidate, Shop!BuyDebit, Shop!BuySaveFails, Shop!BuyPush, Shop!BuyPushFails,
         Shop!BuyKeep, Shop!BuyKeepFails, Shop!BuyError, Shop!BuyErrorFails, Shop!BuyUnlock,
         Shop!PollAnswer, Shop!PollTimeout, Shop!shopVars
<1>8. ASSUME NEW k \in Keys, Shop!Lapse(k) PROVE orders' = orders
  BY <1>8 DEF Shop!Lapse, Shop!shopVars
<1> QED  BY <1>1, <1>2, <1>3, <1>6, <1>7, <1>8 DEF Shop!Next, Shop!Environment

LEMMA ShopGrows == ASSUME Shop!TypeOK, HandInv, [Shop!Next]_Shop!vars PROVE OrdersKeep
<1>1. CASE Shop!Next
  BY <1>1, ShopOrders DEF OrdersSame, OrdersMore
<1>2. CASE UNCHANGED Shop!vars
  BY <1>2 DEF Shop!vars, Shop!shopVars, OrdersKeep
<1> QED  BY <1>1, <1>2

-----------------------------------------------------------------------------
(* What a request knows.                                                   *)

\* HandAt for a request at l with j in hand after the step.
HandOk(l, j) ==
    /\ j \in Requests
    /\ l \in {"prior", "cached", "lock", "keep", "error", "unlock"} => j.key \in Keys
    /\ l \in {"push", "keep", "error", "poll"} => j.order \in DOMAIN orders'
    /\ j.ok => j.order \in DOMAIN orders'
    /\ l = "idle" => j = Shop!Idle

LEMMA HandFrame ==
    ASSUME HandInv, OrdersKeep, NEW p \in Procs, NEW l, NEW j, ShopAt(p, l, j), HandOk(l, j)
    PROVE  HandInv'
<1>1. HandAt(p)'
  BY DEF HandOk, HandAt, ShopAt
<1>2. ASSUME NEW q \in Procs \ {p} PROVE HandAt(q)'
  <2>1. HandAt(q) /\ step'[q] = step[q] /\ request'[q] = request[q]
    BY DEF HandInv, ShopAt
  <2> QED  BY <2>1 DEF HandAt, OrdersKeep
<1> QED  BY <1>1, <1>2 DEF HandInv, ShopAt

LEMMA HandStep == ASSUME Shop!TypeOK, HandInv, CacheInv, [Shop!Next]_Shop!vars PROVE HandInv'
<1>0. OrdersKeep /\ DOMAIN orders \subseteq DOMAIN orders'
  BY ShopGrows DEF OrdersKeep
<1>1. CASE UNCHANGED <<step, request>>
  BY <1>0, <1>1 DEF HandInv, HandAt
<1>2. ASSUME NEW p \in Procs, Shop!Buy(p) \/ Shop!Abort(p) PROVE HandInv'
  <2>0. request[p] \in Requests /\ HandAt(p)
    BY DEF HandInv
  <2>e. CASE Ends(p)
    BY <1>0, <2>e, IdleRequest, HandFrame DEF Ends, HandOk
  <2>u. ASSUME request[p].key # Shop!NoKey, ShopAt(p, "unlock", request[p]) PROVE HandInv'
    <3>1. HandOk("unlock", request[p])
      BY <1>0, <2>0, <2>u DEF HandOk, HandAt, Requests
    <3> QED  BY <1>0, <2>u, <3>1, HandFrame
  <2>l. CASE Leaves(p)
    BY <2>e, <2>u, <2>l DEF Leaves
  <2>s. ASSUME NEW l \in {"validate", "debit", "save"}, ShopAt(p, l, request[p]) PROVE HandInv'
    <3>1. HandOk(l, request[p])
      BY <1>0, <2>0 DEF HandOk, HandAt
    <3> QED  BY <1>0, <2>s, <3>1, HandFrame
  <2>1. ASSUME NEW k \in Keys \cup {Shop!NoKey}, NEW sync \in BOOLEAN, Shop!BuyStart(p, k, sync)
        PROVE  HandInv'
    <3> DEFINE j == [Shop!Idle EXCEPT !.key = k, !.sync = sync]
               l == IF k = Shop!NoKey THEN "validate" ELSE "prior"
    <3>1. ShopAt(p, l, j)
      BY <2>1, ShopGoes
    <3>2. j \in Requests /\ j.key = k /\ ~j.ok
      BY DEF Shop!Idle, Requests
    <3>3. l \in {"validate", "prior"} /\ (l = "prior" => k \in Keys)
      OBVIOUS
    <3> HIDE DEF j, l
    <3>4. HandOk(l, j)
      BY <3>2, <3>3 DEF HandOk
    <3> QED  BY <1>0, <3>1, <3>4, HandFrame
  <2>2. CASE Shop!BuyPrior(p)
    <3>1. step[p] = "prior" /\ (Ends(p) \/ ShopAt(p, "cached", request[p]))
      BY <2>2, ShopGoes
    <3>2. HandOk("cached", request[p])
      BY <1>0, <2>0, <3>1 DEF HandOk, HandAt
    <3> QED  BY <1>0, <2>e, <3>1, <3>2, HandFrame
  <2>3. CASE Shop!BuyCached(p)
    <3> DEFINE j == [request[p] EXCEPT !.order = cache[request[p].key].order]
    <3>1. /\ step[p] = "cached"
          /\ \/ ShopAt(p, "lock", request[p]) \/ Ends(p)
             \/ cache[request[p].key].is = "order" /\ ShopAt(p, "poll", j)
      BY <2>3, ShopGoes
    <3>2. CASE ShopAt(p, "lock", request[p])
      <4>1. HandOk("lock", request[p])
        BY <1>0, <2>0, <3>1 DEF HandOk, HandAt
      <4> QED  BY <1>0, <3>2, <4>1, HandFrame
    <3>3. CASE cache[request[p].key].is = "order" /\ ShopAt(p, "poll", j)
      <4>1. j \in Requests
        BY <3>3 DEF ShopAt
      <4>2. j.key = request[p].key /\ j.ok = request[p].ok /\ j.order = cache[request[p].key].order
        BY <2>0 DEF Requests
      <4>3. request[p].key \in Keys /\ cache[request[p].key].order \in DOMAIN orders
        BY <2>0, <3>1, <3>3 DEF HandAt, CacheInv
      <4> HIDE DEF j
      <4>4. HandOk("poll", j)
        BY <1>0, <4>1, <4>2, <4>3 DEF HandOk
      <4> QED  BY <1>0, <3>3, <4>4, HandFrame
    <3> QED  BY <2>e, <3>1, <3>2, <3>3
  <2>4. CASE Shop!BuyLock(p) \/ Shop!BuyValidate(p) \/ Shop!BuyDebit(p) \/ Shop!BuySaveFails(p)
    <3>1. Leaves(p) \/ \E l \in {"validate", "debit", "save"} : ShopAt(p, l, request[p])
      BY <2>4, ShopGoes DEF Leaves
    <3> QED  BY <2>l, <2>s, <3>1
  <2>5. CASE Shop!BuySave(p)
    <3> DEFINE j == [request[p] EXCEPT !.order = Len(orders) + 1]
    <3>1. ShopAt(p, "push", j)
      BY <2>5, ShopGoes
    <3>2. j \in Requests
      <4>1. Len(orders) + 1 \in Nat
        BY DEF Shop!TypeOK
      <4> QED  BY <2>0, <4>1 DEF Requests
    <3>3. orders \in Seq(Shop!Document) /\ \E v : orders' = Append(orders, v)
      BY <2>5 DEF Shop!BuySave, Shop!TypeOK
    <3>4. Len(orders) + 1 \in DOMAIN orders'
      BY <3>3
    <3>5. j.order = Len(orders) + 1 /\ j.key = request[p].key
      BY <2>0 DEF Requests
    <3> HIDE DEF j
    <3>6. HandOk("push", j)
      BY <3>2, <3>4, <3>5 DEF HandOk
    <3> QED  BY <1>0, <3>1, <3>6, HandFrame
  <2>6. CASE Shop!BuyPush(p) \/ Shop!BuyPushFails(p) \/ Shop!BuyKeepFails(p)
    <3>1. /\ step[p] \in {"push", "keep"}
          /\ \/ Ends(p) \/ ShopAt(p, "poll", request[p])
             \/ /\ step[p] = "keep" \/ request[p].key # Shop!NoKey
                /\ ShopAt(p, "keep", request[p]) \/ ShopAt(p, "error", request[p])
      BY <2>6, ShopGoes
    <3>2. request[p].order \in DOMAIN orders'
      BY <1>0, <2>0, <3>1 DEF HandAt
    <3>3. HandOk("poll", request[p])
      BY <2>0, <3>2 DEF HandOk
    <3>4. ASSUME step[p] = "keep" \/ request[p].key # Shop!NoKey
          PROVE  HandOk("keep", request[p]) /\ HandOk("error", request[p])
      <4>1. request[p].key \in Keys
        BY <2>0, <3>4 DEF HandAt, Requests
      <4> QED  BY <2>0, <3>2, <4>1 DEF HandOk
    <3> QED  BY <1>0, <2>e, <3>1, <3>3, <3>4, HandFrame
  <2>7. CASE Shop!BuyKeep(p)
    <3> DEFINE j == [request[p] EXCEPT !.ok = TRUE]
    <3>1. step[p] = "keep" /\ ShopAt(p, "unlock", j)
      BY <2>7, ShopGoes
    <3>2. j \in Requests
      BY <2>0 DEF Requests
    <3>3. j.key = request[p].key /\ j.order = request[p].order
      BY <2>0 DEF Requests
    <3>4. request[p].key \in Keys /\ request[p].order \in DOMAIN orders'
      BY <1>0, <2>0, <3>1 DEF HandAt
    <3> HIDE DEF j
    <3>5. HandOk("unlock", j)
      BY <3>2, <3>3, <3>4 DEF HandOk
    <3> QED  BY <1>0, <3>1, <3>5, HandFrame
  <2>8. CASE Shop!BuyError(p) \/ Shop!BuyErrorFails(p)
    <3>1. step[p] = "error" /\ ShopAt(p, "unlock", request[p])
      BY <2>8, ShopGoes
    <3>2. HandOk("unlock", request[p])
      BY <1>0, <2>0, <3>1 DEF HandOk, HandAt
    <3> QED  BY <1>0, <3>1, <3>2, HandFrame
  <2>9. CASE Shop!BuyUnlock(p)
    <3>1. Ends(p) \/ (request[p].ok /\ ShopAt(p, "poll", request[p]))
      BY <2>9, ShopGoes
    <3>2. CASE request[p].ok /\ ShopAt(p, "poll", request[p])
      <4>1. HandOk("poll", request[p])
        BY <1>0, <2>0, <3>2 DEF HandOk, HandAt
      <4> QED  BY <1>0, <3>2, <4>1, HandFrame
    <3> QED  BY <2>e, <3>1, <3>2
  <2>10. CASE Shop!PollAnswer(p) \/ Shop!PollTimeout(p) \/ Shop!Abort(p)
    BY <2>10, <2>e, ShopGoes
  <2> QED  BY <1>2, <2>1, <2>2, <2>3, <2>4, <2>5, <2>6, <2>7, <2>8, <2>9, <2>10 DEF Shop!Buy
<1>3. CASE Shop!Environment
  BY <1>1, <1>3
     DEF Shop!Environment, Shop!AdminCreate, Shop!AdminEdits, Shop!Work, Shop!Requeue, Shop!Lapse
<1> QED  BY <1>1, <1>2, <1>3 DEF Shop!Next, Shop!vars

\* The step and what it has in hand keep their types, the only ones that ShopAt does not give.
LEMMA LabelStep == ASSUME Shop!TypeOK, HandInv, [Shop!Next]_Shop!vars
                   PROVE  step' \in [Procs -> Shop!Labels]
<1>0. step \in [Procs -> Shop!Labels]
  BY DEF Shop!TypeOK
<1>1. CASE step' = step
  BY <1>0, <1>1
<1>2. ASSUME NEW p \in Procs, Shop!Buy(p) \/ Shop!Abort(p) PROVE step' \in [Procs -> Shop!Labels]
  <2>1. \E l, j : ShopAt(p, l, j)
    BY <1>2, ShopGoes DEF Shop!Buy, Ends, Leaves
  <2> QED  BY <2>1 DEF ShopAt
<1>3. CASE Shop!Environment
  BY <1>1, <1>3
     DEF Shop!Environment, Shop!AdminCreate, Shop!AdminEdits, Shop!Work, Shop!Requeue, Shop!Lapse
<1> QED  BY <1>1, <1>2, <1>3 DEF Shop!Next, Shop!vars

\* Answers and locks change in few steps.
LEMMA KeysChange ==
    ASSUME [Shop!Next]_Shop!vars
    PROVE  /\ cache' # cache => \E p \in Procs : Shop!BuyKeep(p) \/ Shop!BuyError(p)
           /\ lock' # lock => \/ \E p \in Procs : Shop!BuyLock(p) \/ Shop!BuyUnlock(p)
                              \/ \E k \in Keys : Shop!Lapse(k)
<1> USE DEF Shop!keyVars
<1>1. ASSUME NEW p \in Procs, Shop!Buy(p) \/ Shop!Abort(p)
      PROVE  /\ cache' # cache => Shop!BuyKeep(p) \/ Shop!BuyError(p)
             /\ lock' # lock => Shop!BuyLock(p) \/ Shop!BuyUnlock(p)
  BY <1>1
     DEF Shop!Buy, Shop!Abort, Shop!BuyStart, Shop!BuyPrior, Shop!BuyCached, Shop!BuyLock,
         Shop!BuyValidate, Shop!BuyDebit, Shop!BuySave, Shop!BuySaveFails, Shop!BuyPush,
         Shop!BuyPushFails, Shop!BuyKeep, Shop!BuyKeepFails, Shop!BuyError, Shop!BuyErrorFails,
         Shop!BuyUnlock, Shop!PollAnswer, Shop!PollTimeout
<1>2. CASE Shop!Environment
  BY <1>2
     DEF Shop!Environment, Shop!AdminCreate, Shop!AdminEdits, Shop!Work, Shop!Requeue, Shop!Lapse
<1> QED  BY <1>1, <1>2 DEF Shop!Next, Shop!vars

\* An answer that is kept names an order that exists.
CacheType(dom) == [Keys -> [is : Shop!Answers, order : dom \cup {Shop!None}]]

LEMMA CacheStep ==
    ASSUME Shop!TypeOK, HandInv, CacheInv, [Shop!Next]_Shop!vars
    PROVE  CacheInv' /\ cache' \in CacheType(DOMAIN orders')
<1>0. /\ DOMAIN orders \subseteq DOMAIN orders'
      /\ cache \in CacheType(DOMAIN orders)
  BY ShopGrows DEF OrdersKeep, Shop!TypeOK, CacheType
<1>1. cache \in CacheType(DOMAIN orders')
  BY <1>0 DEF CacheType
<1>2. CASE cache' = cache
  <2>1. CacheInv'
    BY <1>0, <1>2 DEF CacheInv
  <2> QED  BY <1>1, <1>2, <2>1
<1>3. ASSUME NEW k \in Keys, NEW v, v \in [is : Shop!Answers, order : DOMAIN orders' \cup {Shop!None}],
             v.is = "order" => v.order \in DOMAIN orders', cache' = [cache EXCEPT ![k] = v]
      PROVE  CacheInv' /\ cache' \in CacheType(DOMAIN orders')
  <2>1. cache' \in CacheType(DOMAIN orders')
    BY <1>1, <1>3 DEF CacheType
  <2>2. \A x \in Keys : cache'[x] = IF x = k THEN v ELSE cache[x]
    BY <1>0, <1>3 DEF CacheType
  <2>3. CacheInv'
    BY <1>0, <1>3, <2>2 DEF CacheInv
  <2> QED  BY <2>1, <2>3
<1>4. ASSUME NEW p \in Procs, Shop!BuyKeep(p)
      PROVE  CacheInv' /\ cache' \in CacheType(DOMAIN orders')
  <2> DEFINE v == [is |-> "order", order |-> request[p].order]
  <2>1. request[p].key \in Keys /\ request[p].order \in DOMAIN orders'
    BY <1>0, <1>4 DEF HandInv, HandAt, Shop!BuyKeep
  <2>2. v \in [is : Shop!Answers, order : DOMAIN orders' \cup {Shop!None}] /\ v.order \in DOMAIN orders'
    BY <2>1 DEF Shop!Answers
  <2>3. cache' = [cache EXCEPT ![request[p].key] = v]
    BY <1>4 DEF Shop!BuyKeep
  <2> HIDE DEF v
  <2> QED  BY <1>3, <2>1, <2>2, <2>3
<1>5. ASSUME NEW p \in Procs, Shop!BuyError(p)
      PROVE  CacheInv' /\ cache' \in CacheType(DOMAIN orders')
  <2> DEFINE v == [is |-> "error", order |-> Shop!None]
  <2>1. request[p].key \in Keys
    BY <1>5 DEF HandInv, HandAt, Shop!BuyError
  <2>2. v \in [is : Shop!Answers, order : DOMAIN orders' \cup {Shop!None}] /\ v.is # "order"
    BY DEF Shop!Answers
  <2>3. cache' = [cache EXCEPT ![request[p].key] = v]
    BY <1>5 DEF Shop!BuyError
  <2> HIDE DEF v
  <2> QED  BY <1>3, <2>1, <2>2, <2>3
<1> QED  BY <1>2, <1>4, <1>5, KeysChange

\* Every step keeps the types.
LEMMA LockStep == ASSUME Shop!TypeOK, HandInv, [Shop!Next]_Shop!vars
                  PROVE  lock' \in [Keys -> Procs \cup {Shop!None}]
<1>0. lock \in [Keys -> Procs \cup {Shop!None}]
  BY DEF Shop!TypeOK
<1>1. ASSUME NEW p \in Procs, Shop!BuyLock(p) PROVE lock' \in [Keys -> Procs \cup {Shop!None}]
  BY <1>0, <1>1 DEF Shop!BuyLock
<1>2. ASSUME NEW p \in Procs, Shop!BuyUnlock(p) PROVE lock' \in [Keys -> Procs \cup {Shop!None}]
  BY <1>0, <1>2 DEF Shop!BuyUnlock
<1>3. ASSUME NEW k \in Keys, Shop!Lapse(k) PROVE lock' \in [Keys -> Procs \cup {Shop!None}]
  BY <1>0, <1>3 DEF Shop!Lapse
<1> QED  BY <1>0, <1>1, <1>2, <1>3, KeysChange

LEMMA QueueStep == ASSUME Shop!TypeOK, HandInv, [Shop!Next]_Shop!vars
                   PROVE  queue' \subseteq DOMAIN orders'
<1>0. queue \subseteq DOMAIN orders /\ DOMAIN orders \subseteq DOMAIN orders'
  BY ShopGrows DEF OrdersKeep, Shop!TypeOK
<1> USE DEF Shop!shopVars
<1>1. ASSUME NEW p \in Procs, Shop!Buy(p) \/ Shop!Abort(p), ~Shop!BuyPush(p) PROVE queue' = queue
  BY <1>1
     DEF Shop!Buy, Shop!Abort, Shop!BuyStart, Shop!BuyPrior, Shop!BuyCached, Shop!BuyLock,
         Shop!BuyValidate, Shop!BuyDebit, Shop!BuySave, Shop!BuySaveFails,
         Shop!BuyPushFails, Shop!BuyKeep, Shop!BuyKeepFails, Shop!BuyError, Shop!BuyErrorFails,
         Shop!BuyUnlock, Shop!PollAnswer, Shop!PollTimeout
<1>2. ASSUME NEW p \in Procs, Shop!BuyPush(p) PROVE queue' \subseteq DOMAIN orders'
  BY <1>0, <1>2 DEF Shop!BuyPush, HandInv, HandAt
<1>3. CASE Shop!Environment
  BY <1>0, <1>3
     DEF Shop!Environment, Shop!AdminCreate, Shop!AdminEdits, Shop!Work, Shop!Requeue, Shop!Lapse
<1> QED  BY <1>0, <1>1, <1>2, <1>3 DEF Shop!Next, Shop!vars

LEMMA MoneyTypes == ASSUME Shop!TypeOK, HandInv, [Shop!Next]_Shop!vars
                    PROVE  money' \in Nat /\ spent' \in Nat /\ unbooked' \in Nat
<1>0. money \in Nat /\ spent \in Nat /\ unbooked \in Nat /\ Price \in Nat
  BY ShopNumbers DEF Shop!TypeOK
<1> USE DEF Shop!shopVars, Shop!histVars
<1>1. ASSUME NEW p \in Procs, Shop!BuyDebit(p) PROVE money' \in Nat
  <2>1. money' = money \/ (~(money < Price) /\ money' = money - Price)
    BY <1>1, ShopGoes
  <2> QED  BY <1>0, <2>1
<1>2. ASSUME NEW p \in Procs, Shop!Buy(p) \/ Shop!Abort(p)
      PROVE  /\ ~Shop!BuyDebit(p) => money' = money
             /\ spent' \in {spent, spent + Price}
             /\ unbooked' \in {unbooked, unbooked + Price, unbooked + 0}
  BY <1>2
     DEF Shop!Buy, Shop!Abort, Shop!BuyStart, Shop!BuyPrior, Shop!BuyCached, Shop!BuyLock,
         Shop!BuyValidate, Shop!BuyDebit, Shop!BuySave, Shop!BuySaveFails, Shop!BuyPush,
         Shop!BuyPushFails, Shop!BuyKeep, Shop!BuyKeepFails, Shop!BuyError, Shop!BuyErrorFails,
         Shop!BuyUnlock, Shop!PollAnswer, Shop!PollTimeout, Shop!InHand
<1>3. CASE Shop!Environment
  BY <1>0, <1>3
     DEF Shop!Environment, Shop!AdminCreate, Shop!AdminEdits, Shop!Work, Shop!Requeue, Shop!Lapse
<1> QED  BY <1>0, <1>1, <1>2, <1>3 DEF Shop!Next, Shop!vars

LEMMA ShopTypes ==
    ASSUME Shop!TypeOK, HandInv, CacheInv, [Shop!Next]_Shop!vars PROVE Shop!TypeOK'
<1>1. orders' \in Seq(Shop!Document)
  BY ShopOrders DEF Shop!vars, Shop!shopVars, Shop!TypeOK
<1>2. cache' \in [Keys -> [is : Shop!Answers, order : DOMAIN orders' \cup {Shop!None}]]
  BY CacheStep DEF CacheType
<1>3. \A p \in Procs :
          step'[p] \in {"push", "keep", "error", "poll"} => request'[p].order \in DOMAIN orders'
  BY HandStep DEF HandInv, HandAt
<1> QED  BY <1>1, <1>2, <1>3, LabelStep, LockStep, QueueStep, MoneyTypes DEF Shop!TypeOK

-----------------------------------------------------------------------------
(* The wallet's ledger.                                                    *)

\* What a request at a label has in hand, and what of it there is no order for.
HandOf(l) == IF l \in {"save", "push"} THEN Price ELSE 0
SaveOf(l) == IF l = "save" THEN Price ELSE 0

HandSum == SumFunctionOnSet(Shop!Hands, Procs)
SaveSum == SumFunctionOnSet(Saving, Procs)

LEMMA HandSumTypes ==
    /\ \A p \in Procs : /\ Shop!Hands[p] = HandOf(step[p]) /\ Saving[p] = SaveOf(step[p])
                        /\ Shop!Hands'[p] = HandOf(step'[p]) /\ Saving'[p] = SaveOf(step'[p])
    /\ \A l : HandOf(l) \in Nat /\ SaveOf(l) \in Nat
    /\ HandSum \in Nat /\ SaveSum \in Nat /\ HandSum' \in Nat /\ SaveSum' \in Nat
<1>1. \A p \in Procs : /\ Shop!Hands[p] = HandOf(step[p]) /\ Saving[p] = SaveOf(step[p])
                       /\ Shop!Hands'[p] = HandOf(step'[p]) /\ Saving'[p] = SaveOf(step'[p])
  BY DEF Shop!Hands, Shop!InHand, Saving, HandOf, SaveOf
<1>2. \A l : HandOf(l) \in Nat /\ SaveOf(l) \in Nat
  BY ShopNumbers DEF HandOf, SaveOf
<1>3. HandSum \in Nat /\ SaveSum \in Nat
  BY <1>1, <1>2, ShopNumbers, SumNat DEF HandSum, SaveSum
<1>4. HandSum' \in Nat
  <2>1. \A p \in Procs : Shop!Hands'[p] \in Nat
    BY <1>1, <1>2
  <2> QED  BY <2>1, ShopNumbers, SumNat DEF HandSum
<1>5. SaveSum' \in Nat
  <2>1. \A p \in Procs : Saving'[p] \in Nat
    BY <1>1, <1>2
  <2> QED  BY <2>1, ShopNumbers, SumNat DEF SaveSum
<1> QED  BY <1>1, <1>2, <1>3, <1>4, <1>5

\* A step of one request changes its share of both sums.
LEMMA HandSumStep ==
    ASSUME NEW p \in Procs, NEW l, NEW j, ShopAt(p, l, j)
    PROVE  /\ HandSum' = HandSum - HandOf(step[p]) + HandOf(l)
           /\ SaveSum' = SaveSum - SaveOf(step[p]) + SaveOf(l)
<1>1. /\ step'[p] = l /\ \A q \in Procs \ {p} : step'[q] = step[q]
      /\ IsFiniteSet(Procs)
  BY ShopNumbers DEF ShopAt
<1>2. SumFunctionOnSet(Shop!Hands', Procs) = SumFunctionOnSet(Shop!Hands, Procs)
                                                 - Shop!Hands[p] + Shop!Hands'[p]
  <2>1. /\ \A q \in Procs : Shop!Hands[q] \in Int
        /\ Shop!Hands'[p] \in Int
        /\ \A q \in Procs \ {p} : Shop!Hands'[q] = Shop!Hands[q]
    BY <1>1, HandSumTypes
  <2> QED  BY <1>1, <2>1, SumChange
<1>3. SumFunctionOnSet(Saving', Procs) = SumFunctionOnSet(Saving, Procs) - Saving[p] + Saving'[p]
  <2>1. /\ \A q \in Procs : Saving[q] \in Int
        /\ Saving'[p] \in Int
        /\ \A q \in Procs \ {p} : Saving'[q] = Saving[q]
    BY <1>1, HandSumTypes
  <2> QED  BY <1>1, <2>1, SumChange
<1>4. /\ Shop!Hands[p] = HandOf(step[p]) /\ Shop!Hands'[p] = HandOf(l)
      /\ Saving[p] = SaveOf(step[p]) /\ Saving'[p] = SaveOf(l)
  BY <1>1, HandSumTypes
<1> QED  BY <1>2, <1>3, <1>4 DEF HandSum, SaveSum

\* Orders that are bought are counted.
BoughtCount == Cardinality(BoughtOrders)

LEMMA BoughtFinite == ASSUME Shop!TypeOK PROVE IsFiniteSet(BoughtOrders) /\ BoughtCount \in Nat
<1>1. Len(orders) \in Nat /\ DOMAIN orders = 1..Len(orders)
  BY DEF Shop!TypeOK
<1>2. IsFiniteSet(DOMAIN orders)
  BY <1>1, FS_Interval
<1>3. BoughtOrders \subseteq DOMAIN orders
  BY DEF BoughtOrders
<1> QED  BY <1>2, <1>3, FS_Subset, FS_CardinalityType DEF BoughtCount

LEMMA BoughtStep ==
    ASSUME Shop!TypeOK, HandInv, [Shop!Next]_Shop!vars
    PROVE  \/ BoughtCount' = BoughtCount
           \/ BoughtCount' = BoughtCount + 1 /\ \E p \in Procs : Shop!BuySave(p)
<1>1. CASE OrdersSame
  <2>1. BoughtOrders' = BoughtOrders
    BY <1>1 DEF BoughtOrders, OrdersSame, OrdersKeep
  <2> QED  BY <2>1 DEF BoughtCount
<1>2. ASSUME NEW n, NEW k, OrdersMore(n, k, FALSE) PROVE BoughtCount' = BoughtCount
  <2>1. BoughtOrders' = BoughtOrders
    BY <1>2 DEF BoughtOrders, OrdersMore, OrdersKeep
  <2> QED  BY <2>1 DEF BoughtCount
<1>3. ASSUME NEW n, NEW k, OrdersMore(n, k, TRUE) PROVE BoughtCount' = BoughtCount + 1
  <2>1. BoughtOrders' = BoughtOrders \cup {n} /\ n \notin BoughtOrders
    BY <1>3 DEF BoughtOrders, OrdersMore, OrdersKeep
  <2>2. Cardinality(BoughtOrders \cup {n}) = Cardinality(BoughtOrders) + 1
    BY <2>1, BoughtFinite, FS_AddElement
  <2> QED  BY <2>1, <2>2 DEF BoughtCount
<1>4. CASE UNCHANGED Shop!vars
  <2>1. OrdersSame
    BY <1>4 DEF Shop!vars, Shop!shopVars, OrdersSame, OrdersKeep
  <2> QED  BY <1>1, <2>1
<1>5. CASE Shop!Next
  <2>1. CASE \E p \in Procs : Shop!BuySave(p) /\ OrdersMore(Len(orders) + 1, request[p].key, TRUE)
    BY <1>3, <2>1
  <2>2. CASE \E paid \in BOOLEAN : OrdersMore(Len(orders) + 1, Shop!NoKey, FALSE)
    BY <1>2, <2>2
  <2> QED  BY <1>1, <1>5, <2>1, <2>2, ShopOrders
<1> QED  BY <1>4, <1>5

\* The ledger holds when the step moves money from one of its places to another: what the wallet
\* loses, the ledger, the requests or the unbooked gain.
LEMMA MoneyFrame ==
    ASSUME Shop!TypeOK, HandInv, MoneyInv, [Shop!Next]_Shop!vars,
           NEW s \in Nat, NEW u \in Nat, NEW h \in Int, NEW v \in Int, NEW m \in Int,
           (troubles' = troubles /\ u = 0) \/ troubles' = troubles + 1,
           money' = money - m, spent' = spent + s, unbooked' = unbooked + u,
           HandSum' = HandSum + h, SaveSum' = SaveSum + v, s + u + h = m,
           \/ BoughtCount' = BoughtCount /\ v <= m
           \/ BoughtCount' = BoughtCount + 1 /\ v + Price <= m
    PROVE  MoneyInv'
<1>0. /\ money \in Nat /\ spent \in Nat /\ unbooked \in Nat /\ HandSum \in Nat /\ SaveSum \in Nat
      /\ Price \in Nat /\ StartMoney \in Nat /\ BoughtCount \in Nat /\ troubles \in Nat
  BY ShopNumbers, HandSumTypes, BoughtFinite DEF Shop!TypeOK, MoneyInv
<1>1. /\ money + spent + unbooked + HandSum = StartMoney
      /\ troubles = 0 => unbooked = 0
      /\ BoughtCount * Price + SaveSum <= StartMoney - money
  BY DEF MoneyInv, HandSum, SaveSum, BoughtCount
<1>2. troubles' \in Nat /\ (troubles' = 0 => unbooked' = 0)
  BY <1>0, <1>1
<1>3. money' + spent' + unbooked' + HandSum' = StartMoney
  <2>1. (money - m) + (spent + s) + (unbooked + u) + (HandSum + h) = StartMoney
    BY <1>0, <1>1
  <2> QED  BY <2>1
<1>4. BoughtCount' * Price + SaveSum' <= StartMoney - money'
  <2> DEFINE b == BoughtCount * Price
  <2>1. b \in Nat /\ (BoughtCount + 1) * Price = b + Price
    BY <1>0
  <2> HIDE DEF b
  <2>2. b + SaveSum <= StartMoney - money
    BY <1>1 DEF b
  <2>3. CASE BoughtCount' = BoughtCount /\ v <= m
    <3>1. b + (SaveSum + v) <= StartMoney - (money - m)
      BY <1>0, <2>1, <2>2, <2>3
    <3> QED  BY <2>3, <3>1 DEF b
  <2>4. CASE BoughtCount' = BoughtCount + 1 /\ v + Price <= m
    <3>1. (b + Price) + (SaveSum + v) <= StartMoney - (money - m)
      BY <1>0, <2>1, <2>2, <2>4
    <3>2. BoughtCount' * Price = b + Price
      BY <2>1, <2>4
    <3> QED  BY <3>1, <3>2
  <2> QED  BY <2>3, <2>4
<1> QED  BY <1>2, <1>3, <1>4 DEF MoneyInv, HandSum, SaveSum, BoughtCount

\* The ledger stays right.
LEMMA MoneyStep ==
    ASSUME Shop!TypeOK, HandInv, MoneyInv, [Shop!Next]_Shop!vars PROVE MoneyInv'
<1>0. /\ money \in Nat /\ spent \in Nat /\ unbooked \in Nat /\ Price \in Nat /\ troubles \in Nat
      /\ HandSum \in Nat /\ SaveSum \in Nat
  BY ShopNumbers, HandSumTypes DEF Shop!TypeOK, MoneyInv
<1> DEFINE Kept == money' = money /\ spent' = spent /\ unbooked' = unbooked
           Tried == troubles' = troubles \/ troubles' = troubles + 1
           NoneBought == BoughtCount' = BoughtCount
<1>1. ASSUME orders' = orders PROVE NoneBought
  BY <1>1 DEF BoughtCount, BoughtOrders
\* A step that moves no money and gives no request an order to make.
<1>2. ASSUME Kept, Tried, NoneBought, HandSum' = HandSum, SaveSum' = SaveSum PROVE MoneyInv'
  <2>1. /\ money' = money - 0 /\ spent' = spent + 0 /\ unbooked' = unbooked + 0
        /\ HandSum' = HandSum + 0 /\ SaveSum' = SaveSum + 0
    BY <1>0, <1>2
  <2> QED  BY <1>2, <2>1, MoneyFrame
<1>3. ASSUME step' = step PROVE HandSum' = HandSum /\ SaveSum' = SaveSum
  BY <1>3 DEF HandSum, SaveSum, Saving, Shop!Hands, Shop!InHand
<1>4. CASE UNCHANGED Shop!vars
  <2>1. Kept /\ troubles' = troubles /\ orders' = orders /\ step' = step
    BY <1>4 DEF Shop!vars, Shop!shopVars, Shop!histVars, Shop!bounds
  <2> QED  BY <1>1, <1>2, <1>3, <2>1
<1>5. CASE Shop!Environment
  <2>1. Kept /\ Tried
    BY <1>5
       DEF Shop!Environment, Shop!AdminCreate, Shop!AdminEdits, Shop!Work, Shop!Requeue, Shop!Lapse,
           Shop!Trouble, Shop!shopVars, Shop!histVars, Shop!bounds
  <2>2. step' = step
    BY <1>5
       DEF Shop!Environment, Shop!AdminCreate, Shop!AdminEdits, Shop!Work, Shop!Requeue, Shop!Lapse
  <2>3. \A p \in Procs : ~Shop!BuySave(p)
    BY <2>2, ShopGoes DEF ShopAt
  <2>4. NoneBought
    BY <2>3, BoughtStep
  <2> QED  BY <1>2, <1>3, <2>1, <2>2, <2>4
<1>6. ASSUME NEW p \in Procs, Shop!Buy(p) \/ Shop!Abort(p) PROVE MoneyInv'
  <2> USE DEF Shop!shopVars, Shop!histVars, Shop!bounds
  <2>h. ASSUME NEW l, NEW j, ShopAt(p, l, j), step[p] \notin {"save", "push"}, l \notin {"save", "push"}
        PROVE  HandSum' = HandSum /\ SaveSum' = SaveSum
    <3>1. HandOf(step[p]) = 0 /\ HandOf(l) = 0 /\ SaveOf(step[p]) = 0 /\ SaveOf(l) = 0
      BY <2>h DEF HandOf, SaveOf
    <3>2. HandSum' = HandSum - 0 + 0 /\ SaveSum' = SaveSum - 0 + 0
      BY <2>h, <3>1, HandSumStep
    <3> QED  BY <1>0, <3>2
  <2>1. CASE (\E k \in Keys \cup {Shop!NoKey}, sync \in BOOLEAN : Shop!BuyStart(p, k, sync))
             \/ Shop!BuyPrior(p) \/ Shop!BuyCached(p) \/ Shop!BuyLock(p) \/ Shop!BuyValidate(p)
             \/ Shop!BuyKeep(p) \/ Shop!BuyKeepFails(p) \/ Shop!BuyError(p)
             \/ Shop!BuyErrorFails(p) \/ Shop!BuyUnlock(p) \/ Shop!PollAnswer(p)
             \/ Shop!PollTimeout(p)
    <3>1. Kept /\ Tried /\ orders' = orders
      BY <2>1
         DEF Shop!BuyStart, Shop!BuyPrior, Shop!BuyCached, Shop!BuyLock, Shop!BuyValidate,
             Shop!BuyKeep, Shop!BuyKeepFails, Shop!BuyError, Shop!BuyErrorFails, Shop!BuyUnlock,
             Shop!PollAnswer, Shop!PollTimeout, Shop!Trouble
    <3>2. /\ step[p] \notin {"save", "push"}
          /\ \E l, j : ShopAt(p, l, j) /\ l \notin {"save", "push"}
      <4>1. CASE \E k \in Keys \cup {Shop!NoKey}, sync \in BOOLEAN : Shop!BuyStart(p, k, sync)
        <5>1. PICK k \in Keys \cup {Shop!NoKey}, sync \in BOOLEAN : Shop!BuyStart(p, k, sync)
          BY <4>1
        <5>2. /\ step[p] = "idle"
              /\ ShopAt(p, IF k = Shop!NoKey THEN "validate" ELSE "prior",
                        [Shop!Idle EXCEPT !.key = k, !.sync = sync])
          BY <5>1, ShopGoes
        <5> QED  BY <5>2
      <4>2. CASE Shop!BuyPrior(p) \/ Shop!BuyCached(p) \/ Shop!BuyLock(p) \/ Shop!BuyValidate(p)
                 \/ Shop!BuyKeep(p) \/ Shop!BuyKeepFails(p) \/ Shop!BuyError(p)
                 \/ Shop!BuyErrorFails(p) \/ Shop!BuyUnlock(p) \/ Shop!PollAnswer(p)
                 \/ Shop!PollTimeout(p)
        <5>1. step[p] \in {"prior", "cached", "lock", "validate", "keep", "error", "unlock", "poll"}
          BY <4>2, ShopGoes
        <5>2. \E l, j : ShopAt(p, l, j)
                  /\ l \in {"idle", "cached", "lock", "validate", "debit", "unlock", "error", "poll"}
          BY <4>2, ShopGoes DEF Ends, Leaves
        <5> QED  BY <5>1, <5>2
      <4> QED  BY <2>1, <4>1, <4>2
    <3>3. HandSum' = HandSum /\ SaveSum' = SaveSum
      BY <2>h, <3>2
    <3> QED  BY <1>1, <1>2, <3>1, <3>3
  <2>2. CASE Shop!BuyDebit(p)
    <3>1. spent' = spent /\ unbooked' = unbooked /\ troubles' = troubles /\ orders' = orders
      BY <2>2 DEF Shop!BuyDebit
    <3>2. CASE money' = money /\ Leaves(p)
      <4>1. step[p] = "debit" /\ \E l, j : ShopAt(p, l, j) /\ l \in {"idle", "unlock"}
        BY <2>2, <3>2, ShopGoes DEF Ends, Leaves
      <4>2. HandSum' = HandSum /\ SaveSum' = SaveSum
        BY <2>h, <4>1
      <4> QED  BY <1>1, <1>2, <3>1, <3>2, <4>2
    <3>3. CASE money' = money - Price /\ ShopAt(p, "save", request[p])
      <4>1. HandOf(step[p]) = 0 /\ SaveOf(step[p]) = 0 /\ HandOf("save") = Price /\ SaveOf("save") = Price
        BY <2>2, ShopGoes DEF HandOf, SaveOf
      <4>2. HandSum' = HandSum - 0 + Price /\ SaveSum' = SaveSum - 0 + Price
        BY <3>3, <4>1, HandSumStep
      <4>3. /\ spent' = spent + 0 /\ unbooked' = unbooked + 0
            /\ HandSum' = HandSum + Price /\ SaveSum' = SaveSum + Price
            /\ 0 + 0 + Price = Price /\ Price <= Price
        BY <1>0, <3>1, <4>2
      <4> QED  BY <1>0, <1>1, <3>1, <3>3, <4>3, MoneyFrame
    <3> QED  BY <2>2, <3>2, <3>3, ShopGoes
  <2>3. CASE Shop!BuySave(p)
    <3>1. money' = money /\ spent' = spent /\ unbooked' = unbooked /\ troubles' = troubles
      BY <2>3 DEF Shop!BuySave
    <3>2. step[p] = "save" /\ \E j : ShopAt(p, "push", j)
      BY <2>3, ShopGoes
    <3>3. HandOf(step[p]) = Price /\ SaveOf(step[p]) = Price /\ HandOf("push") = Price /\ SaveOf("push") = 0
      BY <3>2 DEF HandOf, SaveOf
    <3>4. HandSum' = HandSum - Price + Price /\ SaveSum' = SaveSum - Price + 0
      BY <3>2, <3>3, HandSumStep
    <3> DEFINE d == -Price
    <3>5. /\ money' = money - 0 /\ spent' = spent + 0 /\ unbooked' = unbooked + 0
          /\ HandSum' = HandSum + 0 /\ SaveSum' = SaveSum + d
          /\ d \in Int /\ d <= 0 /\ d + Price <= 0
      BY <1>0, <3>1, <3>4
    <3> HIDE DEF d
    <3>6. BoughtCount' = BoughtCount \/ BoughtCount' = BoughtCount + 1
      BY BoughtStep
    <3> QED  BY <3>1, <3>5, <3>6, MoneyFrame
  <2>4. CASE Shop!BuySaveFails(p)
    <3>1. /\ money' = money /\ spent' = spent /\ unbooked' = unbooked + Price /\ orders' = orders
          /\ troubles' = troubles + 1
      BY <2>4 DEF Shop!BuySaveFails, Shop!Trouble
    <3>2. step[p] = "save" /\ \E l, j : ShopAt(p, l, j) /\ l \in {"idle", "unlock"}
      BY <2>4, ShopGoes DEF Ends, Leaves
    <3>3. PICK l, j : ShopAt(p, l, j) /\ l \in {"idle", "unlock"}
      BY <3>2
    <3>4. HandOf(step[p]) = Price /\ SaveOf(step[p]) = Price /\ HandOf(l) = 0 /\ SaveOf(l) = 0
      BY <3>2, <3>3 DEF HandOf, SaveOf
    <3>5. HandSum' = HandSum - Price + 0 /\ SaveSum' = SaveSum - Price + 0
      BY <3>3, <3>4, HandSumStep
    <3> DEFINE d == -Price
    <3>6. /\ money' = money - 0 /\ spent' = spent + 0
          /\ HandSum' = HandSum + d /\ SaveSum' = SaveSum + d
          /\ d \in Int /\ d <= 0 /\ 0 + Price + d = 0
      BY <1>0, <3>1, <3>5
    <3> HIDE DEF d
    <3> QED  BY <1>0, <1>1, <3>1, <3>6, MoneyFrame
  <2>5. CASE Shop!BuyPush(p)
    <3>1. /\ money' = money /\ spent' = spent + Price /\ unbooked' = unbooked /\ orders' = orders
          /\ troubles' = troubles
      BY <2>5 DEF Shop!BuyPush
    <3>2. step[p] = "push" /\ \E l, j : ShopAt(p, l, j) /\ l \in {"idle", "poll", "keep"}
      BY <2>5, ShopGoes DEF Ends
    <3>3. PICK l, j : ShopAt(p, l, j) /\ l \in {"idle", "poll", "keep"}
      BY <3>2
    <3>4. HandOf(step[p]) = Price /\ SaveOf(step[p]) = 0 /\ HandOf(l) = 0 /\ SaveOf(l) = 0
      BY <3>2, <3>3 DEF HandOf, SaveOf
    <3>5. HandSum' = HandSum - Price + 0 /\ SaveSum' = SaveSum - 0 + 0
      BY <3>3, <3>4, HandSumStep
    <3> DEFINE d == -Price
    <3>6. /\ money' = money - 0 /\ unbooked' = unbooked + 0
          /\ HandSum' = HandSum + d /\ SaveSum' = SaveSum + 0
          /\ d \in Int /\ Price + 0 + d = 0
      BY <1>0, <3>1, <3>5
    <3> HIDE DEF d
    <3> QED  BY <1>0, <1>1, <3>1, <3>6, MoneyFrame
  <2>6. CASE Shop!BuyPushFails(p)
    <3>1. /\ money' = money /\ spent' = spent /\ unbooked' = unbooked + Price /\ orders' = orders
          /\ troubles' = troubles + 1
      BY <2>6 DEF Shop!BuyPushFails, Shop!Trouble
    <3>2. step[p] = "push" /\ \E l, j : ShopAt(p, l, j) /\ l \in {"idle", "error"}
      BY <2>6, ShopGoes DEF Ends
    <3>3. PICK l, j : ShopAt(p, l, j) /\ l \in {"idle", "error"}
      BY <3>2
    <3>4. HandOf(step[p]) = Price /\ SaveOf(step[p]) = 0 /\ HandOf(l) = 0 /\ SaveOf(l) = 0
      BY <3>2, <3>3 DEF HandOf, SaveOf
    <3>5. HandSum' = HandSum - Price + 0 /\ SaveSum' = SaveSum - 0 + 0
      BY <3>3, <3>4, HandSumStep
    <3> DEFINE d == -Price
    <3>6. /\ money' = money - 0 /\ spent' = spent + 0
          /\ HandSum' = HandSum + d /\ SaveSum' = SaveSum + 0
          /\ d \in Int /\ 0 + Price + d = 0
      BY <1>0, <3>1, <3>5
    <3> HIDE DEF d
    <3> QED  BY <1>0, <1>1, <3>1, <3>6, MoneyFrame
  <2>7. CASE Shop!Abort(p)
    <3>0. HandOf("idle") = 0 /\ SaveOf("idle") = 0
      BY DEF HandOf, SaveOf
    <3> DEFINE n == HandOf(step[p])
               k == SaveOf(step[p])
    <3>1. n \in Nat /\ k \in Nat
      BY HandSumTypes
    <3>2. n = Shop!InHand(p)
      BY DEF Shop!InHand, HandOf
    <3>3. HandSum' = HandSum - n + 0 /\ SaveSum' = SaveSum - k + 0
      BY <2>7, <3>0, ShopGoes, HandSumStep DEF Ends
    <3> HIDE DEF n, k
    <3>4. /\ money' = money /\ spent' = spent /\ unbooked' = unbooked + n /\ orders' = orders
          /\ troubles' = troubles + 1
      BY <2>7, <3>2 DEF Shop!Abort, Shop!Trouble
    <3> DEFINE d == -n
               e == -k
    <3>5. /\ money' = money - 0 /\ spent' = spent + 0
          /\ HandSum' = HandSum + d /\ SaveSum' = SaveSum + e
          /\ d \in Int /\ e \in Int /\ e <= 0 /\ 0 + n + d = 0
      BY <1>0, <3>1, <3>3, <3>4
    <3> HIDE DEF d, e
    <3> QED  BY <1>1, <3>1, <3>4, <3>5, MoneyFrame
  <2> QED  BY <1>6, <2>1, <2>2, <2>3, <2>4, <2>5, <2>6, <2>7 DEF Shop!Buy
<1> QED  BY <1>4, <1>5, <1>6 DEF Shop!Next

-----------------------------------------------------------------------------
(* Requests of one key.                                                    *)

\* The orders of a key are the same, or one more is saved for it.
LEMMA BoughtOf ==
    ASSUME Shop!TypeOK, HandInv, [Shop!Next]_Shop!vars, NEW k \in Keys
    PROVE  \/ Shop!Bought(k)' = Shop!Bought(k)
           \/ \E p \in Procs : Shop!BuySave(p) /\ request[p].key = k
<1>1. ASSUME OrdersSame PROVE Shop!Bought(k)' = Shop!Bought(k)
  BY <1>1 DEF OrdersSame, OrdersKeep, Shop!Bought
<1>2. ASSUME NEW n, NEW x, NEW b, OrdersMore(n, x, b), x # k PROVE Shop!Bought(k)' = Shop!Bought(k)
  BY <1>2 DEF OrdersMore, OrdersKeep, Shop!Bought
<1>3. CASE UNCHANGED Shop!vars
  BY <1>3 DEF Shop!vars, Shop!shopVars, Shop!Bought
<1>4. CASE Shop!Next
  BY <1>1, <1>2, <1>4, ShopOrders, ShopNumbers
<1> QED  BY <1>3, <1>4

LEMMA BoughtOne ==
    ASSUME Shop!TypeOK, HandInv, NEW k \in Keys, NEW p \in Procs, Shop!BuySave(p),
           request[p].key = k, Shop!Bought(k) = {}
    PROVE  \A o, q \in Shop!Bought(k)' : o = q
<1> DEFINE v == [key |-> request[p].key, status |-> "PENDING", paid |-> TRUE, bought |-> TRUE]
<1>1. v \in Shop!Document /\ orders' = Append(orders, v)
  BY DEF Shop!BuySave, Shop!Document, Shop!Statuses, HandInv, Requests
<1> HIDE DEF v
<1>2. PICK n : OrdersMore(n, v.key, v.bought)
  BY <1>1, OrderAppended
<1>3. Shop!Bought(k)' \subseteq {n}
  BY <1>2 DEF OrdersMore, OrdersKeep, Shop!Bought
<1> QED  BY <1>3

\* A step of p that leaves the answer, the lock and the orders of the key alone.
LEMMA KeyFrame ==
    ASSUME NEW k \in Keys, Guarded(k), NEW p \in Procs, NEW l, NEW j, ShopAt(p, l, j),
           cache'[k] = cache[k], lock'[k] = lock[k], Shop!Bought(k)' = Shop!Bought(k),
           j.key = k => request[p].key = k, KeyAt(p, k)'
    PROVE  Guarded(k)'
<1>1. \A q \in Procs : request'[q].key = k => request[q].key = k
  BY DEF ShopAt
<1>2. AloneWith(k)'
  BY <1>1 DEF Guarded, AloneWith
<1>3. \A q \in Procs : KeyAt(q, k)'
  BY DEF Guarded, KeyAt, ShopAt
<1> QED  BY <1>2, <1>3 DEF Guarded

\* A step of the one request of the key.
LEMMA KeyHeld ==
    ASSUME NEW k \in Keys, Guarded(k), NEW p \in Procs, NEW l, NEW j, ShopAt(p, l, j),
           request[p].key = k, KeyAt(p, k)',
           Shop!Bought(k)' # {} => lock'[k] # Shop!None \/ cache'[k].is # "none",
           \A o, q \in Shop!Bought(k)' : o = q
    PROVE  Guarded(k)'
<1>1. \A q \in Procs \ {p} : request'[q].key # k
  BY DEF ShopAt, Guarded, AloneWith
<1>2. AloneWith(k)'
  BY <1>1 DEF AloneWith
<1>3. \A q \in Procs : KeyAt(q, k)'
  BY <1>1 DEF KeyAt
<1> QED  BY <1>2, <1>3 DEF Guarded

\* A step of the environment.
LEMMA KeyRests ==
    ASSUME NEW k \in Keys, Guarded(k), step' = step, request' = request,
           cache'[k] = cache[k], lock'[k] = lock[k], Shop!Bought(k)' = Shop!Bought(k)
    PROVE  Guarded(k)'
<1>1. AloneWith(k)' /\ \A q \in Procs : KeyAt(q, k)'
  BY DEF Guarded, AloneWith, KeyAt
<1> QED  BY <1>1 DEF Guarded

\* Keys that were overlapped or lapsed stay so.
LEMMA Troubled ==
    ASSUME [Shop!Next]_Shop!vars, NEW k \in Keys, ~overlap'[k], ~lapsed'[k],
           overlap \in [Keys -> BOOLEAN], lapsed \in [Keys -> BOOLEAN]
    PROVE  ~overlap[k] /\ ~lapsed[k]
<1> USE DEF Shop!histVars
<1>1. ASSUME NEW p \in Procs, Shop!Buy(p) \/ Shop!Abort(p) PROVE ~overlap[k] /\ ~lapsed[k]
  BY <1>1
     DEF Shop!Buy, Shop!Abort, Shop!BuyStart, Shop!BuyPrior, Shop!BuyCached, Shop!BuyLock,
         Shop!BuyValidate, Shop!BuyDebit, Shop!BuySave, Shop!BuySaveFails, Shop!BuyPush,
         Shop!BuyPushFails, Shop!BuyKeep, Shop!BuyKeepFails, Shop!BuyError, Shop!BuyErrorFails,
         Shop!BuyUnlock, Shop!PollAnswer, Shop!PollTimeout
<1>2. CASE Shop!Environment
  BY <1>2
     DEF Shop!Environment, Shop!AdminCreate, Shop!AdminEdits, Shop!Work, Shop!Requeue, Shop!Lapse
<1> QED  BY <1>1, <1>2 DEF Shop!Next, Shop!vars

\* overlap and lapsed are Booleans.
LEMMA FlagStep ==
    ASSUME [Shop!Next]_Shop!vars, overlap \in [Keys -> BOOLEAN], lapsed \in [Keys -> BOOLEAN]
    PROVE  overlap' \in [Keys -> BOOLEAN] /\ lapsed' \in [Keys -> BOOLEAN]
<1> USE DEF Shop!histVars
<1>1. ASSUME NEW p \in Procs, Shop!Buy(p) \/ Shop!Abort(p)
      PROVE  overlap' \in [Keys -> BOOLEAN] /\ lapsed' \in [Keys -> BOOLEAN]
  BY <1>1
     DEF Shop!Buy, Shop!Abort, Shop!BuyStart, Shop!BuyPrior, Shop!BuyCached, Shop!BuyLock,
         Shop!BuyValidate, Shop!BuyDebit, Shop!BuySave, Shop!BuySaveFails, Shop!BuyPush,
         Shop!BuyPushFails, Shop!BuyKeep, Shop!BuyKeepFails, Shop!BuyError, Shop!BuyErrorFails,
         Shop!BuyUnlock, Shop!PollAnswer, Shop!PollTimeout
<1>2. CASE Shop!Environment
  BY <1>2
     DEF Shop!Environment, Shop!AdminCreate, Shop!AdminEdits, Shop!Work, Shop!Requeue, Shop!Lapse
<1> QED  BY <1>1, <1>2 DEF Shop!Next, Shop!vars

LEMMA KeyStep ==
    ASSUME Shop!TypeOK, HandInv, KeyInv, [Shop!Next]_Shop!vars,
           overlap \in [Keys -> BOOLEAN], lapsed \in [Keys -> BOOLEAN]
    PROVE  KeyInv'
<1> SUFFICES ASSUME NEW k \in Keys, ~overlap'[k], ~lapsed'[k] PROVE Guarded(k)'
  BY DEF KeyInv
<1>0. /\ Guarded(k) /\ cache \in CacheType(DOMAIN orders) /\ lock \in [Keys -> Procs \cup {Shop!None}]
      /\ Shop!NoKey # k /\ Shop!None \notin Procs
  BY Troubled, ShopNumbers DEF KeyInv, Shop!TypeOK, CacheType
<1>1. CASE UNCHANGED Shop!vars
  <2>1. step' = step /\ request' = request /\ cache' = cache /\ lock' = lock /\ orders' = orders
    BY <1>1 DEF Shop!vars, Shop!keyVars, Shop!shopVars
  <2>2. Shop!Bought(k)' = Shop!Bought(k)
    BY <2>1 DEF Shop!Bought
  <2> QED  BY <1>0, <2>1, <2>2, KeyRests
<1>2. CASE Shop!Environment
  <2>1. step' = step /\ request' = request /\ cache' = cache
    BY <1>2
       DEF Shop!Environment, Shop!AdminCreate, Shop!AdminEdits, Shop!Work, Shop!Requeue, Shop!Lapse,
           Shop!keyVars
  <2>2. lock'[k] = lock[k]
    BY <1>0, <1>2
       DEF Shop!Environment, Shop!AdminCreate, Shop!AdminEdits, Shop!Work, Shop!Requeue, Shop!Lapse,
           Shop!keyVars
  <2>3. \A p \in Procs : ~Shop!BuySave(p)
    BY <2>1, ShopGoes DEF ShopAt
  <2>4. Shop!Bought(k)' = Shop!Bought(k)
    BY <2>3, BoughtOf
  <2> QED  BY <1>0, <2>1, <2>2, <2>4, KeyRests
<1>3. ASSUME NEW p \in Procs, Shop!Buy(p) \/ Shop!Abort(p) PROVE Guarded(k)'
  <2>0. request[p] \in Requests /\ HandAt(p) /\ KeyAt(p, k)
    BY <1>0 DEF HandInv, Guarded
  <2> DEFINE SameKeys == cache' = cache /\ lock' = lock
             NoneSaved == Shop!Bought(k)' = Shop!Bought(k)
  <2>b. ASSUME NEW l, NEW j, ShopAt(p, l, j), ~(step[p] = "save" /\ l = "push") PROVE NoneSaved
    <3>1. ASSUME NEW q \in Procs, Shop!BuySave(q) PROVE FALSE
      <4>1. step[q] = "save" /\ step'[q] = "push"
        BY <3>1, ShopGoes DEF ShopAt
      <4> QED  BY <2>b, <4>1 DEF ShopAt
    <3> QED  BY <3>1, BoughtOf
  \* It ends, and no answer or lock changes.
  <2>e. ASSUME Ends(p), SameKeys PROVE Guarded(k)'
    <3>1. KeyAt(p, k)' /\ Shop!Idle.key # k
      BY <1>0, <2>e, IdleRequest DEF Ends, ShopAt, KeyAt
    <3>2. NoneSaved
      BY <2>b, <2>e DEF Ends
    <3> QED  BY <1>0, <2>e, <3>1, <3>2, KeyFrame DEF Ends
  \* It goes on with the same in hand, and no answer or lock changes.
  <2>s. ASSUME NEW l, ShopAt(p, l, request[p]), SameKeys, ~(step[p] = "save" /\ l = "push"),
               l \in {"debit", "save"} => step[p] \in {"validate", "debit"},
               l = "lock" => cache[request[p].key].is = "none",
               l = "unlock" => step[p] \in {"validate", "debit", "save"},
               l \in {"keep", "error"} => step[p] \in {"push", "keep"},
               l \notin {"validate", "push"}
        PROVE  Guarded(k)'
    <3>1. NoneSaved
      BY <2>b, <2>s
    <3>2. KeyAt(p, k)'
      BY <2>0, <2>s, <3>1 DEF KeyAt, ShopAt, Inside
    <3> QED  BY <1>0, <2>s, <3>1, <3>2, KeyFrame
  <2>l. ASSUME Leaves(p), SameKeys, step[p] \in {"validate", "debit", "save"} PROVE Guarded(k)'
    BY <2>e, <2>s, <2>l DEF Leaves
  <2>1. ASSUME NEW x \in Keys \cup {Shop!NoKey}, NEW sync \in BOOLEAN, Shop!BuyStart(p, x, sync)
        PROVE  Guarded(k)'
    <3> DEFINE j == [Shop!Idle EXCEPT !.key = x, !.sync = sync]
               l == IF x = Shop!NoKey THEN "validate" ELSE "prior"
    <3>1. step[p] = "idle" /\ ShopAt(p, l, j)
      BY <2>1, ShopGoes
    <3>2. j.key = x /\ l \in {"validate", "prior"} /\ (x = k => l = "prior")
      BY <1>0 DEF Shop!Idle
    <3> HIDE DEF j, l
    <3>3. SameKeys /\ overlap'[k] = (overlap[k] \/ (k = x /\ \E q \in Procs \ {p} : request[q].key = k))
      BY <2>1 DEF Shop!BuyStart, Shop!keyVars
    <3>4. NoneSaved
      BY <2>b, <3>1
    <3>5. CASE x = k
      <4>1. \A q \in Procs \ {p} : request'[q].key # k
        BY <3>1, <3>3, <3>5 DEF ShopAt
      <4>2. AloneWith(k)'
        BY <4>1 DEF AloneWith
      <4>3. KeyAt(p, k)'
        BY <3>1, <3>2, <3>5 DEF ShopAt, KeyAt, Inside
      <4>4. \A q \in Procs : KeyAt(q, k)'
        BY <4>1, <4>3 DEF KeyAt
      <4> QED  BY <1>0, <3>3, <3>4, <4>2, <4>4 DEF Guarded
    <3>6. CASE x # k
      <4>1. KeyAt(p, k)'
        BY <3>1, <3>2, <3>6 DEF ShopAt, KeyAt
      <4> QED  BY <1>0, <3>1, <3>2, <3>3, <3>4, <3>6, <4>1, KeyFrame
    <3> QED  BY <3>5, <3>6
  <2>2. CASE Shop!BuyPrior(p)
    <3>1. SameKeys
      BY <2>2 DEF Shop!BuyPrior, Shop!keyVars
    <3>2. Ends(p) \/ ShopAt(p, "cached", request[p])
      BY <2>2, ShopGoes
    <3> QED  BY <2>e, <2>s, <3>1, <3>2
  <2>3. CASE Shop!BuyCached(p)
    <3> DEFINE j == [request[p] EXCEPT !.order = cache[request[p].key].order]
    <3>1. SameKeys
      BY <2>3 DEF Shop!BuyCached, Shop!keyVars
    <3>2. \/ cache[request[p].key].is = "none" /\ ShopAt(p, "lock", request[p])
          \/ Ends(p) \/ ShopAt(p, "poll", j)
      BY <2>3, ShopGoes
    <3>3. CASE ShopAt(p, "poll", j)
      <4>1. j.key = request[p].key
        BY <2>0 DEF Requests
      <4> HIDE DEF j
      <4>2. NoneSaved
        BY <2>b, <3>3
      <4>3. KeyAt(p, k)'
        BY <3>3 DEF ShopAt, KeyAt, Inside
      <4> QED  BY <1>0, <3>1, <3>3, <4>1, <4>2, <4>3, KeyFrame
    <3> QED  BY <2>e, <2>s, <3>1, <3>2, <3>3
  <2>4. CASE Shop!BuyLock(p)
    <3>1. cache' = cache /\ step[p] = "lock" /\ request[p].key \in Keys
      BY <2>0, <2>4 DEF Shop!BuyLock, HandAt
    <3>2. CASE Ends(p) /\ lock' = lock
      BY <2>e, <3>1, <3>2
    <3>3. CASE /\ lock[request[p].key] = Shop!None
               /\ lock' = [lock EXCEPT ![request[p].key] = p]
               /\ ShopAt(p, "validate", request[p])
      <4>1. NoneSaved
        BY <2>b, <3>3
      <4>2. CASE request[p].key = k
        <5>1. cache[k].is = "none" /\ Shop!Bought(k) = {}
          BY <1>0, <2>0, <3>1, <3>3, <4>2 DEF KeyAt, Guarded
        <5>2. lock'[k] = p
          BY <1>0, <3>3, <4>2
        <5>3. KeyAt(p, k)'
          BY <1>0, <3>1, <3>3, <4>1, <4>2, <5>1, <5>2 DEF KeyAt, ShopAt
        <5> QED  BY <1>0, <3>3, <4>1, <4>2, <5>1, <5>3, KeyHeld
      <4>3. CASE request[p].key # k
        <5>1. lock'[k] = lock[k]
          BY <1>0, <3>3, <4>3
        <5>2. KeyAt(p, k)'
          BY <3>3, <4>3 DEF KeyAt, ShopAt
        <5> QED  BY <1>0, <3>1, <3>3, <4>1, <4>3, <5>1, <5>2, KeyFrame
      <4> QED  BY <4>2, <4>3
    <3> QED  BY <2>4, <3>2, <3>3, ShopGoes
  <2>5. CASE Shop!BuyValidate(p)
    <3>1. SameKeys
      BY <2>5 DEF Shop!BuyValidate, Shop!keyVars
    <3>2. step[p] = "validate" /\ (ShopAt(p, "debit", request[p]) \/ Leaves(p))
      BY <2>5, ShopGoes
    <3> QED  BY <2>s, <2>l, <3>1, <3>2
  <2>6. CASE Shop!BuyDebit(p)
    <3>1. SameKeys
      BY <2>6 DEF Shop!BuyDebit, Shop!keyVars
    <3>2. step[p] = "debit" /\ (ShopAt(p, "save", request[p]) \/ Leaves(p))
      BY <2>6, ShopGoes
    <3> QED  BY <2>s, <2>l, <3>1, <3>2
  <2>7. CASE Shop!BuySave(p)
    <3> DEFINE j == [request[p] EXCEPT !.order = Len(orders) + 1]
    <3>1. SameKeys
      BY <2>7 DEF Shop!BuySave, Shop!keyVars
    <3>2. step[p] = "save" /\ ShopAt(p, "push", j)
      BY <2>7, ShopGoes
    <3>3. j.key = request[p].key
      BY <2>0 DEF Requests
    <3> HIDE DEF j
    <3>4. CASE request[p].key = k
      <4>1. lock[k] # Shop!None /\ Shop!Bought(k) = {}
        BY <2>0, <3>2, <3>4 DEF KeyAt, Inside
      <4>2. \A o, q \in Shop!Bought(k)' : o = q
        BY <2>7, <3>4, <4>1, BoughtOne
      <4>3. KeyAt(p, k)'
        BY <3>1, <3>2, <4>1 DEF KeyAt, ShopAt
      <4> QED  BY <1>0, <3>1, <3>2, <3>4, <4>1, <4>2, <4>3, KeyHeld
    <3>5. CASE request[p].key # k
      <4>1. NoneSaved
        <5>1. ASSUME NEW q \in Procs, Shop!BuySave(q) PROVE q = p
          BY <3>2, <5>1, ShopGoes DEF ShopAt
        <5> QED  BY <3>5, <5>1, BoughtOf
      <4>2. KeyAt(p, k)'
        BY <3>2, <3>3, <3>5 DEF KeyAt, ShopAt
      <4> QED  BY <1>0, <3>1, <3>2, <3>3, <3>5, <4>1, <4>2, KeyFrame
    <3> QED  BY <3>4, <3>5
  <2>8. CASE Shop!BuySaveFails(p)
    <3>1. SameKeys
      BY <2>8 DEF Shop!BuySaveFails, Shop!keyVars
    <3>2. step[p] = "save" /\ Leaves(p)
      BY <2>8, ShopGoes
    <3> QED  BY <2>l, <3>1, <3>2
  <2>9. CASE Shop!BuyPush(p) \/ Shop!BuyPushFails(p) \/ Shop!BuyKeepFails(p)
    <3>1. SameKeys
      BY <2>9 DEF Shop!BuyPush, Shop!BuyPushFails, Shop!BuyKeepFails, Shop!keyVars
    <3>2. /\ step[p] \in {"push", "keep"}
          /\ \/ Ends(p) \/ ShopAt(p, "poll", request[p])
             \/ ShopAt(p, "keep", request[p]) \/ ShopAt(p, "error", request[p])
      BY <2>9, ShopGoes
    <3> QED  BY <2>e, <2>s, <3>1, <3>2
  \* What is kept for the key guards its order from here on.
  <2>k. ASSUME NEW j, ShopAt(p, "unlock", j), j.key = request[p].key, request[p].key \in Keys,
               step[p] \in {"keep", "error"}, lock' = lock,
               \E v : v.is # "none" /\ cache' = [cache EXCEPT ![request[p].key] = v]
        PROVE  Guarded(k)'
    <3>1. NoneSaved
      BY <2>b, <2>k
    <3>2. CASE request[p].key = k
      <4>1. cache'[k].is # "none" /\ lock[k] # Shop!None
        BY <1>0, <2>0, <2>k, <3>2 DEF KeyAt, Inside, CacheType
      <4>2. KeyAt(p, k)'
        BY <2>k, <4>1 DEF KeyAt, ShopAt
      <4> QED  BY <1>0, <2>k, <3>1, <3>2, <4>1, <4>2, KeyHeld DEF Guarded
    <3>3. CASE request[p].key # k
      <4>1. cache'[k] = cache[k]
        BY <1>0, <2>k, <3>3 DEF CacheType
      <4>2. KeyAt(p, k)'
        BY <2>k, <3>3 DEF KeyAt, ShopAt
      <4> QED  BY <1>0, <2>k, <3>1, <3>3, <4>1, <4>2, KeyFrame
    <3> QED  BY <3>2, <3>3
  <2>10. CASE Shop!BuyKeep(p)
    <3> DEFINE j == [request[p] EXCEPT !.ok = TRUE]
               v == [is |-> "order", order |-> request[p].order]
    <3>1. step[p] = "keep" /\ ShopAt(p, "unlock", j)
      BY <2>10, ShopGoes
    <3>2. j.key = request[p].key /\ v.is # "none" /\ request[p].key \in Keys
      BY <2>0, <3>1 DEF Requests, HandAt
    <3>3. cache' = [cache EXCEPT ![request[p].key] = v] /\ lock' = lock
      BY <2>10 DEF Shop!BuyKeep
    <3> HIDE DEF j, v
    <3> QED  BY <2>k, <3>1, <3>2, <3>3
  <2>11. CASE Shop!BuyError(p)
    <3> DEFINE v == [is |-> "error", order |-> Shop!None]
    <3>1. step[p] = "error" /\ ShopAt(p, "unlock", request[p])
      BY <2>11, ShopGoes
    <3>2. v.is # "none" /\ request[p].key \in Keys
      BY <2>0, <3>1 DEF HandAt
    <3>3. cache' = [cache EXCEPT ![request[p].key] = v] /\ lock' = lock
      BY <2>11 DEF Shop!BuyError
    <3> HIDE DEF v
    <3> QED  BY <2>k, <3>1, <3>2, <3>3
  <2>12. CASE Shop!BuyErrorFails(p)
    <3>1. SameKeys /\ lapsed' = [lapsed EXCEPT ![request[p].key] = TRUE]
      BY <2>12 DEF Shop!BuyErrorFails, Shop!keyVars
    <3>2. step[p] = "error" /\ ShopAt(p, "unlock", request[p])
      BY <2>12, ShopGoes
    <3>3. request[p].key # k
      BY <3>1
    <3>4. NoneSaved
      BY <2>b, <3>2
    <3>5. KeyAt(p, k)'
      BY <3>2, <3>3 DEF KeyAt, ShopAt
    <3> QED  BY <1>0, <3>1, <3>2, <3>3, <3>4, <3>5, KeyFrame
  <2>13. CASE Shop!BuyUnlock(p)
    <3>1. cache' = cache /\ lock' = [lock EXCEPT ![request[p].key] = Shop!None]
      BY <2>13 DEF Shop!BuyUnlock
    <3>2. PICK l, j : ShopAt(p, l, j) /\ l \in {"idle", "poll"} /\ j.key \in {Shop!NoKey, request[p].key}
      BY <2>13, ShopGoes, IdleRequest DEF Ends
    <3>3. step[p] = "unlock"
      BY <2>13, ShopGoes
    <3>4. NoneSaved
      BY <2>b, <3>2
    <3>5. KeyAt(p, k)'
      BY <3>2 DEF KeyAt, ShopAt, Inside
    <3>6. CASE request[p].key = k
      <4>1. cache[k].is = "none" => Shop!Bought(k) = {}
        BY <2>0, <3>3, <3>6 DEF KeyAt
      <4> QED  BY <1>0, <3>1, <3>2, <3>4, <3>5, <3>6, <4>1, KeyHeld DEF Guarded
    <3>7. CASE request[p].key # k
      <4>1. lock'[k] = lock[k]
        BY <1>0, <3>1, <3>7
      <4> QED  BY <1>0, <3>1, <3>2, <3>4, <3>5, <3>7, <4>1, KeyFrame
    <3> QED  BY <3>6, <3>7
  <2>14. CASE Shop!PollAnswer(p) \/ Shop!PollTimeout(p) \/ Shop!Abort(p)
    <3>1. SameKeys
      BY <2>14 DEF Shop!PollAnswer, Shop!PollTimeout, Shop!Abort, Shop!keyVars
    <3> QED  BY <2>14, <2>e, <3>1, ShopGoes
  <2> QED  BY <1>3, <2>1, <2>2, <2>3, <2>4, <2>5, <2>6, <2>7, <2>8, <2>9, <2>10, <2>11, <2>12, <2>13,
              <2>14 DEF Shop!Buy
<1> QED  BY <1>1, <1>2, <1>3 DEF Shop!Next

-----------------------------------------------------------------------------
(* The theorems about the wallet.                                          *)

LEMMA ShopInit == ASSUME Shop!Init PROVE ShopInv
<1> USE DEF Shop!Init
<1>0. /\ DOMAIN orders = {} /\ \A p \in Procs : step[p] = "idle" /\ request[p] = Shop!Idle
      /\ orders \in Seq(Shop!Document)
  OBVIOUS
<1>1. Shop!TypeOK
  BY <1>0, ShopNumbers DEF Shop!TypeOK, Shop!Answers, Shop!Labels
<1>2. FlagTypes /\ CacheInv
  BY DEF FlagTypes, CacheInv
<1>3. HandInv
  BY <1>0, IdleRequest DEF HandInv, HandAt
<1>4. MoneyInv
  <2>1. HandSum = 0 /\ SaveSum = 0
    <3>1. \A p \in Procs : Shop!Hands[p] = 0 /\ Saving[p] = 0
      BY <1>0 DEF Shop!Hands, Shop!InHand, Saving
    <3> QED  BY <3>1, ShopNumbers, SumZero DEF HandSum, SaveSum
  <2>2. Cardinality(BoughtOrders) = 0
    <3>1. BoughtOrders = {}
      BY <1>0 DEF BoughtOrders
    <3> QED  BY <3>1, FS_EmptySet
  <2>3. StartMoney + 0 + 0 + 0 = StartMoney /\ 0 * Price + 0 <= StartMoney - StartMoney
    BY ShopNumbers
  <2> QED  BY <2>1, <2>2, <2>3 DEF MoneyInv, HandSum, SaveSum
<1>5. ASSUME NEW k \in Keys PROVE Guarded(k)
  <2>1. \A p \in Procs : request[p].key # k
    BY <1>0, IdleRequest, ShopNumbers
  <2>2. Shop!Bought(k) = {}
    BY <1>0 DEF Shop!Bought
  <2> QED  BY <2>1, <2>2 DEF Guarded, AloneWith, KeyAt
<1> QED  BY <1>1, <1>2, <1>3, <1>4, <1>5 DEF ShopInv, KeyInv

LEMMA ShopStep == ASSUME ShopInv, [Shop!Next]_Shop!vars PROVE ShopInv'
  BY ShopTypes, FlagStep, HandStep, CacheStep, MoneyStep, KeyStep DEF ShopInv, FlagTypes

LEMMA ShopInvariance == Shop!Spec => []ShopInv
<1>1. Shop!Init => ShopInv
  BY ShopInit
<1>2. ShopInv /\ [Shop!Next]_Shop!vars => ShopInv'
  BY ShopStep
<1> QED  BY <1>1, <1>2, PTL DEF Shop!Spec

\* Every debit is in the ledger, in hand, or unbooked because something failed, and the orders
\* that were bought are covered by what was debited (buy).
THEOREM PurchasesArePaid == Shop!Spec => []PurchasesPaid
<1>1. ASSUME ShopInv PROVE PurchasesPaid
  <2>1. /\ money + spent + unbooked + HandSum = StartMoney
        /\ troubles = 0 => unbooked = 0
        /\ BoughtCount * Price + SaveSum <= StartMoney - money
    BY <1>1 DEF ShopInv, MoneyInv, HandSum, SaveSum, BoughtCount
  <2>2. BoughtCount * Price <= StartMoney - money
    <3>1. BoughtCount * Price \in Nat /\ SaveSum \in Nat /\ StartMoney - money \in Int
      BY <1>1, ShopNumbers, HandSumTypes, BoughtFinite DEF ShopInv, Shop!TypeOK
    <3> QED  BY <2>1, <3>1
  <2>3. Shop!SumFunctionOnSet(Shop!Hands, Procs) = HandSum
    BY SumAsHere DEF HandSum
  <2>4. Shop!Cardinality({o \in DOMAIN orders : orders[o].bought}) = BoughtCount
    BY SizeAsHere DEF BoughtCount, BoughtOrders
  <2>5. Shop!PurchasesPaid
    BY <2>1, <2>2, <2>3, <2>4 DEF Shop!PurchasesPaid
  <2> QED  BY <1>1, <2>5 DEF PurchasesPaid, ShopInv
<1> QED  BY <1>1, ShopInvariance, PTL

\* A retry that follows the answer, or the crash, of the request before it buys nothing more,
\* unless two requests overlapped, a lock lapsed or the error could not be kept (buy).
THEOREM RetriesAreFree == Shop!Spec => []RetryIsFree
<1>1. ASSUME ShopInv PROVE RetryIsFree
  <2>1. ASSUME NEW k \in Keys, ~overlap[k] /\ ~lapsed[k] PROVE Shop!Cardinality(Shop!Bought(k)) <= 1
    <3>1. \A o, q \in Shop!Bought(k) : o = q
      BY <1>1, <2>1 DEF ShopInv, KeyInv, Guarded
    <3>2. CASE Shop!Bought(k) = {}
      BY <3>2, SizeAsHere, FS_EmptySet
    <3>3. ASSUME NEW o \in Shop!Bought(k) PROVE Shop!Cardinality(Shop!Bought(k)) <= 1
      <4>1. Shop!Bought(k) = {o}
        BY <3>1, <3>3
      <4>2. Cardinality({o}) = 1
        BY FS_Singleton
      <4>3. Shop!Cardinality(Shop!Bought(k)) = Cardinality({o})
        BY <4>1, SizeAsHere
      <4> QED  BY <4>2, <4>3
    <3> QED  BY <3>2, <3>3
  <2> QED  BY <2>1 DEF RetryIsFree, Shop!RetryIsFree
<1> QED  BY <1>1, ShopInvariance, PTL

\* What the run explores is both at once: the one that rests keeps its initial state.
LEMMA WalletsApart == Wallets => Spec /\ Shop!Spec
<1>1. WalletsInit => Init /\ Shop!Init
  BY DEF WalletsInit
<1>2. [WalletsNext]_<<vars, ShopVars, buying>> => [Next]_vars /\ [Shop!Next]_Shop!vars
  BY DEF WalletsNext, ShopVars, Shop!vars, Shop!shopVars, Shop!keyVars, Shop!histVars, Shop!bounds
<1> QED  BY <1>1, <1>2, PTL DEF Wallets, Spec, Shop!Spec

\* Both balances are right in every behaviour of the user's two wallets.
THEOREM WalletsAreRight == Wallets => [](WithdrawalsBacked /\ PurchasesPaid /\ RetryIsFree)
  BY WalletsApart, WithdrawalsAreBacked, PurchasesArePaid, RetriesAreFree, PTL
=============================================================================
