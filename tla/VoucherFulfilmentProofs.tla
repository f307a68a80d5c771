----------------------- MODULE VoucherFulfilmentProofs -----------------------
(***************************************************************************)
(* Theorems about VoucherFulfilment for every number of executions, every  *)
(* quantity and price, all handlers, orders of the old scheduler included. *)
(*                                                                         *)
(* IInv, besides the types, has six parts.                                 *)
(*   ControlInv:  where executions come back to.                           *)
(*   DispatchInv: who owns the dispatch, and what can only be there once   *)
(*                the provider has answered.                               *)
(*   FlowInv:     what the order and its proxies say of each other, and    *)
(*                what an execution holds on its way through materialize() *)
(*   RefundInv:   what a refund on its way holds, and why it was allowed.  *)
(*   PastInv:     what a document read earlier still says of the order.    *)
(*   OutcomeInv:  how place and commission follow the delivery.            *)
(***************************************************************************)
EXTENDS VoucherFulfilment, TLAPS

\* The permanent fence was won by p, and p is not through with the order yet.
OwnLabels == {"wBuy", "wBuying", "wSave", "wProcessing", "wFail", "wDone"}

Owns(p) == pc[p] \in OwnLabels \/ (pc[p] \in DeliveryLabels /\ frame[p].after = "wDone")

\* Subroutines come back to their callers, and a worker to its finally block.
ControlAt(p) ==
    /\ frame[p].after \in {"idle", "wDone", "cRefund", "cSettle"}
    /\ frame[p].next \in {"idle", "commission", "project"}
    /\ frame[p].after = "wDone" \/ pc[p] \in {"wRead", "wClaim", "wAbandon"} \cup OwnLabels
          => role[p] = "worker"
    /\ role[p] = "worker" =>
          /\ pc[p] \in {"wRead", "wClaim", "wAbandon"} \cup OwnLabels \cup DeliveryLabels
          /\ pc[p] \in DeliveryLabels => frame[p].after = "wDone"
          /\ pc[p] \in {"use", "release"} => frame[p].next = "commission"

ControlInv == \A p \in Procs : ControlAt(p)

\* The provider has answered, or the manual sync has named its order.
Answered == providerId \/ result # None

\* Nobody but p has to do with the dispatch, and the provider has not answered.
BuyAt(p) ==
    /\ pc[p] = "wBuy" => buys = 0
    /\ pc[p] \in {"wBuy", "wBuying"} =>
          source = "worker" /\ ~finished /\ ~Answered /\ status # "PROCESSING"

\* What p can only have once the provider has answered.
AnswerAt(p) ==
    /\ role[p] = "poll" \/ pc[p] \in {"pRead", "pFetch", "sFetch", "mFreeze"} => Answered
    /\ held[p].result # None \/ held[p].frozen # 0 => Answered

DispatchInv ==
    /\ \A p, q \in Procs : Owns(p) /\ Owns(q) => p = q
    /\ \A p \in Procs : Owns(p) => claimed
    /\ ~claimed => source = "none" /\ ~finished /\ ~Answered /\ buys = 0
    /\ frozen # 0 => Answered
    /\ buys <= 1
    /\ \A p \in Procs : AnswerAt(p) /\ BuyAt(p)
    /\ \A p \in buying : pc[p] = "wBuying"

\* Some, not all, of the proxies arrived, and that is what the order says.
Partial ==
    resolution = "fulfilled" /\ actual = stored /\ stored = frozen /\ stored < Quantity

PartialStatuses == {"PARTIAL", "PARTIAL_REFUNDED"}

\* What p has in hand on its way through materialize() and tryRecover().
FlowAt(p) ==
    /\ pc[p] = "wSave" => frame[p].n \in Proxies
    /\ pc[p] = "mFreeze" => frame[p].n \in Proxies \ {0}
    /\ pc[p] = "mStore" => resolution = "fulfilled" /\ frame[p].n = frozen
    /\ pc[p] \in {"mCount", "mPublish"} => resolution = "fulfilled" /\ stored = frozen
    /\ pc[p] = "mPublish" /\ ~recovered => frame[p].n = stored
    /\ pc[p] = "vCommission" => recovered

\* What the order and its proxies say of each other.
DeliveryInv ==
    /\ stored <= frozen
    /\ frozen > 0 => resolution = "fulfilled"
    /\ found # 0 => recovered
    /\ ~recovered =>
          /\ actual # None => resolution = "fulfilled" /\ actual = stored /\ stored = frozen
          /\ status \in PartialStatuses => Partial

FlowInv == DeliveryInv /\ \A p \in Procs : FlowAt(p)

\* Why a refund of n, for missing proxies or not, is allowed.
Justified(n, missing) ==
    IF missing THEN Partial /\ n = MissingRefund(stored) ELSE resolution = "failed"

\* What p has in hand on its way through refund().
RefundAt(p) ==
    /\ pc[p] \in {"rPlan", "rRead", "rCredit", "rStatus"} =>
          /\ frame[p].n \in 0..Price
          /\ ~recovered => Justified(frame[p].n, frame[p].missing)
    /\ pc[p] \in {"rCredit", "rStatus"} =>
          plan = [amount |-> frame[p].n, missing |-> frame[p].missing]
    /\ pc[p] = "rStatus" => credit = frame[p].n

\* The plan, the wallet and the order agree.
PlanInv ==
    /\ plan # NoPlan =>
          /\ plan.amount \in 0..Price
          /\ ~recovered => Justified(plan.amount, plan.missing)
    /\ credit # None => plan # NoPlan /\ credit = plan.amount
    /\ refunded # 0 => refunded = credit

RefundInv == PlanInv /\ \A p \in Procs : RefundAt(p)

\* What a document d, read at any time, still says.
Past(d) ==
    /\ d.resolution # "open" => resolution = d.resolution
    /\ d.refunded # 0 => refunded = d.refunded
    /\ ~recovered =>
          /\ d.actual # None => actual = d.actual
          /\ d.status \in PartialStatuses => Partial

PastInv == \A p \in Procs : Past(held[p]) /\ Past(seen[p])

OutcomeInv ==
    ~recovered =>
        /\ place = "used" => (resolution = "fulfilled" /\ actual > 0) \/ LegacyOrders
        /\ place = "released" => resolution = "failed" /\ refunded = Price
        /\ commission # "none" => resolution = "fulfilled" /\ stored = Quantity

IInv == TypeOK /\ ControlInv /\ DispatchInv /\ FlowInv /\ RefundInv /\ PastInv /\ OutcomeInv

\* A step of execution p, whatever it does.
Act(p) == Step(p) \/ StartAny(p) \/ WorkerThrow(p) \/ PollRetry(p) \/ Abort(p)

-----------------------------------------------------------------------------
(* Types.                                                                  *)

FlagTypes ==
    /\ claimed \in BOOLEAN /\ finished \in BOOLEAN /\ providerId \in BOOLEAN
    /\ affiliate \in BOOLEAN /\ ledger \in BOOLEAN /\ recovered \in BOOLEAN

DocTypes ==
    /\ status \in Statuses /\ resolution \in {"open", "fulfilled", "failed"}
    /\ source \in {"none", "worker", "reconciliation"}
    /\ result \in Proxies \cup {None, Nameless} /\ frozen \in Proxies
    /\ plan \in [amount: (0..Price) \cup {None}, missing: BOOLEAN]
    /\ refunded \in 0..Price /\ actual \in Nat \cup {None}
    /\ stored \in Proxies /\ found \in Nat
    /\ place \in {"reserved", "used", "released"}
    /\ credit \in (0..Price) \cup {None}
    /\ commission \in {"none", "pending", "confirmed"}
    /\ buying \subseteq Procs /\ buys \in Nat

ProcTypes ==
    /\ role \in [Procs -> AllRoles \cup {"none"}]
    /\ pc \in [Procs -> Labels]
    /\ held \in [Procs -> Document] /\ seen \in [Procs -> Document]
    /\ frame \in [Procs -> [n: Nat, missing: BOOLEAN, after: Labels, next: Labels]]
    /\ aborts \in Nat

\* The types of the order and of the executions, apart.
LEMMA TypeSplit == TypeOK <=> FlagTypes /\ DocTypes /\ ProcTypes
<1>1. Snapshot \in Document <=>
        /\ status \in Statuses /\ resolution \in {"open", "fulfilled", "failed"}
        /\ claimed \in BOOLEAN
        /\ result \in Proxies \cup {None, Nameless} /\ frozen \in Proxies
        /\ plan \in [amount: (0..Price) \cup {None}, missing: BOOLEAN]
        /\ refunded \in 0..Price /\ actual \in Nat \cup {None} /\ affiliate \in BOOLEAN
  BY DEF Snapshot, Document
<1> QED  BY <1>1 DEF TypeOK, FlagTypes, DocTypes, ProcTypes

\* What a read returns is a document.
LEMMA SnapshotType == ASSUME FlagTypes, DocTypes PROVE Snapshot \in Document
  BY DEF FlagTypes, DocTypes, Snapshot, Document

\* The empty document and the empty frame are well typed.
LEMMA EmptyTypes ==
    /\ Blank \in Document
    /\ EmptyFrame \in [n: Nat, missing: BOOLEAN, after: Labels, next: Labels]
  BY FulfilmentAssumption
     DEF Blank, Document, NoPlan, None, Statuses, Proxies, EmptyFrame, Labels

\* An execution that goes to another label stays well typed.
LEMMA GotoType ==
    ASSUME ProcTypes, NEW p \in Procs, NEW l \in Labels, Goto(p, l)
    PROVE  ProcTypes'
  BY DEF ProcTypes, Goto

\* An execution that ends stays well typed.
LEMMA FinishType ==
    ASSUME ProcTypes, NEW p \in Procs, Finish(p)
    PROVE  ProcTypes'
<1>1. "idle" \in Labels
  BY DEF Labels
<1> QED  BY <1>1, EmptyTypes DEF ProcTypes, Finish

\* An execution that returns stays well typed.
LEMMA ResumeType ==
    ASSUME ProcTypes, NEW p \in Procs, NEW l \in Labels, Resume(p, l)
    PROVE  ProcTypes'
  BY GotoType, FinishType DEF Resume

\* An execution that goes on with a number in hand stays well typed.
LEMMA CarryType ==
    ASSUME ProcTypes, NEW p \in Procs, NEW l \in Labels, NEW n \in Nat, Carry(p, l, n)
    PROVE  ProcTypes'
  BY DEF ProcTypes, Carry

\* An execution that calls a subroutine stays well typed.
LEMMA CallType ==
    ASSUME ProcTypes, NEW p \in Procs, NEW l \in Labels, NEW n \in Nat, NEW after \in Labels,
           Call(p, l, n, after)
    PROVE  ProcTypes'
<1>1. [EmptyFrame EXCEPT !.n = n, !.after = after]
        \in [n: Nat, missing: BOOLEAN, after: Labels, next: Labels]
  BY EmptyTypes
<1> QED  BY <1>1 DEF ProcTypes, Call

\* An execution that calls settle() stays well typed.
LEMMA SettleType ==
    ASSUME ProcTypes, NEW p \in Procs, NEW doc \in Document, NEW next \in Labels,
           Settle(p, doc, next)
    PROVE  ProcTypes'
<1>1. "use" \in Labels
  BY DEF Labels, DeliveryLabels
<1> QED  BY <1>1 DEF ProcTypes, Settle

\* An execution that starts is well typed.
LEMMA StartType ==
    ASSUME ProcTypes, NEW p \in Procs, NEW r, NEW l \in Labels, NEW doc \in Document,
           StartWith(p, r, l, doc)
    PROVE  ProcTypes'
  BY FulfilmentAssumption DEF ProcTypes, StartWith

\* The initial states are well typed.
LEMMA TypeInit == Init => TypeOK
<1> SUFFICES ASSUME Init PROVE FlagTypes /\ DocTypes /\ ProcTypes
  BY TypeSplit
<1>1. FlagTypes
  BY DEF Init, NewOrder, LegacyOrder, FlagTypes
<1>2. DocTypes
  BY FulfilmentAssumption
     DEF Init, NewOrder, LegacyOrder, DocTypes, NoPlan, None, Statuses, Proxies
<1>3. ProcTypes
  BY EmptyTypes DEF Init, ProcTypes, Labels
<1> QED  BY <1>1, <1>2, <1>3

\* Every step keeps the flags Boolean.
LEMMA FlagStep ==
    ASSUME FlagTypes, [Next]_vars
    PROVE  FlagTypes'
<1> USE DEF FlagTypes, vars, Documents, dispatchVars, outcomeVars, refundVars, proxyVars,
       callVars, ReadOnly
<1>1. ASSUME NEW p \in Procs, Worker(p) PROVE FlagTypes'
  BY <1>1 DEF Worker, WorkerRead, WorkerClaim, WorkerBuy, WorkerAnswer, WorkerSave,
     WorkerProcessing, WorkerFail, WorkerDone
<1>2. ASSUME NEW p \in Procs, PollOrSync(p) PROVE FlagTypes'
  BY <1>2 DEF PollOrSync, PollRead, PollFetch, PollTimeout, SyncFence, SyncFetch
<1>3. ASSUME NEW p \in Procs, Materialize(p) PROVE FlagTypes'
  BY <1>3 DEF Materialize, Freeze, FrozenRead, StoreProxy, CountProxies, Publish, Use, Release,
     CreateCommission, ConfirmCommission, ClearAffiliate, Outbox
<1>4. ASSUME NEW p \in Procs, Refund(p) PROVE FlagTypes'
  BY <1>4 DEF Refund, PlanRefund, CheckPlan, CreditWallet, SetRefunded, SettleRefund,
     ProjectRefund
<1>5. ASSUME NEW p \in Procs, Reconcile(p) PROVE FlagTypes'
  BY <1>5 DEF Reconcile, ReverseUsage, Reopen, Reread, Redeliver, ResumeAnswered, GiveUp,
     ResumeRefund, SettleOrder
<1>6. ASSUME NEW p \in Procs, Expire(p) PROVE FlagTypes'
  BY <1>6 DEF Expire, ExpireOrder, ExpireCommission
<1>7. ASSUME NEW p \in Procs, Recover(p) PROVE FlagTypes'
  BY <1>7 DEF Recover, CountRecovered, FetchRecovered, InsertRecovered, RecountRecovered,
     PublishRecovered, RecoveredCommission
<1>8. ASSUME NEW p \in Procs, StartAny(p) PROVE FlagTypes'
  <2>1. CASE WorkerStart(p) \/ PollStart(p) \/ SyncStart(p)
    BY <2>1 DEF WorkerStart, PollStart, SyncStart, Start, StartWith
  <2>2. CASE RefundStart(p)
    BY <2>2 DEF RefundStart
  <2>3. CASE ReconcileStart(p)
    BY <2>3 DEF ReconcileStart, StartWith
  <2>4. CASE ExpireStart(p) \/ RecoverStart(p)
    BY <2>4 DEF ExpireStart, RecoverStart, Start, StartWith
  <2> QED  BY <1>8, <2>1, <2>2, <2>3, <2>4 DEF StartAny
<1>9. ASSUME NEW p \in Procs, WorkerThrow(p) PROVE FlagTypes'
  BY <1>9 DEF WorkerThrow
<1>10. ASSUME NEW p \in Procs, PollRetry(p) PROVE FlagTypes'
  BY <1>10 DEF PollRetry
<1>11. ASSUME NEW p \in Procs, Abort(p) PROVE FlagTypes'
  BY <1>11 DEF Abort
<1>12. ASSUME ConfirmFailure PROVE FlagTypes'
  BY <1>12 DEF ConfirmFailure
<1>13. CASE UNCHANGED vars
  BY <1>13
<1> QED
  BY <1>1, <1>2, <1>3, <1>4, <1>5, <1>6, <1>7, <1>8, <1>9, <1>10, <1>11, <1>12, <1>13 DEF Next,
     Step

\* Every step keeps the types of the order and of what belongs to it.
LEMMA DocStep ==
    ASSUME DocTypes, ProcTypes, FlowInv, RefundInv, [Next]_vars
    PROVE  DocTypes'
<1> USE DEF DocTypes, vars, Documents, dispatchVars, outcomeVars, refundVars, proxyVars,
       callVars, ReadOnly
<1>1. ASSUME NEW p \in Procs, WorkerRead(p) PROVE DocTypes'
  BY <1>1 DEF WorkerRead
<1>2. ASSUME NEW p \in Procs, WorkerClaim(p) PROVE DocTypes'
  BY <1>2 DEF WorkerClaim
<1>3. ASSUME NEW p \in Procs, WorkerBuy(p) PROVE DocTypes'
  BY <1>3 DEF WorkerBuy
<1>4. ASSUME NEW p \in Procs, WorkerAnswer(p) PROVE DocTypes'
  BY <1>4 DEF WorkerAnswer
<1>5. ASSUME NEW p \in Procs, WorkerSave(p) PROVE DocTypes'
  BY <1>5 DEF WorkerSave, FlowInv, FlowAt
<1>6. ASSUME NEW p \in Procs, WorkerProcessing(p) PROVE DocTypes'
  BY <1>6 DEF WorkerProcessing, Statuses
<1>7. ASSUME NEW p \in Procs, WorkerFail(p) PROVE DocTypes'
  BY <1>7 DEF WorkerFail, ToPendingRefund, Statuses
<1>8. ASSUME NEW p \in Procs, WorkerDone(p) PROVE DocTypes'
  BY <1>8 DEF WorkerDone
<1>9. ASSUME NEW p \in Procs, PollOrSync(p) PROVE DocTypes'
  BY <1>9 DEF PollOrSync, PollRead, PollFetch, PollTimeout, SyncFence, SyncFetch, Statuses
<1>10. ASSUME NEW p \in Procs, Freeze(p) PROVE DocTypes'
  BY <1>10 DEF Freeze, FlowInv, FlowAt, Proxies
<1>11. ASSUME NEW p \in Procs, FrozenRead(p) PROVE DocTypes'
  BY <1>11 DEF FrozenRead
<1>12. ASSUME NEW p \in Procs, StoreProxy(p) PROVE DocTypes'
  BY <1>12, FulfilmentAssumption DEF StoreProxy, FlowInv, FlowAt, Proxies
<1>13. ASSUME NEW p \in Procs, CountProxies(p) PROVE DocTypes'
  BY <1>13 DEF CountProxies
<1>14. ASSUME NEW p \in Procs, Publish(p) PROVE DocTypes'
  BY <1>14 DEF Publish, ProcTypes, Statuses
<1>15. ASSUME NEW p \in Procs, Use(p) PROVE DocTypes'
  BY <1>15 DEF Use
<1>16. ASSUME NEW p \in Procs, Release(p) PROVE DocTypes'
  BY <1>16 DEF Release
<1>17. ASSUME NEW p \in Procs, CreateCommission(p) PROVE DocTypes'
  BY <1>17 DEF CreateCommission
<1>18. ASSUME NEW p \in Procs, ConfirmCommission(p) PROVE DocTypes'
  BY <1>18 DEF ConfirmCommission, Confirmed
<1>19. ASSUME NEW p \in Procs, ClearAffiliate(p) PROVE DocTypes'
  BY <1>19 DEF ClearAffiliate
<1>20. ASSUME NEW p \in Procs, PlanRefund(p) PROVE DocTypes'
  <2>1. frame[p].n \in 0..Price /\ frame[p].missing \in BOOLEAN
    BY <1>20 DEF PlanRefund, RefundInv, RefundAt, ProcTypes
  <2>2. [amount |-> frame[p].n, missing |-> frame[p].missing]
          \in [amount: (0..Price) \cup {None}, missing: BOOLEAN]
    BY <2>1
  <2>3. plan' = plan \/ plan' = [amount |-> frame[p].n, missing |-> frame[p].missing]
    BY <1>20 DEF PlanRefund
  <2> QED  BY <1>20, <2>2, <2>3 DEF PlanRefund
<1>21. ASSUME NEW p \in Procs, CheckPlan(p) PROVE DocTypes'
  BY <1>21 DEF CheckPlan
<1>22. ASSUME NEW p \in Procs, CreditWallet(p) PROVE DocTypes'
  BY <1>22 DEF CreditWallet, RefundInv, RefundAt
<1>23. ASSUME NEW p \in Procs, SetRefunded(p) PROVE DocTypes'
  BY <1>23 DEF SetRefunded, RefundInv, RefundAt, Statuses
<1>24. ASSUME NEW p \in Procs, SettleRefund(p) PROVE DocTypes'
  BY <1>24 DEF SettleRefund
<1>25. ASSUME NEW p \in Procs, ProjectRefund(p) PROVE DocTypes'
  BY <1>25 DEF ProjectRefund
<1>26. ASSUME NEW p \in Procs, Reconcile(p) PROVE DocTypes'
  BY <1>26 DEF Reconcile, ReverseUsage, Reopen, Reread, Redeliver, ResumeAnswered, GiveUp,
     ResumeRefund, SettleOrder, Statuses
<1>27. ASSUME NEW p \in Procs, Expire(p) PROVE DocTypes'
  BY <1>27 DEF Expire, ExpireOrder, ExpireCommission, Confirmed, Statuses
<1>28. ASSUME NEW p \in Procs, CountRecovered(p) PROVE DocTypes'
  BY <1>28 DEF CountRecovered
<1>29. ASSUME NEW p \in Procs, FetchRecovered(p) PROVE DocTypes'
  BY <1>29 DEF FetchRecovered
<1>30. ASSUME NEW p \in Procs, InsertRecovered(p) PROVE DocTypes'
  BY <1>30 DEF InsertRecovered, ProcTypes
<1>31. ASSUME NEW p \in Procs, RecountRecovered(p) PROVE DocTypes'
  BY <1>31 DEF RecountRecovered
<1>32. ASSUME NEW p \in Procs, PublishRecovered(p) PROVE DocTypes'
  BY <1>32 DEF PublishRecovered, ProcTypes, Statuses
<1>33. ASSUME NEW p \in Procs, RecoveredCommission(p) PROVE DocTypes'
  BY <1>33 DEF RecoveredCommission
<1>34. ASSUME NEW p \in Procs, StartAny(p) PROVE DocTypes'
  <2>1. CASE WorkerStart(p) \/ PollStart(p) \/ SyncStart(p)
    BY <2>1 DEF WorkerStart, PollStart, SyncStart, Start, StartWith
  <2>2. CASE RefundStart(p)
    BY <2>2 DEF RefundStart
  <2>3. CASE ReconcileStart(p)
    BY <2>3 DEF ReconcileStart, StartWith
  <2>4. CASE ExpireStart(p) \/ RecoverStart(p)
    BY <2>4 DEF ExpireStart, RecoverStart, Start, StartWith
  <2> QED  BY <1>34, <2>1, <2>2, <2>3, <2>4 DEF StartAny
<1>35. ASSUME NEW p \in Procs, WorkerThrow(p) PROVE DocTypes'
  BY <1>35 DEF WorkerThrow
<1>36. ASSUME NEW p \in Procs, PollRetry(p) PROVE DocTypes'
  BY <1>36 DEF PollRetry
<1>37. ASSUME NEW p \in Procs, Abort(p) PROVE DocTypes'
  BY <1>37 DEF Abort
<1>38. ASSUME ConfirmFailure PROVE DocTypes'
  BY <1>38 DEF ConfirmFailure
<1>39. CASE UNCHANGED vars
  BY <1>39
<1> QED
  BY <1>1, <1>2, <1>3, <1>4, <1>5, <1>6, <1>7, <1>8, <1>9, <1>10, <1>11, <1>12, <1>13, <1>14,
     <1>15, <1>16, <1>17, <1>18, <1>19, <1>20, <1>21, <1>22, <1>23, <1>24, <1>25, <1>26, <1>27,
     <1>28, <1>29, <1>30, <1>31, <1>32, <1>33, <1>34, <1>35, <1>36, <1>37, <1>38, <1>39 DEF
     Next, Step, Worker, Materialize, Refund, Recover

\* What an execution has in hand is well typed.
LEMMA HandTypes ==
    ASSUME ProcTypes, NEW p \in Procs
    PROVE  /\ frame[p].n \in Nat /\ frame[p].after \in Labels /\ frame[p].next \in Labels
           /\ held[p] \in Document /\ pc[p] \in Labels
  BY DEF ProcTypes

\* Every step keeps the types of the executions.
LEMMA ProcStep ==
    ASSUME FlagTypes, DocTypes, ProcTypes, FlagTypes', DocTypes', [Next]_vars
    PROVE  ProcTypes'
<1> USE HandTypes DEF Labels, DeliveryLabels, procVars
<1>1. ASSUME NEW p \in Procs, WorkerRead(p) PROVE ProcTypes'
  BY <1>1, ResumeType DEF WorkerRead
<1>2. ASSUME NEW p \in Procs, WorkerClaim(p) PROVE ProcTypes'
  BY <1>2, GotoType, FinishType DEF WorkerClaim
<1>3. ASSUME NEW p \in Procs, WorkerBuy(p) PROVE ProcTypes'
  BY <1>3, GotoType DEF WorkerBuy
<1>4. ASSUME NEW p \in Procs, WorkerAnswer(p) PROVE ProcTypes'
  BY <1>4, GotoType, CarryType DEF WorkerAnswer, Proxies
<1>5. ASSUME NEW p \in Procs, WorkerSave(p) PROVE ProcTypes'
  BY <1>5, GotoType, CallType DEF WorkerSave
<1>6. ASSUME NEW p \in Procs, WorkerProcessing(p) PROVE ProcTypes'
  BY <1>6, GotoType DEF WorkerProcessing
<1>7. ASSUME NEW p \in Procs, WorkerFail(p) PROVE ProcTypes'
  BY <1>7, ResumeType DEF WorkerFail
<1>8. ASSUME NEW p \in Procs, WorkerDone(p) PROVE ProcTypes'
  BY <1>8, FinishType DEF WorkerDone
<1>9. ASSUME NEW p \in Procs, PollRead(p) PROVE ProcTypes'
  BY <1>9, ResumeType DEF PollRead
<1>10. ASSUME NEW p \in Procs, PollFetch(p) PROVE ProcTypes'
  BY <1>10, GotoType, CallType DEF PollFetch, Proxies
<1>11. ASSUME NEW p \in Procs, PollTimeout(p) PROVE ProcTypes'
  BY <1>11, FinishType DEF PollTimeout
<1>12. ASSUME NEW p \in Procs, SyncFence(p) PROVE ProcTypes'
  BY <1>12, GotoType, FinishType DEF SyncFence
<1>13. ASSUME NEW p \in Procs, SyncFetch(p) PROVE ProcTypes'
  BY <1>13, FinishType, CallType DEF SyncFetch, Proxies
<1>14. ASSUME NEW p \in Procs, Freeze(p) PROVE ProcTypes'
  BY <1>14, GotoType DEF Freeze
<1>15. ASSUME NEW p \in Procs, FrozenRead(p) PROVE ProcTypes'
  BY <1>15, ResumeType, CarryType, SettleType, SnapshotType DEF FrozenRead, ToStore, DocTypes,
     Proxies
<1>16. ASSUME NEW p \in Procs, StoreProxy(p) PROVE ProcTypes'
  <2>1. CASE UNCHANGED procVars
    BY <2>1 DEF ProcTypes
  <2>2. CASE Goto(p, "mCount")
    BY <2>2, GotoType
  <2> QED  BY <1>16, <2>1, <2>2 DEF StoreProxy
<1>17. ASSUME NEW p \in Procs, CountProxies(p) PROVE ProcTypes'
  BY <1>17, CarryType DEF CountProxies, DocTypes, Proxies
<1>18. ASSUME NEW p \in Procs, Publish(p) PROVE ProcTypes'
  <2>1. Snapshot' \in Document
    BY DEF FlagTypes, DocTypes, Snapshot, Document
  <2>2. CASE Settle(p, Snapshot', "commission")
    BY <2>1, <2>2 DEF Settle, ProcTypes
  <2>3. CASE Resume(p, frame[p].after)
    BY <2>3, ResumeType
  <2> QED  BY <1>18, <2>2, <2>3 DEF Publish
<1>19. ASSUME NEW p \in Procs, Use(p) PROVE ProcTypes'
  BY <1>19, GotoType DEF Use
<1>20. ASSUME NEW p \in Procs, Release(p) PROVE ProcTypes'
  BY <1>20, ResumeType DEF Release
<1>21. ASSUME NEW p \in Procs, CreateCommission(p) PROVE ProcTypes'
  BY <1>21, GotoType, ResumeType DEF CreateCommission
<1>22. ASSUME NEW p \in Procs, ConfirmCommission(p) PROVE ProcTypes'
  BY <1>22, GotoType DEF ConfirmCommission
<1>23. ASSUME NEW p \in Procs, ClearAffiliate(p) PROVE ProcTypes'
  BY <1>23, ResumeType DEF ClearAffiliate
<1>24. ASSUME NEW p \in Procs, PlanRefund(p) PROVE ProcTypes'
  BY <1>24, GotoType DEF PlanRefund
<1>25. ASSUME NEW p \in Procs, CheckPlan(p) PROVE ProcTypes'
  BY <1>25, ResumeType DEF CheckPlan
<1>26. ASSUME NEW p \in Procs, CreditWallet(p) PROVE ProcTypes'
  BY <1>26, GotoType DEF CreditWallet
<1>27. ASSUME NEW p \in Procs, SetRefunded(p) PROVE ProcTypes'
  BY <1>27, GotoType DEF SetRefunded
<1>28. ASSUME NEW p \in Procs, SettleRefund(p) PROVE ProcTypes'
  BY <1>28, SettleType, SnapshotType DEF SettleRefund
<1>29. ASSUME NEW p \in Procs, ProjectRefund(p) PROVE ProcTypes'
  BY <1>29, ResumeType DEF ProjectRefund
<1>30. ASSUME NEW p \in Procs, ReverseUsage(p) PROVE ProcTypes'
  BY <1>30, GotoType DEF ReverseUsage
<1>31. ASSUME NEW p \in Procs, Reopen(p) PROVE ProcTypes'
  BY <1>31, GotoType DEF Reopen
<1>32. ASSUME NEW p \in Procs, Reread(p) PROVE ProcTypes'
  BY <1>32, SnapshotType DEF Reread, ProcTypes
<1>33. ASSUME NEW p \in Procs, Redeliver(p) PROVE ProcTypes'
  <2>1. Redelivered(held[p]) \in Nat
    BY DEF Redelivered, Document, Proxies, None, Nameless
  <2> QED  BY <1>33, <2>1, GotoType, CallType DEF Redeliver
<1>34. ASSUME NEW p \in Procs, ResumeAnswered(p) PROVE ProcTypes'
  BY <1>34, GotoType DEF ResumeAnswered
<1>35. ASSUME NEW p \in Procs, GiveUp(p) PROVE ProcTypes'
  BY <1>35, GotoType DEF GiveUp
<1>36. ASSUME NEW p \in Procs, ResumeRefund(p) PROVE ProcTypes'
  <2> DEFINE f == [n |-> held[p].plan.amount, missing |-> held[p].plan.missing,
                   after |-> "cSettle", next |-> "idle"]
  <2>1. CASE /\ OwesRefund(held[p])
             /\ RefundAllowed(held[p], held[p].plan.amount, held[p].plan.missing)
    <3>1. held[p].plan.amount \in Nat
      BY <2>1 DEF RefundAllowed
    <3>2. held[p].plan.missing \in BOOLEAN
      BY DEF Document
    <3>3. f \in [n: Nat, missing: BOOLEAN, after: Labels, next: Labels]
      BY <3>1, <3>2
    <3>4. pc' = [pc EXCEPT ![p] = "rPlan"] /\ frame' = [frame EXCEPT ![p] = f]
          /\ UNCHANGED <<role, held, seen, aborts>>
      BY <1>36, <2>1 DEF ResumeRefund
    <3> HIDE DEF f
    <3> QED  BY <3>3, <3>4 DEF ProcTypes
  <2>2. CASE Finish(p) \/ Goto(p, "cSettle")
    BY <2>2, FinishType, GotoType
  <2> QED  BY <1>36, <2>1, <2>2 DEF ResumeRefund
<1>37. ASSUME NEW p \in Procs, SettleOrder(p) PROVE ProcTypes'
  BY <1>37, EmptyTypes DEF SettleOrder, ProcTypes
<1>38. ASSUME NEW p \in Procs, ExpireOrder(p) PROVE ProcTypes'
  BY <1>38, GotoType DEF ExpireOrder
<1>39. ASSUME NEW p \in Procs, ExpireCommission(p) PROVE ProcTypes'
  BY <1>39, FinishType DEF ExpireCommission
<1>40. ASSUME NEW p \in Procs, CountRecovered(p) PROVE ProcTypes'
  BY <1>40, CarryType DEF CountRecovered, DocTypes, Proxies
<1>41. ASSUME NEW p \in Procs, FetchRecovered(p) PROVE ProcTypes'
  BY <1>41, CarryType, FinishType DEF FetchRecovered, Proxies
<1>42. ASSUME NEW p \in Procs, InsertRecovered(p) PROVE ProcTypes'
  BY <1>42, GotoType DEF InsertRecovered
<1>43. ASSUME NEW p \in Procs, RecountRecovered(p) PROVE ProcTypes'
  BY <1>43, CarryType DEF RecountRecovered, DocTypes, Proxies
<1>44. ASSUME NEW p \in Procs, PublishRecovered(p) PROVE ProcTypes'
  BY <1>44, ResumeType DEF PublishRecovered
<1>45. ASSUME NEW p \in Procs, RecoveredCommission(p) PROVE ProcTypes'
  BY <1>45, FinishType DEF RecoveredCommission
<1>46. ASSUME NEW p \in Procs, WorkerStart(p) PROVE ProcTypes'
  BY <1>46, StartType, EmptyTypes DEF WorkerStart, Start, StartWith, Start
<1>47. ASSUME NEW p \in Procs, PollStart(p) PROVE ProcTypes'
  BY <1>47, StartType, EmptyTypes DEF PollStart, Start, StartWith, Start
<1>48. ASSUME NEW p \in Procs, SyncStart(p) PROVE ProcTypes'
  BY <1>48, StartType, EmptyTypes DEF SyncStart, Start, StartWith, Start
<1>49. ASSUME NEW p \in Procs, RefundStart(p) PROVE ProcTypes'
  <2>1. PICK missing \in BOOLEAN, target \in 0..Price :
          /\ role' = [role EXCEPT ![p] = "refund"]
          /\ pc' = [pc EXCEPT ![p] = "rPlan"]
          /\ held' = [held EXCEPT ![p] = Snapshot]
          /\ frame' = [frame EXCEPT ![p] = [EmptyFrame EXCEPT !.n = target, !.missing = missing]]
          /\ UNCHANGED <<seen, aborts>>
    BY <1>49 DEF RefundStart
  <2>2. [EmptyFrame EXCEPT !.n = target, !.missing = missing]
          \in [n: Nat, missing: BOOLEAN, after: Labels, next: Labels]
    <3>1. target \in Nat
      OBVIOUS
    <3> QED  BY <3>1, EmptyTypes
  <2>3. "refund" \in AllRoles
    BY DEF AllRoles
  <2> QED  BY <2>1, <2>2, <2>3, SnapshotType DEF ProcTypes
<1>50. ASSUME NEW p \in Procs, ReconcileStart(p) PROVE ProcTypes'
  BY <1>50, StartType, SnapshotType DEF ReconcileStart, Start, StartWith
<1>51. ASSUME NEW p \in Procs, ExpireStart(p) PROVE ProcTypes'
  BY <1>51, StartType, EmptyTypes DEF ExpireStart, Start, StartWith, Start
<1>52. ASSUME NEW p \in Procs, RecoverStart(p) PROVE ProcTypes'
  BY <1>52, StartType, EmptyTypes DEF RecoverStart, Start, StartWith, Start
<1>53. ASSUME NEW p \in Procs, WorkerThrow(p) PROVE ProcTypes'
  BY <1>53 DEF WorkerThrow, ProcTypes
<1>54. ASSUME NEW p \in Procs, PollRetry(p) PROVE ProcTypes'
  BY <1>54, EmptyTypes DEF PollRetry, ProcTypes
<1>55. ASSUME NEW p \in Procs, Abort(p) PROVE ProcTypes'
  BY <1>55, EmptyTypes DEF Abort, ProcTypes
<1>56. ASSUME ConfirmFailure PROVE ProcTypes'
  BY <1>56 DEF ConfirmFailure, ProcTypes
<1>57. CASE UNCHANGED vars
  BY <1>57 DEF ProcTypes, vars
<1> QED
  BY <1>1, <1>2, <1>3, <1>4, <1>5, <1>6, <1>7, <1>8, <1>9, <1>10, <1>11, <1>12, <1>13, <1>14,
     <1>15, <1>16, <1>17, <1>18, <1>19, <1>20, <1>21, <1>22, <1>23, <1>24, <1>25, <1>26, <1>27,
     <1>28, <1>29, <1>30, <1>31, <1>32, <1>33, <1>34, <1>35, <1>36, <1>37, <1>38, <1>39, <1>40,
     <1>41, <1>42, <1>43, <1>44, <1>45, <1>46, <1>47, <1>48, <1>49, <1>50, <1>51, <1>52, <1>53,
     <1>54, <1>55, <1>56, <1>57 DEF Next, Step, StartAny, Worker, PollOrSync, Materialize,
     Refund, Reconcile, Expire, Recover, StartAny

-----------------------------------------------------------------------------
(* What an action does to the execution that takes it.                     *)

Rests(q) ==
    /\ role'[q] = role[q] /\ pc'[q] = pc[q] /\ frame'[q] = frame[q]
    /\ held'[q] = held[q] /\ seen'[q] = seen[q]

\* A step of one execution leaves the others where they are.
LEMMA OthersRest ==
    ASSUME ProcTypes, NEW p \in Procs, Act(p), NEW q \in Procs, q # p
    PROVE  Rests(q)
<1> USE DEF Rests, ProcTypes, procVars, Goto, Finish, Resume, Carry, Call, Settle
<1>1. CASE Worker(p)
  BY <1>1 DEF Worker, WorkerRead, WorkerClaim, WorkerBuy, WorkerAnswer, WorkerSave,
     WorkerProcessing, WorkerFail, WorkerDone
<1>2. CASE PollOrSync(p)
  BY <1>2 DEF PollOrSync, PollRead, PollFetch, PollTimeout, SyncFence, SyncFetch
<1>3. CASE Materialize(p)
  BY <1>3 DEF Materialize, Freeze, FrozenRead, StoreProxy, CountProxies, Publish, Use, Release,
     CreateCommission, ConfirmCommission, ClearAffiliate
<1>4. CASE Refund(p)
  BY <1>4 DEF Refund, PlanRefund, CheckPlan, CreditWallet, SetRefunded, SettleRefund,
     ProjectRefund
<1>5. CASE Reconcile(p)
  BY <1>5 DEF Reconcile, ReverseUsage, Reopen, Reread, Redeliver, ResumeAnswered, GiveUp,
     ResumeRefund, SettleOrder
<1>6. CASE Expire(p)
  BY <1>6 DEF Expire, ExpireOrder, ExpireCommission
<1>7. CASE Recover(p)
  BY <1>7 DEF Recover, CountRecovered, FetchRecovered, InsertRecovered, RecountRecovered,
     PublishRecovered, RecoveredCommission
<1>8. CASE StartAny(p)
  BY <1>8 DEF StartAny, WorkerStart, PollStart, SyncStart, RefundStart, ReconcileStart, ExpireStart,
     RecoverStart, Start, StartWith
<1>9. CASE WorkerThrow(p)
  BY <1>9 DEF WorkerThrow
<1>10. CASE PollRetry(p)
  BY <1>10 DEF PollRetry
<1>11. CASE Abort(p)
  BY <1>11 DEF Abort
<1> QED
  BY <1>1, <1>2, <1>3, <1>4, <1>5, <1>6, <1>7, <1>8, <1>9, <1>10, <1>11 DEF Act, Step

\* Going to a label changes nothing but the label.
LEMMA GotoAt ==
    ASSUME ProcTypes, NEW p \in Procs, NEW l, Goto(p, l)
    PROVE  /\ pc'[p] = l /\ role'[p] = role[p] /\ frame'[p] = frame[p]
           /\ held'[p] = held[p] /\ seen'[p] = seen[p]
  BY DEF ProcTypes, Goto

\* The end leaves nothing in hand.
LEMMA FinishAt ==
    ASSUME ProcTypes, NEW p \in Procs, Finish(p)
    PROVE  /\ pc'[p] = "idle" /\ role'[p] = "none" /\ frame'[p] = EmptyFrame
           /\ held'[p] = Blank /\ seen'[p] = Blank
  BY DEF ProcTypes, Finish

\* Carrying a number leaves the rest of the frame.
LEMMA CarryAt ==
    ASSUME ProcTypes, NEW p \in Procs, NEW l, NEW n, Carry(p, l, n)
    PROVE  /\ pc'[p] = l /\ role'[p] = role[p] /\ held'[p] = held[p] /\ seen'[p] = seen[p]
           /\ frame'[p].n = n
           /\ frame'[p].after = frame[p].after /\ frame'[p].next = frame[p].next
  BY DEF ProcTypes, Carry

\* A call has a frame of its own.
LEMMA CallAt ==
    ASSUME ProcTypes, NEW p \in Procs, NEW l, NEW n, NEW after, Call(p, l, n, after)
    PROVE  /\ pc'[p] = l /\ role'[p] = role[p] /\ held'[p] = held[p] /\ seen'[p] = seen[p]
           /\ frame'[p].n = n
           /\ frame'[p].after = after /\ frame'[p].next = "idle"
  BY DEF ProcTypes, Call, EmptyFrame

\* The call of settle() keeps where the caller comes back to.
LEMMA SettleAt ==
    ASSUME ProcTypes, NEW p \in Procs, NEW doc, NEW next, Settle(p, doc, next)
    PROVE  /\ pc'[p] = "use" /\ role'[p] = role[p] /\ held'[p] = held[p] /\ seen'[p] = doc
           /\ frame'[p].n = frame[p].n
           /\ frame'[p].after = frame[p].after /\ frame'[p].next = next
  BY DEF ProcTypes, Settle

\* The reconciler settles the order it read.
LEMMA SettleOrderAt ==
    ASSUME ProcTypes, NEW p \in Procs, SettleOrder(p)
    PROVE  /\ ReadOnly /\ pc[p] = "cSettle"
           /\ pc'[p] = "use" /\ role'[p] = role[p] /\ held'[p] = held[p] /\ seen'[p] = held[p]
           /\ frame'[p].after = "idle" /\ frame'[p].next = "commission"
  BY DEF ProcTypes, SettleOrder, EmptyFrame

\* A handler starts with the order it read.
LEMMA StartAt ==
    ASSUME ProcTypes, NEW p \in Procs, NEW r, NEW l, NEW doc, StartWith(p, r, l, doc)
    PROVE  /\ ReadOnly
           /\ pc'[p] = l /\ role'[p] = r /\ held'[p] = doc /\ seen'[p] = seen[p]
           /\ frame'[p] = frame[p] /\ pc[p] = "idle"
  BY DEF ProcTypes, StartWith

\* A refund starts with an amount that the order in hand allows.
LEMMA RefundStartAt ==
    ASSUME ProcTypes, NEW p \in Procs, RefundStart(p)
    PROVE  /\ ReadOnly
           /\ pc'[p] = "rPlan" /\ role'[p] = "refund" /\ held'[p] = Snapshot /\ seen'[p] = seen[p]
           /\ frame'[p].after = "idle" /\ frame'[p].next = "idle" /\ pc[p] = "idle"
           /\ RefundAllowed(Snapshot, frame'[p].n, frame'[p].missing)
<1>1. PICK missing \in BOOLEAN, target \in 0..Price :
        /\ RefundAllowed(Snapshot, target, missing) /\ pc[p] = "idle"
        /\ role' = [role EXCEPT ![p] = "refund"]
        /\ pc' = [pc EXCEPT ![p] = "rPlan"]
        /\ held' = [held EXCEPT ![p] = Snapshot]
        /\ frame' = [frame EXCEPT ![p] = [EmptyFrame EXCEPT !.n = target, !.missing = missing]]
        /\ UNCHANGED <<seen, aborts>>
        /\ ReadOnly
  BY DEF RefundStart
<1>2. /\ frame'[p].n = target /\ frame'[p].missing = missing
      /\ frame'[p].after = "idle" /\ frame'[p].next = "idle"
  BY <1>1 DEF ProcTypes, EmptyFrame
<1> QED  BY <1>1, <1>2 DEF ProcTypes

\* The reconciler takes a refund up with the amount in hand, or goes on, or gives up.
LEMMA ResumeRefundAt ==
    ASSUME ProcTypes, NEW p \in Procs, ResumeRefund(p)
    PROVE  /\ ReadOnly /\ pc[p] = "cRefund"
           /\ \/ Finish(p) \/ Goto(p, "cSettle")
              \/ /\ pc'[p] = "rPlan" /\ role'[p] = role[p]
                 /\ held'[p] = held[p] /\ seen'[p] = seen[p]
                 /\ frame'[p].after = "cSettle" /\ frame'[p].next = "idle"
                 /\ RefundAllowed(held[p], frame'[p].n, frame'[p].missing)
<1>1. CASE ~(Finish(p) \/ Goto(p, "cSettle"))
  <2>1. /\ RefundAllowed(held[p], held[p].plan.amount, held[p].plan.missing)
        /\ pc' = [pc EXCEPT ![p] = "rPlan"]
        /\ frame' = [frame EXCEPT ![p] = [n |-> held[p].plan.amount,
                                          missing |-> held[p].plan.missing,
                                          after |-> "cSettle", next |-> "idle"]]
        /\ UNCHANGED <<role, held, seen, aborts>>
    BY <1>1 DEF ResumeRefund
  <2> QED  BY <2>1 DEF ProcTypes, ResumeRefund
<1> QED  BY <1>1 DEF ResumeRefund

\* Starting changes no document.
LEMMA StartReads ==
    ASSUME NEW p \in Procs, StartAny(p)
    PROVE  ReadOnly
  BY DEF StartAny, WorkerStart, PollStart, SyncStart, RefundStart, ReconcileStart, ExpireStart,
     RecoverStart, Start, StartWith

\* A worker's call that throws takes it to its handler.
LEMMA WorkerThrowAt ==
    ASSUME ProcTypes, NEW p \in Procs, WorkerThrow(p)
    PROVE  /\ ReadOnly
           /\ role[p] = "worker" /\ role'[p] = role[p] /\ frame'[p] = frame[p]
           /\ held'[p] = held[p] /\ seen'[p] = seen[p]
           /\ \/ pc[p] \in {"wRead", "wClaim"} /\ pc'[p] = "wAbandon"
              \/ pc[p] \in {"wBuy", "wSave", "wProcessing"} \cup DeliveryLabels /\ pc'[p] = "wFail"
              \/ pc[p] = "wFail" /\ pc'[p] = "wDone"
  BY DEF ProcTypes, WorkerThrow, ReadOnly

\* A poller's attempt that throws leaves nothing in hand.
LEMMA PollRetryAt ==
    ASSUME ProcTypes, NEW p \in Procs, PollRetry(p)
    PROVE  /\ ReadOnly
           /\ role[p] = "poll" /\ role'[p] = role[p] /\ pc[p] \in DeliveryLabels
           /\ pc'[p] = "pFetch" /\ frame'[p] = EmptyFrame
           /\ held'[p] = held[p] /\ seen'[p] = seen[p]
  BY DEF ProcTypes, PollRetry, ReadOnly

\* A death leaves nothing in hand.
LEMMA AbortAt ==
    ASSUME ProcTypes, NEW p \in Procs, Abort(p)
    PROVE  /\ UNCHANGED <<Documents, buys, recovered>> /\ buying' = buying \ {p}
           /\ pc'[p] = "idle" /\ role'[p] = "none" /\ frame'[p] = EmptyFrame
           /\ held'[p] = Blank /\ seen'[p] = Blank
  BY DEF ProcTypes, Abort

-----------------------------------------------------------------------------
(* The dispatch.                                                           *)

\* Every step comes back to where it was called from.
LEMMA ControlStep ==
    ASSUME ProcTypes, ControlInv, NEW p \in Procs, Act(p)
    PROVE  ControlInv'
<1>1. ControlAt(p)
  BY DEF ControlInv
<1>2. ControlAt(p)'
  <2> USE <1>1, GotoAt, FinishAt, CarryAt, CallAt, SettleAt, SettleOrderAt, StartAt,
         RefundStartAt, ResumeRefundAt, WorkerThrowAt, PollRetryAt, AbortAt DEF ControlAt,
         OwnLabels, DeliveryLabels, procVars, Resume, EmptyFrame
  <2>1. CASE WorkerRead(p)
    BY <2>1 DEF WorkerRead
  <2>2. CASE WorkerClaim(p)
    BY <2>2 DEF WorkerClaim
  <2>3. CASE WorkerBuy(p)
    BY <2>3 DEF WorkerBuy
  <2>4. CASE WorkerAnswer(p)
    BY <2>4 DEF WorkerAnswer
  <2>5. CASE WorkerSave(p)
    <3>1. /\ pc[p] = "wSave"
          /\ Call(p, "mFreeze", frame[p].n, "wDone") \/ Goto(p, "wProcessing")
      BY <2>5 DEF WorkerSave
    <3> QED  BY <3>1
  <2>6. CASE WorkerProcessing(p)
    BY <2>6 DEF WorkerProcessing
  <2>7. CASE WorkerFail(p)
    BY <2>7 DEF WorkerFail
  <2>8. CASE WorkerDone(p)
    BY <2>8 DEF WorkerDone
  <2>9. CASE PollRead(p)
    BY <2>9 DEF PollRead
  <2>10. CASE PollFetch(p)
    BY <2>10 DEF PollFetch
  <2>11. CASE PollTimeout(p)
    BY <2>11 DEF PollTimeout
  <2>12. CASE SyncFence(p)
    BY <2>12 DEF SyncFence
  <2>13. CASE SyncFetch(p)
    BY <2>13 DEF SyncFetch
  <2>14. CASE Freeze(p)
    BY <2>14 DEF Freeze
  <2>15. CASE FrozenRead(p)
    BY <2>15 DEF FrozenRead
  <2>16. CASE StoreProxy(p)
    BY <2>16 DEF StoreProxy
  <2>17. CASE CountProxies(p)
    BY <2>17 DEF CountProxies
  <2>18. CASE Publish(p)
    BY <2>18 DEF Publish
  <2>19. CASE Use(p)
    BY <2>19 DEF Use
  <2>20. CASE Release(p)
    BY <2>20 DEF Release
  <2>21. CASE CreateCommission(p)
    BY <2>21 DEF CreateCommission
  <2>22. CASE ConfirmCommission(p)
    BY <2>22 DEF ConfirmCommission
  <2>23. CASE ClearAffiliate(p)
    BY <2>23 DEF ClearAffiliate
  <2>24. CASE PlanRefund(p)
    BY <2>24 DEF PlanRefund
  <2>25. CASE CheckPlan(p)
    BY <2>25 DEF CheckPlan
  <2>26. CASE CreditWallet(p)
    BY <2>26 DEF CreditWallet
  <2>27. CASE SetRefunded(p)
    BY <2>27 DEF SetRefunded
  <2>28. CASE SettleRefund(p)
    BY <2>28 DEF SettleRefund
  <2>29. CASE ProjectRefund(p)
    BY <2>29 DEF ProjectRefund
  <2>30. CASE ReverseUsage(p)
    BY <2>30 DEF ReverseUsage
  <2>31. CASE Reopen(p)
    BY <2>31 DEF Reopen
  <2>32. CASE Reread(p)
    BY <2>32 DEF Reread
  <2>33. CASE Redeliver(p)
    BY <2>33 DEF Redeliver
  <2>34. CASE ResumeAnswered(p)
    BY <2>34 DEF ResumeAnswered
  <2>35. CASE GiveUp(p)
    BY <2>35 DEF GiveUp
  <2>36. CASE ResumeRefund(p)
    BY <2>36
  <2>37. CASE SettleOrder(p)
    BY <2>37
  <2>38. CASE Expire(p)
    BY <2>38 DEF Expire, ExpireOrder, ExpireCommission
  <2>39. CASE Recover(p)
    BY <2>39 DEF Recover, CountRecovered, FetchRecovered, InsertRecovered, RecountRecovered,
       PublishRecovered, RecoveredCommission
  <2>40. CASE StartAny(p)
    BY <2>40 DEF StartAny, WorkerStart, PollStart, SyncStart, ReconcileStart, ExpireStart,
       RecoverStart, Start
  <2>41. CASE WorkerThrow(p)
    BY <2>41
  <2>42. CASE PollRetry(p)
    BY <2>42
  <2>43. CASE Abort(p)
    BY <2>43
  <2> QED
    BY <2>1, <2>2, <2>3, <2>4, <2>5, <2>6, <2>7, <2>8, <2>9, <2>10, <2>11, <2>12, <2>13, <2>14,
       <2>15, <2>16, <2>17, <2>18, <2>19, <2>20, <2>21, <2>22, <2>23, <2>24, <2>25, <2>26, <2>27,
       <2>28, <2>29, <2>30, <2>31, <2>32, <2>33, <2>34, <2>35, <2>36, <2>37, <2>38, <2>39, <2>40,
       <2>41, <2>42, <2>43 DEF Act, Step, Worker, PollOrSync, Materialize, Refund, Reconcile
<1> QED  BY <1>2, OthersRest DEF ControlInv, ControlAt, Rests

\* The fence stays, so does the provider's answer, and what the recovery scheduler wrote is written.
LEMMA FlagsStay ==
    ASSUME ProcTypes, NEW p \in Procs, Act(p)
    PROVE  (claimed => claimed') /\ (Answered => Answered') /\ (recovered => recovered')
<1> USE DEF Answered, vars, Documents, dispatchVars, outcomeVars, refundVars, proxyVars,
       callVars, ReadOnly
<1>1. CASE Worker(p)
  <2>1. frame[p].n # None /\ Nameless # None
    BY DEF ProcTypes, None, Nameless
  <2> QED
    BY <1>1, <2>1 DEF Worker, WorkerRead, WorkerClaim, WorkerBuy, WorkerAnswer, WorkerSave,
     WorkerProcessing, WorkerFail, WorkerDone
<1>2. CASE PollOrSync(p)
  BY <1>2 DEF PollOrSync, PollRead, PollFetch, PollTimeout, SyncFence, SyncFetch
<1>3. CASE Materialize(p)
  BY <1>3 DEF Materialize, Freeze, FrozenRead, StoreProxy, CountProxies, Publish, Use, Release,
     CreateCommission, ConfirmCommission, ClearAffiliate
<1>4. CASE Refund(p)
  BY <1>4 DEF Refund, PlanRefund, CheckPlan, CreditWallet, SetRefunded, SettleRefund,
     ProjectRefund
<1>5. CASE Reconcile(p)
  BY <1>5 DEF Reconcile, ReverseUsage, Reopen, Reread, Redeliver, ResumeAnswered, GiveUp,
     ResumeRefund, SettleOrder
<1>6. CASE Expire(p)
  BY <1>6 DEF Expire, ExpireOrder, ExpireCommission
<1>7. CASE Recover(p)
  BY <1>7 DEF Recover, CountRecovered, FetchRecovered, InsertRecovered, RecountRecovered,
     PublishRecovered, RecoveredCommission
<1>8. CASE StartAny(p)
  BY <1>8, StartReads
<1>9. CASE WorkerThrow(p)
  BY <1>9 DEF WorkerThrow
<1>10. CASE PollRetry(p)
  BY <1>10 DEF PollRetry
<1>11. CASE Abort(p)
  BY <1>11 DEF Abort
<1> QED
  BY <1>1, <1>2, <1>3, <1>4, <1>5, <1>6, <1>7, <1>8, <1>9, <1>10, <1>11 DEF Act, Step

\* An order gets an owner by the claim, once.
LEMMA OwnsStep ==
    ASSUME ProcTypes, ControlInv, NEW p \in Procs, Act(p), Owns(p)'
    PROVE  Owns(p) \/ (~claimed /\ claimed')
<1>0. ControlAt(p)
  BY DEF ControlInv
<1> USE <1>0, GotoAt, FinishAt, CarryAt, CallAt, SettleAt, SettleOrderAt, StartAt,
         RefundStartAt, ResumeRefundAt, WorkerThrowAt, PollRetryAt, AbortAt DEF Owns, ControlAt,
         OwnLabels, DeliveryLabels, procVars, Resume, EmptyFrame, CanClaim
<1>1. CASE WorkerRead(p)
  BY <1>1 DEF WorkerRead
<1>2. CASE WorkerClaim(p)
  BY <1>2 DEF WorkerClaim
<1>3. CASE WorkerBuy(p)
  BY <1>3 DEF WorkerBuy
<1>4. CASE WorkerAnswer(p)
  BY <1>4 DEF WorkerAnswer
<1>5. CASE WorkerSave(p)
  BY <1>5 DEF WorkerSave
<1>6. CASE WorkerProcessing(p)
  BY <1>6 DEF WorkerProcessing
<1>7. CASE WorkerFail(p)
  BY <1>7 DEF WorkerFail
<1>8. CASE WorkerDone(p)
  BY <1>8 DEF WorkerDone
<1>9. CASE PollRead(p)
  BY <1>9 DEF PollRead
<1>10. CASE PollFetch(p)
  BY <1>10 DEF PollFetch
<1>11. CASE PollTimeout(p)
  BY <1>11 DEF PollTimeout
<1>12. CASE SyncFence(p)
  BY <1>12 DEF SyncFence
<1>13. CASE SyncFetch(p)
  BY <1>13 DEF SyncFetch
<1>14. CASE Freeze(p)
  BY <1>14 DEF Freeze
<1>15. CASE FrozenRead(p)
  BY <1>15 DEF FrozenRead
<1>16. CASE StoreProxy(p)
  BY <1>16 DEF StoreProxy
<1>17. CASE CountProxies(p)
  BY <1>17 DEF CountProxies
<1>18. CASE Publish(p)
  BY <1>18 DEF Publish
<1>19. CASE Use(p)
  BY <1>19 DEF Use
<1>20. CASE Release(p)
  BY <1>20 DEF Release
<1>21. CASE CreateCommission(p)
  BY <1>21 DEF CreateCommission
<1>22. CASE ConfirmCommission(p)
  BY <1>22 DEF ConfirmCommission
<1>23. CASE ClearAffiliate(p)
  BY <1>23 DEF ClearAffiliate
<1>24. CASE PlanRefund(p)
  BY <1>24 DEF PlanRefund
<1>25. CASE CheckPlan(p)
  BY <1>25 DEF CheckPlan
<1>26. CASE CreditWallet(p)
  BY <1>26 DEF CreditWallet
<1>27. CASE SetRefunded(p)
  BY <1>27 DEF SetRefunded
<1>28. CASE SettleRefund(p)
  BY <1>28 DEF SettleRefund
<1>29. CASE ProjectRefund(p)
  BY <1>29 DEF ProjectRefund
<1>30. CASE ReverseUsage(p)
  BY <1>30 DEF ReverseUsage
<1>31. CASE Reopen(p)
  BY <1>31 DEF Reopen
<1>32. CASE Reread(p)
  BY <1>32 DEF Reread
<1>33. CASE Redeliver(p)
  BY <1>33 DEF Redeliver
<1>34. CASE ResumeAnswered(p)
  BY <1>34 DEF ResumeAnswered
<1>35. CASE GiveUp(p)
  BY <1>35 DEF GiveUp
<1>36. CASE ResumeRefund(p)
  BY <1>36
<1>37. CASE SettleOrder(p)
  BY <1>37
<1>38. CASE Expire(p)
  BY <1>38 DEF Expire, ExpireOrder, ExpireCommission
<1>39. CASE Recover(p)
  BY <1>39 DEF Recover, CountRecovered, FetchRecovered, InsertRecovered, RecountRecovered,
     PublishRecovered, RecoveredCommission
<1>40. CASE StartAny(p)
  BY <1>40 DEF StartAny, WorkerStart, PollStart, SyncStart, ReconcileStart, ExpireStart,
     RecoverStart, Start
<1>41. CASE WorkerThrow(p)
  BY <1>41
<1>42. CASE PollRetry(p)
  BY <1>42
<1>43. CASE Abort(p)
  BY <1>43
<1> QED
  BY <1>1, <1>2, <1>3, <1>4, <1>5, <1>6, <1>7, <1>8, <1>9, <1>10, <1>11, <1>12, <1>13, <1>14,
     <1>15, <1>16, <1>17, <1>18, <1>19, <1>20, <1>21, <1>22, <1>23, <1>24, <1>25, <1>26, <1>27,
     <1>28, <1>29, <1>30, <1>31, <1>32, <1>33, <1>34, <1>35, <1>36, <1>37, <1>38, <1>39, <1>40,
     <1>41, <1>42, <1>43 DEF Act, Step, Worker, PollOrSync, Materialize, Refund, Reconcile

\* What an unclaimed order cannot have, and what shows that the provider has answered.
LEMMA AnswerStep ==
    ASSUME ProcTypes, DispatchInv, NEW p \in Procs, Act(p)
    PROVE  /\ ~claimed' => source' = "none" /\ ~finished' /\ ~Answered' /\ buys' = 0
           /\ frozen' # 0 => Answered'
<1>0. /\ Owns(p) => claimed
      /\ AnswerAt(p)
      /\ ~claimed => source = "none" /\ ~finished /\ ~Answered /\ buys = 0
      /\ frozen # 0 => Answered
  BY DEF DispatchInv
<1> USE <1>0 DEF Answered, Owns, OwnLabels, AnswerAt, vars, Documents, dispatchVars, outcomeVars,
       refundVars, proxyVars, callVars, ReadOnly
<1>1. CASE WorkerRead(p)
  BY <1>1 DEF WorkerRead
<1>2. CASE WorkerClaim(p)
  BY <1>2 DEF WorkerClaim
<1>3. CASE WorkerBuy(p)
  BY <1>3 DEF WorkerBuy
<1>4. CASE WorkerAnswer(p)
  BY <1>4 DEF WorkerAnswer
<1>5. CASE WorkerSave(p)
  <2>1. frame[p].n # None /\ Nameless # None
    BY DEF ProcTypes, None, Nameless
  <2> QED  BY <1>5, <2>1 DEF WorkerSave
<1>6. CASE WorkerProcessing(p)
  BY <1>6 DEF WorkerProcessing
<1>7. CASE WorkerFail(p)
  BY <1>7 DEF WorkerFail
<1>8. CASE WorkerDone(p)
  BY <1>8 DEF WorkerDone
<1>9. CASE PollRead(p)
  BY <1>9 DEF PollRead
<1>10. CASE PollFetch(p)
  BY <1>10 DEF PollFetch
<1>11. CASE PollTimeout(p)
  BY <1>11 DEF PollTimeout
<1>12. CASE SyncFence(p)
  BY <1>12 DEF SyncFence
<1>13. CASE SyncFetch(p)
  BY <1>13 DEF SyncFetch
<1>14. CASE Freeze(p)
  BY <1>14 DEF Freeze, CanFreeze
<1>15. CASE FrozenRead(p)
  BY <1>15 DEF FrozenRead, CanFreeze
<1>16. CASE StoreProxy(p)
  BY <1>16 DEF StoreProxy, CanFreeze
<1>17. CASE CountProxies(p)
  BY <1>17 DEF CountProxies, CanFreeze
<1>18. CASE Publish(p)
  BY <1>18 DEF Publish, CanFreeze
<1>19. CASE Use(p)
  BY <1>19 DEF Use, CanFreeze
<1>20. CASE Release(p)
  BY <1>20 DEF Release, CanFreeze
<1>21. CASE CreateCommission(p)
  BY <1>21 DEF CreateCommission, CanFreeze
<1>22. CASE ConfirmCommission(p)
  BY <1>22 DEF ConfirmCommission, CanFreeze
<1>23. CASE ClearAffiliate(p)
  BY <1>23 DEF ClearAffiliate, CanFreeze
<1>24. CASE PlanRefund(p)
  BY <1>24 DEF PlanRefund
<1>25. CASE CheckPlan(p)
  BY <1>25 DEF CheckPlan
<1>26. CASE CreditWallet(p)
  BY <1>26 DEF CreditWallet
<1>27. CASE SetRefunded(p)
  BY <1>27 DEF SetRefunded
<1>28. CASE SettleRefund(p)
  BY <1>28 DEF SettleRefund
<1>29. CASE ProjectRefund(p)
  BY <1>29 DEF ProjectRefund
<1>30. CASE ReverseUsage(p)
  BY <1>30 DEF ReverseUsage
<1>31. CASE Reopen(p)
  BY <1>31 DEF Reopen
<1>32. CASE Reread(p)
  BY <1>32 DEF Reread
<1>33. CASE Redeliver(p)
  BY <1>33 DEF Redeliver
<1>34. CASE ResumeAnswered(p)
  <2>1. held[p].result # None
    BY <1>34 DEF ResumeAnswered, IsAnswered, None
  <2> QED  BY <1>34, <2>1 DEF ResumeAnswered
<1>35. CASE GiveUp(p)
  BY <1>35 DEF GiveUp
<1>36. CASE ResumeRefund(p)
  BY <1>36 DEF ResumeRefund
<1>37. CASE SettleOrder(p)
  BY <1>37 DEF SettleOrder
<1>38. CASE Expire(p)
  BY <1>38 DEF Expire, ExpireOrder, ExpireCommission
<1>39. CASE Recover(p)
  BY <1>39 DEF Recover, CountRecovered, FetchRecovered, InsertRecovered, RecountRecovered,
     PublishRecovered, RecoveredCommission
<1>40. CASE StartAny(p)
  BY <1>40, StartReads
<1>41. CASE WorkerThrow(p)
  BY <1>41 DEF WorkerThrow
<1>42. CASE PollRetry(p)
  BY <1>42 DEF PollRetry
<1>43. CASE Abort(p)
  BY <1>43 DEF Abort
<1> QED
  BY <1>1, <1>2, <1>3, <1>4, <1>5, <1>6, <1>7, <1>8, <1>9, <1>10, <1>11, <1>12, <1>13, <1>14,
     <1>15, <1>16, <1>17, <1>18, <1>19, <1>20, <1>21, <1>22, <1>23, <1>24, <1>25, <1>26, <1>27,
     <1>28, <1>29, <1>30, <1>31, <1>32, <1>33, <1>34, <1>35, <1>36, <1>37, <1>38, <1>39, <1>40,
     <1>41, <1>42, <1>43 DEF Act, Step, Worker, PollOrSync, Materialize, Refund, Reconcile

\* What execution p has in hand of an answer.
LEMMA AnswerAtStep ==
    ASSUME ProcTypes, ControlInv, DispatchInv, NEW p \in Procs, Act(p)
    PROVE  AnswerAt(p)'
<1>0. /\ AnswerAt(p) /\ (Answered => Answered') /\ ControlAt(p)
      /\ frozen # 0 => Answered
  BY FlagsStay DEF DispatchInv, ControlInv
<1> USE <1>0, GotoAt, FinishAt, CarryAt, CallAt, SettleAt, SettleOrderAt, StartAt,
         RefundStartAt, ResumeRefundAt, WorkerThrowAt, PollRetryAt, AbortAt DEF Answered, AnswerAt,
         ControlAt, DeliveryLabels, procVars, Resume, Blank, Snapshot
<1>1. CASE WorkerRead(p)
  BY <1>1 DEF WorkerRead
<1>2. CASE WorkerClaim(p)
  BY <1>2 DEF WorkerClaim
<1>3. CASE WorkerBuy(p)
  BY <1>3 DEF WorkerBuy
<1>4. CASE WorkerAnswer(p)
  BY <1>4 DEF WorkerAnswer
<1>5. CASE WorkerSave(p)
  <2>1. Answered'
    BY <1>5 DEF WorkerSave, ProcTypes, None, Nameless
  <2> QED  BY <1>5, <2>1 DEF WorkerSave
<1>6. CASE WorkerProcessing(p)
  BY <1>6 DEF WorkerProcessing
<1>7. CASE WorkerFail(p)
  BY <1>7 DEF WorkerFail
<1>8. CASE WorkerDone(p)
  BY <1>8 DEF WorkerDone
<1>9. CASE PollRead(p)
  BY <1>9 DEF PollRead
<1>10. CASE PollFetch(p)
  BY <1>10 DEF PollFetch
<1>11. CASE PollTimeout(p)
  BY <1>11 DEF PollTimeout
<1>12. CASE SyncFence(p)
  BY <1>12 DEF SyncFence
<1>13. CASE SyncFetch(p)
  BY <1>13 DEF SyncFetch
<1>14. CASE Freeze(p)
  BY <1>14 DEF Freeze
<1>15. CASE FrozenRead(p)
  BY <1>15 DEF FrozenRead
<1>16. CASE StoreProxy(p)
  BY <1>16 DEF StoreProxy
<1>17. CASE CountProxies(p)
  BY <1>17 DEF CountProxies
<1>18. CASE Publish(p)
  BY <1>18 DEF Publish
<1>19. CASE Use(p)
  BY <1>19 DEF Use
<1>20. CASE Release(p)
  BY <1>20 DEF Release
<1>21. CASE CreateCommission(p)
  BY <1>21 DEF CreateCommission
<1>22. CASE ConfirmCommission(p)
  BY <1>22 DEF ConfirmCommission
<1>23. CASE ClearAffiliate(p)
  BY <1>23 DEF ClearAffiliate
<1>24. CASE PlanRefund(p)
  BY <1>24 DEF PlanRefund
<1>25. CASE CheckPlan(p)
  BY <1>25 DEF CheckPlan
<1>26. CASE CreditWallet(p)
  BY <1>26 DEF CreditWallet
<1>27. CASE SetRefunded(p)
  BY <1>27 DEF SetRefunded
<1>28. CASE SettleRefund(p)
  BY <1>28 DEF SettleRefund
<1>29. CASE ProjectRefund(p)
  BY <1>29 DEF ProjectRefund
<1>30. CASE ReverseUsage(p)
  BY <1>30 DEF ReverseUsage
<1>31. CASE Reopen(p)
  BY <1>31 DEF Reopen
<1>32. CASE Reread(p)
  BY <1>32 DEF Reread
<1>33. CASE Redeliver(p)
  <2>1. Redelivered(held[p]) > 0 => held[p].result # None \/ held[p].frozen # 0
    BY DEF Redelivered, None
  <2> QED  BY <1>33, <2>1 DEF Redeliver
<1>34. CASE ResumeAnswered(p)
  BY <1>34 DEF ResumeAnswered
<1>35. CASE GiveUp(p)
  BY <1>35 DEF GiveUp
<1>36. CASE ResumeRefund(p)
  BY <1>36
<1>37. CASE SettleOrder(p)
  BY <1>37
<1>38. CASE Expire(p)
  BY <1>38 DEF Expire, ExpireOrder, ExpireCommission
<1>39. CASE Recover(p)
  BY <1>39 DEF Recover, CountRecovered, FetchRecovered, InsertRecovered, RecountRecovered,
     PublishRecovered, RecoveredCommission
<1>40. CASE StartAny(p)
  BY <1>40 DEF StartAny, WorkerStart, PollStart, SyncStart, ReconcileStart, ExpireStart,
     RecoverStart, Start, None, Nameless
<1>41. CASE WorkerThrow(p)
  BY <1>41
<1>42. CASE PollRetry(p)
  BY <1>42
<1>43. CASE Abort(p)
  BY <1>43
<1> QED
  BY <1>1, <1>2, <1>3, <1>4, <1>5, <1>6, <1>7, <1>8, <1>9, <1>10, <1>11, <1>12, <1>13, <1>14,
     <1>15, <1>16, <1>17, <1>18, <1>19, <1>20, <1>21, <1>22, <1>23, <1>24, <1>25, <1>26, <1>27,
     <1>28, <1>29, <1>30, <1>31, <1>32, <1>33, <1>34, <1>35, <1>36, <1>37, <1>38, <1>39, <1>40,
     <1>41, <1>42, <1>43 DEF Act, Step, Worker, PollOrSync, Materialize, Refund, Reconcile


\* While one execution buys, no other touches what it relies on.
LEMMA BuyerAlone ==
    ASSUME ProcTypes, DispatchInv, NEW p \in Procs, Act(p), NEW q \in Procs, q # p,
           pc[q] \in {"wBuy", "wBuying"}
    PROVE  /\ source' = source /\ finished' = finished /\ ~Answered'
           /\ status' # "PROCESSING" /\ buys' = buys
<1>1. claimed = TRUE
  BY DEF DispatchInv, Owns, OwnLabels
<1>2. ~Owns(p) /\ AnswerAt(p)
  BY DEF DispatchInv, Owns, OwnLabels
<1>3. source = "worker" /\ ~finished /\ ~Answered /\ status # "PROCESSING"
  BY DEF DispatchInv, BuyAt
<1> USE <1>3 DEF Answered, vars, Documents, dispatchVars, outcomeVars, refundVars, proxyVars,
       callVars, ReadOnly
<1>4. CASE WorkerRead(p)
  BY <1>4, <1>2 DEF WorkerRead, Owns, OwnLabels
<1>5. CASE WorkerClaim(p)
  BY <1>5, <1>1, <1>2 DEF WorkerClaim, CanClaim, Owns, OwnLabels
<1>6. CASE WorkerBuy(p)
  BY <1>6, <1>2 DEF WorkerBuy, Owns, OwnLabels
<1>7. CASE WorkerAnswer(p)
  BY <1>7, <1>2 DEF WorkerAnswer, Owns, OwnLabels
<1>8. CASE WorkerSave(p)
  BY <1>8, <1>2 DEF WorkerSave, Owns, OwnLabels
<1>9. CASE WorkerProcessing(p)
  BY <1>9, <1>2 DEF WorkerProcessing, Owns, OwnLabels
<1>10. CASE WorkerFail(p)
  BY <1>10, <1>2 DEF WorkerFail, ToPendingRefund, Owns, OwnLabels
<1>11. CASE WorkerDone(p)
  BY <1>11, <1>2 DEF WorkerDone, Owns, OwnLabels
<1>12. CASE PollRead(p)
  BY <1>12 DEF PollRead
<1>13. CASE PollFetch(p)
  BY <1>13 DEF PollFetch
<1>14. CASE PollTimeout(p)
  BY <1>14 DEF PollTimeout
<1>15. CASE SyncFence(p)
  <2>1. ~CanFence
    BY <1>1 DEF CanFence
  <2> QED  BY <1>15, <2>1 DEF SyncFence
<1>16. CASE SyncFetch(p)
  BY <1>16 DEF SyncFetch
<1>17. CASE Materialize(p)
  BY <1>17 DEF Materialize, Freeze, FrozenRead, StoreProxy, CountProxies, Publish, Use, Release,
     CreateCommission, ConfirmCommission, ClearAffiliate
<1>18. CASE Refund(p)
  BY <1>18 DEF Refund, PlanRefund, CheckPlan, CreditWallet, SetRefunded, SettleRefund,
     ProjectRefund
<1>19. CASE ReverseUsage(p)
  BY <1>19 DEF ReverseUsage
<1>20. CASE Reopen(p)
  BY <1>20 DEF Reopen
<1>21. CASE Reread(p)
  BY <1>21 DEF Reread
<1>22. CASE Redeliver(p)
  BY <1>22 DEF Redeliver
<1>23. CASE ResumeAnswered(p)
  <2>1. held[p].result # None
    BY <1>23 DEF ResumeAnswered, IsAnswered, None
  <2>2. FALSE
    BY <1>2, <1>3, <2>1 DEF AnswerAt
  <2> QED  BY <2>2
<1>24. CASE GiveUp(p)
  BY <1>24 DEF GiveUp
<1>25. CASE ResumeRefund(p)
  BY <1>25 DEF ResumeRefund
<1>26. CASE SettleOrder(p)
  BY <1>26 DEF SettleOrder
<1>27. CASE Expire(p)
  BY <1>27 DEF Expire, ExpireOrder, ExpireCommission
<1>28. CASE Recover(p)
  BY <1>28 DEF Recover, CountRecovered, FetchRecovered, InsertRecovered, RecountRecovered,
     PublishRecovered, RecoveredCommission
<1>29. CASE StartAny(p)
  BY <1>29, StartReads
<1>30. CASE WorkerThrow(p)
  BY <1>30 DEF WorkerThrow
<1>31. CASE PollRetry(p)
  BY <1>31 DEF PollRetry
<1>32. CASE Abort(p)
  BY <1>32 DEF Abort
<1> QED
  BY <1>4, <1>5, <1>6, <1>7, <1>8, <1>9, <1>10, <1>11, <1>12, <1>13, <1>14, <1>15, <1>16, <1>17,
     <1>18, <1>19, <1>20, <1>21, <1>22, <1>23, <1>24, <1>25, <1>26, <1>27, <1>28, <1>29, <1>30,
     <1>31, <1>32 DEF Act, Step, Worker, PollOrSync, Reconcile

\* A buyer is the first, and has to do with a fresh order only.
LEMMA BuyAtStep ==
    ASSUME ProcTypes, ControlInv, DispatchInv, NEW p \in Procs, Act(p)
    PROVE  BuyAt(p)'
<1>0. /\ BuyAt(p) /\ ControlAt(p)
      /\ ~claimed => source = "none" /\ ~finished /\ ~Answered /\ buys = 0
  BY DEF DispatchInv, ControlInv
<1> USE <1>0, GotoAt, FinishAt, CarryAt, CallAt, SettleAt, SettleOrderAt, StartAt,
         RefundStartAt, ResumeRefundAt, WorkerThrowAt, PollRetryAt, AbortAt DEF Answered, BuyAt,
         ControlAt, CanClaim, Resume, EmptyFrame, procVars, vars, Documents, dispatchVars,
         outcomeVars, refundVars, proxyVars,
       callVars, ReadOnly
<1>1. CASE WorkerRead(p)
  BY <1>1 DEF WorkerRead
<1>2. CASE WorkerClaim(p)
  BY <1>2 DEF WorkerClaim
<1>3. CASE WorkerBuy(p)
  BY <1>3 DEF WorkerBuy
<1>4. CASE WorkerAnswer(p)
  BY <1>4 DEF WorkerAnswer
<1>5. CASE WorkerSave(p)
  BY <1>5 DEF WorkerSave
<1>6. CASE WorkerProcessing(p)
  BY <1>6 DEF WorkerProcessing
<1>7. CASE WorkerFail(p)
  BY <1>7 DEF WorkerFail
<1>8. CASE WorkerDone(p)
  BY <1>8 DEF WorkerDone
<1>9. CASE PollRead(p)
  BY <1>9 DEF PollRead
<1>10. CASE PollFetch(p)
  BY <1>10 DEF PollFetch
<1>11. CASE PollTimeout(p)
  BY <1>11 DEF PollTimeout
<1>12. CASE SyncFence(p)
  BY <1>12 DEF SyncFence
<1>13. CASE SyncFetch(p)
  BY <1>13 DEF SyncFetch
<1>14. CASE Freeze(p)
  BY <1>14 DEF Freeze
<1>15. CASE FrozenRead(p)
  BY <1>15 DEF FrozenRead
<1>16. CASE StoreProxy(p)
  BY <1>16 DEF StoreProxy
<1>17. CASE CountProxies(p)
  BY <1>17 DEF CountProxies
<1>18. CASE Publish(p)
  BY <1>18 DEF Publish
<1>19. CASE Use(p)
  BY <1>19 DEF Use
<1>20. CASE Release(p)
  BY <1>20 DEF Release
<1>21. CASE CreateCommission(p)
  BY <1>21 DEF CreateCommission
<1>22. CASE ConfirmCommission(p)
  BY <1>22 DEF ConfirmCommission
<1>23. CASE ClearAffiliate(p)
  BY <1>23 DEF ClearAffiliate
<1>24. CASE PlanRefund(p)
  BY <1>24 DEF PlanRefund
<1>25. CASE CheckPlan(p)
  BY <1>25 DEF CheckPlan
<1>26. CASE CreditWallet(p)
  BY <1>26 DEF CreditWallet
<1>27. CASE SetRefunded(p)
  BY <1>27 DEF SetRefunded
<1>28. CASE SettleRefund(p)
  BY <1>28 DEF SettleRefund
<1>29. CASE ProjectRefund(p)
  BY <1>29 DEF ProjectRefund
<1>30. CASE ReverseUsage(p)
  BY <1>30 DEF ReverseUsage
<1>31. CASE Reopen(p)
  BY <1>31 DEF Reopen
<1>32. CASE Reread(p)
  BY <1>32 DEF Reread
<1>33. CASE Redeliver(p)
  BY <1>33 DEF Redeliver
<1>34. CASE ResumeAnswered(p)
  BY <1>34 DEF ResumeAnswered
<1>35. CASE GiveUp(p)
  BY <1>35 DEF GiveUp
<1>36. CASE ResumeRefund(p)
  BY <1>36
<1>37. CASE SettleOrder(p)
  BY <1>37
<1>38. CASE ExpireOrder(p)
  BY <1>38 DEF ExpireOrder
<1>39. CASE ExpireCommission(p)
  BY <1>39 DEF ExpireCommission
<1>40. CASE CountRecovered(p)
  BY <1>40 DEF CountRecovered
<1>41. CASE FetchRecovered(p)
  BY <1>41 DEF FetchRecovered
<1>42. CASE InsertRecovered(p)
  BY <1>42 DEF InsertRecovered
<1>43. CASE RecountRecovered(p)
  BY <1>43 DEF RecountRecovered
<1>44. CASE PublishRecovered(p)
  BY <1>44 DEF PublishRecovered
<1>45. CASE RecoveredCommission(p)
  BY <1>45 DEF RecoveredCommission
<1>46. CASE WorkerStart(p)
  BY <1>46 DEF WorkerStart, Start
<1>47. CASE PollStart(p)
  <2>1. Start(p, "poll", "pRead")
    BY <1>47 DEF PollStart
  <2> QED  BY <2>1 DEF Start
<1>48. CASE SyncStart(p)
  BY <1>48 DEF SyncStart, Start
<1>49. CASE RefundStart(p)
  BY <1>49
<1>50. CASE ReconcileStart(p)
  BY <1>50 DEF ReconcileStart, Start
<1>51. CASE ExpireStart(p)
  BY <1>51 DEF ExpireStart, Start
<1>52. CASE RecoverStart(p)
  <2>1. Start(p, "recovery", "vCount")
    BY <1>52 DEF RecoverStart
  <2> QED  BY <2>1 DEF Start
<1>53. CASE WorkerThrow(p)
  BY <1>53
<1>54. CASE PollRetry(p)
  BY <1>54
<1>55. CASE Abort(p)
  BY <1>55
<1> QED
  BY <1>1, <1>2, <1>3, <1>4, <1>5, <1>6, <1>7, <1>8, <1>9, <1>10, <1>11, <1>12, <1>13, <1>14,
     <1>15, <1>16, <1>17, <1>18, <1>19, <1>20, <1>21, <1>22, <1>23, <1>24, <1>25, <1>26, <1>27,
     <1>28, <1>29, <1>30, <1>31, <1>32, <1>33, <1>34, <1>35, <1>36, <1>37, <1>38, <1>39, <1>40,
     <1>41, <1>42, <1>43, <1>44, <1>45, <1>46, <1>47, <1>48, <1>49, <1>50, <1>51, <1>52, <1>53,
     <1>54, <1>55 DEF Act, Step, StartAny, Worker, PollOrSync, Materialize, Refund, Reconcile,
     Expire, Recover


\* The provider is called by WorkerBuy only, and whoever is in the call is where it waits.
LEMMA CallsStep ==
    ASSUME ProcTypes, DispatchInv, NEW p \in Procs, Act(p)
    PROVE  /\ buys' = buys \/ (pc[p] = "wBuy" /\ buys' = buys + 1)
           /\ \A q \in buying' : q # p => q \in buying
           /\ p \in buying' => pc'[p] = "wBuying"
<1>1. p \in buying => pc[p] = "wBuying"
  BY DEF DispatchInv
<1> USE <1>1, GotoAt, AbortAt, PollRetryAt, WorkerThrowAt DEF procVars, callVars, ReadOnly, DeliveryLabels
<1>2. CASE WorkerRead(p)
  BY <1>2 DEF WorkerRead
<1>3. CASE WorkerClaim(p)
  BY <1>3 DEF WorkerClaim
<1>4. CASE WorkerBuy(p)
  BY <1>4 DEF WorkerBuy
<1>5. CASE WorkerAnswer(p)
  BY <1>5 DEF WorkerAnswer
<1>6. CASE WorkerSave(p)
  BY <1>6 DEF WorkerSave
<1>7. CASE WorkerProcessing(p)
  BY <1>7 DEF WorkerProcessing
<1>8. CASE WorkerFail(p)
  BY <1>8 DEF WorkerFail
<1>9. CASE WorkerDone(p)
  BY <1>9 DEF WorkerDone
<1>10. CASE PollOrSync(p)
  BY <1>10 DEF PollOrSync, PollRead, PollFetch, PollTimeout, SyncFence, SyncFetch
<1>11. CASE Materialize(p)
  BY <1>11 DEF Materialize, Freeze, FrozenRead, StoreProxy, CountProxies, Publish, Use, Release,
     CreateCommission, ConfirmCommission, ClearAffiliate
<1>12. CASE Refund(p)
  BY <1>12 DEF Refund, PlanRefund, CheckPlan, CreditWallet, SetRefunded, SettleRefund,
     ProjectRefund
<1>13. CASE Reconcile(p)
  BY <1>13, SettleOrderAt, ResumeRefundAt DEF Reconcile, ReverseUsage, Reopen, Reread,
     Redeliver, ResumeAnswered, GiveUp
<1>14. CASE Expire(p)
  BY <1>14 DEF Expire, ExpireOrder, ExpireCommission
<1>15. CASE Recover(p)
  BY <1>15 DEF Recover, CountRecovered, FetchRecovered, InsertRecovered, RecountRecovered,
     PublishRecovered, RecoveredCommission
<1>16. CASE StartAny(p)
  <2>1. pc[p] = "idle"
    BY <1>16 DEF StartAny, WorkerStart, PollStart, SyncStart, RefundStart, ReconcileStart, ExpireStart,
       RecoverStart, Start, StartWith
  <2> QED  BY <1>16, <2>1, StartReads
<1>17. CASE WorkerThrow(p)
  BY <1>17
<1>18. CASE PollRetry(p)
  BY <1>18
<1>19. CASE Abort(p)
  BY <1>19
<1> QED
  BY <1>2, <1>3, <1>4, <1>5, <1>6, <1>7, <1>8, <1>9, <1>10, <1>11, <1>12, <1>13, <1>14, <1>15,
     <1>16, <1>17, <1>18, <1>19 DEF Act, Step, Worker

\* Every step of an execution keeps the dispatch in order.
LEMMA DispatchAct ==
    ASSUME ProcTypes, DocTypes, ControlInv, DispatchInv, NEW p \in Procs, Act(p)
    PROVE  DispatchInv'
<1>1. \A q \in Procs : q # p => (Owns(q)' <=> Owns(q))
  BY OthersRest DEF Owns, Rests
<1>2. \A q, r \in Procs : Owns(q)' /\ Owns(r)' => q = r
  BY <1>1, OwnsStep DEF DispatchInv
<1>3. \A q \in Procs : Owns(q)' => claimed'
  BY <1>1, OwnsStep, FlagsStay DEF DispatchInv
<1>4. \A q \in Procs : AnswerAt(q)'
  <2>1. ASSUME NEW q \in Procs, q # p PROVE AnswerAt(q)'
    <3>1. AnswerAt(q) /\ (Answered => Answered')
      BY FlagsStay DEF DispatchInv
    <3> QED  BY <2>1, <3>1, OthersRest DEF AnswerAt, Rests
  <2> QED  BY <2>1, AnswerAtStep
<1>5. \A q \in Procs : BuyAt(q)'
  <2>1. ASSUME NEW q \in Procs, q # p PROVE BuyAt(q)'
    <3>1. BuyAt(q) /\ pc'[q] = pc[q]
      BY <2>1, OthersRest DEF DispatchInv, Rests
    <3> QED  BY <2>1, <3>1, BuyerAlone DEF BuyAt
  <2> QED  BY <2>1, BuyAtStep
<1>6. \A q \in buying' : pc'[q] = "wBuying"
  BY CallsStep, OthersRest DEF DispatchInv, Rests, DocTypes
<1>7. buys' <= 1
  BY CallsStep DEF DispatchInv, BuyAt, DocTypes
<1> QED  BY <1>2, <1>3, <1>4, <1>5, <1>6, <1>7, AnswerStep DEF DispatchInv

\* Every step keeps the dispatch in order, and every execution on its way.
LEMMA DispatchStep ==
    ASSUME ProcTypes, DocTypes, ControlInv, DispatchInv, [Next]_vars
    PROVE  ControlInv' /\ DispatchInv'
<1>1. ASSUME NEW p \in Procs, Act(p) PROVE ControlInv' /\ DispatchInv'
  BY <1>1, ControlStep, DispatchAct
<1>2. CASE ConfirmFailure
  <2> USE <1>2 DEF ConfirmFailure, procVars, callVars
  <2>1. ControlInv'
    BY DEF ControlInv, ControlAt
  <2>2. claimed' = TRUE /\ \A p \in Procs : Owns(p)' <=> Owns(p)
    BY DEF Owns
  <2>3. \A p \in Procs : AnswerAt(p)' /\ BuyAt(p)'
    BY DEF DispatchInv, AnswerAt, BuyAt, Answered
  <2> QED  BY <2>1, <2>2, <2>3 DEF DispatchInv, Answered
<1>3. CASE UNCHANGED vars
  BY <1>3 DEF vars, dispatchVars, outcomeVars, procVars, callVars, ControlInv, ControlAt,
     DispatchInv, Owns, AnswerAt, BuyAt, Answered
<1> QED  BY <1>1, <1>2, <1>3 DEF Next, Act

-----------------------------------------------------------------------------
(* What stays as it is.                                                    *)

\* The outcome, the refund and a complete delivery are final; what the order says of it, too, unless
\* the recovery scheduler writes.
Stays ==
    /\ resolution # "open" => resolution' = resolution /\ frozen' = frozen
    /\ plan # NoPlan => plan' = plan
    /\ credit # None => credit' = credit
    /\ refunded # 0 => refunded' = refunded
    /\ resolution = "fulfilled" /\ stored = frozen => stored' = stored
    /\ ~recovered' => ~recovered /\ found' = found
    /\ ~recovered' /\ actual # None => actual' = actual

\* No step of an execution takes back what is final.
LEMMA StaysAct ==
    ASSUME DocTypes, FlowInv, RefundInv, NEW p \in Procs, Act(p)
    PROVE  Stays
<1>1. /\ FlowAt(p) /\ stored <= frozen
      /\ ~recovered /\ actual # None => actual = stored
  BY DEF FlowInv, DeliveryInv
<1>2. /\ RefundAt(p)
      /\ refunded # 0 => refunded = credit
  BY DEF RefundInv, PlanInv
<1> USE DEF Stays, vars, Documents, dispatchVars, outcomeVars, refundVars, proxyVars,
       callVars, ReadOnly
<1>3. CASE Worker(p)
  BY <1>3 DEF Worker, WorkerRead, WorkerClaim, WorkerBuy, WorkerAnswer, WorkerSave,
     WorkerProcessing, WorkerFail, WorkerDone
<1>4. CASE PollOrSync(p)
  BY <1>4 DEF PollOrSync, PollRead, PollFetch, PollTimeout, SyncFence, SyncFetch
<1>5. CASE Freeze(p)
  BY <1>5 DEF Freeze, CanFreeze
<1>6. CASE FrozenRead(p)
  BY <1>6 DEF FrozenRead
<1>7. CASE StoreProxy(p)
  BY <1>7, <1>1 DEF StoreProxy, FlowAt, DocTypes, Proxies
<1>8. CASE CountProxies(p)
  BY <1>8 DEF CountProxies
<1>9. CASE Publish(p)
  BY <1>9, <1>1 DEF Publish, FlowAt
<1>10. CASE Use(p)
  BY <1>10 DEF Use
<1>11. CASE Release(p)
  BY <1>11 DEF Release
<1>12. CASE CreateCommission(p)
  BY <1>12 DEF CreateCommission
<1>13. CASE ConfirmCommission(p)
  BY <1>13 DEF ConfirmCommission
<1>14. CASE ClearAffiliate(p)
  BY <1>14 DEF ClearAffiliate
<1>15. CASE PlanRefund(p)
  BY <1>15 DEF PlanRefund
<1>16. CASE CheckPlan(p)
  BY <1>16 DEF CheckPlan
<1>17. CASE CreditWallet(p)
  BY <1>17 DEF CreditWallet
<1>18. CASE SetRefunded(p)
  BY <1>18, <1>2 DEF SetRefunded, RefundAt
<1>19. CASE SettleRefund(p)
  BY <1>19 DEF SettleRefund
<1>20. CASE ProjectRefund(p)
  BY <1>20 DEF ProjectRefund
<1>21. CASE Reconcile(p)
  BY <1>21 DEF Reconcile, ReverseUsage, Reopen, Reread, Redeliver, ResumeAnswered, GiveUp,
     ResumeRefund, SettleOrder
<1>22. CASE Expire(p)
  BY <1>22 DEF Expire, ExpireOrder, ExpireCommission
<1>23. CASE CountRecovered(p)
  BY <1>23 DEF CountRecovered
<1>24. CASE FetchRecovered(p)
  BY <1>24 DEF FetchRecovered
<1>25. CASE InsertRecovered(p)
  BY <1>25 DEF InsertRecovered
<1>26. CASE RecountRecovered(p)
  BY <1>26 DEF RecountRecovered
<1>27. CASE PublishRecovered(p)
  BY <1>27 DEF PublishRecovered
<1>28. CASE RecoveredCommission(p)
  BY <1>28 DEF RecoveredCommission
<1>29. CASE StartAny(p)
  BY <1>29, StartReads
<1>30. CASE WorkerThrow(p)
  BY <1>30 DEF WorkerThrow
<1>31. CASE PollRetry(p)
  BY <1>31 DEF PollRetry
<1>32. CASE Abort(p)
  BY <1>32 DEF Abort
<1> QED
  BY <1>3, <1>4, <1>5, <1>6, <1>7, <1>8, <1>9, <1>10, <1>11, <1>12, <1>13, <1>14, <1>15, <1>16,
     <1>17, <1>18, <1>19, <1>20, <1>21, <1>22, <1>23, <1>24, <1>25, <1>26, <1>27, <1>28, <1>29,
     <1>30, <1>31, <1>32 DEF Act, Step, Materialize, Refund, Recover


\* No step takes back what is final.
LEMMA StaysStep ==
    ASSUME DocTypes, FlowInv, RefundInv, [Next]_vars
    PROVE  Stays
<1>1. CASE ConfirmFailure
  BY <1>1 DEF ConfirmFailure, CanConfirmFailure, Stays, refundVars, proxyVars, callVars
<1>2. CASE UNCHANGED vars
  BY <1>2 DEF Stays, vars, outcomeVars, refundVars, proxyVars, callVars
<1> QED  BY <1>1, <1>2, StaysAct DEF Next, Act

\* A delivery that is partial stays so.
LEMMA PartialStays ==
    ASSUME DocTypes, Stays, ~recovered', Partial
    PROVE  Partial'
<1>1. actual # None
  BY DEF Partial, DocTypes, Proxies, None
<1> QED  BY <1>1 DEF Partial, Stays

\* What justified a refund goes on doing so.
LEMMA JustifiedStays ==
    ASSUME DocTypes, Stays, ~recovered', NEW n, NEW missing, Justified(n, missing)
    PROVE  Justified(n, missing)'
<1>1. CASE missing
  BY <1>1, PartialStays DEF Justified, Partial, Stays, MissingRefund
<1>2. CASE ~missing
  BY <1>2 DEF Justified, Stays
<1> QED  BY <1>1, <1>2

-----------------------------------------------------------------------------
(* The delivery.                                                           *)

\* What an execution takes with it through materialize().
LEMMA FlowAtStep ==
    ASSUME ProcTypes, DocTypes, ControlInv, FlowInv, RefundInv, NEW p \in Procs, Act(p)
    PROVE  FlowAt(p)'
<1>1. FlowAt(p) /\ ControlAt(p)
  BY DEF FlowInv, ControlInv
<1>2. stored <= frozen /\ (frozen > 0 => resolution = "fulfilled") /\ (found # 0 => recovered)
  BY DEF FlowInv, DeliveryInv
<1>3. frame[p].n \in Nat /\ frozen \in Nat /\ stored \in Nat
  BY DEF ProcTypes, DocTypes, Proxies
<1> USE <1>1, GotoAt, FinishAt, CarryAt, CallAt, SettleAt, SettleOrderAt, StartAt,
         RefundStartAt, ResumeRefundAt, WorkerThrowAt, PollRetryAt, AbortAt DEF FlowAt,
         ControlAt, DeliveryLabels, procVars, Resume, EmptyFrame
<1>4. CASE WorkerRead(p)
  BY <1>4 DEF WorkerRead
<1>5. CASE WorkerClaim(p)
  BY <1>5 DEF WorkerClaim
<1>6. CASE WorkerBuy(p)
  BY <1>6 DEF WorkerBuy
<1>7. CASE WorkerAnswer(p)
  BY <1>7 DEF WorkerAnswer
<1>8. CASE WorkerSave(p)
  BY <1>8 DEF WorkerSave
<1>9. CASE WorkerProcessing(p)
  BY <1>9 DEF WorkerProcessing
<1>10. CASE WorkerFail(p)
  BY <1>10 DEF WorkerFail
<1>11. CASE WorkerDone(p)
  BY <1>11 DEF WorkerDone
<1>12. CASE PollRead(p)
  BY <1>12 DEF PollRead
<1>13. CASE PollFetch(p)
  BY <1>13 DEF PollFetch
<1>14. CASE PollTimeout(p)
  BY <1>14 DEF PollTimeout
<1>15. CASE SyncFence(p)
  BY <1>15 DEF SyncFence
<1>16. CASE SyncFetch(p)
  BY <1>16 DEF SyncFetch
<1>17. CASE Freeze(p)
  BY <1>17 DEF Freeze
<1>18. CASE FrozenRead(p)
  BY <1>18 DEF FrozenRead, ToStore, ReadOnly, Documents, outcomeVars
<1>19. CASE StoreProxy(p)
  BY <1>19, <1>2, <1>3 DEF StoreProxy, outcomeVars
<1>20. CASE CountProxies(p)
  <2>1. found = 0 \/ recovered
    BY <1>2
  <2>2. /\ UNCHANGED <<resolution, stored, frozen, found, recovered>>
        /\ Carry(p, "mPublish", stored + found) /\ pc[p] = "mCount"
    BY <1>20 DEF CountProxies, ReadOnly, Documents, outcomeVars, proxyVars, callVars
  <2>3. found = 0 => stored + found = stored
    BY <1>3
  <2> QED  BY <2>1, <2>2, <2>3
<1>21. CASE Publish(p)
  BY <1>21 DEF Publish
<1>22. CASE Use(p)
  BY <1>22 DEF Use
<1>23. CASE Release(p)
  BY <1>23 DEF Release
<1>24. CASE CreateCommission(p)
  BY <1>24 DEF CreateCommission
<1>25. CASE ConfirmCommission(p)
  BY <1>25 DEF ConfirmCommission
<1>26. CASE ClearAffiliate(p)
  BY <1>26 DEF ClearAffiliate
<1>27. CASE PlanRefund(p)
  BY <1>27 DEF PlanRefund
<1>28. CASE CheckPlan(p)
  BY <1>28 DEF CheckPlan
<1>29. CASE CreditWallet(p)
  BY <1>29 DEF CreditWallet
<1>30. CASE SetRefunded(p)
  BY <1>30 DEF SetRefunded
<1>31. CASE SettleRefund(p)
  BY <1>31 DEF SettleRefund
<1>32. CASE ProjectRefund(p)
  BY <1>32 DEF ProjectRefund
<1>33. CASE ReverseUsage(p)
  BY <1>33 DEF ReverseUsage
<1>34. CASE Reopen(p)
  BY <1>34 DEF Reopen
<1>35. CASE Reread(p)
  BY <1>35 DEF Reread
<1>36. CASE Redeliver(p)
  <2>1. Redelivered(held[p]) > 0 => Redelivered(held[p]) \in Proxies \ {0}
    BY HandTypes DEF Redelivered, Document, Proxies, None, Nameless
  <2> QED  BY <1>36, <2>1 DEF Redeliver
<1>37. CASE ResumeAnswered(p)
  BY <1>37 DEF ResumeAnswered
<1>38. CASE GiveUp(p)
  BY <1>38 DEF GiveUp
<1>39. CASE ResumeRefund(p)
  BY <1>39
<1>40. CASE SettleOrder(p)
  BY <1>40
<1>41. CASE ExpireOrder(p)
  BY <1>41 DEF ExpireOrder
<1>42. CASE ExpireCommission(p)
  BY <1>42 DEF ExpireCommission
<1>43. CASE CountRecovered(p)
  BY <1>43 DEF CountRecovered
<1>44. CASE FetchRecovered(p)
  BY <1>44 DEF FetchRecovered
<1>45. CASE InsertRecovered(p)
  BY <1>45 DEF InsertRecovered
<1>46. CASE RecountRecovered(p)
  BY <1>46 DEF RecountRecovered
<1>47. CASE PublishRecovered(p)
  BY <1>47 DEF PublishRecovered
<1>48. CASE RecoveredCommission(p)
  BY <1>48 DEF RecoveredCommission
<1>49. CASE WorkerStart(p)
  BY <1>49 DEF WorkerStart, Start
<1>50. CASE PollStart(p)
  BY <1>50 DEF PollStart, Start
<1>51. CASE SyncStart(p)
  BY <1>51 DEF SyncStart, Start
<1>52. CASE RefundStart(p)
  BY <1>52
<1>53. CASE ReconcileStart(p)
  BY <1>53 DEF ReconcileStart, Start
<1>54. CASE ExpireStart(p)
  BY <1>54 DEF ExpireStart, Start
<1>55. CASE RecoverStart(p)
  BY <1>55 DEF RecoverStart, Start
<1>56. CASE WorkerThrow(p)
  BY <1>56
<1>57. CASE PollRetry(p)
  BY <1>57
<1>58. CASE Abort(p)
  BY <1>58
<1> QED
  BY <1>4, <1>5, <1>6, <1>7, <1>8, <1>9, <1>10, <1>11, <1>12, <1>13, <1>14, <1>15, <1>16, <1>17,
     <1>18, <1>19, <1>20, <1>21, <1>22, <1>23, <1>24, <1>25, <1>26, <1>27, <1>28, <1>29, <1>30,
     <1>31, <1>32, <1>33, <1>34, <1>35, <1>36, <1>37, <1>38, <1>39, <1>40, <1>41, <1>42, <1>43,
     <1>44, <1>45, <1>46, <1>47, <1>48, <1>49, <1>50, <1>51, <1>52, <1>53, <1>54, <1>55, <1>56,
     <1>57, <1>58 DEF Act, Step, StartAny, Worker, PollOrSync, Materialize, Refund, Reconcile,
     Expire, Recover


\* The order and its proxies agree after every step of an execution.
LEMMA DeliveryAct ==
    ASSUME DocTypes, FlowInv, RefundInv, NEW p \in Procs, Act(p)
    PROVE  DeliveryInv'
<1>1. FlowAt(p) /\ RefundAt(p) /\ DeliveryInv
  BY DEF FlowInv, RefundInv
<1>2. frozen \in Nat /\ stored \in Nat /\ frozen <= Quantity
  BY FulfilmentAssumption DEF DocTypes, Proxies
<1> USE DEF DeliveryInv, Partial, PartialStatuses, vars, Documents, dispatchVars, outcomeVars,
       refundVars, proxyVars, callVars, ReadOnly
<1>3. CASE Worker(p)
  BY <1>3, <1>1 DEF Worker, WorkerRead, WorkerClaim, WorkerBuy, WorkerAnswer, WorkerSave,
     WorkerProcessing, WorkerFail, WorkerDone, ToPendingRefund
<1>4. CASE PollOrSync(p)
  BY <1>4, <1>1 DEF PollOrSync, PollRead, PollFetch, PollTimeout, SyncFence, SyncFetch
<1>5. CASE Freeze(p)
  BY <1>5, <1>2, <1>1 DEF Freeze, CanFreeze, FlowAt, Proxies
<1>6. CASE FrozenRead(p)
  BY <1>6, <1>1 DEF FrozenRead
<1>7. CASE StoreProxy(p)
  BY <1>7, <1>2, <1>1 DEF StoreProxy, FlowAt
<1>8. CASE CountProxies(p)
  BY <1>8, <1>1 DEF CountProxies
<1>9. CASE Publish(p)
  BY <1>9, <1>2, <1>1 DEF Publish, FlowAt
<1>10. CASE Use(p)
  BY <1>10, <1>1 DEF Use
<1>11. CASE Release(p)
  BY <1>11, <1>1 DEF Release
<1>12. CASE CreateCommission(p)
  BY <1>12, <1>1 DEF CreateCommission
<1>13. CASE ConfirmCommission(p)
  BY <1>13, <1>1 DEF ConfirmCommission
<1>14. CASE ClearAffiliate(p)
  BY <1>14, <1>1 DEF ClearAffiliate
<1>15. CASE PlanRefund(p)
  BY <1>15, <1>1 DEF PlanRefund
<1>16. CASE CheckPlan(p)
  BY <1>16, <1>1 DEF CheckPlan
<1>17. CASE CreditWallet(p)
  BY <1>17, <1>1 DEF CreditWallet
<1>18. CASE SetRefunded(p)
  <2>1. pc[p] = "rStatus" /\ UNCHANGED <<resolution, frozen, actual, stored, found, recovered>>
    BY <1>18 DEF SetRefunded
  <2>2. status' \in PartialStatuses => frame[p].missing
    BY <1>18 DEF SetRefunded
  <2>3. ~recovered /\ frame[p].missing => Partial
    BY <1>1, <2>1 DEF RefundAt, Justified
  <2> HIDE DEF Partial, PartialStatuses
  <2>4. Partial => Partial'
    BY <2>1 DEF Partial
  <2> QED  BY <1>1, <2>1, <2>2, <2>3, <2>4
<1>19. CASE SettleRefund(p)
  BY <1>19, <1>1 DEF SettleRefund
<1>20. CASE ProjectRefund(p)
  BY <1>20, <1>1 DEF ProjectRefund
<1>21. CASE Reconcile(p)
  BY <1>21, <1>1 DEF Reconcile, ReverseUsage, Reopen, Reread, Redeliver, ResumeAnswered, GiveUp,
     ResumeRefund, SettleOrder
<1>22. CASE Expire(p)
  BY <1>22, <1>1 DEF Expire, ExpireOrder, ExpireCommission
<1>23. CASE CountRecovered(p)
  BY <1>23, <1>1 DEF CountRecovered
<1>24. CASE FetchRecovered(p)
  BY <1>24, <1>1 DEF FetchRecovered
<1>25. CASE InsertRecovered(p)
  BY <1>25, <1>1 DEF InsertRecovered
<1>26. CASE RecountRecovered(p)
  BY <1>26, <1>1 DEF RecountRecovered
<1>27. CASE PublishRecovered(p)
  BY <1>27, <1>1 DEF PublishRecovered
<1>28. CASE RecoveredCommission(p)
  BY <1>28, <1>1 DEF RecoveredCommission
<1>29. CASE StartAny(p)
  BY <1>29, StartReads, <1>1
<1>30. CASE WorkerThrow(p)
  BY <1>30, <1>1 DEF WorkerThrow
<1>31. CASE PollRetry(p)
  BY <1>31, <1>1 DEF PollRetry
<1>32. CASE Abort(p)
  BY <1>32, <1>1 DEF Abort
<1> QED
  BY <1>3, <1>4, <1>5, <1>6, <1>7, <1>8, <1>9, <1>10, <1>11, <1>12, <1>13, <1>14, <1>15, <1>16,
     <1>17, <1>18, <1>19, <1>20, <1>21, <1>22, <1>23, <1>24, <1>25, <1>26, <1>27, <1>28, <1>29,
     <1>30, <1>31, <1>32 DEF Act, Step, Materialize, Refund, Recover


\* What another execution has in hand of a delivery goes on being true.
LEMMA FlowAtStays ==
    ASSUME Stays, recovered => recovered', NEW q \in Procs, FlowAt(q),
           pc'[q] = pc[q], frame'[q] = frame[q]
    PROVE  FlowAt(q)'
  BY DEF FlowAt, Stays

\* A delivery goes its way.
LEMMA FlowStep ==
    ASSUME ProcTypes, DocTypes, ControlInv, FlowInv, RefundInv, [Next]_vars
    PROVE  FlowInv'
<1>1. ASSUME NEW p \in Procs, Act(p) PROVE FlowInv'
  <2>1. \A q \in Procs : q # p => FlowAt(q)'
    BY <1>1, StaysAct, FlagsStay, OthersRest, FlowAtStays DEF FlowInv, Rests
  <2> QED  BY <1>1, <2>1, FlowAtStep, DeliveryAct DEF FlowInv
<1>2. CASE ConfirmFailure
  <2> USE <1>2 DEF ConfirmFailure, CanConfirmFailure, proxyVars, procVars, callVars
  <2>1. DeliveryInv'
    BY DEF FlowInv, DeliveryInv, Partial, PartialStatuses
  <2>2. \A q \in Procs : FlowAt(q)'
    BY StaysStep, FlowAtStays DEF FlowInv
  <2> QED  BY <2>1, <2>2 DEF FlowInv
<1>3. CASE UNCHANGED vars
  BY <1>3 DEF vars, outcomeVars, proxyVars, procVars, callVars, FlowInv, DeliveryInv, FlowAt,
     Partial, PartialStatuses
<1> QED  BY <1>1, <1>2, <1>3 DEF Next, Act

-----------------------------------------------------------------------------
(* The refund.                                                             *)

\* What justified the refund an execution has in hand goes on doing so.
LEMMA JustifiedFrameStays ==
    ASSUME DocTypes, Stays, ~recovered', NEW q \in Procs, frame'[q] = frame[q],
           Justified(frame[q].n, frame[q].missing)
    PROVE  Justified(frame[q].n, frame[q].missing)'
<1>1. \A n, missing : Justified(n, missing) => Justified(n, missing)'
  BY JustifiedStays
<1> QED  BY <1>1 DEF Justified

\* What another execution has in hand of a refund goes on being true.
LEMMA RefundAtStays ==
    ASSUME DocTypes, Stays, NEW q \in Procs, RefundAt(q),
           pc'[q] = pc[q], frame'[q] = frame[q]
    PROVE  RefundAt(q)'
<1>2. ~recovered' /\ Justified(frame[q].n, frame[q].missing)
         => Justified(frame[q].n, frame[q].missing)'
  BY JustifiedFrameStays
<1>3. ~recovered' => ~recovered
  BY DEF Stays
<1>4. CASE pc[q] \in {"rPlan", "rRead", "rCredit", "rStatus"}
  <2>1. frame[q].n \in 0..Price /\ frame[q].n # None
    BY <1>4 DEF RefundAt, None
  <2>2. pc[q] \in {"rCredit", "rStatus"} => plan # NoPlan /\ plan' = plan
    BY <2>1 DEF RefundAt, Stays, NoPlan
  <2>3. pc[q] = "rStatus" => credit' = credit
    BY <2>1 DEF RefundAt, Stays
  <2> QED  BY <1>2, <1>3, <1>4, <2>1, <2>2, <2>3 DEF RefundAt
<1> QED  BY <1>4 DEF RefundAt

\* An order that was read at any time and allowed a refund justifies it.
LEMMA AllowedIsJustified ==
    ASSUME DeliveryInv, NEW d, Past(d), NEW n, NEW missing, RefundAllowed(d, n, missing),
           ~recovered
    PROVE  Justified(n, missing)
<1>1. CASE missing
  <2>1. Partial /\ d.actual # None
    BY <1>1 DEF Past, RefundAllowed, PartialStatuses, None
  <2>2. d.actual = stored
    BY <2>1 DEF Past, Partial
  <2> QED  BY <1>1, <2>1, <2>2 DEF RefundAllowed, Justified
<1>2. CASE ~missing
  BY <1>2 DEF Past, RefundAllowed, Justified
<1> QED  BY <1>1, <1>2

\* The order as it is says what is true.
LEMMA SnapshotPast ==
    ASSUME DeliveryInv
    PROVE  Past(Snapshot)
  BY DEF DeliveryInv, Past, Snapshot

\* A refund that starts with what the order read at any time allowed is justified.
LEMMA StartedIsJustified ==
    ASSUME DeliveryInv, ReadOnly, NEW p \in Procs, NEW d, Past(d),
           RefundAllowed(d, frame'[p].n, frame'[p].missing)
    PROVE  /\ frame'[p].n \in 0..Price
           /\ ~recovered' => Justified(frame[p].n, frame[p].missing)'
<1>1. frame'[p].n \in 0..Price
  BY DEF RefundAllowed
<1>2. \A n, missing : Justified(n, missing) <=> Justified(n, missing)'
  BY DEF ReadOnly, Documents, outcomeVars, proxyVars, Justified, Partial, MissingRefund
<1>3. ASSUME ~recovered' PROVE Justified(frame[p].n, frame[p].missing)'
  <2>1. ~recovered
    BY <1>3 DEF ReadOnly, callVars
  <2>2. \A n, missing : RefundAllowed(d, n, missing) => Justified(n, missing)'
    BY <1>2, <2>1, AllowedIsJustified
  <2> QED  BY <2>2 DEF Justified
<1> QED  BY <1>1, <1>3

\* What an execution takes with it through refund().
LEMMA RefundAtStep ==
    ASSUME ProcTypes, DocTypes, ControlInv, FlowInv, RefundInv, PastInv, NEW p \in Procs, Act(p)
    PROVE  RefundAt(p)'
<1>1. RefundAt(p) /\ ControlAt(p)
  BY DEF RefundInv, ControlInv
<1>2. PlanInv /\ Past(held[p]) /\ Past(Snapshot) /\ DeliveryInv
  BY SnapshotPast DEF RefundInv, PastInv, FlowInv
<1>3. Stays
  BY StaysAct
<1>4. frame'[p] = frame[p] /\ ~recovered' /\ Justified(frame[p].n, frame[p].missing)
        => Justified(frame[p].n, frame[p].missing)'
  BY <1>3, JustifiedFrameStays
<1>5. ~recovered' => ~recovered
  BY <1>3 DEF Stays
<1> USE <1>1, GotoAt, FinishAt, CarryAt, CallAt, SettleAt, SettleOrderAt, StartAt,
         RefundStartAt, ResumeRefundAt, WorkerThrowAt, PollRetryAt, AbortAt DEF RefundAt,
         ControlAt, DeliveryLabels, procVars, Resume, EmptyFrame
<1>6. CASE WorkerRead(p)
  BY <1>6 DEF WorkerRead
<1>7. CASE WorkerClaim(p)
  BY <1>7 DEF WorkerClaim
<1>8. CASE WorkerBuy(p)
  BY <1>8 DEF WorkerBuy
<1>9. CASE WorkerAnswer(p)
  BY <1>9 DEF WorkerAnswer
<1>10. CASE WorkerSave(p)
  BY <1>10 DEF WorkerSave
<1>11. CASE WorkerProcessing(p)
  BY <1>11 DEF WorkerProcessing
<1>12. CASE WorkerFail(p)
  BY <1>12 DEF WorkerFail
<1>13. CASE WorkerDone(p)
  BY <1>13 DEF WorkerDone
<1>14. CASE PollRead(p)
  BY <1>14 DEF PollRead
<1>15. CASE PollFetch(p)
  BY <1>15 DEF PollFetch
<1>16. CASE PollTimeout(p)
  BY <1>16 DEF PollTimeout
<1>17. CASE SyncFence(p)
  BY <1>17 DEF SyncFence
<1>18. CASE SyncFetch(p)
  BY <1>18 DEF SyncFetch
<1>19. CASE Freeze(p)
  BY <1>19 DEF Freeze
<1>20. CASE FrozenRead(p)
  BY <1>20 DEF FrozenRead
<1>21. CASE StoreProxy(p)
  BY <1>21 DEF StoreProxy
<1>22. CASE CountProxies(p)
  BY <1>22 DEF CountProxies
<1>23. CASE Publish(p)
  BY <1>23 DEF Publish
<1>24. CASE Use(p)
  BY <1>24 DEF Use
<1>25. CASE Release(p)
  BY <1>25 DEF Release
<1>26. CASE CreateCommission(p)
  BY <1>26 DEF CreateCommission
<1>27. CASE ConfirmCommission(p)
  BY <1>27 DEF ConfirmCommission
<1>28. CASE ClearAffiliate(p)
  BY <1>28 DEF ClearAffiliate
<1>29. CASE PlanRefund(p)
  <2>1. pc[p] = "rPlan" /\ pc'[p] = "rRead" /\ frame'[p] = frame[p]
    BY <1>29 DEF PlanRefund
  <2> QED  BY <1>4, <1>5, <2>1
<1>30. CASE CheckPlan(p)
  <2>1. /\ pc[p] = "rRead" /\ plan' = plan
        /\ \/ pc'[p] = "idle"
           \/ pc'[p] = "rCredit" /\ frame'[p] = frame[p] /\ PlanMatches(p)
    BY <1>30 DEF CheckPlan, ReadOnly, Documents, refundVars
  <2> QED  BY <1>4, <1>5, <2>1 DEF PlanMatches
<1>31. CASE CreditWallet(p)
  <2>1. /\ pc[p] = "rCredit" /\ pc'[p] = "rStatus" /\ frame'[p] = frame[p] /\ plan' = plan
        /\ credit' = IF credit = None THEN frame[p].n ELSE credit
    BY <1>31 DEF CreditWallet
  <2>2. credit' = frame[p].n
    BY <1>2, <2>1 DEF PlanInv
  <2> QED  BY <1>4, <1>5, <2>1, <2>2
<1>32. CASE SetRefunded(p)
  BY <1>32 DEF SetRefunded
<1>33. CASE SettleRefund(p)
  BY <1>33 DEF SettleRefund
<1>34. CASE ProjectRefund(p)
  BY <1>34 DEF ProjectRefund
<1>35. CASE ReverseUsage(p)
  BY <1>35 DEF ReverseUsage
<1>36. CASE Reopen(p)
  BY <1>36 DEF Reopen
<1>37. CASE Reread(p)
  BY <1>37 DEF Reread
<1>38. CASE Redeliver(p)
  BY <1>38 DEF Redeliver
<1>39. CASE ResumeAnswered(p)
  BY <1>39 DEF ResumeAnswered
<1>40. CASE GiveUp(p)
  BY <1>40 DEF GiveUp
<1>41. CASE ResumeRefund(p)
  <2>1. CASE Finish(p) \/ Goto(p, "cSettle")
    BY <2>1
  <2>2. CASE pc'[p] = "rPlan" /\ RefundAllowed(held[p], frame'[p].n, frame'[p].missing)
    BY <1>2, <2>2, <1>41, StartedIsJustified
  <2> QED  BY <2>1, <2>2, <1>41
<1>42. CASE SettleOrder(p)
  BY <1>42
<1>43. CASE ExpireOrder(p)
  BY <1>43 DEF ExpireOrder
<1>44. CASE ExpireCommission(p)
  BY <1>44 DEF ExpireCommission
<1>45. CASE CountRecovered(p)
  BY <1>45 DEF CountRecovered
<1>46. CASE FetchRecovered(p)
  BY <1>46 DEF FetchRecovered
<1>47. CASE InsertRecovered(p)
  BY <1>47 DEF InsertRecovered
<1>48. CASE RecountRecovered(p)
  BY <1>48 DEF RecountRecovered
<1>49. CASE PublishRecovered(p)
  BY <1>49 DEF PublishRecovered
<1>50. CASE RecoveredCommission(p)
  BY <1>50 DEF RecoveredCommission
<1>51. CASE WorkerStart(p)
  BY <1>51 DEF WorkerStart, Start
<1>52. CASE PollStart(p)
  BY <1>52 DEF PollStart, Start
<1>53. CASE SyncStart(p)
  BY <1>53 DEF SyncStart, Start
<1>54. CASE RefundStart(p)
  <2>1. pc'[p] = "rPlan" /\ RefundAllowed(Snapshot, frame'[p].n, frame'[p].missing) /\ ReadOnly
    BY <1>54
  <2>2. /\ frame'[p].n \in 0..Price
        /\ ~recovered' => Justified(frame[p].n, frame[p].missing)'
    BY <1>2, <2>1, StartedIsJustified
  <2> QED  BY <2>1, <2>2
<1>55. CASE ReconcileStart(p)
  BY <1>55 DEF ReconcileStart, Start
<1>56. CASE ExpireStart(p)
  BY <1>56 DEF ExpireStart, Start
<1>57. CASE RecoverStart(p)
  BY <1>57 DEF RecoverStart, Start
<1>58. CASE WorkerThrow(p)
  BY <1>58
<1>59. CASE PollRetry(p)
  BY <1>59
<1>60. CASE Abort(p)
  BY <1>60
<1> QED
  BY <1>6, <1>7, <1>8, <1>9, <1>10, <1>11, <1>12, <1>13, <1>14, <1>15, <1>16, <1>17, <1>18,
     <1>19, <1>20, <1>21, <1>22, <1>23, <1>24, <1>25, <1>26, <1>27, <1>28, <1>29, <1>30, <1>31,
     <1>32, <1>33, <1>34, <1>35, <1>36, <1>37, <1>38, <1>39, <1>40, <1>41, <1>42, <1>43, <1>44,
     <1>45, <1>46, <1>47, <1>48, <1>49, <1>50, <1>51, <1>52, <1>53, <1>54, <1>55, <1>56, <1>57,
     <1>58, <1>59, <1>60 DEF Act, Step, StartAny, Worker, PollOrSync, Materialize, Refund,
     Reconcile, Expire, Recover


\* Plan, receipt and order agree after every step of an execution.
LEMMA PlanAct ==
    ASSUME DocTypes, FlowInv, RefundInv, NEW p \in Procs, Act(p)
    PROVE  PlanInv'
<1>1. RefundAt(p) /\ PlanInv
  BY DEF RefundInv
<1>2. Stays
  BY StaysAct
<1>3. \A n, missing : ~recovered' /\ Justified(n, missing) => Justified(n, missing)'
  BY <1>2, JustifiedStays
<1>4. ~recovered' => ~recovered
  BY <1>2 DEF Stays
<1>5. UNCHANGED <<plan, credit, refunded>> => PlanInv'
  BY <1>1, <1>3, <1>4 DEF PlanInv, Justified
<1> USE DEF vars, Documents, dispatchVars, outcomeVars, refundVars, proxyVars,
       callVars, ReadOnly
<1>6. CASE Worker(p)
  BY <1>6, <1>5 DEF Worker, WorkerRead, WorkerClaim, WorkerBuy, WorkerAnswer, WorkerSave,
     WorkerProcessing, WorkerFail, WorkerDone
<1>7. CASE PollOrSync(p)
  BY <1>7, <1>5 DEF PollOrSync, PollRead, PollFetch, PollTimeout, SyncFence, SyncFetch
<1>8. CASE Materialize(p)
  BY <1>8, <1>5 DEF Materialize, Freeze, FrozenRead, StoreProxy, CountProxies, Publish, Use,
     Release, CreateCommission, ConfirmCommission, ClearAffiliate
<1>9. CASE PlanRefund(p)
  <2>1. /\ pc[p] = "rPlan" /\ UNCHANGED <<credit, refunded>>
        /\ \/ plan' = plan
           \/ plan = NoPlan /\ plan' = [amount |-> frame[p].n, missing |-> frame[p].missing]
    BY <1>9 DEF PlanRefund
  <2>2. CASE plan = NoPlan /\ plan' = [amount |-> frame[p].n, missing |-> frame[p].missing]
    <3>1. plan'.amount = frame[p].n /\ plan'.missing = frame[p].missing
      BY <2>2
    <3>2. plan'.amount \in 0..Price /\ (~recovered' => Justified(plan'.amount, plan'.missing))
      BY <1>1, <1>4, <2>1, <3>1 DEF RefundAt
    <3>3. credit' = None /\ refunded' = 0
      BY <1>1, <2>1, <2>2, FulfilmentAssumption DEF PlanInv, DocTypes, None
    <3>4. ~recovered' => Justified(plan.amount, plan.missing)'
      BY <1>3, <3>2 DEF Justified
    <3> QED  BY <3>2, <3>3, <3>4 DEF PlanInv
  <2> QED  BY <1>5, <2>1, <2>2
<1>10. CASE CheckPlan(p)
  BY <1>10, <1>5 DEF CheckPlan
<1>11. CASE CreditWallet(p)
  <2>1. /\ pc[p] = "rCredit" /\ UNCHANGED <<plan, refunded>>
        /\ credit' = IF credit = None THEN frame[p].n ELSE credit
    BY <1>11 DEF CreditWallet
  <2>2. plan # NoPlan /\ plan.amount = frame[p].n
    BY <1>1, <2>1 DEF RefundAt, NoPlan, None
  <2>3. credit' = plan.amount /\ (refunded # 0 => credit' = credit)
    BY <1>1, <2>1, <2>2 DEF PlanInv, DocTypes, None
  <2>4. ~recovered' => Justified(plan.amount, plan.missing)'
    BY <1>1, <1>3, <1>4, <2>1, <2>2 DEF PlanInv, Justified
  <2> QED  BY <1>1, <2>1, <2>2, <2>3, <2>4 DEF PlanInv
<1>12. CASE SetRefunded(p)
  <2>1. pc[p] = "rStatus" /\ UNCHANGED <<plan, credit>> /\ refunded' = frame[p].n
    BY <1>12 DEF SetRefunded
  <2>2. refunded' = credit
    BY <1>1, <2>1 DEF RefundAt
  <2>3. ~recovered' /\ plan # NoPlan => Justified(plan.amount, plan.missing)'
    BY <1>1, <1>3, <1>4, <2>1 DEF PlanInv, Justified
  <2> QED  BY <1>1, <2>1, <2>2, <2>3 DEF PlanInv
<1>13. CASE SettleRefund(p)
  BY <1>13, <1>5 DEF SettleRefund
<1>14. CASE ProjectRefund(p)
  BY <1>14, <1>5 DEF ProjectRefund
<1>15. CASE Reconcile(p)
  BY <1>15, <1>5 DEF Reconcile, ReverseUsage, Reopen, Reread, Redeliver, ResumeAnswered, GiveUp,
     ResumeRefund, SettleOrder
<1>16. CASE Expire(p)
  BY <1>16, <1>5 DEF Expire, ExpireOrder, ExpireCommission
<1>17. CASE Recover(p)
  BY <1>17, <1>5 DEF Recover, CountRecovered, FetchRecovered, InsertRecovered, RecountRecovered,
     PublishRecovered, RecoveredCommission
<1>18. CASE StartAny(p)
  BY <1>18, StartReads, <1>5
<1>19. CASE WorkerThrow(p)
  BY <1>19, <1>5 DEF WorkerThrow
<1>20. CASE PollRetry(p)
  BY <1>20, <1>5 DEF PollRetry
<1>21. CASE Abort(p)
  BY <1>21, <1>5 DEF Abort
<1> QED
  BY <1>6, <1>7, <1>8, <1>9, <1>10, <1>11, <1>12, <1>13, <1>14, <1>15, <1>16, <1>17, <1>18,
     <1>19, <1>20, <1>21 DEF Act, Step, Refund

\* A refund goes its way.
LEMMA RefundStep ==
    ASSUME ProcTypes, DocTypes, ControlInv, FlowInv, RefundInv, PastInv, [Next]_vars
    PROVE  RefundInv'
<1>1. ASSUME NEW p \in Procs, Act(p) PROVE RefundInv'
  <2>1. \A q \in Procs : q # p => RefundAt(q)'
    BY <1>1, StaysAct, OthersRest, RefundAtStays DEF RefundInv, Rests
  <2> QED  BY <1>1, <2>1, RefundAtStep, PlanAct DEF RefundInv
<1>2. CASE ConfirmFailure \/ UNCHANGED vars
  <2>1. UNCHANGED <<plan, credit, refunded, pc, frame, recovered>>
    BY <1>2 DEF vars, ConfirmFailure, refundVars, procVars, callVars
  <2>2. Stays
    BY StaysStep
  <2>3. \A q \in Procs : RefundAt(q)'
    BY <2>1, <2>2, RefundAtStays DEF RefundInv
  <2>4. \A n, missing : ~recovered /\ Justified(n, missing) => Justified(n, missing)'
    BY <2>1, <2>2, JustifiedStays
  <2>5. PlanInv'
    BY <2>1, <2>4 DEF RefundInv, PlanInv, Justified
  <2> QED  BY <2>3, <2>5 DEF RefundInv
<1> QED  BY <1>1, <1>2 DEF Next, Act

-----------------------------------------------------------------------------
(* What was read earlier.                                                  *)

\* What an order read earlier says goes on being true.
LEMMA PastStays ==
    ASSUME DocTypes, DeliveryInv, RefundInv, Stays, NEW d, Past(d)
    PROVE  Past(d)'
<1>1. d.resolution # "open" => resolution' = d.resolution
  BY DEF Past, Stays
<1>2. d.refunded # 0 => refunded' = d.refunded
  BY DEF Past, Stays
<1>3. ~recovered' /\ d.actual # None => actual' = d.actual
  BY DEF Past, Stays
<1>4. ~recovered' /\ d.status \in PartialStatuses => Partial'
  BY PartialStays DEF Past, Stays
<1> QED  BY <1>1, <1>2, <1>3, <1>4 DEF Past

\* An execution has in hand what it had, what it just read or wrote, or nothing.
LEMMA InHand ==
    ASSUME ProcTypes, NEW p \in Procs, Act(p)
    PROVE  /\ held'[p] \in {Blank, held[p], Snapshot}
           /\ seen'[p] \in {Blank, seen[p], held[p], Snapshot, Snapshot'}
<1> USE GotoAt, FinishAt, CarryAt, CallAt, SettleAt, SettleOrderAt, StartAt, RefundStartAt,
         ResumeRefundAt, WorkerThrowAt, PollRetryAt, AbortAt DEF procVars, Resume
<1>1. CASE WorkerRead(p)
  BY <1>1 DEF WorkerRead
<1>2. CASE WorkerClaim(p)
  BY <1>2 DEF WorkerClaim
<1>3. CASE WorkerBuy(p)
  BY <1>3 DEF WorkerBuy
<1>4. CASE WorkerAnswer(p)
  BY <1>4 DEF WorkerAnswer
<1>5. CASE WorkerSave(p)
  BY <1>5 DEF WorkerSave
<1>6. CASE WorkerProcessing(p)
  BY <1>6 DEF WorkerProcessing
<1>7. CASE WorkerFail(p)
  BY <1>7 DEF WorkerFail
<1>8. CASE WorkerDone(p)
  BY <1>8 DEF WorkerDone
<1>9. CASE PollRead(p)
  BY <1>9 DEF PollRead
<1>10. CASE PollFetch(p)
  BY <1>10 DEF PollFetch
<1>11. CASE PollTimeout(p)
  BY <1>11 DEF PollTimeout
<1>12. CASE SyncFence(p)
  BY <1>12 DEF SyncFence
<1>13. CASE SyncFetch(p)
  BY <1>13 DEF SyncFetch
<1>14. CASE Freeze(p)
  BY <1>14 DEF Freeze
<1>15. CASE FrozenRead(p)
  BY <1>15 DEF FrozenRead
<1>16. CASE StoreProxy(p)
  BY <1>16 DEF StoreProxy
<1>17. CASE CountProxies(p)
  BY <1>17 DEF CountProxies
<1>18. CASE Publish(p)
  BY <1>18 DEF Publish
<1>19. CASE Use(p)
  BY <1>19 DEF Use
<1>20. CASE Release(p)
  BY <1>20 DEF Release
<1>21. CASE CreateCommission(p)
  BY <1>21 DEF CreateCommission
<1>22. CASE ConfirmCommission(p)
  BY <1>22 DEF ConfirmCommission
<1>23. CASE ClearAffiliate(p)
  BY <1>23 DEF ClearAffiliate
<1>24. CASE PlanRefund(p)
  BY <1>24 DEF PlanRefund
<1>25. CASE CheckPlan(p)
  BY <1>25 DEF CheckPlan
<1>26. CASE CreditWallet(p)
  BY <1>26 DEF CreditWallet
<1>27. CASE SetRefunded(p)
  BY <1>27 DEF SetRefunded
<1>28. CASE SettleRefund(p)
  BY <1>28 DEF SettleRefund
<1>29. CASE ProjectRefund(p)
  BY <1>29 DEF ProjectRefund
<1>30. CASE ReverseUsage(p)
  BY <1>30 DEF ReverseUsage
<1>31. CASE Reopen(p)
  BY <1>31 DEF Reopen
<1>32. CASE Reread(p)
  BY <1>32 DEF Reread, ProcTypes
<1>33. CASE Redeliver(p)
  BY <1>33 DEF Redeliver
<1>34. CASE ResumeAnswered(p)
  BY <1>34 DEF ResumeAnswered
<1>35. CASE GiveUp(p)
  BY <1>35 DEF GiveUp
<1>36. CASE ResumeRefund(p)
  BY <1>36
<1>37. CASE SettleOrder(p)
  BY <1>37
<1>38. CASE ExpireOrder(p)
  BY <1>38 DEF ExpireOrder
<1>39. CASE ExpireCommission(p)
  BY <1>39 DEF ExpireCommission
<1>40. CASE CountRecovered(p)
  BY <1>40 DEF CountRecovered
<1>41. CASE FetchRecovered(p)
  BY <1>41 DEF FetchRecovered
<1>42. CASE InsertRecovered(p)
  BY <1>42 DEF InsertRecovered
<1>43. CASE RecountRecovered(p)
  BY <1>43 DEF RecountRecovered
<1>44. CASE PublishRecovered(p)
  BY <1>44 DEF PublishRecovered
<1>45. CASE RecoveredCommission(p)
  BY <1>45 DEF RecoveredCommission
<1>46. CASE WorkerStart(p)
  BY <1>46 DEF WorkerStart, Start
<1>47. CASE PollStart(p)
  BY <1>47 DEF PollStart, Start
<1>48. CASE SyncStart(p)
  BY <1>48 DEF SyncStart, Start
<1>49. CASE RefundStart(p)
  BY <1>49
<1>50. CASE ReconcileStart(p)
  BY <1>50 DEF ReconcileStart, Start
<1>51. CASE ExpireStart(p)
  BY <1>51 DEF ExpireStart, Start
<1>52. CASE RecoverStart(p)
  BY <1>52 DEF RecoverStart, Start
<1>53. CASE WorkerThrow(p)
  BY <1>53
<1>54. CASE PollRetry(p)
  BY <1>54
<1>55. CASE Abort(p)
  BY <1>55
<1> QED
  BY <1>1, <1>2, <1>3, <1>4, <1>5, <1>6, <1>7, <1>8, <1>9, <1>10, <1>11, <1>12, <1>13, <1>14,
     <1>15, <1>16, <1>17, <1>18, <1>19, <1>20, <1>21, <1>22, <1>23, <1>24, <1>25, <1>26, <1>27,
     <1>28, <1>29, <1>30, <1>31, <1>32, <1>33, <1>34, <1>35, <1>36, <1>37, <1>38, <1>39, <1>40,
     <1>41, <1>42, <1>43, <1>44, <1>45, <1>46, <1>47, <1>48, <1>49, <1>50, <1>51, <1>52, <1>53,
     <1>54, <1>55 DEF Act, Step, StartAny, Worker, PollOrSync, Materialize, Refund, Reconcile,
     Expire, Recover

\* What the executions have in hand goes on being true.
LEMMA PastStep ==
    ASSUME ProcTypes, DocTypes, ControlInv, FlowInv, RefundInv, PastInv, [Next]_vars
    PROVE  PastInv'
<1> DEFINE Then(d) ==
      /\ d.resolution # "open" => resolution' = d.resolution
      /\ d.refunded # 0 => refunded' = d.refunded
      /\ ~recovered' => /\ d.actual # None => actual' = d.actual
                        /\ d.status \in PartialStatuses => Partial'
<1>1. Stays /\ DeliveryInv /\ DeliveryInv'
  BY StaysStep, FlowStep DEF FlowInv
<1>2. \A d : Past(d) => Then(d)
  BY <1>1, PastStays DEF Past
<1>3. Then(Blank) /\ Then(Snapshot) /\ Then(Snapshot')
  <2>1. Then(Snapshot)
    BY <1>1, <1>2, SnapshotPast
  <2>2. Then(Blank)
    BY DEF Blank, None, PartialStatuses
  <2>3. Then(Snapshot')
    BY <1>1 DEF DeliveryInv, Snapshot
  <2> QED  BY <2>1, <2>2, <2>3
<1>6. \A q \in Procs : Then(held'[q]) /\ Then(seen'[q]) => (Past(held[q]) /\ Past(seen[q]))'
  BY DEF Past
<1>7. \A q \in Procs : Then(held[q]) /\ Then(seen[q])
  BY <1>2 DEF PastInv
<1> HIDE DEF Then
<1>4. ASSUME NEW p \in Procs, Act(p) PROVE PastInv'
  <2>1. ASSUME NEW q \in Procs PROVE Past(held[q])' /\ Past(seen[q])'
    <3>1. CASE q # p
      BY <1>4, <1>6, <1>7, <2>1, <3>1, OthersRest DEF Rests
    <3>2. CASE q = p
      <4>1. /\ held'[p] \in {Blank, held[p], Snapshot}
            /\ seen'[p] \in {Blank, seen[p], held[p], Snapshot, Snapshot'}
        BY <1>4, InHand
      <4> QED  BY <1>3, <1>6, <1>7, <2>1, <3>2, <4>1
    <3> QED  BY <3>1, <3>2
  <2> QED  BY <2>1 DEF PastInv
<1>5. CASE ConfirmFailure \/ UNCHANGED vars
  <2>1. UNCHANGED <<held, seen>>
    BY <1>5 DEF vars, ConfirmFailure, procVars
  <2> QED  BY <1>6, <1>7, <2>1 DEF PastInv
<1> QED  BY <1>4, <1>5 DEF Next, Act

-----------------------------------------------------------------------------
(* The place and the commission.                                           *)

\* Place and commission follow the delivery after every step of an execution.
LEMMA OutcomeAct ==
    ASSUME DocTypes, DocTypes', FlowInv, RefundInv, PastInv, OutcomeInv, NEW p \in Procs, Act(p)
    PROVE  OutcomeInv'
<1> DEFINE Used == (resolution = "fulfilled" /\ actual > 0) \/ LegacyOrders
           Returned == resolution = "failed" /\ refunded = Price
           Full == resolution = "fulfilled" /\ stored = Quantity
<1>1. FlowAt(p) /\ DeliveryInv /\ Past(seen[p])
  BY DEF FlowInv, PastInv
<1>2. Stays
  BY StaysAct
<1>3. ~recovered' => ~recovered
  BY <1>2 DEF Stays
<1>4. ~recovered' /\ Used => Used'
  BY <1>2 DEF Stays, DocTypes, None
<1>5. Returned => Returned'
  BY <1>2, FulfilmentAssumption DEF Stays, DocTypes
<1>6. Full => Full'
  BY <1>1, <1>2, FulfilmentAssumption DEF Stays, DocTypes, Proxies, DeliveryInv
<1>7. ~recovered => /\ place = "used" => Used
                    /\ place = "released" => Returned
                    /\ commission # "none" => Full
  BY DEF OutcomeInv
<1>8. (~recovered' => /\ place' = "used" => place = "used" \/ Used
                      /\ place' = "released" => place = "released" \/ Returned
                      /\ commission' # "none" => commission # "none" \/ Full)
        => OutcomeInv'
  BY <1>3, <1>4, <1>5, <1>6, <1>7 DEF OutcomeInv
<1> HIDE DEF Used, Returned, Full
<1> USE <1>8 DEF vars, Documents, dispatchVars, outcomeVars, refundVars, proxyVars,
       callVars, ReadOnly
<1>9. CASE Worker(p)
  BY <1>9 DEF Worker, WorkerRead, WorkerClaim, WorkerBuy, WorkerAnswer, WorkerSave,
     WorkerProcessing, WorkerFail, WorkerDone
<1>10. CASE PollOrSync(p)
  BY <1>10 DEF PollOrSync, PollRead, PollFetch, PollTimeout, SyncFence, SyncFetch
<1>11. CASE Freeze(p)
  BY <1>11 DEF Freeze
<1>12. CASE FrozenRead(p)
  BY <1>12 DEF FrozenRead
<1>13. CASE StoreProxy(p)
  BY <1>13 DEF StoreProxy
<1>14. CASE CountProxies(p)
  BY <1>14 DEF CountProxies
<1>15. CASE Publish(p)
  BY <1>15 DEF Publish
<1>16. CASE Use(p)
  <2>1. /\ UNCHANGED <<commission, recovered>>
        /\ place' = "used" => place = "used" \/ IsUse(seen[p])
        /\ place' = "released" => place = "released"
    BY <1>16 DEF Use
  <2>2. ~recovered /\ IsUse(seen[p]) => Used
    BY <1>1 DEF IsUse, Past, None, Used
  <2> QED  BY <2>1, <2>2
<1>17. CASE Release(p)
  <2>1. /\ UNCHANGED <<commission, recovered>>
        /\ place' = "released" => place = "released" \/ IsReturn(seen[p])
        /\ place' = "used" => place = "used"
    BY <1>17 DEF Release
  <2>2. ~recovered /\ IsReturn(seen[p]) => Returned
    BY <1>1, FulfilmentAssumption DEF IsReturn, Past, Returned, DocTypes
  <2> QED  BY <2>1, <2>2
<1>18. CASE CreateCommission(p)
  <2>1. /\ UNCHANGED <<place, recovered>>
        /\ commission' # "none" => commission # "none" \/ OwesCommission(seen[p])
    BY <1>18 DEF CreateCommission
  <2>2. ~recovered /\ OwesCommission(seen[p]) => Full
    <3> SUFFICES ASSUME ~recovered, OwesCommission(seen[p]) PROVE Full
      OBVIOUS
    <3>1. resolution = "fulfilled" /\ actual >= Quantity /\ actual = stored
      BY <1>1, FulfilmentAssumption DEF OwesCommission, Past, DeliveryInv, None, DocTypes
    <3> QED  BY <3>1, FulfilmentAssumption DEF Full, DocTypes, Proxies
  <2> QED  BY <2>1, <2>2
<1>19. CASE ConfirmCommission(p)
  BY <1>19 DEF ConfirmCommission, Confirmed
<1>20. CASE ClearAffiliate(p)
  BY <1>20 DEF ClearAffiliate
<1>21. CASE Refund(p)
  BY <1>21 DEF Refund, PlanRefund, CheckPlan, CreditWallet, SetRefunded, SettleRefund,
     ProjectRefund
<1>22. CASE Reconcile(p)
  BY <1>22 DEF Reconcile, ReverseUsage, Reopen, Reread, Redeliver, ResumeAnswered, GiveUp,
     ResumeRefund, SettleOrder
<1>23. CASE ExpireOrder(p)
  BY <1>23 DEF ExpireOrder
<1>24. CASE ExpireCommission(p)
  BY <1>24 DEF ExpireCommission, Confirmed
<1>25. CASE CountRecovered(p)
  BY <1>25 DEF CountRecovered
<1>26. CASE FetchRecovered(p)
  BY <1>26 DEF FetchRecovered
<1>27. CASE InsertRecovered(p)
  BY <1>27 DEF InsertRecovered
<1>28. CASE RecountRecovered(p)
  BY <1>28 DEF RecountRecovered
<1>29. CASE PublishRecovered(p)
  BY <1>29 DEF PublishRecovered
<1>30. CASE RecoveredCommission(p)
  BY <1>30, <1>1 DEF RecoveredCommission, FlowAt
<1>31. CASE StartAny(p)
  BY <1>31, StartReads
<1>32. CASE WorkerThrow(p)
  BY <1>32 DEF WorkerThrow
<1>33. CASE PollRetry(p)
  BY <1>33 DEF PollRetry
<1>34. CASE Abort(p)
  BY <1>34 DEF Abort
<1> QED
  BY <1>9, <1>10, <1>11, <1>12, <1>13, <1>14, <1>15, <1>16, <1>17, <1>18, <1>19, <1>20, <1>21,
     <1>22, <1>23, <1>24, <1>25, <1>26, <1>27, <1>28, <1>29, <1>30, <1>31, <1>32, <1>33, <1>34
     DEF Act, Step, Materialize, Expire, Recover

\* Place and commission follow the delivery.
LEMMA OutcomeStep ==
    ASSUME DocTypes, DocTypes', FlowInv, RefundInv, PastInv, OutcomeInv, [Next]_vars
    PROVE  OutcomeInv'
<1>1. CASE ConfirmFailure
  BY <1>1, StaysStep DEF ConfirmFailure, CanConfirmFailure, OutcomeInv, FlowInv, DeliveryInv,
     refundVars, proxyVars, callVars
<1>2. CASE UNCHANGED vars
  BY <1>2 DEF OutcomeInv, vars, outcomeVars, refundVars, proxyVars, callVars
<1> QED  BY <1>1, <1>2, OutcomeAct DEF Next, Act

-----------------------------------------------------------------------------
(* The theorems.                                                           *)

\* The inductive invariant holds at first.
LEMMA InvInit == Init => IInv
<1> SUFFICES ASSUME Init PROVE IInv
  OBVIOUS
<1>1. TypeOK
  BY TypeInit
<1>2. /\ plan = NoPlan /\ refunded = 0 /\ credit = None /\ found = 0 /\ commission = "none"
      /\ buying = {} /\ buys = 0 /\ ~recovered
      /\ \A p \in Procs : /\ role[p] = "none" /\ pc[p] = "idle" /\ frame[p] = EmptyFrame
                          /\ held[p] = Blank /\ seen[p] = Blank
  BY DEF Init
<1>3. /\ frozen = stored
      /\ frozen # 0 => resolution = "fulfilled" /\ frozen = Quantity /\ Answered
      /\ actual # None => resolution = "fulfilled" /\ actual = frozen
      /\ ~claimed => source = "none" /\ ~finished /\ ~Answered
      /\ place # "released" /\ (place = "used" => LegacyOrders)
      /\ status \notin PartialStatuses
  BY FulfilmentAssumption DEF Init, NewOrder, LegacyOrder, Answered, None, Nameless,
     PartialStatuses
<1>4. ControlInv
  BY <1>2 DEF ControlInv, ControlAt, EmptyFrame, OwnLabels, DeliveryLabels
<1>5. DispatchInv
  BY <1>2, <1>3 DEF DispatchInv, Owns, OwnLabels, DeliveryLabels, AnswerAt, BuyAt, Blank, None
<1>6. FlowInv
  BY <1>1, <1>2, <1>3, TypeSplit DEF FlowInv, FlowAt, DeliveryInv, DocTypes, Proxies
<1>7. RefundInv
  BY <1>2 DEF RefundInv, RefundAt, PlanInv
<1>8. PastInv
  BY <1>2 DEF PastInv, Past, Blank, None, PartialStatuses
<1>9. OutcomeInv
  BY <1>2, <1>3 DEF OutcomeInv
<1> QED  BY <1>1, <1>4, <1>5, <1>6, <1>7, <1>8, <1>9 DEF IInv

\* Every step keeps the inductive invariant.
LEMMA InvStep == IInv /\ [Next]_vars => IInv'
<1> SUFFICES ASSUME IInv, [Next]_vars PROVE IInv'
  OBVIOUS
<1>1. /\ FlagTypes /\ DocTypes /\ ProcTypes
      /\ ControlInv /\ DispatchInv /\ FlowInv /\ RefundInv /\ PastInv /\ OutcomeInv
  BY TypeSplit DEF IInv
<1>2. FlagTypes' /\ DocTypes'
  BY <1>1, FlagStep, DocStep
<1>3. ProcTypes'
  BY <1>1, <1>2, ProcStep
<1>4. TypeOK'
  BY <1>2, <1>3, TypeSplit, PTL
<1>5. ControlInv' /\ DispatchInv'
  BY <1>1, DispatchStep
<1>6. FlowInv' /\ RefundInv' /\ PastInv'
  BY <1>1, FlowStep, RefundStep, PastStep
<1>7. OutcomeInv'
  BY <1>1, <1>2, OutcomeStep
<1> QED  BY <1>4, <1>5, <1>6, <1>7 DEF IInv

\* The inductive invariant always holds.
THEOREM Invariance == Spec => []IInv
  BY InvInit, InvStep, PTL DEF Spec

\* Type correctness: the order stays one of the documents the code can store.
THEOREM TypeCorrect == Spec => []TypeOK
  BY Invariance, PTL DEF IInv

\* A worker that is inside provider.buy() owns the dispatch, which nobody takes from it, and the
\* provider is asked once: whatever the queue hands out, whoever dies and whoever syncs.
THEOREM BoughtAlone == Spec => []BuysAlone
<1>1. IInv => BuysAlone
  <2> SUFFICES ASSUME IInv PROVE BuysAlone
    OBVIOUS
  <2>1. TypeOK /\ SingleBuy
    BY DEF IInv, DispatchInv, SingleBuy
  <2>2. buying # {} => source = "worker"
    BY TypeSplit DEF IInv, DispatchInv, BuyAt, DocTypes
  <2> QED  BY <2>1, <2>2 DEF BuysAlone, NoSyncDuringBuy
<1> QED  BY <1>1, Invariance, PTL

\* No proxy is stored for an order whose failure was confirmed, whoever else is still working on
\* it, unless the recovery scheduler writes.
THEOREM FailuresAreFinal == Spec => []FailureIsFinal
<1>1. IInv => FailureIsFinal
  BY TypeSplit DEF IInv, FlowInv, DeliveryInv, DocTypes, Proxies, FailureIsFinal,
     FailedGetsNothing
<1> QED  BY <1>1, Invariance, PTL

\* The wallet is credited with the planned amount only, and the order shows that amount or none,
\* however many refunds start, stop and are resumed, and at whatever price.
THEOREM RefundsFollowPlans == Spec => []RefundFollowsPlan
<1>1. IInv => RefundFollowsPlan
  BY DEF IInv, RefundInv, PlanInv, RefundFollowsPlan
<1> QED  BY <1>1, Invariance, PTL

\* Refund, voucher place and commission agree with what was delivered, for every quantity and
\* price, unless the recovery scheduler writes.
THEOREM OutcomesDoAgree == Spec => []OutcomesAgree
<1>1. IInv => OutcomesAgree
  <2> SUFFICES ASSUME IInv, ~recovered PROVE OutcomeAgrees
    BY DEF OutcomesAgree
  <2>1. credit # None => /\ plan # NoPlan /\ credit = plan.amount
                         /\ Justified(plan.amount, plan.missing)
    BY DEF IInv, RefundInv, PlanInv
  <2>2. MissingMatchesStored
    BY <2>1 DEF MissingMatchesStored, Justified, Partial
  <2>3. QuotaFollowsOutcome
    BY DEF IInv, OutcomeInv, QuotaFollowsOutcome
  <2>4. CommissionForFull
    <3>1. commission # "none" => resolution = "fulfilled" /\ stored = Quantity
      BY DEF IInv, OutcomeInv
    <3>2. credit # None => resolution = "failed" \/ stored < Quantity
      BY <2>1 DEF Justified, Partial
    <3> QED  BY <3>1, <3>2, FulfilmentAssumption DEF CommissionForFull
  <2> QED  BY <2>2, <2>3, <2>4 DEF OutcomeAgrees
<1> QED  BY <1>1, Invariance, PTL

\* An order is resolved once, and what was frozen then stays frozen.
THEOREM ResolvedOnce == Spec => ResolutionIsOneWay
<1>1. IInv /\ [Next]_vars => [resolution # "open" => UNCHANGED <<resolution, frozen>>]_vars
  <2> SUFFICES ASSUME IInv, [Next]_vars, resolution # "open"
               PROVE  UNCHANGED <<resolution, frozen>>
    OBVIOUS
  <2>1. Stays
    BY TypeSplit, StaysStep DEF IInv
  <2> QED  BY <2>1 DEF Stays
<1> QED  BY <1>1, Invariance, PTL DEF Spec, ResolutionIsOneWay
=============================================================================
