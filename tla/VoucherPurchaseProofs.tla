------------------------ MODULE VoucherPurchaseProofs ------------------------
(***************************************************************************)
(* Theorems about VoucherPurchase for every set of intents, users, terms   *)
(* and executions, and every value of the caps.                            *)
(*                                                                         *)
(* The inductive invariant IInv has three parts besides the types:         *)
(* IntentInv relates the documents of one purchase to each other, ProcInv  *)
(* says what a value read by an execution still means when it is used, and *)
(* PriceInv ties a frozen price to the revision it was quoted at.          *)
(***************************************************************************)
EXTENDS VoucherPurchase, Totals, FiniteSetTheorems, TLAPS

IntentOK(i) ==
    /\ state[i] = "absent" => token[i] = "none"
    /\ state[i] \in {"absent", "created"} =>
          receipt[i] = "none" /\ token[i] \in {"none", "reserved", "released"}
    /\ state[i] = "reserved" /\ receipt[i] = "none" => token[i] = "reserved"
    /\ state[i] \in {"debited", "ordered"} => receipt[i] = "debit"
    /\ state[i] = "ordered" => order[i] # "none"
    /\ state[i] = "rejected" => receipt[i] # "debit" /\ token[i] = "released"
    /\ order[i] # "none" => state[i] \in {"debited", "ordered"}
    /\ i \in ledger \/ i \in queue => state[i] \in {"debited", "ordered"}
    /\ receipt[i] = "rejected" => token[i] \in {"reserved", "released"}
    /\ receipt[i] = "debit" =>
          \/ token[i] \in {"reserved", "used"}
          \/ token[i] = "released" /\ order[i] = "failed" /\ Refunded(i) = terms[i].price
    /\ token[i] = "used" => receipt[i] = "debit" /\ order[i] = "fulfilled"
    /\ refund[i] # NoRefund => order[i] \in {"fulfilled", "failed"}

IntentInv == \A i \in Intents : IntentOK(i)

\* What execution p, at control point pc[p], knows about intent i.
Knows(p, i) ==
    /\ pc[p] \in Labels \ {"idle", "lookup", "quote", "insert"} => state[i] # "absent"
    /\ pc[p] = "markReserved" => state[i] # "created" \/ token[i] = "reserved"
    /\ pc[p] = "reject" => token[i] = "released"
    /\ pc[p] = "reload" => state[i] # "created"
    /\ pc[p] \in {"debit", "readReceipt", "refuse", "rereadReceipt"} =>
          state[i] \in {"reserved", "debited", "ordered"} \/ receipt[i] = "rejected"
    /\ pc[p] \in {"release", "rejectFunds"} => receipt[i] = "rejected"
    /\ pc[p] = "rejectFunds" => token[i] = "released"
    /\ pc[p] = "markDebited" => receipt[i] = "debit"
    /\ pc[p] \in {"reread", "rereadLast"} => state[i] \in {"debited", "ordered", "rejected"}
    /\ pc[p] \in {"insertOrder", "markOrdered", "ledger", "dispatch", "push"} =>
          state[i] \in {"debited", "ordered"}
    /\ pc[p] = "markOrdered" => order[i] # "none"

ProcInv == \A p \in Procs, i \in Intents : job[p] = i => Knows(p, i)

PriceInv ==
    /\ revision > 0
    /\ \A i \in Intents :
          /\ terms[i].revision <= revision
          /\ terms[i].revision = revision => terms[i].price = NetPrice(i)
    /\ \A p \in Procs, i \in Intents :
          pc[p] = "insert" /\ job[p] = i =>
             /\ seen[p].revision <= revision
             /\ seen[p].revision = revision => seen[p].price = NetPrice(i)

IInv == TypeOK /\ IntentInv /\ ProcInv /\ PriceInv /\ CountersMatch /\ WalletBalanced

-----------------------------------------------------------------------------
(* Types.                                                                  *)

DocTypes ==
    /\ revision \in Nat /\ config \in Configs /\ inWindow \in BOOLEAN
    /\ reserved \in Int /\ used \in Int
    /\ token \in [Intents -> {"none", "reserved", "used", "released"}]
    /\ state \in [Intents -> {"absent", "created", "reserved", "debited", "ordered", "rejected"}]
    /\ terms \in [Intents -> [revision: Nat, price: Nat]]
    /\ money \in [Users -> Int] /\ whole \in [Users -> BOOLEAN]
    /\ receipt \in [Intents -> {"none", "debit", "rejected"}]
    /\ refund \in [Intents -> Nat \cup {NoRefund}]
    /\ moved \in [Users -> Int]
    /\ order \in [Intents -> {"none", "pending", "claimed", "fulfilled", "failed"}]
    /\ queue \subseteq Intents /\ ledger \subseteq Intents
    /\ moves \in Nat

ProcTypes ==
    /\ pc \in [Procs -> Labels]
    /\ job \in [Procs -> Intents \cup {NoIntent}]
    /\ \A p \in Procs : pc[p] # "idle" => job[p] \in Intents
    /\ seen \in [Procs -> [revision: Nat, price: Nat, inTime: BOOLEAN]]
    /\ aborts \in Nat

\* The types of the documents and of the executions, apart.
LEMMA TypeSplit == TypeOK <=> DocTypes /\ ProcTypes
  BY DEF TypeOK, DocTypes, ProcTypes

\* A net price is never negative: the discount is capped by the subtotal.
LEMMA NetPriceType ==
    ASSUME config \in Configs, NEW i \in Intents
    PROVE  NetPrice(i) \in Nat
  BY PurchaseAssumption DEF NetPrice, Terms

\* Moving an execution on keeps the types of pc, job and seen.
LEMMA GotoType ==
    ASSUME ProcTypes, NEW p \in Procs, NEW l \in Labels, pc[p] # "idle", Goto(p, l)
    PROVE  ProcTypes'
  BY DEF ProcTypes, Goto

\* Ending an execution keeps the types of pc, job and seen.
LEMMA FinishType ==
    ASSUME ProcTypes, NEW p \in Procs, Finish(p)
    PROVE  ProcTypes'
  BY DEF ProcTypes, Finish, NothingSeen, Labels

\* The initial states are well typed.
LEMMA TypeInit == Init => TypeOK
<1> SUFFICES ASSUME Init PROVE DocTypes /\ ProcTypes
  BY TypeSplit
<1>1. money \in [Users -> Int] /\ moved \in [Users -> Int]
  <2>1. StartMoney \subseteq Int
    BY PurchaseAssumption
  <2>2. money \in [Users -> StartMoney] /\ moved = money
    BY DEF Init
  <2> QED  BY <2>1, <2>2
<1>2. DocTypes
  BY <1>1 DEF Init, DocTypes, NoRefund
<1>3. ProcTypes
  BY DEF Init, ProcTypes, Labels, NothingSeen
<1> QED  BY <1>2, <1>3

\* Every step keeps the types.
LEMMA DocProcStep ==
    ASSUME DocTypes, ProcTypes, [Next]_vars
    PROVE  DocTypes' /\ ProcTypes'
<1> USE PurchaseAssumption DEF Labels, At, SetState,
       vars, voucherVars, walletVars, intentVars, orderVars, procVars
<1>1. ASSUME NEW p \in Procs, NEW i \in Intents, StartPurchase(p, i)
     PROVE  DocTypes' /\ ProcTypes'
  BY <1>1 DEF StartPurchase, DocTypes, ProcTypes, NothingSeen
<1>2. ASSUME NEW p \in Procs, NEW i \in Intents, StartRecover(p, i)
     PROVE  DocTypes' /\ ProcTypes'
  BY <1>2 DEF StartRecover, DocTypes, ProcTypes, NothingSeen
<1>3. ASSUME NEW p \in Procs, NEW i \in Intents, Lookup(p, i)
     PROVE  DocTypes' /\ ProcTypes'
  BY <1>3, GotoType DEF Lookup, Branch, DocTypes
<1>4. ASSUME NEW p \in Procs, NEW i \in Intents, Quote(p, i)
     PROVE  DocTypes' /\ ProcTypes'
  <2>1. CASE config.active /\ inWindow
    <3>1. NetPrice(i) \in Nat
      BY NetPriceType DEF DocTypes
    <3>2. /\ pc' = [pc EXCEPT ![p] = "insert"] /\ pc[p] = "quote"
          /\ seen' = [seen EXCEPT ![p] = [revision |-> revision, price |-> NetPrice(i),
                                          inTime |-> FALSE]]
          /\ UNCHANGED <<job, aborts, voucherVars, walletVars, intentVars, orderVars>>
      BY <1>4, <2>1 DEF Quote
    <3>3. DocTypes'
      BY <3>2 DEF DocTypes
    <3>4. ProcTypes'
      BY <3>1, <3>2 DEF ProcTypes, DocTypes
    <3> QED  BY <3>3, <3>4
  <2>2. CASE ~(config.active /\ inWindow)
    BY <1>4, <2>2, FinishType DEF Quote, DocTypes
  <2> QED  BY <2>1, <2>2
<1>5. ASSUME NEW p \in Procs, NEW i \in Intents, Insert(p, i)
     PROVE  DocTypes' /\ ProcTypes'
  <2>1. CASE state[i] = "absent"
    <3>1. [revision |-> seen[p].revision, price |-> seen[p].price] \in [revision: Nat, price: Nat]
      BY DEF ProcTypes
    <3>2. /\ terms' = [terms EXCEPT ![i] = [revision |-> seen[p].revision,
                                            price |-> seen[p].price]]
          /\ state' = [state EXCEPT ![i] = "created"]
          /\ UNCHANGED <<voucherVars, walletVars, orderVars>>
          /\ Goto(p, "load")
      BY <1>5, <2>1 DEF Insert
    <3>3. DocTypes'
      BY <3>1, <3>2 DEF DocTypes
    <3>4. ProcTypes'
      BY <1>5, <3>2, GotoType DEF Insert
    <3> QED  BY <3>3, <3>4
  <2>2. CASE state[i] # "absent"
    BY <1>5, <2>2, GotoType DEF Insert, DocTypes
  <2> QED  BY <2>1, <2>2
<1>6. ASSUME NEW p \in Procs, NEW i \in Intents, Load(p, i)
     PROVE  DocTypes' /\ ProcTypes'
  <2>1. CASE state[i] = "rejected"
    BY <1>6, <2>1, FinishType DEF Load, DocTypes
  <2>2. CASE state[i] = "created"
    <3>1. /\ pc' = [pc EXCEPT ![p] = "reserve"] /\ pc[p] = "load"
          /\ seen' = [seen EXCEPT ![p] = [revision |-> 0, price |-> 0, inTime |-> inWindow]]
          /\ UNCHANGED <<job, aborts, voucherVars, walletVars, intentVars, orderVars>>
      BY <1>6, <2>2 DEF Load
    <3>2. DocTypes'
      BY <3>1 DEF DocTypes
    <3>3. ProcTypes'
      BY <3>1 DEF ProcTypes, DocTypes
    <3> QED  BY <3>2, <3>3
  <2>3. CASE state[i] \notin {"rejected", "created"}
    BY <1>6, <2>3, GotoType DEF Load, DocTypes
  <2> QED  BY <2>1, <2>2, <2>3
<1>7. ASSUME NEW p \in Procs, NEW i \in Intents, Reserve(p, i)
     PROVE  DocTypes' /\ ProcTypes'
  BY <1>7, GotoType DEF Reserve, DocTypes
<1>8. ASSUME NEW p \in Procs, NEW i \in Intents, Tombstone(p, i)
     PROVE  DocTypes' /\ ProcTypes'
  BY <1>8, GotoType DEF Tombstone, DocTypes
<1>9. ASSUME NEW p \in Procs, NEW i \in Intents, Check(p, i)
     PROVE  DocTypes' /\ ProcTypes'
  BY <1>9, GotoType DEF Check, Branch, DocTypes
<1>10. ASSUME NEW p \in Procs, NEW i \in Intents, CheckTombstone(p, i)
     PROVE  DocTypes' /\ ProcTypes'
  BY <1>10, FinishType, GotoType DEF CheckTombstone, DocTypes
<1>11. ASSUME NEW p \in Procs, NEW i \in Intents, RejectIntent(p, i)
     PROVE  DocTypes' /\ ProcTypes'
  BY <1>11, FinishType DEF RejectIntent, DocTypes
<1>12. ASSUME NEW p \in Procs, NEW i \in Intents, MarkReserved(p, i)
     PROVE  DocTypes' /\ ProcTypes'
  BY <1>12, GotoType DEF MarkReserved, DocTypes
<1>13. ASSUME NEW p \in Procs, NEW i \in Intents, Reload(p, i)
     PROVE  DocTypes' /\ ProcTypes'
  BY <1>13, GotoType DEF Reload, Branch, DocTypes
<1>14. ASSUME NEW p \in Procs, NEW i \in Intents, Debit(p, i)
     PROVE  DocTypes' /\ ProcTypes'
  BY <1>14, GotoType DEF Debit, DocTypes
<1>15. ASSUME NEW p \in Procs, NEW i \in Intents, ReadReceipt(p, i)
     PROVE  DocTypes' /\ ProcTypes'
  BY <1>15, FinishType, GotoType DEF ReadReceipt, AfterReceipt, DocTypes
<1>16. ASSUME NEW p \in Procs, NEW i \in Intents, RefuseDebit(p, i)
     PROVE  DocTypes' /\ ProcTypes'
  BY <1>16, GotoType DEF RefuseDebit, DocTypes
<1>17. ASSUME NEW p \in Procs, NEW i \in Intents, RereadReceipt(p, i)
     PROVE  DocTypes' /\ ProcTypes'
  BY <1>17, FinishType, GotoType DEF RereadReceipt, AfterReceipt, DocTypes
<1>18. ASSUME NEW p \in Procs, NEW i \in Intents, Release(p, i)
     PROVE  DocTypes' /\ ProcTypes'
  BY <1>18, GotoType DEF Release, DocTypes
<1>19. ASSUME NEW p \in Procs, NEW i \in Intents, RejectFunds(p, i)
     PROVE  DocTypes' /\ ProcTypes'
  BY <1>19, FinishType DEF RejectFunds, DocTypes
<1>20. ASSUME NEW p \in Procs, NEW i \in Intents, MarkDebited(p, i)
     PROVE  DocTypes' /\ ProcTypes'
  BY <1>20, GotoType DEF MarkDebited, DocTypes
<1>21. ASSUME NEW p \in Procs, NEW i \in Intents, Reread(p, i)
     PROVE  DocTypes' /\ ProcTypes'
  BY <1>21, GotoType DEF Reread, Branch, DocTypes
<1>22. ASSUME NEW p \in Procs, NEW i \in Intents, InsertOrder(p, i)
     PROVE  DocTypes' /\ ProcTypes'
  BY <1>22, GotoType DEF InsertOrder, DocTypes
<1>23. ASSUME NEW p \in Procs, NEW i \in Intents, MarkOrdered(p, i)
     PROVE  DocTypes' /\ ProcTypes'
  BY <1>23, GotoType DEF MarkOrdered, DocTypes
<1>24. ASSUME NEW p \in Procs, NEW i \in Intents, RereadLast(p, i)
     PROVE  DocTypes' /\ ProcTypes'
  BY <1>24, FinishType, GotoType DEF RereadLast, DocTypes
<1>25. ASSUME NEW p \in Procs, NEW i \in Intents, WriteLedger(p, i)
     PROVE  DocTypes' /\ ProcTypes'
  BY <1>25, GotoType DEF WriteLedger, DocTypes
<1>26. ASSUME NEW p \in Procs, NEW i \in Intents, Dispatch(p, i)
     PROVE  DocTypes' /\ ProcTypes'
  BY <1>26, FinishType, GotoType DEF Dispatch, DocTypes
<1>27. ASSUME NEW p \in Procs, NEW i \in Intents, Push(p, i)
     PROVE  DocTypes' /\ ProcTypes'
  BY <1>27, FinishType DEF Push, DocTypes
<1>28. ASSUME NEW p \in Procs, Abort(p)
     PROVE  DocTypes' /\ ProcTypes'
  BY <1>28 DEF Abort, DocTypes, ProcTypes, NothingSeen
<1>29. ASSUME NEW i \in Intents, WorkerTake(i)
     PROVE  DocTypes' /\ ProcTypes'
  BY <1>29 DEF WorkerTake, DocTypes, ProcTypes
<1>30. ASSUME NEW i \in Intents, LoseQueued(i)
     PROVE  DocTypes' /\ ProcTypes'
  BY <1>30 DEF LoseQueued, DocTypes, ProcTypes
<1>31. ASSUME NEW i \in Intents, SyncClaim(i)
     PROVE  DocTypes' /\ ProcTypes'
  BY <1>31 DEF SyncClaim, DocTypes, ProcTypes, SetOrder
<1>32. ASSUME NEW i \in Intents, Fulfil(i)
     PROVE  DocTypes' /\ ProcTypes'
  BY <1>32 DEF Fulfil, DocTypes, ProcTypes, SetOrder
<1>33. ASSUME NEW i \in Intents, ConfirmFailure(i)
     PROVE  DocTypes' /\ ProcTypes'
  BY <1>33 DEF ConfirmFailure, DocTypes, ProcTypes, SetOrder
<1>34. ASSUME NEW i \in Intents, Consume(i)
     PROVE  DocTypes' /\ ProcTypes'
  BY <1>34 DEF Consume, DocTypes, ProcTypes
<1>35. ASSUME NEW i \in Intents, Refund(i)
     PROVE  DocTypes' /\ ProcTypes'
  <2> PICK amount \in 0..terms[i].price :
          /\ money' = [money EXCEPT ![Owner[i]] = @ + amount]
          /\ refund' = [refund EXCEPT ![i] = amount]
    BY <1>35 DEF Refund
  <2>1. amount \in Nat
    BY DEF DocTypes
  <2> QED  BY <1>35, <2>1 DEF Refund, DocTypes, ProcTypes
<1>36. ASSUME NEW i \in Intents, HandBack(i)
     PROVE  DocTypes' /\ ProcTypes'
  BY <1>36 DEF HandBack, DocTypes, ProcTypes
<1>37. CASE Write
  BY <1>37 DEF Write, DocTypes, ProcTypes
<1>38. CASE WindowCloses
  BY <1>38 DEF WindowCloses, DocTypes, ProcTypes
<1>39. ASSUME NEW u \in Users, OtherMove(u)
     PROVE  DocTypes' /\ ProcTypes'
  <2>1. CASE \E d \in {-1, 1} :
                /\ money' = [money EXCEPT ![u] = @ + d]
                /\ moved' = [moved EXCEPT ![u] = @ + d]
                /\ UNCHANGED whole
    BY <1>39, <2>1 DEF OtherMove, DocTypes, ProcTypes
  <2>2. CASE whole' = [whole EXCEPT ![u] = ~@] /\ UNCHANGED <<money, moved>>
    BY <1>39, <2>2 DEF OtherMove, DocTypes, ProcTypes
  <2> QED  BY <1>39, <2>1, <2>2 DEF OtherMove
<1>40. CASE UNCHANGED vars
  BY <1>40 DEF vars, DocTypes, ProcTypes
<1> QED
  BY <1>1, <1>2, <1>3, <1>4, <1>5, <1>6, <1>7, <1>8, <1>9, <1>10, <1>11,
     <1>12, <1>13, <1>14, <1>15, <1>16, <1>17, <1>18, <1>19, <1>20, <1>21,
     <1>22, <1>23, <1>24, <1>25, <1>26, <1>27, <1>28, <1>29, <1>30, <1>31,
     <1>32, <1>33, <1>34, <1>35, <1>36, <1>37, <1>38, <1>39, <1>40
  DEF Next, Run, Fulfilment

\* Every variable stays within its type, for any number of intents, users,
\* executions, and any caps.
THEOREM TypeCorrect == Spec => []TypeOK
<1>1. TypeOK /\ [Next]_vars => TypeOK'
  BY DocProcStep DEF TypeOK, DocTypes, ProcTypes
<1> QED  BY TypeInit, <1>1, PTL DEF Spec

-----------------------------------------------------------------------------
(* The documents of a purchase agree with each other and with what every   *)
(* execution remembers of them.                                            *)

\* Every step keeps what state, receipt, token and order of one intent say of each other.
LEMMA IntentStep ==
    ASSUME DocTypes, ProcTypes, IntentInv, ProcInv, [Next]_vars
    PROVE  IntentInv'
<1> USE PurchaseAssumption DEF DocTypes, ProcTypes, IntentInv, IntentOK, ProcInv, Knows, Labels, At, Goto, Finish,
       Branch, SetState, NoRefund, Refunded, vars, voucherVars, walletVars, intentVars, orderVars, procVars
<1>1. ASSUME NEW p \in Procs, NEW i \in Intents, StartPurchase(p, i)
     PROVE  IntentInv'
  BY <1>1 DEF StartPurchase
<1>2. ASSUME NEW p \in Procs, NEW i \in Intents, StartRecover(p, i)
     PROVE  IntentInv'
  BY <1>2 DEF StartRecover
<1>3. ASSUME NEW p \in Procs, NEW i \in Intents, Lookup(p, i)
     PROVE  IntentInv'
  BY <1>3 DEF Lookup
<1>4. ASSUME NEW p \in Procs, NEW i \in Intents, Quote(p, i)
     PROVE  IntentInv'
  BY <1>4 DEF Quote
<1>5. ASSUME NEW p \in Procs, NEW i \in Intents, Insert(p, i)
     PROVE  IntentInv'
  <2>1. CASE (state[i] = "absent")
    BY <1>5, <2>1 DEF Insert
  <2>2. CASE ~(state[i] = "absent")
    BY <1>5, <2>2 DEF Insert
  <2> QED  BY <2>1, <2>2
<1>6. ASSUME NEW p \in Procs, NEW i \in Intents, Load(p, i)
     PROVE  IntentInv'
  BY <1>6 DEF Load
<1>7. ASSUME NEW p \in Procs, NEW i \in Intents, Reserve(p, i)
     PROVE  IntentInv'
  <2>1. CASE CanReserve(p, i)
    <3>1. token[i] = "none" /\ token' = [token EXCEPT ![i] = "reserved"]
      BY <1>7, <2>1 DEF Reserve, CanReserve
    <3>2. state[i] = "created"
      BY <1>7, <3>1 DEF Reserve
    <3> QED  BY <1>7, <3>1, <3>2 DEF Reserve
  <2>2. CASE ~CanReserve(p, i)
    BY <1>7, <2>2 DEF Reserve
  <2> QED  BY <2>1, <2>2
<1>8. ASSUME NEW p \in Procs, NEW i \in Intents, Tombstone(p, i)
     PROVE  IntentInv'
  <2>1. CASE CanEntomb(i)
    <3>1. token[i] = "none" /\ token' = [token EXCEPT ![i] = "released"]
      BY <1>8, <2>1 DEF Tombstone, CanEntomb
    <3>2. state[i] # "absent"
      BY <1>8 DEF Tombstone
    <3>3. receipt[i] = "none"
      BY <3>1
    <3>4. state[i] = "created"
      BY <3>1, <3>2, <3>3
    <3> QED  BY <1>8, <3>1, <3>4 DEF Tombstone
  <2>2. CASE ~CanEntomb(i)
    BY <1>8, <2>2 DEF Tombstone
  <2> QED  BY <2>1, <2>2
<1>9. ASSUME NEW p \in Procs, NEW i \in Intents, Check(p, i)
     PROVE  IntentInv'
  BY <1>9 DEF Check
<1>10. ASSUME NEW p \in Procs, NEW i \in Intents, CheckTombstone(p, i)
     PROVE  IntentInv'
  BY <1>10 DEF CheckTombstone
<1>11. ASSUME NEW p \in Procs, NEW i \in Intents, RejectIntent(p, i)
     PROVE  IntentInv'
  <2>1. CASE (state[i] = "created")
    BY <1>11, <2>1 DEF RejectIntent
  <2>2. CASE ~(state[i] = "created")
    BY <1>11, <2>2 DEF RejectIntent
  <2> QED  BY <2>1, <2>2
<1>12. ASSUME NEW p \in Procs, NEW i \in Intents, MarkReserved(p, i)
     PROVE  IntentInv'
  <2>1. CASE (state[i] = "created")
    BY <1>12, <2>1 DEF MarkReserved
  <2>2. CASE ~(state[i] = "created")
    BY <1>12, <2>2 DEF MarkReserved
  <2> QED  BY <2>1, <2>2
<1>13. ASSUME NEW p \in Procs, NEW i \in Intents, Reload(p, i)
     PROVE  IntentInv'
  BY <1>13 DEF Reload
<1>14. ASSUME NEW p \in Procs, NEW i \in Intents, Debit(p, i)
     PROVE  IntentInv'
  BY <1>14 DEF Debit, CanDebit
<1>15. ASSUME NEW p \in Procs, NEW i \in Intents, ReadReceipt(p, i)
     PROVE  IntentInv'
  BY <1>15 DEF ReadReceipt, AfterReceipt
<1>16. ASSUME NEW p \in Procs, NEW i \in Intents, RefuseDebit(p, i)
     PROVE  IntentInv'
  BY <1>16 DEF RefuseDebit, CanRefuse
<1>17. ASSUME NEW p \in Procs, NEW i \in Intents, RereadReceipt(p, i)
     PROVE  IntentInv'
  BY <1>17 DEF RereadReceipt, AfterReceipt
<1>18. ASSUME NEW p \in Procs, NEW i \in Intents, Release(p, i)
     PROVE  IntentInv'
  BY <1>18 DEF Release
<1>19. ASSUME NEW p \in Procs, NEW i \in Intents, RejectFunds(p, i)
     PROVE  IntentInv'
  BY <1>19 DEF RejectFunds
<1>20. ASSUME NEW p \in Procs, NEW i \in Intents, MarkDebited(p, i)
     PROVE  IntentInv'
  BY <1>20 DEF MarkDebited
<1>21. ASSUME NEW p \in Procs, NEW i \in Intents, Reread(p, i)
     PROVE  IntentInv'
  BY <1>21 DEF Reread
<1>22. ASSUME NEW p \in Procs, NEW i \in Intents, InsertOrder(p, i)
     PROVE  IntentInv'
  BY <1>22 DEF InsertOrder
<1>23. ASSUME NEW p \in Procs, NEW i \in Intents, MarkOrdered(p, i)
     PROVE  IntentInv'
  BY <1>23 DEF MarkOrdered
<1>24. ASSUME NEW p \in Procs, NEW i \in Intents, RereadLast(p, i)
     PROVE  IntentInv'
  BY <1>24 DEF RereadLast
<1>25. ASSUME NEW p \in Procs, NEW i \in Intents, WriteLedger(p, i)
     PROVE  IntentInv'
  BY <1>25 DEF WriteLedger
<1>26. ASSUME NEW p \in Procs, NEW i \in Intents, Dispatch(p, i)
     PROVE  IntentInv'
  BY <1>26 DEF Dispatch
<1>27. ASSUME NEW p \in Procs, NEW i \in Intents, Push(p, i)
     PROVE  IntentInv'
  BY <1>27 DEF Push
<1>28. ASSUME NEW p \in Procs, Abort(p)
     PROVE  IntentInv'
  BY <1>28 DEF Abort
<1>29. ASSUME NEW i \in Intents, WorkerTake(i)
     PROVE  IntentInv'
  BY <1>29 DEF WorkerTake
<1>30. ASSUME NEW i \in Intents, LoseQueued(i)
     PROVE  IntentInv'
  BY <1>30 DEF LoseQueued
<1>31. ASSUME NEW i \in Intents, SyncClaim(i)
     PROVE  IntentInv'
  BY <1>31 DEF SyncClaim, SetOrder
<1>32. ASSUME NEW i \in Intents, Fulfil(i)
     PROVE  IntentInv'
  BY <1>32 DEF Fulfil, SetOrder
<1>33. ASSUME NEW i \in Intents, ConfirmFailure(i)
     PROVE  IntentInv'
  BY <1>33 DEF ConfirmFailure, SetOrder
<1>34. ASSUME NEW i \in Intents, Consume(i)
     PROVE  IntentInv'
  BY <1>34 DEF Consume
<1>35. ASSUME NEW i \in Intents, Refund(i)
     PROVE  IntentInv'
  BY <1>35 DEF Refund
<1>36. ASSUME NEW i \in Intents, HandBack(i)
     PROVE  IntentInv'
  BY <1>36 DEF HandBack
<1>37. CASE Write
  BY <1>37 DEF Write
<1>38. CASE WindowCloses
  BY <1>38 DEF WindowCloses
<1>39. ASSUME NEW u \in Users, OtherMove(u)
     PROVE  IntentInv'
  BY <1>39 DEF OtherMove
<1>40. CASE UNCHANGED vars
  BY <1>40
<1> QED
  BY <1>1, <1>2, <1>3, <1>4, <1>5, <1>6, <1>7, <1>8, <1>9, <1>10, <1>11,
     <1>12, <1>13, <1>14, <1>15, <1>16, <1>17, <1>18, <1>19, <1>20, <1>21,
     <1>22, <1>23, <1>24, <1>25, <1>26, <1>27, <1>28, <1>29, <1>30, <1>31,
     <1>32, <1>33, <1>34, <1>35, <1>36, <1>37, <1>38, <1>39, <1>40
  DEF Next, Run, Fulfilment

\* Every step keeps what an execution at a given point knows of its intent.
LEMMA ProcStep ==
    ASSUME DocTypes, ProcTypes, IntentInv, ProcInv, [Next]_vars
    PROVE  ProcInv'
<1> USE PurchaseAssumption DEF DocTypes, ProcTypes, IntentInv, IntentOK, ProcInv, Knows, Labels, At, Goto, Finish,
       Branch, SetState, NoRefund, vars, voucherVars, walletVars, intentVars, orderVars, procVars
<1>1. ASSUME NEW p \in Procs, NEW i \in Intents, StartPurchase(p, i)
     PROVE  ProcInv'
  BY <1>1 DEF StartPurchase
<1>2. ASSUME NEW p \in Procs, NEW i \in Intents, StartRecover(p, i)
     PROVE  ProcInv'
  BY <1>2 DEF StartRecover
<1>3. ASSUME NEW p \in Procs, NEW i \in Intents, Lookup(p, i)
     PROVE  ProcInv'
  BY <1>3 DEF Lookup
<1>4. ASSUME NEW p \in Procs, NEW i \in Intents, Quote(p, i)
     PROVE  ProcInv'
  BY <1>4 DEF Quote
<1>5. ASSUME NEW p \in Procs, NEW i \in Intents, Insert(p, i)
     PROVE  ProcInv'
  BY <1>5 DEF Insert
<1>6. ASSUME NEW p \in Procs, NEW i \in Intents, Load(p, i)
     PROVE  ProcInv'
  BY <1>6 DEF Load
<1>7. ASSUME NEW p \in Procs, NEW i \in Intents, Reserve(p, i)
     PROVE  ProcInv'
  BY <1>7 DEF Reserve, CanReserve
<1>8. ASSUME NEW p \in Procs, NEW i \in Intents, Tombstone(p, i)
     PROVE  ProcInv'
  BY <1>8 DEF Tombstone, CanEntomb
<1>9. ASSUME NEW p \in Procs, NEW i \in Intents, Check(p, i)
     PROVE  ProcInv'
  BY <1>9 DEF Check
<1>10. ASSUME NEW p \in Procs, NEW i \in Intents, CheckTombstone(p, i)
     PROVE  ProcInv'
  BY <1>10 DEF CheckTombstone
<1>11. ASSUME NEW p \in Procs, NEW i \in Intents, RejectIntent(p, i)
     PROVE  ProcInv'
  BY <1>11 DEF RejectIntent
<1>12. ASSUME NEW p \in Procs, NEW i \in Intents, MarkReserved(p, i)
     PROVE  ProcInv'
  BY <1>12 DEF MarkReserved
<1>13. ASSUME NEW p \in Procs, NEW i \in Intents, Reload(p, i)
     PROVE  ProcInv'
  BY <1>13 DEF Reload
<1>14. ASSUME NEW p \in Procs, NEW i \in Intents, Debit(p, i)
     PROVE  ProcInv'
  BY <1>14 DEF Debit, CanDebit
<1>15. ASSUME NEW p \in Procs, NEW i \in Intents, ReadReceipt(p, i)
     PROVE  ProcInv'
  BY <1>15 DEF ReadReceipt, AfterReceipt
<1>16. ASSUME NEW p \in Procs, NEW i \in Intents, RefuseDebit(p, i)
     PROVE  ProcInv'
  BY <1>16 DEF RefuseDebit, CanRefuse
<1>17. ASSUME NEW p \in Procs, NEW i \in Intents, RereadReceipt(p, i)
     PROVE  ProcInv'
  BY <1>17 DEF RereadReceipt, AfterReceipt
<1>18. ASSUME NEW p \in Procs, NEW i \in Intents, Release(p, i)
     PROVE  ProcInv'
  BY <1>18 DEF Release
<1>19. ASSUME NEW p \in Procs, NEW i \in Intents, RejectFunds(p, i)
     PROVE  ProcInv'
  BY <1>19 DEF RejectFunds
<1>20. ASSUME NEW p \in Procs, NEW i \in Intents, MarkDebited(p, i)
     PROVE  ProcInv'
  BY <1>20 DEF MarkDebited
<1>21. ASSUME NEW p \in Procs, NEW i \in Intents, Reread(p, i)
     PROVE  ProcInv'
  BY <1>21 DEF Reread
<1>22. ASSUME NEW p \in Procs, NEW i \in Intents, InsertOrder(p, i)
     PROVE  ProcInv'
  BY <1>22 DEF InsertOrder
<1>23. ASSUME NEW p \in Procs, NEW i \in Intents, MarkOrdered(p, i)
     PROVE  ProcInv'
  BY <1>23 DEF MarkOrdered
<1>24. ASSUME NEW p \in Procs, NEW i \in Intents, RereadLast(p, i)
     PROVE  ProcInv'
  BY <1>24 DEF RereadLast
<1>25. ASSUME NEW p \in Procs, NEW i \in Intents, WriteLedger(p, i)
     PROVE  ProcInv'
  BY <1>25 DEF WriteLedger
<1>26. ASSUME NEW p \in Procs, NEW i \in Intents, Dispatch(p, i)
     PROVE  ProcInv'
  BY <1>26 DEF Dispatch
<1>27. ASSUME NEW p \in Procs, NEW i \in Intents, Push(p, i)
     PROVE  ProcInv'
  BY <1>27 DEF Push
<1>28. ASSUME NEW p \in Procs, Abort(p)
     PROVE  ProcInv'
  BY <1>28 DEF Abort
<1>29. ASSUME NEW i \in Intents, WorkerTake(i)
     PROVE  ProcInv'
  BY <1>29 DEF WorkerTake
<1>30. ASSUME NEW i \in Intents, LoseQueued(i)
     PROVE  ProcInv'
  BY <1>30 DEF LoseQueued
<1>31. ASSUME NEW i \in Intents, SyncClaim(i)
     PROVE  ProcInv'
  BY <1>31 DEF SyncClaim, SetOrder
<1>32. ASSUME NEW i \in Intents, Fulfil(i)
     PROVE  ProcInv'
  BY <1>32 DEF Fulfil, SetOrder
<1>33. ASSUME NEW i \in Intents, ConfirmFailure(i)
     PROVE  ProcInv'
  BY <1>33 DEF ConfirmFailure, SetOrder
<1>34. ASSUME NEW i \in Intents, Consume(i)
     PROVE  ProcInv'
  BY <1>34 DEF Consume
<1>35. ASSUME NEW i \in Intents, Refund(i)
     PROVE  ProcInv'
  BY <1>35 DEF Refund
<1>36. ASSUME NEW i \in Intents, HandBack(i)
     PROVE  ProcInv'
  BY <1>36 DEF HandBack
<1>37. CASE Write
  BY <1>37 DEF Write
<1>38. CASE WindowCloses
  BY <1>38 DEF WindowCloses
<1>39. ASSUME NEW u \in Users, OtherMove(u)
     PROVE  ProcInv'
  BY <1>39 DEF OtherMove
<1>40. CASE UNCHANGED vars
  BY <1>40
<1>41. ASSUME NEW p \in Procs, NEW i \in Intents, Run(p, i)
     PROVE  ProcInv'
  <2> HIDE DEF ProcInv, IntentInv, DocTypes, ProcTypes
  <2> QED
    BY <1>3, <1>4, <1>5, <1>6, <1>7, <1>8, <1>9, <1>10, <1>11, <1>12, <1>13, <1>14, <1>15,
       <1>16, <1>17, <1>18, <1>19, <1>20, <1>21, <1>22, <1>23, <1>24, <1>25, <1>26, <1>27,
       <1>41
    DEF Run
<1>42. ASSUME NEW i \in Intents, Fulfilment(i)
     PROVE  ProcInv'
  BY <1>29, <1>30, <1>31, <1>32, <1>33, <1>34, <1>35, <1>36, <1>42 DEF Fulfilment
<1> HIDE DEF ProcInv, IntentInv, DocTypes, ProcTypes
<1> QED
  BY <1>1, <1>2, <1>28, <1>37, <1>38, <1>39, <1>40, <1>41, <1>42 DEF Next

-----------------------------------------------------------------------------
(* A frozen price belongs to a revision.                                   *)

\* An execution that ends leaves nothing quoted behind.
LEMMA PriceFinish ==
    ASSUME ProcTypes, PriceInv, NEW p \in Procs, Finish(p),
           UNCHANGED <<revision, config, terms>>
    PROVE  PriceInv'
<1>1. pc' = [pc EXCEPT ![p] = "idle"] /\ job' = [job EXCEPT ![p] = NoIntent]
  BY DEF Finish
<1>2. \A q \in Procs \ {p} : seen'[q] = seen[q] /\ pc'[q] = pc[q] /\ job'[q] = job[q]
  BY DEF Finish, ProcTypes
<1>3. pc'[p] # "insert"
  BY <1>1 DEF ProcTypes
<1> QED  BY <1>2, <1>3 DEF PriceInv, NetPrice

\* An execution that goes on, but not to the insertion, quotes nothing new.
LEMMA PriceGoto ==
    ASSUME ProcTypes, PriceInv, NEW p \in Procs, NEW l, l # "insert", Goto(p, l),
           UNCHANGED <<revision, config, terms>>
    PROVE  PriceInv'
<1>1. pc' = [pc EXCEPT ![p] = l] /\ UNCHANGED <<job, seen>>
  BY DEF Goto
<1>2. \A q \in Procs : pc'[q] = "insert" => pc[q] = "insert"
  BY <1>1 DEF ProcTypes
<1> QED  BY <1>1, <1>2 DEF PriceInv, NetPrice

\* Every step keeps: terms quoted at the current revision are the terms in force.
LEMMA PriceStep ==
    ASSUME DocTypes, ProcTypes, PriceInv, [Next]_vars
    PROVE  PriceInv'
<1> USE PurchaseAssumption DEF DocTypes, ProcTypes, PriceInv, Labels, At, Goto, Finish, Branch, SetState, NetPrice,
       vars, voucherVars, walletVars, intentVars, orderVars, procVars
<1>1. ASSUME NEW p \in Procs, NEW i \in Intents, StartPurchase(p, i)
     PROVE  PriceInv'
  BY <1>1 DEF StartPurchase
<1>2. ASSUME NEW p \in Procs, NEW i \in Intents, StartRecover(p, i)
     PROVE  PriceInv'
  BY <1>2 DEF StartRecover
<1>3. ASSUME NEW p \in Procs, NEW i \in Intents, Lookup(p, i)
     PROVE  PriceInv'
  BY <1>3 DEF Lookup
<1>4. ASSUME NEW p \in Procs, NEW i \in Intents, Quote(p, i)
     PROVE  PriceInv'
  <2>1. CASE config.active /\ inWindow
    <3>1. /\ seen' = [seen EXCEPT ![p] = [revision |-> revision, price |-> NetPrice(i),
                                          inTime |-> FALSE]]
          /\ job[p] = i /\ job' = job
          /\ UNCHANGED <<voucherVars, intentVars>>
      BY <1>4, <2>1 DEF Quote
    <3>2. seen'[p].revision = revision /\ seen'[p].price = NetPrice(i)
      BY <3>1
    <3>3. ASSUME NEW q \in Procs, q # p PROVE pc'[q] = pc[q] /\ seen'[q] = seen[q]
      BY <1>4, <2>1, <3>1, <3>3 DEF Quote
    <3> QED  BY <3>1, <3>2, <3>3
  <2>2. CASE ~(config.active /\ inWindow)
    BY <1>4, <2>2, PriceFinish DEF Quote
  <2> QED  BY <2>1, <2>2
<1>5. ASSUME NEW p \in Procs, NEW i \in Intents, Insert(p, i)
     PROVE  PriceInv'
  <2>1. CASE state[i] = "absent"
    <3>1. /\ terms' = [terms EXCEPT ![i] = [revision |-> seen[p].revision,
                                            price |-> seen[p].price]]
          /\ pc' = [pc EXCEPT ![p] = "load"] /\ pc[p] = "insert" /\ job[p] = i
          /\ UNCHANGED <<job, seen, voucherVars>>
      BY <1>5, <2>1 DEF Insert
    <3>2. terms'[i].revision = seen[p].revision /\ terms'[i].price = seen[p].price
      BY <3>1
    <3>3. \A j \in Intents \ {i} : terms'[j] = terms[j]
      BY <3>1
    <3> QED  BY <3>1, <3>2, <3>3
  <2>2. CASE state[i] # "absent"
    BY <1>5, <2>2 DEF Insert
  <2> QED  BY <2>1, <2>2
<1>6. ASSUME NEW p \in Procs, NEW i \in Intents, Load(p, i)
     PROVE  PriceInv'
  BY <1>6 DEF Load
<1>7. ASSUME NEW p \in Procs, NEW i \in Intents, Reserve(p, i)
     PROVE  PriceInv'
  BY <1>7 DEF Reserve
<1>8. ASSUME NEW p \in Procs, NEW i \in Intents, Tombstone(p, i)
     PROVE  PriceInv'
  BY <1>8 DEF Tombstone
<1>9. ASSUME NEW p \in Procs, NEW i \in Intents, Check(p, i)
     PROVE  PriceInv'
  BY <1>9 DEF Check
<1>10. ASSUME NEW p \in Procs, NEW i \in Intents, CheckTombstone(p, i)
     PROVE  PriceInv'
  BY <1>10 DEF CheckTombstone
<1>11. ASSUME NEW p \in Procs, NEW i \in Intents, RejectIntent(p, i)
     PROVE  PriceInv'
  BY <1>11 DEF RejectIntent
<1>12. ASSUME NEW p \in Procs, NEW i \in Intents, MarkReserved(p, i)
     PROVE  PriceInv'
  BY <1>12 DEF MarkReserved
<1>13. ASSUME NEW p \in Procs, NEW i \in Intents, Reload(p, i)
     PROVE  PriceInv'
  BY <1>13 DEF Reload
<1>14. ASSUME NEW p \in Procs, NEW i \in Intents, Debit(p, i)
     PROVE  PriceInv'
  BY <1>14 DEF Debit
<1>15. ASSUME NEW p \in Procs, NEW i \in Intents, ReadReceipt(p, i)
     PROVE  PriceInv'
  <2>1. UNCHANGED <<revision, config, terms>>
    BY <1>15 DEF ReadReceipt
  <2>2. Finish(p) \/ \E l \in {"markDebited", "release", "refuse"} : Goto(p, l)
    BY <1>15 DEF ReadReceipt, AfterReceipt
  <2> QED  BY <2>1, <2>2, PriceFinish, PriceGoto
<1>16. ASSUME NEW p \in Procs, NEW i \in Intents, RefuseDebit(p, i)
     PROVE  PriceInv'
  BY <1>16 DEF RefuseDebit
<1>17. ASSUME NEW p \in Procs, NEW i \in Intents, RereadReceipt(p, i)
     PROVE  PriceInv'
  BY <1>17 DEF RereadReceipt, AfterReceipt
<1>18. ASSUME NEW p \in Procs, NEW i \in Intents, Release(p, i)
     PROVE  PriceInv'
  BY <1>18 DEF Release
<1>19. ASSUME NEW p \in Procs, NEW i \in Intents, RejectFunds(p, i)
     PROVE  PriceInv'
  BY <1>19 DEF RejectFunds
<1>20. ASSUME NEW p \in Procs, NEW i \in Intents, MarkDebited(p, i)
     PROVE  PriceInv'
  BY <1>20 DEF MarkDebited
<1>21. ASSUME NEW p \in Procs, NEW i \in Intents, Reread(p, i)
     PROVE  PriceInv'
  BY <1>21 DEF Reread
<1>22. ASSUME NEW p \in Procs, NEW i \in Intents, InsertOrder(p, i)
     PROVE  PriceInv'
  BY <1>22 DEF InsertOrder
<1>23. ASSUME NEW p \in Procs, NEW i \in Intents, MarkOrdered(p, i)
     PROVE  PriceInv'
  BY <1>23 DEF MarkOrdered
<1>24. ASSUME NEW p \in Procs, NEW i \in Intents, RereadLast(p, i)
     PROVE  PriceInv'
  BY <1>24 DEF RereadLast
<1>25. ASSUME NEW p \in Procs, NEW i \in Intents, WriteLedger(p, i)
     PROVE  PriceInv'
  BY <1>25 DEF WriteLedger
<1>26. ASSUME NEW p \in Procs, NEW i \in Intents, Dispatch(p, i)
     PROVE  PriceInv'
  <2>1. CASE state[i] = "ordered" /\ order[i] = "pending"
    BY <1>26, <2>1 DEF Dispatch
  <2>2. CASE ~(state[i] = "ordered" /\ order[i] = "pending")
    BY <1>26, <2>2, PriceFinish DEF Dispatch
  <2> QED  BY <2>1, <2>2
<1>27. ASSUME NEW p \in Procs, NEW i \in Intents, Push(p, i)
     PROVE  PriceInv'
  BY <1>27 DEF Push
<1>28. ASSUME NEW p \in Procs, Abort(p)
     PROVE  PriceInv'
  BY <1>28 DEF Abort
<1>29. ASSUME NEW i \in Intents, WorkerTake(i)
     PROVE  PriceInv'
  BY <1>29 DEF WorkerTake
<1>30. ASSUME NEW i \in Intents, LoseQueued(i)
     PROVE  PriceInv'
  BY <1>30 DEF LoseQueued
<1>31. ASSUME NEW i \in Intents, SyncClaim(i)
     PROVE  PriceInv'
  BY <1>31 DEF SyncClaim, SetOrder
<1>32. ASSUME NEW i \in Intents, Fulfil(i)
     PROVE  PriceInv'
  BY <1>32 DEF Fulfil, SetOrder
<1>33. ASSUME NEW i \in Intents, ConfirmFailure(i)
     PROVE  PriceInv'
  BY <1>33 DEF ConfirmFailure, SetOrder
<1>34. ASSUME NEW i \in Intents, Consume(i)
     PROVE  PriceInv'
  BY <1>34 DEF Consume
<1>35. ASSUME NEW i \in Intents, Refund(i)
     PROVE  PriceInv'
  BY <1>35 DEF Refund
<1>36. ASSUME NEW i \in Intents, HandBack(i)
     PROVE  PriceInv'
  BY <1>36 DEF HandBack
<1>37. CASE Write
  BY <1>37 DEF Write
<1>38. CASE WindowCloses
  BY <1>38 DEF WindowCloses
<1>39. ASSUME NEW u \in Users, OtherMove(u)
     PROVE  PriceInv'
  BY <1>39 DEF OtherMove
<1>40. CASE UNCHANGED vars
  BY <1>40
<1> QED
  BY <1>1, <1>2, <1>3, <1>4, <1>5, <1>6, <1>7, <1>8, <1>9, <1>10, <1>11,
     <1>12, <1>13, <1>14, <1>15, <1>16, <1>17, <1>18, <1>19, <1>20, <1>21,
     <1>22, <1>23, <1>24, <1>25, <1>26, <1>27, <1>28, <1>29, <1>30, <1>31,
     <1>32, <1>33, <1>34, <1>35, <1>36, <1>37, <1>38, <1>39, <1>40
  DEF Next, Run, Fulfilment

-----------------------------------------------------------------------------
(* Counting reservations by status.                                        *)

Statuses == {"none", "reserved", "used", "released"}

Count(f, status) == Cardinality({j \in Intents : f[j] = status})

\* The number of reservations of one status is a natural number.
LEMMA CountIsNat ==
    ASSUME NEW f, NEW status
    PROVE  Count(f, status) \in Nat
<1>1. IsFiniteSet({j \in Intents : f[j] = status})
  BY PurchaseAssumption, FS_Subset
<1> QED  BY <1>1, FS_CardinalityType DEF Count

\* Moving one reservation into a status adds one to its count.
LEMMA CountUp ==
    ASSUME NEW f \in [Intents -> Statuses], NEW i \in Intents, NEW status \in Statuses,
           f[i] # status
    PROVE  Count([f EXCEPT ![i] = status], status) = Count(f, status) + 1
<1> DEFINE A == {j \in Intents : f[j] = status}
           B == {j \in Intents : [f EXCEPT ![i] = status][j] = status}
<1>1. IsFiniteSet(A) /\ i \notin A /\ B = A \cup {i}
  BY PurchaseAssumption, FS_Subset
<1>2. Cardinality(B) = Cardinality(A) + 1
  BY <1>1, FS_AddElement
<1> QED  BY <1>2 DEF Count

\* Moving one reservation out of a status takes one from its count.
LEMMA CountDown ==
    ASSUME NEW f \in [Intents -> Statuses], NEW i \in Intents, NEW status \in Statuses,
           NEW other \in Statuses, f[i] = status, other # status
    PROVE  Count([f EXCEPT ![i] = other], status) = Count(f, status) - 1
<1> DEFINE A == {j \in Intents : f[j] = status}
           B == {j \in Intents : [f EXCEPT ![i] = other][j] = status}
<1>1. IsFiniteSet(A) /\ i \in A /\ B = A \ {i}
  BY PurchaseAssumption, FS_Subset
<1>2. Cardinality(B) = Cardinality(A) - 1
  BY <1>1, FS_RemoveElement
<1> QED  BY <1>2 DEF Count

\* A move between two other statuses leaves a count alone.
LEMMA CountSame ==
    ASSUME NEW f \in [Intents -> Statuses], NEW i \in Intents, NEW status \in Statuses,
           NEW other \in Statuses, f[i] # status, other # status
    PROVE  Count([f EXCEPT ![i] = other], status) = Count(f, status)
<1>1. {j \in Intents : [f EXCEPT ![i] = other][j] = status} = {j \in Intents : f[j] = status}
  OBVIOUS
<1> QED  BY <1>1 DEF Count

Delta(status, from, to) ==
    (IF to = status THEN 1 ELSE 0) - (IF from = status THEN 1 ELSE 0)

\* What a change of one reservation's status does to one count.
LEMMA CountMove ==
    ASSUME NEW f \in [Intents -> Statuses], NEW i \in Intents, NEW to \in Statuses,
           NEW status \in Statuses, f[i] # to
    PROVE  Count([f EXCEPT ![i] = to], status) = Count(f, status) + Delta(status, f[i], to)
<1>1. CASE to = status
  <2>1. Count([f EXCEPT ![i] = status], status) = Count(f, status) + 1
    BY <1>1, CountUp
  <2> QED  BY <1>1, <2>1 DEF Delta
<1>2. CASE f[i] = status
  <2>1. Count([f EXCEPT ![i] = to], status) = Count(f, status) - 1
    BY <1>2, CountDown
  <2>2. Count(f, status) \in Nat
    BY CountIsNat
  <2> QED  BY <1>2, <2>1, <2>2 DEF Delta
<1>3. CASE f[i] # status /\ to # status
  <2>1. Count([f EXCEPT ![i] = to], status) = Count(f, status)
    BY <1>3, CountSame
  <2>2. Count(f, status) \in Nat
    BY CountIsNat
  <2> QED  BY <1>3, <2>1, <2>2 DEF Delta
<1> QED  BY <1>1, <1>2, <1>3

\* Counters that move with the reservation keep counting.
LEMMA MoveCounts ==
    ASSUME DocTypes, CountersMatch, NEW i \in Intents, NEW to \in Statuses, token[i] # to,
           token' = [token EXCEPT ![i] = to],
           reserved' = reserved + Delta("reserved", token[i], to),
           used' = used + Delta("used", token[i], to)
    PROVE  CountersMatch'
<1>1. token \in [Intents -> Statuses] /\ "reserved" \in Statuses /\ "used" \in Statuses
  BY DEF DocTypes, Statuses
<1>2. reserved = Count(token, "reserved") /\ used = Count(token, "used")
  BY DEF CountersMatch, Count
<1>3. /\ Count(token', "reserved") = Count(token, "reserved") + Delta("reserved", token[i], to)
      /\ Count(token', "used") = Count(token, "used") + Delta("used", token[i], to)
  BY <1>1, CountMove
<1> QED  BY <1>2, <1>3 DEF CountersMatch, Count


\* The updates of voucher and receipts, and that nothing else touches them.
QuotaUntouched == UNCHANGED <<config, token, receipt, reserved, used>>

\* The steps that touch the quota, the terms or a receipt, and all the others.
LEMMA QuotaSteps ==
    ASSUME [Next]_vars
    PROVE  \/ QuotaUntouched
           \/ \E p \in Procs, i \in Intents :
                 \/ Reserve(p, i) \/ Tombstone(p, i) \/ Debit(p, i)
                 \/ RefuseDebit(p, i) \/ Release(p, i)
           \/ \E i \in Intents : Consume(i) \/ HandBack(i)
           \/ Write
<1>1. ASSUME NEW p \in Procs, NEW i \in Intents, StartPurchase(p, i) \/ StartRecover(p, i) \/ Run(p, i)
      PROVE  \/ QuotaUntouched
             \/ Reserve(p, i) \/ Tombstone(p, i) \/ Debit(p, i)
             \/ RefuseDebit(p, i) \/ Release(p, i)
  <2>1. ASSUME \/ StartPurchase(p, i) \/ StartRecover(p, i) \/ Lookup(p, i) \/ Quote(p, i)
               \/ Insert(p, i) \/ Load(p, i) \/ Check(p, i) \/ CheckTombstone(p, i)
               \/ RejectIntent(p, i) \/ MarkReserved(p, i) \/ Reload(p, i)
        PROVE  QuotaUntouched
    BY <2>1 DEF vars, voucherVars, walletVars, intentVars, orderVars, procVars, Branch,
       QuotaUntouched, StartPurchase, StartRecover, Lookup, Quote, Insert, Load,
       Check, CheckTombstone, RejectIntent, MarkReserved, Reload
  <2>2. ASSUME \/ ReadReceipt(p, i) \/ RereadReceipt(p, i) \/ RejectFunds(p, i)
               \/ MarkDebited(p, i) \/ Reread(p, i) \/ InsertOrder(p, i)
               \/ MarkOrdered(p, i) \/ RereadLast(p, i) \/ WriteLedger(p, i)
               \/ Dispatch(p, i) \/ Push(p, i)
        PROVE  QuotaUntouched
    BY <2>2 DEF vars, voucherVars, walletVars, intentVars, orderVars, procVars, Branch,
       QuotaUntouched, ReadReceipt, RereadReceipt, RejectFunds, MarkDebited, Reread,
       InsertOrder, MarkOrdered, RereadLast, WriteLedger, Dispatch, Push
  <2> QED  BY <1>1, <2>1, <2>2 DEF Run
<1>2. ASSUME NEW i \in Intents, Fulfilment(i)
      PROVE  QuotaUntouched \/ Consume(i) \/ HandBack(i)
  <2>1. ASSUME \/ WorkerTake(i) \/ LoseQueued(i) \/ SyncClaim(i) \/ Fulfil(i)
               \/ ConfirmFailure(i) \/ Refund(i)
        PROVE  QuotaUntouched
    BY <2>1 DEF vars, voucherVars, walletVars, intentVars, orderVars, procVars,
       QuotaUntouched, WorkerTake, LoseQueued, SyncClaim, Fulfil, ConfirmFailure, Refund
  <2> QED  BY <1>2, <2>1 DEF Fulfilment
<1>3. ASSUME \/ \E p \in Procs : Abort(p)
             \/ \E u \in Users : OtherMove(u)
             \/ WindowCloses \/ UNCHANGED vars
      PROVE  QuotaUntouched
  BY <1>3 DEF vars, voucherVars, walletVars, intentVars, orderVars, procVars,
     QuotaUntouched, Abort, OtherMove, WindowCloses
<1>4. CASE \E p \in Procs, i \in Intents : StartPurchase(p, i) \/ StartRecover(p, i) \/ Run(p, i)
  <2>1. PICK p \in Procs, i \in Intents : StartPurchase(p, i) \/ StartRecover(p, i) \/ Run(p, i)
    BY <1>4
  <2> QED  BY <1>1, <2>1
<1>5. CASE \E i \in Intents : Fulfilment(i)
  <2>1. PICK i \in Intents : Fulfilment(i)
    BY <1>5
  <2> QED  BY <1>2, <2>1
<1> QED
  BY <1>3, <1>4, <1>5 DEF Next

\* Every step keeps the counters equal to the counts.
LEMMA CountersStep ==
    ASSUME DocTypes, CountersMatch, [Next]_vars
    PROVE  CountersMatch'
<1> USE DEF vars, voucherVars, walletVars, intentVars, orderVars, procVars
<1>1. ASSUME QuotaUntouched
     PROVE  CountersMatch'
  BY <1>1 DEF QuotaUntouched, CountersMatch
<1>2. ASSUME NEW p \in Procs, NEW i \in Intents, Reserve(p, i)
     PROVE  CountersMatch'
  <2>1. CASE CanReserve(p, i)
    <3>1. token[i] = "none" /\ token' = [token EXCEPT ![i] = "reserved"]
          /\ reserved' = reserved + 1 /\ used' = used
      BY <1>2, <2>1 DEF Reserve, CanReserve
    <3>2. Delta("reserved", "none", "reserved") = 1 /\ Delta("used", "none", "reserved") = 0
      BY DEF Delta
    <3>3. /\ reserved' = reserved + Delta("reserved", token[i], "reserved")
          /\ used' = used + Delta("used", token[i], "reserved")
      BY <3>1, <3>2 DEF DocTypes
    <3> QED  BY <3>1, <3>3, MoveCounts DEF Statuses
  <2>2. CASE ~CanReserve(p, i)
    BY <1>2, <2>2 DEF Reserve, CountersMatch
  <2> QED  BY <2>1, <2>2
<1>3. ASSUME NEW p \in Procs, NEW i \in Intents, Tombstone(p, i)
     PROVE  CountersMatch'
  <2>1. CASE CanEntomb(i)
    <3>1. token[i] = "none" /\ token' = [token EXCEPT ![i] = "released"]
          /\ reserved' = reserved /\ used' = used
      BY <1>3, <2>1 DEF Tombstone, CanEntomb
    <3>2. Delta("reserved", "none", "released") = 0 /\ Delta("used", "none", "released") = 0
      BY DEF Delta
    <3>3. /\ reserved' = reserved + Delta("reserved", token[i], "released")
          /\ used' = used + Delta("used", token[i], "released")
      BY <3>1, <3>2 DEF DocTypes
    <3> QED  BY <3>1, <3>3, MoveCounts DEF Statuses
  <2>2. CASE ~CanEntomb(i)
    BY <1>3, <2>2 DEF Tombstone, CountersMatch
  <2> QED  BY <2>1, <2>2
<1>4. ASSUME NEW p \in Procs, NEW i \in Intents, Debit(p, i)
     PROVE  CountersMatch'
  BY <1>4 DEF Debit, CountersMatch
<1>5. ASSUME NEW p \in Procs, NEW i \in Intents, RefuseDebit(p, i)
     PROVE  CountersMatch'
  BY <1>5 DEF RefuseDebit, CountersMatch
<1>6. ASSUME NEW p \in Procs, NEW i \in Intents, Release(p, i)
     PROVE  CountersMatch'
  <2>1. CASE token[i] = "reserved"
    <3>1. token' = [token EXCEPT ![i] = "released"] /\ reserved' = reserved - 1 /\ used' = used
      BY <1>6, <2>1 DEF Release
    <3>2. Delta("reserved", "reserved", "released") = -1 /\ Delta("used", "reserved", "released") = 0
      BY DEF Delta
    <3>3. /\ reserved' = reserved + Delta("reserved", token[i], "released")
          /\ used' = used + Delta("used", token[i], "released")
      BY <2>1, <3>1, <3>2 DEF DocTypes
    <3> QED  BY <2>1, <3>1, <3>3, MoveCounts DEF Statuses
  <2>2. CASE token[i] # "reserved"
    BY <1>6, <2>2 DEF Release, CountersMatch
  <2> QED  BY <2>1, <2>2
<1>7. ASSUME NEW i \in Intents, Consume(i)
     PROVE  CountersMatch'
  <2>1. token[i] = "reserved" /\ token' = [token EXCEPT ![i] = "used"]
        /\ reserved' = reserved - 1 /\ used' = used + 1
    BY <1>7 DEF Consume
  <2>2. Delta("reserved", "reserved", "used") = -1 /\ Delta("used", "reserved", "used") = 1
    BY DEF Delta
  <2>3. /\ reserved' = reserved + Delta("reserved", token[i], "used")
        /\ used' = used + Delta("used", token[i], "used")
    BY <2>1, <2>2 DEF DocTypes
  <2> QED  BY <2>1, <2>3, MoveCounts DEF Statuses
<1>8. ASSUME NEW i \in Intents, HandBack(i)
     PROVE  CountersMatch'
  <2>1. token[i] \in {"reserved", "used"} /\ token' = [token EXCEPT ![i] = "released"]
    BY <1>8 DEF HandBack
  <2>2. /\ reserved' = IF token[i] = "reserved" THEN reserved - 1 ELSE reserved
        /\ used' = IF token[i] = "used" THEN used - 1 ELSE used
    BY <1>8 DEF HandBack
  <2>3. /\ Delta("reserved", "reserved", "released") = -1 /\ Delta("used", "reserved", "released") = 0
        /\ Delta("reserved", "used", "released") = 0 /\ Delta("used", "used", "released") = -1
    BY DEF Delta
  <2>4. /\ reserved' = reserved + Delta("reserved", token[i], "released")
        /\ used' = used + Delta("used", token[i], "released")
    BY <2>1, <2>2, <2>3 DEF DocTypes
  <2> QED  BY <2>1, <2>4, MoveCounts DEF Statuses
<1>9. ASSUME Write
     PROVE  CountersMatch'
  BY <1>9 DEF Write, CountersMatch
<1> QED
  BY QuotaSteps, <1>1, <1>2, <1>3, <1>4, <1>5, <1>6, <1>7, <1>8, <1>9

-----------------------------------------------------------------------------
(* Balances.                                                               *)

\* A gain is an integer.
LEMMA GainType == ASSUME DocTypes PROVE \A i \in Intents : Gain(i) \in Int
  BY DEF Gain, Refunded, DocTypes, NoRefund

\* A step that leaves every gain alone, and moves a balance with the rest of
\* the system, keeps the wallets balanced.
LEMMA SameGains ==
    ASSUME DocTypes, WalletBalanced, NEW d \in [Users -> Int],
           \A i \in Intents : Gain(i)' = Gain(i),
           \A u \in Users : money'[u] = money[u] + d[u] /\ moved'[u] = moved[u] + d[u]
    PROVE  WalletBalanced'
<1>1. Gains' = Gains
  BY DEF Gains
<1> SUFFICES ASSUME NEW u \in Users
             PROVE  money'[u] = moved'[u] + SumFunctionOnSet(Gains, PurchasesOf(u))
  BY <1>1 DEF WalletBalanced, PurchasesOf
<1>2. money[u] = moved[u] + SumFunctionOnSet(Gains, PurchasesOf(u))
  BY DEF WalletBalanced
<1>3. SumFunctionOnSet(Gains, PurchasesOf(u)) \in Int
  <2>1. IsFiniteSet(PurchasesOf(u))
    BY PurchaseAssumption, FS_Subset DEF PurchasesOf
  <2> QED  BY <2>1, SumInt, GainType DEF Gains, PurchasesOf
<1> QED  BY <1>2, <1>3 DEF DocTypes

\* A step that moves one gain, and its owner's balance by as much, keeps the
\* wallets balanced.
LEMMA OneGain ==
    ASSUME DocTypes, DocTypes', WalletBalanced, NEW i \in Intents,
           \A j \in Intents \ {i} : Gain(j)' = Gain(j),
           money' = [money EXCEPT ![Owner[i]] = @ - Gain(i) + Gain(i)'], UNCHANGED moved
    PROVE  WalletBalanced'
<1> SUFFICES ASSUME NEW u \in Users
             PROVE  money'[u] = moved[u] + SumFunctionOnSet(Gains', PurchasesOf(u))
  BY DEF WalletBalanced, PurchasesOf
<1> DEFINE S == PurchasesOf(u)
<1>1. IsFiniteSet(S)
  BY PurchaseAssumption, FS_Subset DEF PurchasesOf
<1>2. money[u] = moved[u] + SumFunctionOnSet(Gains, S)
  BY DEF WalletBalanced
<1>3. /\ \A j \in S : Gains[j] \in Int /\ Gains'[j] \in Int
      /\ \A j \in S \ {i} : Gains'[j] = Gains[j]
  BY GainType DEF Gains, PurchasesOf, Gain, Refunded, DocTypes, NoRefund
<1>4. SumFunctionOnSet(Gains, S) \in Int
  BY <1>1, <1>3, SumInt
<1>5. CASE Owner[i] = u
  <2>1. i \in S
    BY <1>5 DEF PurchasesOf
  <2>2. SumFunctionOnSet(Gains', S) = SumFunctionOnSet(Gains, S) - Gains[i] + Gains'[i]
    BY <1>1, <1>3, <2>1, SumChange
  <2>3. Gains[i] = Gain(i) /\ Gains'[i] = Gain(i)'
    BY DEF Gains
  <2>4. money'[u] = money[u] - Gain(i) + Gain(i)' /\ money[u] \in Int /\ moved[u] \in Int
    BY <1>5 DEF DocTypes
  <2>5. Gain(i) \in Int /\ Gain(i)' \in Int
    BY <1>3, <2>1, <2>3
  <2> QED  BY <1>2, <1>4, <2>2, <2>3, <2>4, <2>5
<1>6. CASE Owner[i] # u
  <2>1. i \notin S
    BY <1>6 DEF PurchasesOf
  <2>2. SumFunctionOnSet(Gains', S) = SumFunctionOnSet(Gains, S)
    BY <1>1, <1>3, <2>1, SumSame
  <2>3. money'[u] = money[u]
    BY <1>6 DEF DocTypes
  <2> QED  BY <1>2, <2>2, <2>3
<1> QED  BY <1>5, <1>6

\* The steps that touch a balance, a receipt, a refund or frozen terms, and all the others.
LEMMA BalanceSteps ==
    ASSUME [Next]_vars
    PROVE  \/ UNCHANGED <<money, moved, receipt, refund, terms>>
           \/ \E p \in Procs, i \in Intents : Insert(p, i) \/ Debit(p, i) \/ RefuseDebit(p, i)
           \/ \E i \in Intents : Refund(i)
           \/ \E u \in Users : OtherMove(u)
<1> DEFINE Same == UNCHANGED <<money, moved, receipt, refund, terms>>
<1>1. ASSUME NEW p \in Procs, NEW i \in Intents, StartPurchase(p, i) \/ StartRecover(p, i) \/ Run(p, i)
      PROVE  Same \/ Insert(p, i) \/ Debit(p, i) \/ RefuseDebit(p, i)
  <2>1. ASSUME \/ StartPurchase(p, i) \/ StartRecover(p, i) \/ Lookup(p, i) \/ Quote(p, i)
               \/ Load(p, i) \/ Check(p, i) \/ CheckTombstone(p, i) \/ Reserve(p, i)
               \/ RejectIntent(p, i) \/ MarkReserved(p, i) \/ Reload(p, i) \/ Tombstone(p, i)
        PROVE  Same
    BY <2>1 DEF walletVars, intentVars, Branch, SetState, StartPurchase, StartRecover, Lookup,
       Quote, Load, Check, CheckTombstone, Reserve, RejectIntent, MarkReserved, Reload, Tombstone
  <2>2. ASSUME \/ ReadReceipt(p, i) \/ RereadReceipt(p, i) \/ RejectFunds(p, i)
               \/ MarkDebited(p, i) \/ Reread(p, i) \/ InsertOrder(p, i) \/ Release(p, i)
               \/ MarkOrdered(p, i) \/ RereadLast(p, i) \/ WriteLedger(p, i)
               \/ Dispatch(p, i) \/ Push(p, i)
        PROVE  Same
    BY <2>2 DEF walletVars, intentVars, Branch, SetState, ReadReceipt, RereadReceipt, RejectFunds,
       MarkDebited, Reread, InsertOrder, Release, MarkOrdered, RereadLast, WriteLedger, Dispatch,
       Push
  <2> QED  BY <1>1, <2>1, <2>2 DEF Run
<1>2. ASSUME NEW i \in Intents, Fulfilment(i)
      PROVE  Same \/ Refund(i)
  BY <1>2 DEF walletVars, intentVars, Fulfilment, WorkerTake, LoseQueued, SyncClaim, Fulfil,
     ConfirmFailure, Consume, HandBack
<1>3. ASSUME \/ \E p \in Procs : Abort(p)
             \/ Write \/ WindowCloses \/ UNCHANGED vars
      PROVE  Same
  BY <1>3 DEF vars, walletVars, intentVars, Abort, Write, WindowCloses
<1> HIDE DEF Same
<1>4. CASE \E p \in Procs, i \in Intents : StartPurchase(p, i) \/ StartRecover(p, i) \/ Run(p, i)
  BY <1>1, <1>4 DEF Same
<1>5. CASE \E i \in Intents : Fulfilment(i)
  BY <1>2, <1>5 DEF Same
<1> QED
  BY <1>3, <1>4, <1>5 DEF Next, Same

\* Every step keeps the wallets balanced.
LEMMA BalanceStep ==
    ASSUME DocTypes, DocTypes', IntentInv, WalletBalanced, [Next]_vars
    PROVE  WalletBalanced'
<1> DEFINE still == [u \in Users |-> 0]
<1>0. /\ still \in [Users -> Int]
      /\ \A u \in Users : money[u] = money[u] + still[u] /\ moved[u] = moved[u] + still[u]
  BY DEF DocTypes
<1>1. CASE UNCHANGED <<money, moved, receipt, refund, terms>>
  <2>1. \A i \in Intents : Gain(i)' = Gain(i)
    BY <1>1 DEF Gain, Refunded
  <2> HIDE DEF still
  <2> QED  BY <1>0, <1>1, <2>1, SameGains
<1>2. ASSUME NEW p \in Procs, NEW i \in Intents, Insert(p, i)
      PROVE  WalletBalanced'
  <2>1. UNCHANGED <<money, moved, receipt, refund>>
    BY <1>2 DEF Insert, walletVars
  <2>2. terms'[i] = terms[i] \/ (receipt[i] = "none" /\ refund[i] = NoRefund)
    BY <1>2 DEF Insert, intentVars, IntentInv, IntentOK, DocTypes
  <2>3. \A j \in Intents \ {i} : terms'[j] = terms[j]
    BY <1>2 DEF Insert, intentVars, DocTypes
  <2>4. \A j \in Intents : Gain(j)' = Gain(j)
    BY <2>1, <2>2, <2>3 DEF Gain, Refunded
  <2> HIDE DEF still
  <2> QED  BY <1>0, <2>1, <2>4, SameGains
<1>3. ASSUME NEW p \in Procs, NEW i \in Intents, RefuseDebit(p, i)
      PROVE  WalletBalanced'
  <2>1. UNCHANGED <<money, moved, refund, terms>>
    BY <1>3 DEF RefuseDebit, intentVars
  <2>2. \A j \in Intents : receipt'[j] = "debit" <=> receipt[j] = "debit"
    BY <1>3 DEF RefuseDebit, CanRefuse, DocTypes
  <2>3. \A j \in Intents : Gain(j)' = Gain(j)
    BY <2>1, <2>2 DEF Gain, Refunded
  <2> HIDE DEF still
  <2> QED  BY <1>0, <2>1, <2>3, SameGains
<1>4. ASSUME NEW p \in Procs, NEW i \in Intents, Debit(p, i)
      PROVE  WalletBalanced'
  <2>1. UNCHANGED <<moved, refund, terms>>
    BY <1>4 DEF Debit, intentVars
  <2>2. CASE CanDebit(i)
    <3>1. /\ money' = [money EXCEPT ![Owner[i]] = @ - terms[i].price]
          /\ receipt' = [receipt EXCEPT ![i] = "debit"] /\ receipt[i] = "none"
      BY <1>4, <2>2 DEF Debit, CanDebit
    <3>2. \A j \in Intents \ {i} : Gain(j)' = Gain(j)
      BY <2>1, <3>1 DEF Gain, Refunded, DocTypes
    <3>3. Gain(i)' = Gain(i) - terms[i].price
      BY <2>1, <3>1 DEF Gain, Refunded, DocTypes, NoRefund
    <3>4. money' = [money EXCEPT ![Owner[i]] = @ - Gain(i) + Gain(i)']
      <4>1. Gain(i) \in Int /\ terms[i].price \in Int /\ \A u \in Users : money[u] \in Int
        BY GainType DEF DocTypes
      <4>2. Owner[i] \in Users
        BY PurchaseAssumption
      <4>3. money[Owner[i]] - terms[i].price = money[Owner[i]] - Gain(i) + Gain(i)'
        BY <3>3, <4>1, <4>2
      <4> QED  BY <3>1, <4>3
    <3> QED  BY <2>1, <3>2, <3>4, OneGain
  <2>3. CASE ~CanDebit(i)
    <3>1. UNCHANGED <<money, receipt>>
      BY <1>4, <2>3 DEF Debit
    <3>2. \A j \in Intents : Gain(j)' = Gain(j)
      BY <2>1, <3>1 DEF Gain, Refunded
    <3> HIDE DEF still
    <3> QED  BY <1>0, <2>1, <3>1, <3>2, SameGains
  <2> QED  BY <2>2, <2>3
<1>5. ASSUME NEW i \in Intents, Refund(i)
      PROVE  WalletBalanced'
  <2>1. PICK amount \in 0..terms[i].price :
            /\ money' = [money EXCEPT ![Owner[i]] = @ + amount]
            /\ refund' = [refund EXCEPT ![i] = amount]
    BY <1>5 DEF Refund
  <2>2. UNCHANGED <<receipt, moved, terms>> /\ refund[i] = NoRefund /\ Owner[i] \in Users
    BY <1>5, PurchaseAssumption DEF Refund, intentVars
  <2>3. \A j \in Intents \ {i} : Gain(j)' = Gain(j)
    BY <2>1, <2>2 DEF Gain, Refunded, DocTypes
  <2>4. amount \in Nat /\ amount # NoRefund
    BY DEF DocTypes, NoRefund
  <2>5. refund'[i] = amount
    BY <2>1 DEF DocTypes
  <2>6. Gain(i)' = Gain(i) + amount
    BY <2>2, <2>4, <2>5 DEF Gain, Refunded, DocTypes
  <2>7. money' = [money EXCEPT ![Owner[i]] = @ - Gain(i) + Gain(i)']
    <3>1. Gain(i) \in Int /\ money[Owner[i]] \in Int
      BY <2>2, GainType DEF DocTypes
    <3>2. money[Owner[i]] + amount = money[Owner[i]] - Gain(i) + Gain(i)'
      BY <2>4, <2>6, <3>1
    <3> QED  BY <2>1, <3>2
  <2> QED  BY <2>2, <2>3, <2>7, OneGain
<1>6. ASSUME NEW u \in Users, OtherMove(u)
      PROVE  WalletBalanced'
  <2>1. UNCHANGED <<receipt, refund, terms>>
    BY <1>6 DEF OtherMove, intentVars
  <2>2. \A j \in Intents : Gain(j)' = Gain(j)
    BY <2>1 DEF Gain, Refunded
  <2>3. CASE UNCHANGED <<money, moved>>
    <3> HIDE DEF still
    <3> QED  BY <1>0, <2>2, <2>3, SameGains
  <2>4. CASE ~UNCHANGED <<money, moved>>
    <3>1. PICK d \in {-1, 1} : /\ money' = [money EXCEPT ![u] = @ + d]
                               /\ moved' = [moved EXCEPT ![u] = @ + d]
      BY <1>6, <2>4 DEF OtherMove
    <3> DEFINE move == [still EXCEPT ![u] = d]
    <3>2. /\ move \in [Users -> Int]
          /\ \A v \in Users : money'[v] = money[v] + move[v] /\ moved'[v] = moved[v] + move[v]
      BY <3>1 DEF DocTypes
    <3> HIDE DEF move
    <3> QED  BY <2>2, <3>2, SameGains
  <2> QED  BY <2>3, <2>4
<1> QED  BY BalanceSteps, <1>1, <1>2, <1>3, <1>4, <1>5, <1>6

\* Wallets start balanced.
LEMMA BalanceInit == Init => WalletBalanced
<1> SUFFICES ASSUME Init, NEW u \in Users
             PROVE  money[u] = moved[u] + SumFunctionOnSet(Gains, PurchasesOf(u))
  BY DEF WalletBalanced
<1>1. IsFiniteSet(PurchasesOf(u))
  BY PurchaseAssumption, FS_Subset DEF PurchasesOf
<1>2. \A i \in PurchasesOf(u) : Gains[i] = 0
  BY DEF Init, Gains, Gain, Refunded, PurchasesOf, NoRefund
<1>3. SumFunctionOnSet(Gains, PurchasesOf(u)) = 0
  BY <1>1, <1>2, SumZero
<1>4. money[u] \in Int /\ moved = money
  BY TypeInit DEF Init, TypeOK
<1> QED  BY <1>3, <1>4

-----------------------------------------------------------------------------
(* The theorems.                                                           *)

\* The inductive invariant holds at first.
LEMMA InvInit == Init => IInv
<1> SUFFICES ASSUME Init PROVE IInv
  OBVIOUS
<1>1. TypeOK
  BY TypeInit
<1>2. IntentInv
  BY DEF Init, IntentInv, IntentOK
<1>3. ProcInv
  BY PurchaseAssumption DEF Init, ProcInv
<1>4. PriceInv
  BY PurchaseAssumption DEF Init, PriceInv
<1>5. CountersMatch
  <2>1. {i \in Intents : token[i] = "reserved"} = {} /\ {i \in Intents : token[i] = "used"} = {}
    BY DEF Init
  <2> QED  BY <2>1, FS_EmptySet DEF Init, CountersMatch
<1> QED  BY <1>1, <1>2, <1>3, <1>4, <1>5, BalanceInit DEF IInv

\* The inductive invariant is inductive.
LEMMA InvStep == IInv /\ [Next]_vars => IInv'
<1> SUFFICES ASSUME IInv, [Next]_vars PROVE IInv'
  OBVIOUS
<1>1. DocTypes /\ ProcTypes
  BY TypeSplit DEF IInv
<1>2. TypeOK'
  BY <1>1, DocProcStep DEF TypeOK, DocTypes, ProcTypes
<1>3. DocTypes'
  BY <1>1, DocProcStep
<1> QED
  BY <1>1, <1>2, <1>3, IntentStep, ProcStep, PriceStep, CountersStep, BalanceStep DEF IInv

\* The strengthened invariant the other safety theorems are read off from.
THEOREM Invariant == Spec => []IInv
  BY InvInit, InvStep, PTL DEF Spec

\* The counters reserved and used always count the reservations array.
THEOREM CountersCorrect == Spec => []CountersMatch
<1>1. IInv => CountersMatch
  BY DEF IInv
<1> QED  BY Invariant, <1>1, PTL

\* Every balance is the other moves of the wallet and the receipts of the purchases.
THEOREM WalletsBalance == Spec => []WalletBalanced
<1>1. IInv => WalletBalanced
  BY DEF IInv
<1> QED  BY Invariant, <1>1, PTL

\* A paid purchase keeps its place until its order failed and was refunded in full.
THEOREM PaidPurchasesHoldQuota == Spec => []PaidHoldsQuota
<1>1. IInv => PaidHoldsQuota
  BY DEF IInv, IntentInv, IntentOK, PaidHoldsQuota
<1> QED  BY Invariant, <1>1, PTL

\* A rejected intent has no debit and no order, and is entombed for ever.
THEOREM RejectionsAreClean == Spec => []RejectedIsClean
<1>1. IInv => RejectedIsClean
  BY DEF IInv, IntentInv, IntentOK, RejectedIsClean
<1> QED  BY Invariant, <1>1, PTL

\* Orders, ledger rows and queued jobs exist for debited purchases only.
THEOREM OrdersArePaid == Spec => []OrderIsPaid
<1>1. IInv => OrderIsPaid
  BY DEF IInv, IntentInv, IntentOK, OrderIsPaid
<1> QED  BY Invariant, <1>1, PTL

\* A debit, a rejection and an order agree with each other and with the voucher's place.
THEOREM PurchasesAreSettled == Spec => []PurchasesSettled
<1>1. PaidHoldsQuota /\ RejectedIsClean /\ OrderIsPaid => PurchasesSettled
  BY DEF PurchasesSettled
<1> QED  BY PaidPurchasesHoldQuota, RejectionsAreClean, OrdersArePaid, <1>1, PTL

\* A step that admits a purchase admits it at the price in force.
LEMMA PriceInForceStep ==
    ASSUME DocTypes, PriceInv, [Next]_vars
    PROVE  AdmittedAtPrice
<1> USE DEF DocTypes, AdmittedAtPrice, vars, voucherVars, walletVars, intentVars, orderVars, procVars
<1>1. ASSUME QuotaUntouched
     PROVE  AdmittedAtPrice
  BY <1>1 DEF QuotaUntouched
<1>2. ASSUME NEW p \in Procs, NEW i \in Intents, Reserve(p, i)
     PROVE  AdmittedAtPrice
  <2>1. CASE CanReserve(p, i)
    <3>1. token' = [token EXCEPT ![i] = "reserved"] /\ config.active
          /\ terms[i].price = NetPrice(i)
      BY <1>2, <2>1 DEF Reserve, CanReserve, PriceInv
    <3> QED  BY <3>1
  <2>2. CASE ~CanReserve(p, i)
    BY <1>2, <2>2 DEF Reserve
  <2> QED  BY <2>1, <2>2
<1>3. ASSUME NEW p \in Procs, NEW i \in Intents, Tombstone(p, i)
     PROVE  AdmittedAtPrice
  BY <1>3 DEF Tombstone, CanEntomb
<1>4. ASSUME NEW p \in Procs, NEW i \in Intents, Debit(p, i)
     PROVE  AdmittedAtPrice
  BY <1>4 DEF Debit
<1>5. ASSUME NEW p \in Procs, NEW i \in Intents, RefuseDebit(p, i)
     PROVE  AdmittedAtPrice
  BY <1>5 DEF RefuseDebit
<1>6. ASSUME NEW p \in Procs, NEW i \in Intents, Release(p, i)
     PROVE  AdmittedAtPrice
  BY <1>6 DEF Release
<1>7. ASSUME NEW i \in Intents, Consume(i)
     PROVE  AdmittedAtPrice
  BY <1>7 DEF Consume
<1>8. ASSUME NEW i \in Intents, HandBack(i)
     PROVE  AdmittedAtPrice
  BY <1>8 DEF HandBack
<1>9. ASSUME Write
     PROVE  AdmittedAtPrice
  BY <1>9 DEF Write
<1> QED
  BY QuotaSteps, <1>1, <1>2, <1>3, <1>4, <1>5, <1>6, <1>7, <1>8, <1>9

\* A purchase is admitted at the price of the terms in force.
THEOREM AdmissionAtPriceInForce == Spec => PriceInForce
<1>1. IInv /\ [Next]_vars => [AdmittedAtPrice]_vars
  BY TypeSplit, PriceInForceStep DEF IInv
<1> QED  BY Invariant, <1>1, PTL DEF PriceInForce, Spec

-----------------------------------------------------------------------------
(* The saga implements VoucherQuota.                                       *)

\* Steps that leave token and receipt alone leave the standing alone.
LEMMA SameStanding ==
    ASSUME UNCHANGED <<config, token, receipt>>
    PROVE  UNCHANGED Quota!vars
  BY DEF Quota!vars, Standing, PhaseOf

\* A step on one intent moves the standing of that intent only.
LEMMA StandingMoves ==
    ASSUME NEW i \in Intents, NEW from, NEW to, UNCHANGED config,
           \A j \in Intents \ {i} : token'[j] = token[j] /\ receipt'[j] = receipt[j],
           PhaseOf(i) \in from, PhaseOf(i)' = to
    PROVE  Quota!Move(i, from, to)
<1>1. \A j \in Intents \ {i} : PhaseOf(j)' = PhaseOf(j)
  BY DEF PhaseOf
<1>2. Standing' = [Standing EXCEPT ![i] = to]
  BY <1>1 DEF Standing
<1> QED  BY <1>2 DEF Quota!Move, Standing

\* VoucherQuota counts with the same operator.
LEMMA SameCardinality ==
    ASSUME NEW S
    PROVE  Quota!Cardinality(S) = Cardinality(S)
  BY DEF Quota!Cardinality, Cardinality

\* The places occupied are the tokens the two counters count.
LEMMA LivePlaces ==
    ASSUME IInv
    PROVE  /\ Quota!Live = Live
           /\ \A u \in Users : Quota!LiveOf(u) = LiveOf(u)
           /\ Cardinality(Live) <= reserved + used
<1>1. Quota!Live = Live
  BY DEF Quota!Live, Live, Standing, PhaseOf, IInv, IntentInv, IntentOK, TypeOK
<1>2. ASSUME NEW u \in Users PROVE Quota!LiveOf(u) = LiveOf(u)
  BY <1>1 DEF Quota!LiveOf, LiveOf
<1>3. Cardinality(Live) <= reserved + used
  <2> DEFINE R == {i \in Intents : token[i] = "reserved"}
             U == {i \in Intents : token[i] = "used"}
  <2>1. IsFiniteSet(R) /\ IsFiniteSet(U) /\ Live = R \cup U
    BY PurchaseAssumption, FS_Subset DEF Live
  <2>2. IsFiniteSet(R \cap U)
    BY PurchaseAssumption, FS_Subset
  <2>3. Cardinality(R) \in Nat /\ Cardinality(U) \in Nat /\ Cardinality(R \cap U) \in Nat
    BY <2>1, <2>2, FS_CardinalityType
  <2>4. Cardinality(R \cup U) = Cardinality(R) + Cardinality(U) - Cardinality(R \cap U)
    BY <2>1, FS_Union
  <2> QED  BY <2>1, <2>3, <2>4 DEF IInv, CountersMatch
<1> QED  BY <1>1, <1>2, <1>3

\* Every step of the saga is a step of the quota specification or a stutter.
LEMMA QuotaStep ==
    ASSUME IInv, DocTypes, [Next]_vars
    PROVE  [Quota!Next]_(Quota!vars)
<1> USE DEF At, vars, voucherVars, walletVars, intentVars, orderVars, procVars
<1>1. ASSUME QuotaUntouched
     PROVE  [Quota!Next]_(Quota!vars)
  BY <1>1, SameStanding DEF QuotaUntouched
<1>2. ASSUME NEW p \in Procs, NEW i \in Intents, Reserve(p, i)
     PROVE  [Quota!Next]_(Quota!vars)
  <2>1. CASE CanReserve(p, i)
    <3>1. /\ token' = [token EXCEPT ![i] = "reserved"] /\ UNCHANGED <<config, receipt>>
          /\ token[i] = "none" /\ config.active /\ reserved + used < config.totalLimit
          /\ Cardinality(LiveOf(Owner[i])) < config.perUserLimit
      BY <1>2, <2>1 DEF Reserve, CanReserve
    <3>2. receipt[i] # "debit"
      BY <3>1 DEF IInv, IntentInv, IntentOK
    <3>3. Owner[i] \in Users /\ config.totalLimit \in Nat
      BY PurchaseAssumption DEF DocTypes, Terms
    <3>4. Cardinality(Quota!Live) < config.totalLimit
      <4>1. Cardinality(Live) \in Nat
        BY PurchaseAssumption, FS_Subset, FS_CardinalityType DEF Live
      <4> QED  BY <3>1, <3>3, <4>1, LivePlaces DEF DocTypes
    <3>5. Cardinality(Quota!LiveOf(Owner[i])) < config.perUserLimit
      BY <3>1, <3>3, LivePlaces
    <3>6. Quota!Move(i, {"none"}, "held")
      BY <3>1, <3>2, StandingMoves DEF DocTypes, PhaseOf
    <3>7. Quota!Admit(i)
      BY <3>1, <3>4, <3>5, <3>6, SameCardinality DEF Quota!Admit
    <3> QED  BY <3>7 DEF Quota!Next
  <2>2. CASE ~CanReserve(p, i)
    BY <1>2, <2>2, SameStanding DEF Reserve
  <2> QED  BY <2>1, <2>2
<1>3. ASSUME NEW p \in Procs, NEW i \in Intents, Tombstone(p, i)
     PROVE  [Quota!Next]_(Quota!vars)
  <2>1. CASE CanEntomb(i)
    <3>1. /\ token' = [token EXCEPT ![i] = "released"] /\ UNCHANGED <<config, receipt>>
          /\ token[i] = "none"
      BY <1>3, <2>1 DEF Tombstone, CanEntomb
    <3>2. receipt[i] # "debit"
      BY <3>1 DEF IInv, IntentInv, IntentOK
    <3>3. Quota!Move(i, {"none", "held"}, "refused")
      BY <3>1, <3>2, StandingMoves DEF DocTypes, PhaseOf
    <3> QED  BY <3>3 DEF Quota!Next, Quota!Refuse
  <2>2. CASE ~CanEntomb(i)
    BY <1>3, <2>2, SameStanding DEF Tombstone
  <2> QED  BY <2>1, <2>2
<1>4. ASSUME NEW p \in Procs, NEW i \in Intents, Debit(p, i)
     PROVE  [Quota!Next]_(Quota!vars)
  <2>1. CASE CanDebit(i)
    <3>1. /\ receipt' = [receipt EXCEPT ![i] = "debit"] /\ UNCHANGED <<config, token>>
          /\ receipt[i] = "none" /\ pc[p] = "debit" /\ job[p] = i
      BY <1>4, <2>1 DEF Debit, CanDebit
    <3>2. token[i] = "reserved"
      BY <3>1 DEF IInv, IntentInv, IntentOK, ProcInv, Knows, DocTypes
    <3>3. Quota!Move(i, {"held"}, "paid")
      BY <3>1, <3>2, StandingMoves DEF DocTypes, PhaseOf
    <3> QED  BY <3>3 DEF Quota!Next, Quota!Pay
  <2>2. CASE ~CanDebit(i)
    BY <1>4, <2>2, SameStanding DEF Debit
  <2> QED  BY <2>1, <2>2
<1>5. ASSUME NEW p \in Procs, NEW i \in Intents, RefuseDebit(p, i)
     PROVE  [Quota!Next]_(Quota!vars)
  <2>1. CASE CanRefuse(i)
    <3>1. /\ receipt' = [receipt EXCEPT ![i] = "rejected"] /\ UNCHANGED <<config, token>>
          /\ receipt[i] = "none"
      BY <1>5, <2>1 DEF RefuseDebit, CanRefuse
    <3>2. Standing' = Standing
      BY <3>1 DEF Standing, PhaseOf, DocTypes
    <3> QED  BY <3>1, <3>2 DEF Quota!vars
  <2>2. CASE ~CanRefuse(i)
    BY <1>5, <2>2, SameStanding DEF RefuseDebit
  <2> QED  BY <2>1, <2>2
<1>6. ASSUME NEW p \in Procs, NEW i \in Intents, Release(p, i)
     PROVE  [Quota!Next]_(Quota!vars)
  <2>1. CASE token[i] = "reserved"
    <3>1. /\ token' = [token EXCEPT ![i] = "released"] /\ UNCHANGED <<config, receipt>>
          /\ pc[p] = "release" /\ job[p] = i
      BY <1>6, <2>1 DEF Release
    <3>2. receipt[i] = "rejected"
      BY <3>1 DEF IInv, ProcInv, Knows
    <3>3. Quota!Move(i, {"none", "held"}, "refused")
      BY <2>1, <3>1, <3>2, StandingMoves DEF DocTypes, PhaseOf
    <3> QED  BY <3>3 DEF Quota!Next, Quota!Refuse
  <2>2. CASE token[i] # "reserved"
    BY <1>6, <2>2, SameStanding DEF Release
  <2> QED  BY <2>1, <2>2
<1>7. ASSUME NEW i \in Intents, Consume(i)
     PROVE  [Quota!Next]_(Quota!vars)
  <2>1. /\ token[i] = "reserved" /\ token' = [token EXCEPT ![i] = "used"]
        /\ order[i] = "fulfilled" /\ UNCHANGED <<config, receipt>>
    BY <1>7 DEF Consume
  <2>2. receipt[i] = "debit"
    BY <2>1 DEF IInv, IntentInv, IntentOK
  <2>3. Quota!Move(i, {"paid"}, "used")
    BY <2>1, <2>2, StandingMoves DEF DocTypes, PhaseOf
  <2> QED  BY <2>3 DEF Quota!Next, Quota!Consume
<1>8. ASSUME NEW i \in Intents, HandBack(i)
     PROVE  [Quota!Next]_(Quota!vars)
  <2>1. /\ token[i] \in {"reserved", "used"} /\ token' = [token EXCEPT ![i] = "released"]
        /\ order[i] = "failed" /\ UNCHANGED <<config, receipt>>
    BY <1>8 DEF HandBack
  <2>2. receipt[i] = "debit" /\ token[i] = "reserved"
    BY <2>1 DEF IInv, IntentInv, IntentOK
  <2>3. Quota!Move(i, {"paid"}, "returned")
    BY <2>1, <2>2, StandingMoves DEF DocTypes, PhaseOf
  <2> QED  BY <2>3 DEF Quota!Next, Quota!Return
<1>9. ASSUME Write
     PROVE  [Quota!Next]_(Quota!vars)
  <2>1. config' \in Configs /\ UNCHANGED <<token, receipt>>
    BY <1>9 DEF Write
  <2>2. Standing' = Standing
    BY <2>1 DEF Standing, PhaseOf
  <2> QED  BY <2>1, <2>2 DEF Quota!Next, Quota!Configure
<1> QED
  BY QuotaSteps, <1>1, <1>2, <1>3, <1>4, <1>5, <1>6, <1>7, <1>8, <1>9

\* The saga implements the voucher's promise: its steps are steps of VoucherQuota
\* in which the limits bound the places themselves, and refusals and returns
\* are final, or they leave the promise alone.
THEOREM ImplementsQuota == Spec => KeepsPromise
<1>1. Init => Quota!Init
  BY DEF Init, Quota!Init, Standing, PhaseOf
<1>2. IInv /\ [Next]_vars => [Quota!Next]_(Quota!vars)
  BY TypeSplit, QuotaStep DEF IInv
<1> QED  BY <1>1, <1>2, Invariant, PTL DEF Spec, KeepsPromise, Quota!Spec

=============================================================================
