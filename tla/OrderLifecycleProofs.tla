------------------------ MODULE OrderLifecycleProofs ------------------------
(***************************************************************************)
(* Theorems about OrderLifecycle for every number of executions, every     *)
(* quantity and price, all handlers, and any number of lock expiries,      *)
(* deaths, retries and requests.                                           *)
(*                                                                         *)
(* IInv, besides the types, has three parts.                               *)
(*   BuyInv:    as long as the claim of a GPNIP order is not stored, or no *)
(*              lock expired under a worker, one worker at most is past    *)
(*              the lock; and the claim is stored before the call.         *)
(*   RefundInv: what an execution on its way to write refunded_amount or   *)
(*              FAILED knows of the wallet.                                *)
(*   StoreInv:  what an execution on its way to sell the order knows of    *)
(*              the proxies in the database.                               *)
(***************************************************************************)
EXTENDS OrderLifecycle, TLAPS

\* One worker is past the lock, which is set.
Exclusive ==
    /\ \A p, q \in Procs : pc[p] \in Locked /\ pc[q] \in Locked => p = q
    /\ \A p \in Procs : pc[p] \in Locked => lock

\* Nobody calls provider.buy() before the claim is stored, or holds an outdated order to claim.
ClaimAt(p) ==
    /\ pc[p] = "wBuying" => started
    /\ pc[p] = "wPrepare" /\ ~held[p].started => ~started

BuyInv ==
    /\ lapses = 0 \/ (fenced /\ ~started) => Exclusive
    /\ fenced => /\ buys <= 1 /\ (~started => buys = 0)
                 /\ \A p \in Procs : ClaimAt(p)

\* What p knows of the wallet on its way through approveRefund() and adminRefund().
RefundAt(p) ==
    /\ pc[p] = "aSave" => credit >= Price
    /\ pc[p] = "fRead" => held[p].actual \in 0..(Quantity - 1)
    /\ pc[p] = "fCredit" => held[p].refunded <= credit
    /\ pc[p] = "fSave" => held[p].refunded + n[p] <= credit

RefundInv == RefundIsCredited /\ \A p \in Procs : RefundAt(p)

\* Where an execution has proxies in hand, and where it is about to sell the order.
Answered == {"wDeliver", "wCount", "pCount", "pInsert", "pRecount"}
Selling  == {"wPublish", "pHeal", "pPublish", "vHeal", "vPublish", "iSave", "zSave"}

\* What p knows of the proxies of an order that was never retried.
StoreAt(p) ==
    /\ pc[p] \in {"yDelete", "ySave", "yPush"} => retries # 0
    /\ retries = 0 => /\ pc[p] \in Answered => n[p] # 0
                      /\ pc[p] \in Selling => proxies # 0

StoreInv == SoldIsStored /\ \A p \in Procs : StoreAt(p)

IInv == TypeOK /\ BuyInv /\ RefundInv /\ StoreInv

\* A step of execution p, whatever it does.
Act(p) == Step(p) \/ StartAny(p) \/ AskAny(p) \/ WorkerThrow(p) \/ PollThrow(p) \/ Abort(p)

\* A step of nobody: of Redis, or of the clock.
Outside == LockExpires \/ LoseQueues \/ EndDatePasses

-----------------------------------------------------------------------------
(* Types.                                                                  *)

FlagTypes ==
    /\ ended \in BOOLEAN /\ lock \in BOOLEAN /\ providerId \in BOOLEAN /\ started \in BOOLEAN

DocTypes ==
    /\ provider \in Providers /\ status \in Statuses
    /\ refunded \in Nat /\ actual \in Nat \cup {None}
    /\ proxies \in Nat /\ credit \in Nat /\ pending \in Nat /\ processing \in Nat
    /\ buys \in Nat /\ retries \in Nat /\ requests \in Nat /\ aborts \in Nat /\ lapses \in Nat

ProcTypes ==
    /\ role \in [Procs -> AllRoles \cup {"none"}]
    /\ pc \in [Procs -> Labels]
    /\ held \in [Procs -> Document]
    /\ n \in [Procs -> Nat] /\ attempt \in [Procs -> Nat]

\* The types of the order and of the executions, apart.
LEMMA TypeSplit == TypeOK <=> FlagTypes /\ DocTypes /\ ProcTypes
  BY DEF TypeOK, FlagTypes, DocTypes, ProcTypes

\* Money is counted in natural numbers.
LEMMA PriceType == Price \in Nat \ {0}
  BY LifecycleAssumption DEF Price

\* What an execution reads is a document.
LEMMA ReadTypes ==
    ASSUME FlagTypes, DocTypes
    PROVE  /\ Blank \in Document /\ ForDelivery \in Document /\ ForRefund \in Document
           /\ ForBuying \in Document /\ ForRetry \in Document
           /\ [Blank EXCEPT !.status = status] \in Document
           /\ [ForDelivery EXCEPT !.providerId = providerId] \in Document
  BY DEF FlagTypes, DocTypes, Blank, ForDelivery, ForRefund, ForBuying, ForRetry, Document, None,
     Statuses

\* What an execution has in hand is well typed.
LEMMA HandTypes ==
    ASSUME ProcTypes, NEW p \in Procs
    PROVE  /\ held[p].status \in Statuses /\ held[p].refunded \in Nat
           /\ held[p].actual \in Nat \cup {None}
           /\ held[p].providerId \in BOOLEAN /\ held[p].started \in BOOLEAN
           /\ n[p] \in Nat /\ attempt[p] \in Nat /\ pc[p] \in Labels /\ held[p] \in Document
  BY DEF ProcTypes, Document

\* An execution that goes to another label stays well typed.
LEMMA GotoType ==
    ASSUME ProcTypes, NEW p \in Procs, NEW l \in Labels, Goto(p, l)
    PROVE  ProcTypes'
  BY DEF ProcTypes, Goto

\* An execution that goes on with a number in hand stays well typed.
LEMMA CarryType ==
    ASSUME ProcTypes, NEW p \in Procs, NEW l \in Labels, NEW k \in Nat, Carry(p, l, k)
    PROVE  ProcTypes'
  BY DEF ProcTypes, Carry

\* An execution that goes on with nothing in hand stays well typed.
LEMMA DropType ==
    ASSUME ProcTypes, Blank \in Document, NEW p \in Procs, NEW l \in Labels, Drop(p, l)
    PROVE  ProcTypes'
  BY DEF ProcTypes, Drop

\* An execution that ends stays well typed.
LEMMA FinishType ==
    ASSUME ProcTypes, Blank \in Document, NEW p \in Procs, Finish(p)
    PROVE  ProcTypes'
  BY DEF ProcTypes, Finish, Labels

\* An execution that starts is well typed.
LEMMA BeginType ==
    ASSUME ProcTypes, NEW p \in Procs, NEW r, NEW l \in Labels, NEW doc \in Document,
           Begin(p, r, l, doc)
    PROVE  ProcTypes'
  BY LifecycleAssumption DEF ProcTypes, Begin

\* The initial states are well typed.
LEMMA TypeInit == Init => TypeOK
<1> SUFFICES ASSUME Init PROVE FlagTypes /\ DocTypes /\ ProcTypes
  BY TypeSplit
<1>1. FlagTypes
  BY DEF Init, FlagTypes
<1>2. DocTypes
  BY DEF Init, DocTypes, Statuses
<1>3. Blank \in Document
  BY DEF Blank, Document, Statuses
<1>4. ProcTypes
  BY <1>3 DEF Init, ProcTypes, Labels
<1> QED  BY <1>1, <1>2, <1>4

\* Every step keeps the flags Boolean.
LEMMA FlagStep ==
    ASSUME FlagTypes, [Next]_vars
    PROVE  FlagTypes'
<1>1. CASE Outside
  BY <1>1 DEF Outside, LockExpires, LoseQueues, EndDatePasses, FlagTypes, orderVars,
     queueVars
<1>2. CASE UNCHANGED vars
  BY <1>2 DEF FlagTypes, vars, orderVars, queueVars
<1>3. ASSUME NEW p \in Procs, Act(p) PROVE FlagTypes'
  <2> USE DEF FlagTypes, orderVars, queueVars, Rest, ReadOnly
  <2>1. CASE WorkerLock(p)
    BY <2>1 DEF WorkerLock
  <2>2. CASE WorkerFind(p)
    BY <2>2 DEF WorkerFind
  <2>3. CASE WorkerPrepare(p)
    BY <2>3 DEF WorkerPrepare
  <2>4. CASE WorkerResume(p)
    BY <2>4 DEF WorkerResume, SaveStatus
  <2>5. CASE WorkerBought(p)
    BY <2>5 DEF WorkerBought
  <2>6. CASE WorkerRefused(p)
    BY <2>6 DEF WorkerRefused
  <2>7. CASE WorkerSaveId(p)
    BY <2>7 DEF WorkerSaveId
  <2>8. CASE WorkerDeliver(p)
    BY <2>8 DEF WorkerDeliver, Insert
  <2>9. CASE WorkerCount(p)
    BY <2>9 DEF WorkerCount
  <2>10. CASE WorkerPublish(p)
    BY <2>10 DEF WorkerPublish, SaveDelivery, SaveStatus
  <2>11. CASE WorkerProcessing(p)
    BY <2>11 DEF WorkerProcessing, SaveStatus
  <2>12. CASE WorkerPush(p)
    BY <2>12 DEF WorkerPush
  <2>13. CASE WorkerFail(p)
    BY <2>13 DEF WorkerFail
  <2>14. CASE WorkerUnlock(p)
    BY <2>14 DEF WorkerUnlock
  <2>15. CASE Schedulers(p)
    BY <2>15 DEF Schedulers, RepushList, RepushLocked, RepushPush, RepollList, RepollPush
  <2>16. CASE Poll(p)
    BY <2>16 DEF Poll, PollFind, PollFetch, PollCount, PollHeal, PollInsert, Insert, PollRecount,
       PollPublish, SaveDelivery, SaveStatus, PollTimeout
  <2>17. CASE Recover(p)
    BY <2>17 DEF Recover, RecoverCount, RecoverFetch, RecoverInsert, Insert, RecoverRecount,
       RecoverPublish
  <2>18. CASE ExpireOrder(p)
    BY <2>18 DEF ExpireOrder
  <2>19. CASE ApproveCredit(p)
    BY <2>19 DEF ApproveCredit, Credit
  <2>20. CASE ApproveSave(p)
    BY <2>20 DEF ApproveSave, SaveStatus
  <2>21. CASE RefundCredit(p)
    BY <2>21 DEF RefundCredit, Credit
  <2>22. CASE RefundSave(p)
    BY <2>22 DEF RefundSave, SaveStatus
  <2>23. CASE MissingRead(p)
    BY <2>23 DEF MissingRead
  <2>24. CASE MissingFind(p)
    BY <2>24 DEF MissingFind
  <2>25. CASE MissingSave(p)
    BY <2>25 DEF MissingSave, SaveStatus
  <2>26. CASE RetryDelete(p)
    BY <2>26 DEF RetryDelete
  <2>27. CASE RetrySave(p)
    BY <2>27 DEF RetrySave, SaveStatus, Saved
  <2>28. CASE RetryPush(p)
    BY <2>28 DEF RetryPush
  <2>29. CASE ImportInsert(p)
    BY <2>29 DEF ImportInsert
  <2>30. CASE ImportCount(p)
    BY <2>30 DEF ImportCount
  <2>31. CASE ImportSave(p)
    BY <2>31 DEF ImportSave, SaveStatus
  <2>32. CASE SyncSaveId(p)
    BY <2>32 DEF SyncSaveId
  <2>33. CASE SyncFetch(p)
    BY <2>33 DEF SyncFetch
  <2>34. CASE SyncInsert(p)
    BY <2>34 DEF SyncInsert, Insert
  <2>35. CASE SyncCount(p)
    BY <2>35 DEF SyncCount
  <2>36. CASE SyncSave(p)
    BY <2>36 DEF SyncSave, SaveDelivery, SaveStatus
  <2>37. CASE StartAny(p)
    BY <2>37 DEF StartAny, WorkerPop, RepushStart, RepollStart, PollPop, RecoverStart, ExpireStart
  <2>38. CASE AskAny(p)
    BY <2>38 DEF AskAny, ApproveStart, Request, RefundStart, MissingStart, RetryStart,
       ImportStart, SyncStart
  <2>39. CASE WorkerThrow(p)
    BY <2>39 DEF WorkerThrow
  <2>40. CASE PollThrow(p)
    BY <2>40 DEF PollThrow
  <2>41. CASE Abort(p)
    BY <2>41 DEF Abort
  <2> QED
    BY <1>3, <2>1, <2>2, <2>3, <2>4, <2>5, <2>6, <2>7, <2>8, <2>9, <2>10, <2>11, <2>12, <2>13,
       <2>14, <2>15, <2>16, <2>17, <2>18, <2>19, <2>20, <2>21, <2>22, <2>23, <2>24, <2>25,
       <2>26, <2>27, <2>28, <2>29, <2>30, <2>31, <2>32, <2>33, <2>34, <2>35, <2>36, <2>37,
       <2>38, <2>39, <2>40, <2>41 DEF Act, Step, Worker, Administer
<1> QED  BY <1>1, <1>2, <1>3 DEF Next, Act, Outside

\* Every step keeps the types of the order, of the wallet and of Redis.
LEMMA DocStep ==
    ASSUME DocTypes, ProcTypes, [Next]_vars
    PROVE  DocTypes'
<1>1. CASE Outside
  BY <1>1 DEF Outside, LockExpires, LoseQueues, EndDatePasses, DocTypes, orderVars, queueVars,
     boundVars
<1>2. CASE UNCHANGED vars
  BY <1>2 DEF DocTypes, vars, orderVars, queueVars, boundVars
<1>3. ASSUME NEW p \in Procs, Act(p) PROVE DocTypes'
  <2> USE HandTypes, PriceType DEF DocTypes, orderVars, queueVars, boundVars, Rest, ReadOnly, Saved,
         Statuses
  <2>1. CASE WorkerLock(p)
    BY <2>1 DEF WorkerLock
  <2>2. CASE WorkerFind(p)
    BY <2>2 DEF WorkerFind
  <2>3. CASE WorkerPrepare(p)
    BY <2>3 DEF WorkerPrepare
  <2>4. CASE WorkerResume(p)
    BY <2>4 DEF WorkerResume, SaveStatus
  <2>5. CASE WorkerBought(p)
    BY <2>5 DEF WorkerBought
  <2>6. CASE WorkerRefused(p)
    BY <2>6 DEF WorkerRefused
  <2>7. CASE WorkerSaveId(p)
    BY <2>7 DEF WorkerSaveId
  <2>8. CASE WorkerDeliver(p)
    BY <2>8 DEF WorkerDeliver, Insert
  <2>9. CASE WorkerCount(p)
    BY <2>9 DEF WorkerCount
  <2>10. CASE WorkerPublish(p)
    BY <2>10 DEF WorkerPublish, SaveDelivery, SaveStatus
  <2>11. CASE WorkerProcessing(p)
    BY <2>11 DEF WorkerProcessing, SaveStatus
  <2>12. CASE WorkerPush(p)
    BY <2>12 DEF WorkerPush
  <2>13. CASE WorkerFail(p)
    BY <2>13 DEF WorkerFail
  <2>14. CASE WorkerUnlock(p)
    BY <2>14 DEF WorkerUnlock
  <2>15. CASE Schedulers(p)
    BY <2>15 DEF Schedulers, RepushList, RepushLocked, RepushPush, RepollList, RepollPush
  <2>16. CASE PollFind(p)
    BY <2>16 DEF PollFind
  <2>17. CASE PollFetch(p)
    BY <2>17 DEF PollFetch
  <2>18. CASE PollCount(p)
    BY <2>18 DEF PollCount
  <2>19. CASE PollHeal(p)
    BY <2>19 DEF PollHeal
  <2>20. CASE PollInsert(p)
    BY <2>20 DEF PollInsert, Insert
  <2>21. CASE PollRecount(p)
    BY <2>21 DEF PollRecount
  <2>22. CASE PollPublish(p)
    BY <2>22 DEF PollPublish, SaveDelivery, SaveStatus
  <2>23. CASE PollTimeout(p)
    BY <2>23 DEF PollTimeout
  <2>24. CASE RecoverCount(p)
    BY <2>24 DEF RecoverCount
  <2>25. CASE RecoverFetch(p)
    BY <2>25 DEF RecoverFetch
  <2>26. CASE RecoverInsert(p)
    BY <2>26 DEF RecoverInsert, Insert
  <2>27. CASE RecoverRecount(p)
    BY <2>27 DEF RecoverRecount
  <2>28. CASE RecoverPublish(p)
    BY <2>28 DEF RecoverPublish
  <2>29. CASE ExpireOrder(p)
    BY <2>29 DEF ExpireOrder
  <2>30. CASE ApproveCredit(p)
    BY <2>30 DEF ApproveCredit, Credit
  <2>31. CASE ApproveSave(p)
    BY <2>31 DEF ApproveSave, SaveStatus
  <2>32. CASE RefundCredit(p)
    BY <2>32 DEF RefundCredit, Credit
  <2>33. CASE RefundSave(p)
    BY <2>33 DEF RefundSave, SaveStatus
  <2>34. CASE MissingRead(p)
    BY <2>34 DEF MissingRead
  <2>35. CASE MissingFind(p)
    BY <2>35 DEF MissingFind
  <2>36. CASE MissingSave(p)
    BY <2>36 DEF MissingSave, SaveStatus
  <2>37. CASE RetryDelete(p)
    BY <2>37 DEF RetryDelete
  <2>38. CASE RetrySave(p)
    BY <2>38 DEF RetrySave, SaveStatus
  <2>39. CASE RetryPush(p)
    BY <2>39 DEF RetryPush
  <2>40. CASE ImportInsert(p)
    BY <2>40 DEF ImportInsert
  <2>41. CASE ImportCount(p)
    BY <2>41 DEF ImportCount
  <2>42. CASE ImportSave(p)
    BY <2>42 DEF ImportSave, SaveStatus
  <2>43. CASE SyncSaveId(p)
    BY <2>43 DEF SyncSaveId
  <2>44. CASE SyncFetch(p)
    BY <2>44 DEF SyncFetch
  <2>45. CASE SyncInsert(p)
    BY <2>45 DEF SyncInsert, Insert
  <2>46. CASE SyncCount(p)
    BY <2>46 DEF SyncCount
  <2>47. CASE SyncSave(p)
    BY <2>47 DEF SyncSave, SaveDelivery, SaveStatus
  <2>48. CASE WorkerPop(p)
    BY <2>48 DEF WorkerPop
  <2>49. CASE RepushStart(p)
    BY <2>49 DEF RepushStart
  <2>50. CASE RepollStart(p)
    BY <2>50 DEF RepollStart
  <2>51. CASE PollPop(p)
    BY <2>51 DEF PollPop
  <2>52. CASE RecoverStart(p)
    BY <2>52 DEF RecoverStart
  <2>53. CASE ExpireStart(p)
    BY <2>53 DEF ExpireStart
  <2>54. CASE ApproveStart(p)
    BY <2>54 DEF ApproveStart, Request
  <2>55. CASE RefundStart(p)
    BY <2>55 DEF RefundStart
  <2>56. CASE MissingStart(p)
    BY <2>56 DEF MissingStart, Request
  <2>57. CASE RetryStart(p)
    BY <2>57 DEF RetryStart
  <2>58. CASE ImportStart(p)
    BY <2>58 DEF ImportStart, Request
  <2>59. CASE SyncStart(p)
    BY <2>59 DEF SyncStart, Request
  <2>60. CASE WorkerThrow(p)
    BY <2>60 DEF WorkerThrow
  <2>61. CASE PollThrow(p)
    BY <2>61 DEF PollThrow
  <2>62. CASE Abort(p)
    BY <2>62 DEF Abort
  <2> QED
    BY <1>3, <2>1, <2>2, <2>3, <2>4, <2>5, <2>6, <2>7, <2>8, <2>9, <2>10, <2>11, <2>12, <2>13,
       <2>14, <2>15, <2>16, <2>17, <2>18, <2>19, <2>20, <2>21, <2>22, <2>23, <2>24, <2>25,
       <2>26, <2>27, <2>28, <2>29, <2>30, <2>31, <2>32, <2>33, <2>34, <2>35, <2>36, <2>37,
       <2>38, <2>39, <2>40, <2>41, <2>42, <2>43, <2>44, <2>45, <2>46, <2>47, <2>48, <2>49,
       <2>50, <2>51, <2>52, <2>53, <2>54, <2>55, <2>56, <2>57, <2>58, <2>59, <2>60, <2>61, <2>62
       DEF Act, Step, Worker, Poll,
       Recover, Administer, StartAny, AskAny
<1> QED  BY <1>1, <1>2, <1>3 DEF Next, Act, Outside

\* Every step keeps the types of the executions.
LEMMA ProcStep ==
    ASSUME FlagTypes, DocTypes, ProcTypes, RefundInv, [Next]_vars
    PROVE  ProcTypes'
<1>1. CASE Outside
  BY <1>1 DEF Outside, LockExpires, LoseQueues, EndDatePasses, ProcTypes, procVars
<1>2. CASE UNCHANGED vars
  BY <1>2 DEF ProcTypes, vars, procVars
<1>3. ASSUME NEW p \in Procs, Act(p) PROVE ProcTypes'
  <2> USE HandTypes, ReadTypes DEF Labels, Locked
  <2>1. CASE WorkerLock(p)
    <3>1. CASE Goto(p, "wFind")
      BY <3>1, GotoType
    <3>2. CASE Finish(p)
      BY <3>2, FinishType
    <3> QED  BY <2>1, <3>1, <3>2 DEF WorkerLock
  <2>2. CASE WorkerFind(p)
    <3>1. CASE Drop(p, "wUnlock")
      BY <3>1, DropType
    <3>2. CASE /\ pc' = [pc EXCEPT ![p] = "wPrepare"] /\ held' = [held EXCEPT ![p] = ForBuying]
               /\ UNCHANGED <<role, n, attempt>>
      BY <3>2 DEF ProcTypes
    <3> QED  BY <2>2, <3>1, <3>2 DEF WorkerFind
  <2>3. CASE WorkerPrepare(p)
    <3>1. CASE Drop(p, "wFail")
      BY <3>1, DropType
    <3>2. CASE Goto(p, "wResume")
      BY <3>2, GotoType
    <3>3. CASE /\ pc' = [pc EXCEPT ![p] = "wBuying"] /\ attempt' = [attempt EXCEPT ![p] = 1]
               /\ UNCHANGED <<role, held, n>>
      BY <3>3 DEF ProcTypes
    <3> QED  BY <2>3, <3>1, <3>2, <3>3 DEF WorkerPrepare
  <2>4. CASE WorkerResume(p)
    BY <2>4, GotoType, CarryType, DropType, FinishType, BeginType DEF WorkerResume, SaveStatus
  <2>5. CASE WorkerBought(p)
    BY <2>5, CarryType, LifecycleAssumption DEF WorkerBought
  <2>6. CASE WorkerRefused(p)
    BY <2>6, DropType DEF WorkerRefused, ProcTypes
  <2>7. CASE WorkerSaveId(p)
    BY <2>7, GotoType, CarryType, DropType, FinishType, BeginType DEF WorkerSaveId
  <2>8. CASE WorkerDeliver(p)
    BY <2>8, GotoType, CarryType, DropType, FinishType, BeginType DEF WorkerDeliver, Insert
  <2>9. CASE WorkerCount(p)
    BY <2>9, GotoType, CarryType, DropType, FinishType, BeginType DEF WorkerCount, DocTypes
  <2>10. CASE WorkerPublish(p)
    BY <2>10, GotoType, CarryType, DropType, FinishType, BeginType DEF WorkerPublish,
       SaveDelivery, SaveStatus
  <2>11. CASE WorkerProcessing(p)
    BY <2>11, GotoType, CarryType, DropType, FinishType, BeginType DEF WorkerProcessing,
       SaveStatus
  <2>12. CASE WorkerPush(p)
    BY <2>12, GotoType, CarryType, DropType, FinishType, BeginType DEF WorkerPush
  <2>13. CASE WorkerFail(p)
    BY <2>13, GotoType, CarryType, DropType, FinishType, BeginType DEF WorkerFail
  <2>14. CASE WorkerUnlock(p)
    BY <2>14, GotoType, CarryType, DropType, FinishType, BeginType DEF WorkerUnlock
  <2>15. CASE RepushList(p)
    BY <2>15, GotoType, CarryType, DropType, FinishType, BeginType DEF RepushList
  <2>16. CASE RepushLocked(p)
    BY <2>16, GotoType, CarryType, DropType, FinishType, BeginType DEF RepushLocked
  <2>17. CASE RepushPush(p)
    BY <2>17, GotoType, CarryType, DropType, FinishType, BeginType DEF RepushPush
  <2>18. CASE RepollList(p)
    BY <2>18, GotoType, CarryType, DropType, FinishType, BeginType DEF RepollList
  <2>19. CASE RepollPush(p)
    BY <2>19, GotoType, CarryType, DropType, FinishType, BeginType DEF RepollPush
  <2>20. CASE PollFind(p)
    BY <2>20, FinishType DEF PollFind, ProcTypes
  <2>21. CASE PollFetch(p)
    <3>1. CASE Drop(p, "pTimeout")
      BY <3>1, DropType
    <3>2. ASSUME NEW k \in 1..Quantity, n' = [n EXCEPT ![p] = k], pc' = [pc EXCEPT ![p] = "pCount"],
                 attempt' = [attempt EXCEPT ![p] = @ + 1], UNCHANGED <<role, held>>
          PROVE  ProcTypes'
      BY <3>2, LifecycleAssumption DEF ProcTypes
    <3> QED  BY <2>21, <3>1, <3>2 DEF PollFetch
  <2>22. CASE PollCount(p)
    BY <2>22, GotoType, CarryType, DropType, FinishType, BeginType DEF PollCount
  <2>23. CASE PollHeal(p)
    BY <2>23, GotoType, CarryType, DropType, FinishType, BeginType DEF PollHeal
  <2>24. CASE PollInsert(p)
    BY <2>24, GotoType, CarryType, DropType, FinishType, BeginType DEF PollInsert, Insert
  <2>25. CASE PollRecount(p)
    BY <2>25, GotoType, CarryType, DropType, FinishType, BeginType DEF PollRecount, DocTypes
  <2>26. CASE PollPublish(p)
    BY <2>26, GotoType, CarryType, DropType, FinishType, BeginType DEF PollPublish, SaveDelivery,
       SaveStatus
  <2>27. CASE PollTimeout(p)
    BY <2>27, GotoType, CarryType, DropType, FinishType, BeginType DEF PollTimeout
  <2>28. CASE RecoverCount(p)
    BY <2>28, GotoType, CarryType, DropType, FinishType, BeginType DEF RecoverCount, DocTypes
  <2>29. CASE RecoverFetch(p)
    BY <2>29, GotoType, CarryType, DropType, FinishType, BeginType DEF RecoverFetch
  <2>30. CASE RecoverInsert(p)
    BY <2>30, GotoType, CarryType, DropType, FinishType, BeginType DEF RecoverInsert, Insert
  <2>31. CASE RecoverRecount(p)
    BY <2>31, GotoType, CarryType, DropType, FinishType, BeginType DEF RecoverRecount, DocTypes
  <2>32. CASE RecoverPublish(p)
    BY <2>32, GotoType, CarryType, DropType, FinishType, BeginType DEF RecoverPublish
  <2>33. CASE ExpireOrder(p)
    BY <2>33, GotoType, CarryType, DropType, FinishType, BeginType DEF ExpireOrder
  <2>34. CASE ApproveCredit(p)
    BY <2>34, GotoType, CarryType, DropType, FinishType, BeginType DEF ApproveCredit, Credit
  <2>35. CASE ApproveSave(p)
    BY <2>35, GotoType, CarryType, DropType, FinishType, BeginType DEF ApproveSave, SaveStatus
  <2>36. CASE RefundCredit(p)
    BY <2>36, GotoType, CarryType, DropType, FinishType, BeginType DEF RefundCredit, Credit
  <2>37. CASE RefundSave(p)
    BY <2>37, GotoType, CarryType, DropType, FinishType, BeginType DEF RefundSave, SaveStatus
  <2>38. CASE MissingRead(p)
    <3>1. CASE Finish(p)
      BY <3>1, FinishType
    <3>2. CASE ~Finish(p)
      <4>1. /\ pc' = [pc EXCEPT ![p] = "fCredit"]
            /\ held' = [held EXCEPT ![p] = ForRefund]
            /\ n' = [n EXCEPT ![p] = MissingAmount(held[p])]
            /\ UNCHANGED <<role, attempt>> /\ pc[p] = "fRead"
        BY <2>38, <3>2 DEF MissingRead
      <4>2. held[p].actual \in 0..(Quantity - 1)
        BY <4>1 DEF RefundInv, RefundAt
      <4>3. MissingAmount(held[p]) \in Nat
        BY <4>2, LifecycleAssumption DEF MissingAmount
      <4> QED  BY <4>1, <4>3 DEF ProcTypes
    <3> QED  BY <3>1, <3>2
  <2>39. CASE MissingFind(p)
    BY <2>39 DEF MissingFind, ProcTypes
  <2>40. CASE MissingSave(p)
    BY <2>40, GotoType, CarryType, DropType, FinishType, BeginType DEF MissingSave, SaveStatus
  <2>41. CASE RetryDelete(p)
    BY <2>41, GotoType, CarryType, DropType, FinishType, BeginType DEF RetryDelete
  <2>42. CASE RetrySave(p)
    BY <2>42, GotoType, CarryType, DropType, FinishType, BeginType DEF RetrySave, SaveStatus
  <2>43. CASE RetryPush(p)
    BY <2>43, GotoType, CarryType, DropType, FinishType, BeginType DEF RetryPush
  <2>44. CASE ImportInsert(p)
    BY <2>44, GotoType, CarryType, DropType, FinishType, BeginType DEF ImportInsert
  <2>45. CASE ImportCount(p)
    BY <2>45, GotoType, CarryType, DropType, FinishType, BeginType DEF ImportCount
  <2>46. CASE ImportSave(p)
    BY <2>46, GotoType, CarryType, DropType, FinishType, BeginType DEF ImportSave, SaveStatus
  <2>47. CASE SyncSaveId(p)
    BY <2>47, GotoType, CarryType, DropType, FinishType, BeginType DEF SyncSaveId
  <2>48. CASE SyncFetch(p)
    BY <2>48, GotoType, CarryType, DropType, FinishType, BeginType DEF SyncFetch
  <2>49. CASE SyncInsert(p)
    BY <2>49, GotoType, CarryType, DropType, FinishType, BeginType DEF SyncInsert, Insert
  <2>50. CASE SyncCount(p)
    BY <2>50, GotoType, CarryType, DropType, FinishType, BeginType DEF SyncCount, DocTypes
  <2>51. CASE SyncSave(p)
    BY <2>51, GotoType, CarryType, DropType, FinishType, BeginType DEF SyncSave, SaveDelivery,
       SaveStatus
  <2>52. CASE WorkerPop(p)
    BY <2>52, GotoType, CarryType, DropType, FinishType, BeginType DEF WorkerPop
  <2>53. CASE RepushStart(p)
    BY <2>53, GotoType, CarryType, DropType, FinishType, BeginType DEF RepushStart
  <2>54. CASE RepollStart(p)
    BY <2>54, GotoType, CarryType, DropType, FinishType, BeginType DEF RepollStart
  <2>55. CASE PollPop(p)
    BY <2>55, GotoType, CarryType, DropType, FinishType, BeginType DEF PollPop
  <2>56. CASE RecoverStart(p)
    BY <2>56, GotoType, CarryType, DropType, FinishType, BeginType DEF RecoverStart
  <2>57. CASE ExpireStart(p)
    BY <2>57, GotoType, CarryType, DropType, FinishType, BeginType DEF ExpireStart
  <2>58. CASE ApproveStart(p)
    BY <2>58, GotoType, CarryType, DropType, FinishType, BeginType DEF ApproveStart, Request
  <2>59. CASE RefundStart(p)
    BY <2>59, LifecycleAssumption DEF RefundStart, ProcTypes, AllRoles
  <2>60. CASE MissingStart(p)
    BY <2>60, GotoType, CarryType, DropType, FinishType, BeginType DEF MissingStart, Request
  <2>61. CASE RetryStart(p)
    BY <2>61, GotoType, CarryType, DropType, FinishType, BeginType DEF RetryStart
  <2>62. CASE ImportStart(p)
    BY <2>62, GotoType, CarryType, DropType, FinishType, BeginType DEF ImportStart, Request
  <2>63. CASE SyncStart(p)
    BY <2>63, GotoType, CarryType, DropType, FinishType, BeginType DEF SyncStart, Request
  <2>64. CASE WorkerThrow(p)
    BY <2>64, GotoType, CarryType, DropType, FinishType, BeginType DEF WorkerThrow
  <2>65. CASE PollThrow(p)
    BY <2>65, GotoType, CarryType, DropType, FinishType, BeginType DEF PollThrow
  <2>66. CASE Abort(p)
    BY <2>66, GotoType, CarryType, DropType, FinishType, BeginType DEF Abort
  <2> QED
    BY <1>3, <2>1, <2>2, <2>3, <2>4, <2>5, <2>6, <2>7, <2>8, <2>9, <2>10, <2>11, <2>12, <2>13,
       <2>14, <2>15, <2>16, <2>17, <2>18, <2>19, <2>20, <2>21, <2>22, <2>23, <2>24, <2>25,
       <2>26, <2>27, <2>28, <2>29, <2>30, <2>31, <2>32, <2>33, <2>34, <2>35, <2>36, <2>37,
       <2>38, <2>39, <2>40, <2>41, <2>42, <2>43, <2>44, <2>45, <2>46, <2>47, <2>48, <2>49,
       <2>50, <2>51, <2>52, <2>53, <2>54, <2>55, <2>56, <2>57, <2>58, <2>59, <2>60, <2>61,
       <2>62, <2>63, <2>64, <2>65, <2>66
       DEF Act, Step, Worker, Schedulers, Poll, Recover, Administer, StartAny, AskAny
<1> QED  BY <1>1, <1>2, <1>3 DEF Next, Act, Outside

-----------------------------------------------------------------------------
(* What one step of an execution changes.                                  *)

\* Going to a label changes nothing but the label.
LEMMA GotoAt ==
    ASSUME ProcTypes, NEW p \in Procs, NEW l, Goto(p, l)
    PROVE  pc'[p] = l /\ held'[p] = held[p] /\ n'[p] = n[p]
  BY DEF ProcTypes, Goto

\* Carrying a number keeps the order in hand.
LEMMA CarryAt ==
    ASSUME ProcTypes, NEW p \in Procs, NEW l, NEW k, Carry(p, l, k)
    PROVE  pc'[p] = l /\ held'[p] = held[p] /\ n'[p] = k
  BY DEF ProcTypes, Carry

\* What is dropped is no longer in hand.
LEMMA DropAt ==
    ASSUME ProcTypes, NEW p \in Procs, NEW l, Drop(p, l)
    PROVE  pc'[p] = l /\ held'[p] = Blank /\ n'[p] = 0
  BY DEF ProcTypes, Drop

\* The end leaves nothing in hand.
LEMMA FinishAt ==
    ASSUME ProcTypes, NEW p \in Procs, Finish(p)
    PROVE  pc'[p] = "idle" /\ held'[p] = Blank /\ n'[p] = 0
  BY DEF ProcTypes, Finish

\* A handler starts with the order it read.
LEMMA BeginAt ==
    ASSUME ProcTypes, NEW p \in Procs, NEW r, NEW l, NEW doc, Begin(p, r, l, doc)
    PROVE  pc[p] = "idle" /\ pc'[p] = l /\ held'[p] = doc /\ n'[p] = n[p]
  BY DEF ProcTypes, Begin

\* An execution whose step it is not stays where it is.
Rests(q) == pc'[q] = pc[q] /\ held'[q] = held[q] /\ n'[q] = n[q]

\* A step of one execution leaves the others where they are.
LEMMA OthersRest ==
    ASSUME ProcTypes, NEW p \in Procs, Act(p), NEW q \in Procs, q # p
    PROVE  Rests(q)
<1> USE DEF Rests, ProcTypes, Goto, Carry, Drop, Finish, Begin
<1>1. CASE WorkerLock(p)
  BY <1>1 DEF WorkerLock
<1>2. CASE WorkerFind(p)
  BY <1>2 DEF WorkerFind
<1>3. CASE WorkerPrepare(p)
  BY <1>3 DEF WorkerPrepare
<1>4. CASE WorkerResume(p)
  BY <1>4 DEF WorkerResume, SaveStatus
<1>5. CASE WorkerBought(p)
  BY <1>5 DEF WorkerBought
<1>6. CASE WorkerRefused(p)
  BY <1>6 DEF WorkerRefused
<1>7. CASE WorkerSaveId(p)
  BY <1>7 DEF WorkerSaveId
<1>8. CASE WorkerDeliver(p)
  BY <1>8 DEF WorkerDeliver, Insert
<1>9. CASE WorkerCount(p)
  BY <1>9 DEF WorkerCount
<1>10. CASE WorkerPublish(p)
  BY <1>10 DEF WorkerPublish, SaveDelivery, SaveStatus
<1>11. CASE WorkerProcessing(p)
  BY <1>11 DEF WorkerProcessing, SaveStatus
<1>12. CASE WorkerPush(p)
  BY <1>12 DEF WorkerPush
<1>13. CASE WorkerFail(p)
  BY <1>13 DEF WorkerFail
<1>14. CASE WorkerUnlock(p)
  BY <1>14 DEF WorkerUnlock
<1>15. CASE Schedulers(p)
  BY <1>15 DEF Schedulers, RepushList, RepushLocked, RepushPush, RepollList, RepollPush
<1>16. CASE Poll(p)
  BY <1>16 DEF Poll, PollFind, PollFetch, PollCount, PollHeal, PollInsert, Insert, PollRecount,
     PollPublish, SaveDelivery, SaveStatus, PollTimeout
<1>17. CASE Recover(p)
  BY <1>17 DEF Recover, RecoverCount, RecoverFetch, RecoverInsert, Insert, RecoverRecount,
     RecoverPublish
<1>18. CASE ExpireOrder(p)
  BY <1>18 DEF ExpireOrder
<1>19. CASE ApproveCredit(p)
  BY <1>19 DEF ApproveCredit, Credit
<1>20. CASE ApproveSave(p)
  BY <1>20 DEF ApproveSave, SaveStatus
<1>21. CASE RefundCredit(p)
  BY <1>21 DEF RefundCredit, Credit
<1>22. CASE RefundSave(p)
  BY <1>22 DEF RefundSave, SaveStatus
<1>23. CASE MissingRead(p)
  BY <1>23 DEF MissingRead
<1>24. CASE MissingFind(p)
  BY <1>24 DEF MissingFind
<1>25. CASE MissingSave(p)
  BY <1>25 DEF MissingSave, SaveStatus
<1>26. CASE RetryDelete(p)
  BY <1>26 DEF RetryDelete
<1>27. CASE RetrySave(p)
  BY <1>27 DEF RetrySave, SaveStatus
<1>28. CASE RetryPush(p)
  BY <1>28 DEF RetryPush
<1>29. CASE ImportInsert(p)
  BY <1>29 DEF ImportInsert
<1>30. CASE ImportCount(p)
  BY <1>30 DEF ImportCount
<1>31. CASE ImportSave(p)
  BY <1>31 DEF ImportSave, SaveStatus
<1>32. CASE SyncSaveId(p)
  BY <1>32 DEF SyncSaveId
<1>33. CASE SyncFetch(p)
  BY <1>33 DEF SyncFetch
<1>34. CASE SyncInsert(p)
  BY <1>34 DEF SyncInsert, Insert
<1>35. CASE SyncCount(p)
  BY <1>35 DEF SyncCount
<1>36. CASE SyncSave(p)
  BY <1>36 DEF SyncSave, SaveDelivery, SaveStatus
<1>37. CASE WorkerPop(p)
  BY <1>37 DEF WorkerPop
<1>38. CASE RepushStart(p)
  BY <1>38 DEF RepushStart
<1>39. CASE RepollStart(p)
  BY <1>39 DEF RepollStart
<1>40. CASE PollPop(p)
  BY <1>40 DEF PollPop
<1>41. CASE RecoverStart(p)
  BY <1>41 DEF RecoverStart
<1>42. CASE ExpireStart(p)
  BY <1>42 DEF ExpireStart
<1>43. CASE ApproveStart(p)
  BY <1>43 DEF ApproveStart, Request
<1>44. CASE RefundStart(p)
  BY <1>44 DEF RefundStart
<1>45. CASE MissingStart(p)
  BY <1>45 DEF MissingStart, Request
<1>46. CASE RetryStart(p)
  BY <1>46 DEF RetryStart
<1>47. CASE ImportStart(p)
  BY <1>47 DEF ImportStart, Request
<1>48. CASE SyncStart(p)
  BY <1>48 DEF SyncStart, Request
<1>49. CASE WorkerThrow(p)
  BY <1>49 DEF WorkerThrow
<1>50. CASE PollThrow(p)
  BY <1>50 DEF PollThrow
<1>51. CASE Abort(p)
  BY <1>51 DEF Abort
<1> QED
  BY <1>1, <1>2, <1>3, <1>4, <1>5, <1>6, <1>7, <1>8, <1>9, <1>10, <1>11, <1>12, <1>13, <1>14,
     <1>15, <1>16, <1>17, <1>18, <1>19, <1>20, <1>21, <1>22, <1>23, <1>24, <1>25, <1>26, <1>27,
     <1>28, <1>29, <1>30, <1>31, <1>32, <1>33, <1>34, <1>35, <1>36, <1>37, <1>38, <1>39, <1>40,
     <1>41, <1>42, <1>43, <1>44, <1>45, <1>46, <1>47, <1>48, <1>49, <1>50, <1>51 DEF Act, Step,
     Worker, Administer, StartAny, AskAny

\* An order keeps its partner, and a claim that is stored stays.
LEMMA FlagsStay ==
    ASSUME FlagTypes, NEW p \in Procs, Act(p)
    PROVE  provider' = provider /\ lapses' = lapses /\ (started => started')
<1> USE DEF orderVars, queueVars, boundVars, Rest, ReadOnly
<1>1. CASE WorkerLock(p)
  BY <1>1 DEF WorkerLock
<1>2. CASE WorkerFind(p)
  BY <1>2 DEF WorkerFind
<1>3. CASE WorkerPrepare(p)
  <2>1. started' = started \/ started' = (started \/ fenced)
    BY <1>3 DEF WorkerPrepare
  <2>2. provider' = provider /\ lapses' = lapses
    BY <1>3 DEF WorkerPrepare
  <2> QED  BY <2>1, <2>2 DEF FlagTypes
<1>4. CASE WorkerResume(p)
  BY <1>4 DEF WorkerResume, SaveStatus
<1>5. CASE WorkerBought(p)
  BY <1>5 DEF WorkerBought
<1>6. CASE WorkerRefused(p)
  BY <1>6 DEF WorkerRefused
<1>7. CASE WorkerSaveId(p)
  BY <1>7 DEF WorkerSaveId
<1>8. CASE WorkerDeliver(p)
  BY <1>8 DEF WorkerDeliver, Insert
<1>9. CASE WorkerCount(p)
  BY <1>9 DEF WorkerCount
<1>10. CASE WorkerPublish(p)
  BY <1>10 DEF WorkerPublish, SaveDelivery, SaveStatus
<1>11. CASE WorkerProcessing(p)
  BY <1>11 DEF WorkerProcessing, SaveStatus
<1>12. CASE WorkerPush(p)
  BY <1>12 DEF WorkerPush
<1>13. CASE WorkerFail(p)
  BY <1>13 DEF WorkerFail
<1>14. CASE WorkerUnlock(p)
  BY <1>14 DEF WorkerUnlock
<1>15. CASE Schedulers(p)
  BY <1>15 DEF Schedulers, RepushList, RepushLocked, RepushPush, RepollList, RepollPush
<1>16. CASE Poll(p)
  BY <1>16 DEF Poll, PollFind, PollFetch, PollCount, PollHeal, PollInsert, Insert, PollRecount,
     PollPublish, SaveDelivery, SaveStatus, PollTimeout
<1>17. CASE Recover(p)
  BY <1>17 DEF Recover, RecoverCount, RecoverFetch, RecoverInsert, Insert, RecoverRecount,
     RecoverPublish
<1>18. CASE ExpireOrder(p)
  BY <1>18 DEF ExpireOrder
<1>19. CASE ApproveCredit(p)
  BY <1>19 DEF ApproveCredit, Credit
<1>20. CASE ApproveSave(p)
  BY <1>20 DEF ApproveSave, SaveStatus
<1>21. CASE RefundCredit(p)
  BY <1>21 DEF RefundCredit, Credit
<1>22. CASE RefundSave(p)
  BY <1>22 DEF RefundSave, SaveStatus
<1>23. CASE MissingRead(p)
  BY <1>23 DEF MissingRead
<1>24. CASE MissingFind(p)
  BY <1>24 DEF MissingFind
<1>25. CASE MissingSave(p)
  BY <1>25 DEF MissingSave, SaveStatus
<1>26. CASE RetryDelete(p)
  BY <1>26 DEF RetryDelete
<1>27. CASE RetrySave(p)
  BY <1>27 DEF RetrySave, SaveStatus
<1>28. CASE RetryPush(p)
  BY <1>28 DEF RetryPush
<1>29. CASE ImportInsert(p)
  BY <1>29 DEF ImportInsert
<1>30. CASE ImportCount(p)
  BY <1>30 DEF ImportCount
<1>31. CASE ImportSave(p)
  BY <1>31 DEF ImportSave, SaveStatus
<1>32. CASE SyncSaveId(p)
  BY <1>32 DEF SyncSaveId
<1>33. CASE SyncFetch(p)
  BY <1>33 DEF SyncFetch
<1>34. CASE SyncInsert(p)
  BY <1>34 DEF SyncInsert, Insert
<1>35. CASE SyncCount(p)
  BY <1>35 DEF SyncCount
<1>36. CASE SyncSave(p)
  BY <1>36 DEF SyncSave, SaveDelivery, SaveStatus
<1>37. CASE StartAny(p)
  BY <1>37 DEF StartAny, WorkerPop, RepushStart, RepollStart, PollPop, RecoverStart, ExpireStart
<1>38. CASE AskAny(p)
  BY <1>38 DEF AskAny, ApproveStart, Request, RefundStart, MissingStart, RetryStart,
     ImportStart, SyncStart
<1>39. CASE WorkerThrow(p)
  BY <1>39 DEF WorkerThrow
<1>40. CASE PollThrow(p)
  BY <1>40 DEF PollThrow
<1>41. CASE Abort(p)
  BY <1>41 DEF Abort
<1> QED
  BY <1>1, <1>2, <1>3, <1>4, <1>5, <1>6, <1>7, <1>8, <1>9, <1>10, <1>11, <1>12, <1>13, <1>14,
     <1>15, <1>16, <1>17, <1>18, <1>19, <1>20, <1>21, <1>22, <1>23, <1>24, <1>25, <1>26, <1>27,
     <1>28, <1>29, <1>30, <1>31, <1>32, <1>33, <1>34, <1>35, <1>36, <1>37, <1>38, <1>39, <1>40,
     <1>41 DEF Act, Step, Worker, Administer

\* Nothing is taken back: money from the wallet, nor proxies of an order that was never retried.
Stays ==
    /\ credit' >= credit
    /\ retries' = 0 => retries = 0 /\ proxies' >= proxies

\* No step of an execution takes anything back.
LEMMA StaysAct ==
    ASSUME DocTypes, ProcTypes, StoreInv, NEW p \in Procs, Act(p)
    PROVE  Stays
<1>1. StoreAt(p) /\ n[p] \in Nat
  BY HandTypes DEF StoreInv
<1>2. credit \in Nat /\ proxies \in Nat /\ retries \in Nat
  BY DEF DocTypes
<1> USE <1>2 DEF Stays, orderVars, queueVars, boundVars, Rest, ReadOnly
<1>3. CASE Worker(p)
  BY <1>3 DEF Worker, WorkerLock, WorkerFind, WorkerPrepare, WorkerResume, SaveStatus,
     WorkerBought, WorkerRefused, WorkerSaveId, WorkerDeliver, Insert, WorkerCount,
     WorkerPublish, SaveDelivery, WorkerProcessing, WorkerPush, WorkerFail, WorkerUnlock
<1>4. CASE Schedulers(p)
  BY <1>4 DEF Schedulers, RepushList, RepushLocked, RepushPush, RepollList, RepollPush
<1>5. CASE Poll(p)
  BY <1>5 DEF Poll, PollFind, PollFetch, PollCount, PollHeal, PollInsert, Insert, PollRecount,
     PollPublish, SaveDelivery, SaveStatus, PollTimeout
<1>6. CASE Recover(p)
  BY <1>6 DEF Recover, RecoverCount, RecoverFetch, RecoverInsert, Insert, RecoverRecount,
     RecoverPublish
<1>7. CASE ExpireOrder(p)
  BY <1>7 DEF ExpireOrder
<1>8. CASE ApproveCredit(p)
  BY <1>8, PriceType DEF ApproveCredit, Credit
<1>9. CASE ApproveSave(p)
  BY <1>9 DEF ApproveSave, SaveStatus
<1>10. CASE RefundCredit(p)
  BY <1>10, <1>1 DEF RefundCredit, Credit
<1>11. CASE RefundSave(p)
  BY <1>11 DEF RefundSave, SaveStatus
<1>12. CASE MissingRead(p)
  BY <1>12 DEF MissingRead
<1>13. CASE MissingFind(p)
  BY <1>13 DEF MissingFind
<1>14. CASE MissingSave(p)
  BY <1>14 DEF MissingSave, SaveStatus
<1>15. CASE RetryDelete(p)
  BY <1>15, <1>1 DEF RetryDelete, StoreAt
<1>16. CASE RetrySave(p)
  BY <1>16 DEF RetrySave, SaveStatus
<1>17. CASE RetryPush(p)
  BY <1>17 DEF RetryPush
<1>18. CASE ImportInsert(p)
  BY <1>18 DEF ImportInsert
<1>19. CASE ImportCount(p)
  BY <1>19 DEF ImportCount
<1>20. CASE ImportSave(p)
  BY <1>20 DEF ImportSave, SaveStatus
<1>21. CASE SyncSaveId(p)
  BY <1>21 DEF SyncSaveId
<1>22. CASE SyncFetch(p)
  BY <1>22 DEF SyncFetch
<1>23. CASE SyncInsert(p)
  BY <1>23 DEF SyncInsert, Insert
<1>24. CASE SyncCount(p)
  BY <1>24 DEF SyncCount
<1>25. CASE SyncSave(p)
  BY <1>25 DEF SyncSave, SaveDelivery, SaveStatus
<1>26. CASE StartAny(p)
  BY <1>26 DEF StartAny, WorkerPop, RepushStart, RepollStart, PollPop, RecoverStart, ExpireStart
<1>27. CASE ApproveStart(p)
  BY <1>27 DEF ApproveStart, Request
<1>28. CASE RefundStart(p)
  BY <1>28 DEF RefundStart
<1>29. CASE MissingStart(p)
  BY <1>29 DEF MissingStart, Request
<1>30. CASE RetryStart(p)
  BY <1>30 DEF RetryStart
<1>31. CASE ImportStart(p)
  BY <1>31 DEF ImportStart, Request
<1>32. CASE SyncStart(p)
  BY <1>32 DEF SyncStart, Request
<1>33. CASE WorkerThrow(p)
  BY <1>33 DEF WorkerThrow
<1>34. CASE PollThrow(p)
  BY <1>34 DEF PollThrow
<1>35. CASE Abort(p)
  BY <1>35 DEF Abort
<1> QED
  BY <1>3, <1>4, <1>5, <1>6, <1>7, <1>8, <1>9, <1>10, <1>11, <1>12, <1>13, <1>14, <1>15, <1>16,
     <1>17, <1>18, <1>19, <1>20, <1>21, <1>22, <1>23, <1>24, <1>25, <1>26, <1>27, <1>28, <1>29,
     <1>30, <1>31, <1>32, <1>33, <1>34, <1>35 DEF Act, Step, Administer, AskAny

-----------------------------------------------------------------------------
(* The lock and the claim.                                                 *)

\* Who is past the lock has set it, and only he takes it away.
LEMMA LockStep ==
    ASSUME ProcTypes, NEW p \in Procs, Act(p)
    PROVE  /\ pc'[p] \in Locked => pc[p] \in Locked \/ (~lock /\ lock')
           /\ lock /\ ~lock' => pc[p] \in Locked /\ pc'[p] \notin Locked
<1> USE GotoAt, CarryAt, DropAt, FinishAt, BeginAt DEF Locked, CanLock, queueVars, Rest,
         ReadOnly
<1>1. CASE WorkerLock(p)
  BY <1>1 DEF WorkerLock
<1>2. CASE WorkerFind(p)
  BY <1>2 DEF WorkerFind, ProcTypes
<1>3. CASE WorkerPrepare(p)
  BY <1>3 DEF WorkerPrepare, ProcTypes
<1>4. CASE WorkerResume(p)
  BY <1>4 DEF WorkerResume, SaveStatus
<1>5. CASE WorkerBought(p)
  BY <1>5 DEF WorkerBought
<1>6. CASE WorkerRefused(p)
  BY <1>6 DEF WorkerRefused, ProcTypes
<1>7. CASE WorkerSaveId(p)
  BY <1>7 DEF WorkerSaveId
<1>8. CASE WorkerDeliver(p)
  BY <1>8 DEF WorkerDeliver, Insert
<1>9. CASE WorkerCount(p)
  BY <1>9 DEF WorkerCount
<1>10. CASE WorkerPublish(p)
  BY <1>10 DEF WorkerPublish, SaveDelivery, SaveStatus
<1>11. CASE WorkerProcessing(p)
  BY <1>11 DEF WorkerProcessing, SaveStatus
<1>12. CASE WorkerPush(p)
  BY <1>12 DEF WorkerPush
<1>13. CASE WorkerFail(p)
  BY <1>13 DEF WorkerFail
<1>14. CASE WorkerUnlock(p)
  BY <1>14 DEF WorkerUnlock
<1>15. CASE RepushList(p)
  BY <1>15 DEF RepushList
<1>16. CASE RepushLocked(p)
  BY <1>16 DEF RepushLocked
<1>17. CASE RepushPush(p)
  BY <1>17 DEF RepushPush
<1>18. CASE RepollList(p)
  BY <1>18 DEF RepollList
<1>19. CASE RepollPush(p)
  BY <1>19 DEF RepollPush
<1>20. CASE PollFind(p)
  BY <1>20 DEF PollFind, ProcTypes
<1>21. CASE PollFetch(p)
  BY <1>21 DEF PollFetch, ProcTypes
<1>22. CASE PollCount(p)
  BY <1>22 DEF PollCount
<1>23. CASE PollHeal(p)
  BY <1>23 DEF PollHeal
<1>24. CASE PollInsert(p)
  BY <1>24 DEF PollInsert, Insert
<1>25. CASE PollRecount(p)
  BY <1>25 DEF PollRecount
<1>26. CASE PollPublish(p)
  BY <1>26 DEF PollPublish, SaveDelivery, SaveStatus
<1>27. CASE PollTimeout(p)
  BY <1>27 DEF PollTimeout
<1>28. CASE RecoverCount(p)
  BY <1>28 DEF RecoverCount
<1>29. CASE RecoverFetch(p)
  BY <1>29 DEF RecoverFetch
<1>30. CASE RecoverInsert(p)
  BY <1>30 DEF RecoverInsert, Insert
<1>31. CASE RecoverRecount(p)
  BY <1>31 DEF RecoverRecount
<1>32. CASE RecoverPublish(p)
  BY <1>32 DEF RecoverPublish
<1>33. CASE ExpireOrder(p)
  BY <1>33 DEF ExpireOrder
<1>34. CASE ApproveCredit(p)
  BY <1>34 DEF ApproveCredit, Credit
<1>35. CASE ApproveSave(p)
  BY <1>35 DEF ApproveSave, SaveStatus
<1>36. CASE RefundCredit(p)
  BY <1>36 DEF RefundCredit, Credit
<1>37. CASE RefundSave(p)
  BY <1>37 DEF RefundSave, SaveStatus
<1>38. CASE MissingRead(p)
  BY <1>38 DEF MissingRead, ProcTypes
<1>39. CASE MissingFind(p)
  BY <1>39 DEF MissingFind, ProcTypes
<1>40. CASE MissingSave(p)
  BY <1>40 DEF MissingSave, SaveStatus
<1>41. CASE RetryDelete(p)
  BY <1>41 DEF RetryDelete
<1>42. CASE RetrySave(p)
  BY <1>42 DEF RetrySave, SaveStatus
<1>43. CASE RetryPush(p)
  BY <1>43 DEF RetryPush
<1>44. CASE ImportInsert(p)
  BY <1>44 DEF ImportInsert
<1>45. CASE ImportCount(p)
  BY <1>45 DEF ImportCount
<1>46. CASE ImportSave(p)
  BY <1>46 DEF ImportSave, SaveStatus
<1>47. CASE SyncSaveId(p)
  BY <1>47 DEF SyncSaveId
<1>48. CASE SyncFetch(p)
  BY <1>48 DEF SyncFetch
<1>49. CASE SyncInsert(p)
  BY <1>49 DEF SyncInsert, Insert
<1>50. CASE SyncCount(p)
  BY <1>50 DEF SyncCount
<1>51. CASE SyncSave(p)
  BY <1>51 DEF SyncSave, SaveDelivery, SaveStatus
<1>52. CASE WorkerPop(p)
  BY <1>52 DEF WorkerPop
<1>53. CASE RepushStart(p)
  BY <1>53 DEF RepushStart
<1>54. CASE RepollStart(p)
  BY <1>54 DEF RepollStart
<1>55. CASE PollPop(p)
  BY <1>55 DEF PollPop
<1>56. CASE RecoverStart(p)
  BY <1>56 DEF RecoverStart
<1>57. CASE ExpireStart(p)
  BY <1>57 DEF ExpireStart
<1>58. CASE ApproveStart(p)
  BY <1>58 DEF ApproveStart, Request
<1>59. CASE RefundStart(p)
  BY <1>59 DEF RefundStart, ProcTypes
<1>60. CASE MissingStart(p)
  BY <1>60 DEF MissingStart, Request
<1>61. CASE RetryStart(p)
  BY <1>61 DEF RetryStart
<1>62. CASE ImportStart(p)
  BY <1>62 DEF ImportStart, Request
<1>63. CASE SyncStart(p)
  BY <1>63 DEF SyncStart, Request
<1>64. CASE WorkerThrow(p)
  BY <1>64 DEF WorkerThrow
<1>65. CASE PollThrow(p)
  BY <1>65 DEF PollThrow
<1>66. CASE Abort(p)
  BY <1>66 DEF Abort
<1> QED
  BY <1>1, <1>2, <1>3, <1>4, <1>5, <1>6, <1>7, <1>8, <1>9, <1>10, <1>11, <1>12, <1>13, <1>14,
     <1>15, <1>16, <1>17, <1>18, <1>19, <1>20, <1>21, <1>22, <1>23, <1>24, <1>25, <1>26, <1>27,
     <1>28, <1>29, <1>30, <1>31, <1>32, <1>33, <1>34, <1>35, <1>36, <1>37, <1>38, <1>39, <1>40,
     <1>41, <1>42, <1>43, <1>44, <1>45, <1>46, <1>47, <1>48, <1>49, <1>50, <1>51, <1>52, <1>53,
     <1>54, <1>55, <1>56, <1>57, <1>58, <1>59, <1>60, <1>61, <1>62, <1>63, <1>64, <1>65, <1>66
     DEF Act, Step, Worker, Schedulers, Poll, Recover, Administer, StartAny, AskAny

\* One worker at most stays past the lock.
LEMMA ExclusiveStep ==
    ASSUME ProcTypes, Exclusive, NEW p \in Procs, Act(p)
    PROVE  Exclusive'
<1>1. ASSUME NEW q \in Procs, pc'[q] \in Locked PROVE lock' /\ (pc'[p] \in Locked => p = q)
  <2>1. CASE q = p
    BY <1>1, <2>1, LockStep DEF Exclusive
  <2>2. CASE q # p
    <3>1. pc[q] \in Locked /\ lock /\ pc[p] \notin Locked
      BY <1>1, <2>2, OthersRest DEF Exclusive, Rests
    <3> QED  BY <3>1, LockStep
  <2> QED  BY <2>1, <2>2
<1>2. ASSUME NEW q \in Procs, NEW r \in Procs, pc'[q] \in Locked, pc'[r] \in Locked
      PROVE  q = r
  <2>1. CASE q = p \/ r = p
    BY <1>1, <1>2, <2>1
  <2>2. CASE q # p /\ r # p
    BY <1>2, <2>2, OthersRest DEF Exclusive, Rests
  <2> QED  BY <2>1, <2>2
<1> QED  BY <1>1, <1>2 DEF Exclusive

\* A claim is stored, and a GPNIP order bought, from one place only.
LEMMA ClaimedFrom ==
    ASSUME NEW p \in Procs, Act(p)
    PROVE  (started' = started /\ buys' = buys) \/ WorkerPrepare(p)
<1> USE DEF orderVars, queueVars, boundVars, Rest, ReadOnly
<1>1. CASE WorkerLock(p)
  BY <1>1 DEF WorkerLock
<1>2. CASE WorkerFind(p)
  BY <1>2 DEF WorkerFind
<1>3. CASE WorkerPrepare(p)
  BY <1>3 DEF WorkerPrepare
<1>4. CASE WorkerResume(p)
  BY <1>4 DEF WorkerResume, SaveStatus
<1>5. CASE WorkerBought(p)
  BY <1>5 DEF WorkerBought
<1>6. CASE WorkerRefused(p)
  BY <1>6 DEF WorkerRefused
<1>7. CASE WorkerSaveId(p)
  BY <1>7 DEF WorkerSaveId
<1>8. CASE WorkerDeliver(p)
  BY <1>8 DEF WorkerDeliver, Insert
<1>9. CASE WorkerCount(p)
  BY <1>9 DEF WorkerCount
<1>10. CASE WorkerPublish(p)
  BY <1>10 DEF WorkerPublish, SaveDelivery, SaveStatus
<1>11. CASE WorkerProcessing(p)
  BY <1>11 DEF WorkerProcessing, SaveStatus
<1>12. CASE WorkerPush(p)
  BY <1>12 DEF WorkerPush
<1>13. CASE WorkerFail(p)
  BY <1>13 DEF WorkerFail
<1>14. CASE WorkerUnlock(p)
  BY <1>14 DEF WorkerUnlock
<1>15. CASE Schedulers(p)
  BY <1>15 DEF Schedulers, RepushList, RepushLocked, RepushPush, RepollList, RepollPush
<1>16. CASE Poll(p)
  BY <1>16 DEF Poll, PollFind, PollFetch, PollCount, PollHeal, PollInsert, Insert, PollRecount,
     PollPublish, SaveDelivery, SaveStatus, PollTimeout
<1>17. CASE Recover(p)
  BY <1>17 DEF Recover, RecoverCount, RecoverFetch, RecoverInsert, Insert, RecoverRecount,
     RecoverPublish
<1>18. CASE ExpireOrder(p)
  BY <1>18 DEF ExpireOrder
<1>19. CASE Administer(p)
  BY <1>19 DEF Administer, ApproveCredit, Credit, ApproveSave, SaveStatus, RefundCredit,
     RefundSave, MissingRead, MissingFind, MissingSave, RetryDelete, RetrySave, RetryPush,
     ImportInsert, ImportCount, ImportSave, SyncSaveId, SyncFetch, SyncInsert, Insert,
     SyncCount, SyncSave, SaveDelivery
<1>20. CASE StartAny(p)
  BY <1>20 DEF StartAny, WorkerPop, RepushStart, RepollStart, PollPop, RecoverStart, ExpireStart
<1>21. CASE AskAny(p)
  BY <1>21 DEF AskAny, ApproveStart, Request, RefundStart, MissingStart, RetryStart,
     ImportStart, SyncStart
<1>22. CASE WorkerThrow(p)
  BY <1>22 DEF WorkerThrow
<1>23. CASE PollThrow(p)
  BY <1>23 DEF PollThrow
<1>24. CASE Abort(p)
  BY <1>24 DEF Abort
<1> QED
  BY <1>1, <1>2, <1>3, <1>4, <1>5, <1>6, <1>7, <1>8, <1>9, <1>10, <1>11, <1>12, <1>13, <1>14,
     <1>15, <1>16, <1>17, <1>18, <1>19, <1>20, <1>21, <1>22, <1>23, <1>24 DEF Act, Step, Worker

\* What a worker with the claim still to store, or stored, knows of it.
LEMMA ClaimAtStep ==
    ASSUME ProcTypes, FlagTypes, NEW p \in Procs, Act(p), fenced, ClaimAt(p)
    PROVE  ClaimAt(p)'
<1> USE GotoAt, CarryAt, DropAt, FinishAt, BeginAt DEF ClaimAt, orderVars, Rest, ReadOnly
<1>1. CASE WorkerLock(p)
  BY <1>1 DEF WorkerLock
<1>2. CASE WorkerFind(p)
  <2>1. \/ pc'[p] = "wUnlock"
        \/ pc'[p] = "wPrepare" /\ held'[p] = ForBuying /\ started' = started
    BY <1>2 DEF WorkerFind, ProcTypes
  <2>2. ForBuying.started = started
    BY DEF ForBuying, ForDelivery, Blank
  <2> QED  BY <2>1, <2>2
<1>3. CASE WorkerPrepare(p)
  <2>1. \/ pc'[p] \in {"wFail", "wResume"}
        \/ pc'[p] = "wBuying" /\ started' = (started \/ fenced)
    BY <1>3 DEF WorkerPrepare, ProcTypes
  <2> QED  BY <2>1
<1>4. CASE WorkerResume(p)
  BY <1>4 DEF WorkerResume, SaveStatus
<1>5. CASE WorkerBought(p)
  BY <1>5 DEF WorkerBought
<1>6. CASE WorkerRefused(p)
  BY <1>6 DEF WorkerRefused, ProcTypes
<1>7. CASE WorkerSaveId(p)
  BY <1>7 DEF WorkerSaveId
<1>8. CASE WorkerDeliver(p)
  BY <1>8 DEF WorkerDeliver, Insert
<1>9. CASE WorkerCount(p)
  BY <1>9 DEF WorkerCount
<1>10. CASE WorkerPublish(p)
  BY <1>10 DEF WorkerPublish, SaveDelivery, SaveStatus
<1>11. CASE WorkerProcessing(p)
  BY <1>11 DEF WorkerProcessing, SaveStatus
<1>12. CASE WorkerPush(p)
  BY <1>12 DEF WorkerPush
<1>13. CASE WorkerFail(p)
  BY <1>13 DEF WorkerFail
<1>14. CASE WorkerUnlock(p)
  BY <1>14 DEF WorkerUnlock
<1>15. CASE RepushList(p)
  BY <1>15 DEF RepushList
<1>16. CASE RepushLocked(p)
  BY <1>16 DEF RepushLocked
<1>17. CASE RepushPush(p)
  BY <1>17 DEF RepushPush
<1>18. CASE RepollList(p)
  BY <1>18 DEF RepollList
<1>19. CASE RepollPush(p)
  BY <1>19 DEF RepollPush
<1>20. CASE PollFind(p)
  BY <1>20 DEF PollFind, ProcTypes
<1>21. CASE PollFetch(p)
  BY <1>21 DEF PollFetch, ProcTypes
<1>22. CASE PollCount(p)
  BY <1>22 DEF PollCount
<1>23. CASE PollHeal(p)
  BY <1>23 DEF PollHeal
<1>24. CASE PollInsert(p)
  BY <1>24 DEF PollInsert, Insert
<1>25. CASE PollRecount(p)
  BY <1>25 DEF PollRecount
<1>26. CASE PollPublish(p)
  BY <1>26 DEF PollPublish, SaveDelivery, SaveStatus
<1>27. CASE PollTimeout(p)
  BY <1>27 DEF PollTimeout
<1>28. CASE RecoverCount(p)
  BY <1>28 DEF RecoverCount
<1>29. CASE RecoverFetch(p)
  BY <1>29 DEF RecoverFetch
<1>30. CASE RecoverInsert(p)
  BY <1>30 DEF RecoverInsert, Insert
<1>31. CASE RecoverRecount(p)
  BY <1>31 DEF RecoverRecount
<1>32. CASE RecoverPublish(p)
  BY <1>32 DEF RecoverPublish
<1>33. CASE ExpireOrder(p)
  BY <1>33 DEF ExpireOrder
<1>34. CASE ApproveCredit(p)
  BY <1>34 DEF ApproveCredit, Credit
<1>35. CASE ApproveSave(p)
  BY <1>35 DEF ApproveSave, SaveStatus
<1>36. CASE RefundCredit(p)
  BY <1>36 DEF RefundCredit, Credit
<1>37. CASE RefundSave(p)
  BY <1>37 DEF RefundSave, SaveStatus
<1>38. CASE MissingRead(p)
  BY <1>38 DEF MissingRead, ProcTypes
<1>39. CASE MissingFind(p)
  BY <1>39 DEF MissingFind, ProcTypes
<1>40. CASE MissingSave(p)
  BY <1>40 DEF MissingSave, SaveStatus
<1>41. CASE RetryDelete(p)
  BY <1>41 DEF RetryDelete
<1>42. CASE RetrySave(p)
  BY <1>42 DEF RetrySave, SaveStatus
<1>43. CASE RetryPush(p)
  BY <1>43 DEF RetryPush
<1>44. CASE ImportInsert(p)
  BY <1>44 DEF ImportInsert
<1>45. CASE ImportCount(p)
  BY <1>45 DEF ImportCount
<1>46. CASE ImportSave(p)
  BY <1>46 DEF ImportSave, SaveStatus
<1>47. CASE SyncSaveId(p)
  BY <1>47 DEF SyncSaveId
<1>48. CASE SyncFetch(p)
  BY <1>48 DEF SyncFetch
<1>49. CASE SyncInsert(p)
  BY <1>49 DEF SyncInsert, Insert
<1>50. CASE SyncCount(p)
  BY <1>50 DEF SyncCount
<1>51. CASE SyncSave(p)
  BY <1>51 DEF SyncSave, SaveDelivery, SaveStatus
<1>52. CASE WorkerPop(p)
  BY <1>52 DEF WorkerPop
<1>53. CASE RepushStart(p)
  BY <1>53 DEF RepushStart
<1>54. CASE RepollStart(p)
  BY <1>54 DEF RepollStart
<1>55. CASE PollPop(p)
  BY <1>55 DEF PollPop
<1>56. CASE RecoverStart(p)
  BY <1>56 DEF RecoverStart
<1>57. CASE ExpireStart(p)
  BY <1>57 DEF ExpireStart
<1>58. CASE ApproveStart(p)
  BY <1>58 DEF ApproveStart, Request
<1>59. CASE RefundStart(p)
  BY <1>59 DEF RefundStart, ProcTypes
<1>60. CASE MissingStart(p)
  BY <1>60 DEF MissingStart, Request
<1>61. CASE RetryStart(p)
  BY <1>61 DEF RetryStart
<1>62. CASE ImportStart(p)
  BY <1>62 DEF ImportStart, Request
<1>63. CASE SyncStart(p)
  BY <1>63 DEF SyncStart, Request
<1>64. CASE WorkerThrow(p)
  BY <1>64 DEF WorkerThrow
<1>65. CASE PollThrow(p)
  BY <1>65 DEF PollThrow
<1>66. CASE Abort(p)
  BY <1>66 DEF Abort
<1> QED
  BY <1>1, <1>2, <1>3, <1>4, <1>5, <1>6, <1>7, <1>8, <1>9, <1>10, <1>11, <1>12, <1>13, <1>14,
     <1>15, <1>16, <1>17, <1>18, <1>19, <1>20, <1>21, <1>22, <1>23, <1>24, <1>25, <1>26, <1>27,
     <1>28, <1>29, <1>30, <1>31, <1>32, <1>33, <1>34, <1>35, <1>36, <1>37, <1>38, <1>39, <1>40,
     <1>41, <1>42, <1>43, <1>44, <1>45, <1>46, <1>47, <1>48, <1>49, <1>50, <1>51, <1>52, <1>53,
     <1>54, <1>55, <1>56, <1>57, <1>58, <1>59, <1>60, <1>61, <1>62, <1>63, <1>64, <1>65, <1>66
     DEF Act, Step, Worker, Schedulers, Poll, Recover, Administer, StartAny, AskAny

\* The claim holds after every step of an execution.
LEMMA BuyAct ==
    ASSUME ProcTypes, FlagTypes, DocTypes, BuyInv, NEW p \in Procs, Act(p)
    PROVE  BuyInv'
<1>1. /\ lapses' = lapses /\ provider' = provider
      /\ started => started'
  BY FlagsStay
<1>2. (lapses = 0 \/ (fenced /\ ~started) => Exclusive)'
  BY <1>1, ExclusiveStep DEF BuyInv, fenced
<1>3. ASSUME fenced PROVE (buys <= 1 /\ (~started => buys = 0))'
  <2>1. CASE started' = started /\ buys' = buys
    BY <1>3, <2>1 DEF BuyInv
  <2>2. CASE WorkerPrepare(p)
    <3>1. CASE started' = started /\ buys' = buys
      BY <2>1, <3>1
    <3>2. CASE ~(started' = started /\ buys' = buys)
      <4>1. pc[p] = "wPrepare" /\ ~held[p].started /\ started' /\ buys' = buys + 1
        BY <1>3, <2>2, <3>2 DEF WorkerPrepare, MayBuy
      <4>2. buys = 0
        BY <1>3, <4>1 DEF BuyInv, ClaimAt
      <4> QED  BY <4>1, <4>2
    <3> QED  BY <3>1, <3>2
  <2> QED  BY <2>1, <2>2, ClaimedFrom
<1>4. ASSUME fenced, NEW q \in Procs PROVE ClaimAt(q)'
  <2>1. CASE q = p
    BY <1>4, <2>1, ClaimAtStep DEF BuyInv
  <2>2. CASE q # p
    <3>1. pc'[q] = pc[q] /\ held'[q] = held[q] /\ ClaimAt(q)
      BY <1>4, <2>2, OthersRest DEF Rests, BuyInv
    <3>2. pc[q] = "wPrepare" /\ ~started => ~started'
      <4>1. pc[q] = "wPrepare" /\ ~started => pc[p] # "wPrepare"
        BY <1>4, <2>2 DEF BuyInv, Exclusive, Locked
      <4> QED  BY <4>1, ClaimedFrom DEF WorkerPrepare
    <3> QED  BY <1>1, <3>1, <3>2 DEF ClaimAt
  <2> QED  BY <2>1, <2>2
<1> QED  BY <1>1, <1>2, <1>3, <1>4 DEF BuyInv, fenced

\* The claim holds after every step.
LEMMA BuyStep ==
    ASSUME ProcTypes, FlagTypes, DocTypes, BuyInv, [Next]_vars
    PROVE  BuyInv'
<1>1. CASE LockExpires
  <2>1. /\ UNCHANGED <<provider, started, buys, pc, held>> /\ lapses \in Nat
        /\ \A p \in Procs : pc[p] \in Locked => pc[p] = "wBuying"
        /\ lapses' = 0 => lapses = 0 /\ \A p \in Procs : pc[p] \notin Locked
    BY <1>1 DEF LockExpires, orderVars, procVars, DocTypes
  <2>2. fenced /\ ~started => \A p \in Procs : pc[p] \notin Locked
    BY <2>1 DEF BuyInv, ClaimAt
  <2>3. (\A p \in Procs : pc[p] \notin Locked) => Exclusive'
    BY <2>1 DEF Exclusive
  <2> QED  BY <2>1, <2>2, <2>3 DEF BuyInv, ClaimAt, fenced
<1>2. CASE LoseQueues \/ EndDatePasses \/ UNCHANGED vars
  BY <1>2 DEF LoseQueues, EndDatePasses, BuyInv, ClaimAt, Exclusive, fenced, vars, orderVars,
     procVars, queueVars, boundVars
<1> QED  BY <1>1, <1>2, BuyAct DEF Next, Act

\* Nothing is taken back by any step.
LEMMA StaysStep ==
    ASSUME DocTypes, ProcTypes, StoreInv, [Next]_vars
    PROVE  Stays
<1>1. CASE Outside \/ UNCHANGED vars
  BY <1>1 DEF Outside, LockExpires, LoseQueues, EndDatePasses, Stays, DocTypes, vars, boundVars
<1> QED  BY <1>1, StaysAct DEF Next, Act, Outside

-----------------------------------------------------------------------------
(* The refunds.                                                            *)

\* What an execution takes with it to the wallet and from there to the order.
LEMMA RefundAtStep ==
    ASSUME FlagTypes, DocTypes, ProcTypes, RefundInv, NEW p \in Procs, Act(p)
    PROVE  RefundAt(p)'
<1>1. RefundAt(p) /\ refunded <= credit
  BY DEF RefundInv, RefundIsCredited
<1>2. refunded \in Nat /\ credit \in Nat /\ n[p] \in Nat /\ held[p].refunded \in Nat
  BY HandTypes DEF DocTypes
<1>3. Price' = Price /\ Price \in Nat
  BY PriceType DEF Price
<1>4. actual \in Nat \cup {None}
  BY DEF DocTypes
<1> USE <1>1, <1>2, <1>3, GotoAt, CarryAt, DropAt, FinishAt, BeginAt DEF RefundAt, Locked
<1>5. CASE WorkerLock(p)
  BY <1>5 DEF WorkerLock
<1>6. CASE WorkerFind(p)
  BY <1>6 DEF WorkerFind, ProcTypes
<1>7. CASE WorkerPrepare(p)
  BY <1>7 DEF WorkerPrepare, ProcTypes
<1>8. CASE WorkerResume(p)
  BY <1>8 DEF WorkerResume, SaveStatus
<1>9. CASE WorkerBought(p)
  BY <1>9 DEF WorkerBought
<1>10. CASE WorkerRefused(p)
  BY <1>10 DEF WorkerRefused, ProcTypes
<1>11. CASE WorkerSaveId(p)
  BY <1>11 DEF WorkerSaveId
<1>12. CASE WorkerDeliver(p)
  BY <1>12 DEF WorkerDeliver, Insert
<1>13. CASE WorkerCount(p)
  BY <1>13 DEF WorkerCount
<1>14. CASE WorkerPublish(p)
  BY <1>14 DEF WorkerPublish, SaveDelivery, SaveStatus
<1>15. CASE WorkerProcessing(p)
  BY <1>15 DEF WorkerProcessing, SaveStatus
<1>16. CASE WorkerPush(p)
  BY <1>16 DEF WorkerPush
<1>17. CASE WorkerFail(p)
  BY <1>17 DEF WorkerFail
<1>18. CASE WorkerUnlock(p)
  BY <1>18 DEF WorkerUnlock
<1>19. CASE RepushList(p)
  BY <1>19 DEF RepushList
<1>20. CASE RepushLocked(p)
  BY <1>20 DEF RepushLocked
<1>21. CASE RepushPush(p)
  BY <1>21 DEF RepushPush
<1>22. CASE RepollList(p)
  BY <1>22 DEF RepollList
<1>23. CASE RepollPush(p)
  BY <1>23 DEF RepollPush
<1>24. CASE PollFind(p)
  BY <1>24 DEF PollFind, ProcTypes
<1>25. CASE PollFetch(p)
  BY <1>25 DEF PollFetch, ProcTypes
<1>26. CASE PollCount(p)
  BY <1>26 DEF PollCount
<1>27. CASE PollHeal(p)
  BY <1>27 DEF PollHeal
<1>28. CASE PollInsert(p)
  BY <1>28 DEF PollInsert, Insert
<1>29. CASE PollRecount(p)
  BY <1>29 DEF PollRecount
<1>30. CASE PollPublish(p)
  BY <1>30 DEF PollPublish, SaveDelivery, SaveStatus
<1>31. CASE PollTimeout(p)
  BY <1>31 DEF PollTimeout
<1>32. CASE RecoverCount(p)
  BY <1>32 DEF RecoverCount
<1>33. CASE RecoverFetch(p)
  BY <1>33 DEF RecoverFetch
<1>34. CASE RecoverInsert(p)
  BY <1>34 DEF RecoverInsert, Insert
<1>35. CASE RecoverRecount(p)
  BY <1>35 DEF RecoverRecount
<1>36. CASE RecoverPublish(p)
  BY <1>36 DEF RecoverPublish
<1>37. CASE ExpireOrder(p)
  BY <1>37 DEF ExpireOrder
<1>38. CASE ApproveCredit(p)
  BY <1>38 DEF ApproveCredit, Credit
<1>39. CASE ApproveSave(p)
  BY <1>39 DEF ApproveSave, SaveStatus
<1>40. CASE RefundCredit(p)
  BY <1>40 DEF RefundCredit, Credit
<1>41. CASE RefundSave(p)
  BY <1>41 DEF RefundSave, SaveStatus
<1>42. CASE MissingRead(p)
  <2>1. \/ pc'[p] = "idle"
        \/ pc'[p] = "fCredit" /\ held'[p] = ForRefund /\ credit' = credit
    BY <1>42 DEF MissingRead, ProcTypes, ReadOnly
  <2>2. ForRefund.refunded = refunded
    BY DEF ForRefund, Blank
  <2> QED  BY <2>1, <2>2
<1>43. CASE MissingFind(p)
  BY <1>43 DEF MissingFind, ProcTypes
<1>44. CASE MissingSave(p)
  BY <1>44 DEF MissingSave, SaveStatus
<1>45. CASE RetryDelete(p)
  BY <1>45 DEF RetryDelete
<1>46. CASE RetrySave(p)
  BY <1>46 DEF RetrySave, SaveStatus
<1>47. CASE RetryPush(p)
  BY <1>47 DEF RetryPush
<1>48. CASE ImportInsert(p)
  BY <1>48 DEF ImportInsert
<1>49. CASE ImportCount(p)
  BY <1>49 DEF ImportCount
<1>50. CASE ImportSave(p)
  BY <1>50 DEF ImportSave, SaveStatus
<1>51. CASE SyncSaveId(p)
  BY <1>51 DEF SyncSaveId
<1>52. CASE SyncFetch(p)
  BY <1>52 DEF SyncFetch
<1>53. CASE SyncInsert(p)
  BY <1>53 DEF SyncInsert, Insert
<1>54. CASE SyncCount(p)
  BY <1>54 DEF SyncCount
<1>55. CASE SyncSave(p)
  BY <1>55 DEF SyncSave, SaveDelivery, SaveStatus
<1>56. CASE WorkerPop(p)
  BY <1>56 DEF WorkerPop
<1>57. CASE RepushStart(p)
  BY <1>57 DEF RepushStart
<1>58. CASE RepollStart(p)
  BY <1>58 DEF RepollStart
<1>59. CASE PollPop(p)
  BY <1>59 DEF PollPop
<1>60. CASE RecoverStart(p)
  BY <1>60 DEF RecoverStart
<1>61. CASE ExpireStart(p)
  BY <1>61 DEF ExpireStart
<1>62. CASE ApproveStart(p)
  BY <1>62 DEF ApproveStart, Request
<1>63. CASE RefundStart(p)
  BY <1>63 DEF RefundStart, ProcTypes, ForRefund, Blank
<1>64. CASE MissingStart(p)
  <2>1. pc'[p] = "fRead" /\ held'[p] = ForDelivery /\ actual # None /\ actual < Quantity
    BY <1>64 DEF MissingStart, Request
  <2>2. ForDelivery.actual = actual
    BY DEF ForDelivery, Blank
  <2> QED  BY <1>4, <2>1, <2>2, LifecycleAssumption
<1>65. CASE RetryStart(p)
  BY <1>65 DEF RetryStart
<1>66. CASE ImportStart(p)
  BY <1>66 DEF ImportStart, Request
<1>67. CASE SyncStart(p)
  BY <1>67 DEF SyncStart, Request
<1>68. CASE WorkerThrow(p)
  BY <1>68 DEF WorkerThrow
<1>69. CASE PollThrow(p)
  BY <1>69 DEF PollThrow
<1>70. CASE Abort(p)
  BY <1>70 DEF Abort
<1> QED
  BY <1>5, <1>6, <1>7, <1>8, <1>9, <1>10, <1>11, <1>12, <1>13, <1>14, <1>15, <1>16, <1>17,
     <1>18, <1>19, <1>20, <1>21, <1>22, <1>23, <1>24, <1>25, <1>26, <1>27, <1>28, <1>29, <1>30,
     <1>31, <1>32, <1>33, <1>34, <1>35, <1>36, <1>37, <1>38, <1>39, <1>40, <1>41, <1>42, <1>43,
     <1>44, <1>45, <1>46, <1>47, <1>48, <1>49, <1>50, <1>51, <1>52, <1>53, <1>54, <1>55, <1>56,
     <1>57, <1>58, <1>59, <1>60, <1>61, <1>62, <1>63, <1>64, <1>65, <1>66, <1>67, <1>68, <1>69,
     <1>70 DEF Act, Step, Worker, Schedulers, Poll, Recover, Administer, StartAny, AskAny

\* What another execution knows of the wallet goes on being true.
LEMMA RefundAtStays ==
    ASSUME DocTypes, DocTypes', ProcTypes, Stays, NEW q \in Procs, RefundAt(q),
           Rests(q)
    PROVE  RefundAt(q)'
<1>1. Price' = Price /\ Price \in Nat
  BY PriceType DEF Price
<1>2. credit \in Nat /\ credit' \in Nat /\ n[q] \in Nat /\ held[q].refunded \in Nat
  BY HandTypes DEF DocTypes
<1>3. credit' >= credit
  BY DEF Stays
<1> QED  BY <1>1, <1>2, <1>3 DEF RefundAt, Rests

\* The order says no more than the wallet received.
LEMMA CreditedAct ==
    ASSUME DocTypes, DocTypes', ProcTypes, Stays, RefundInv, NEW p \in Procs, Act(p)
    PROVE  RefundIsCredited'
<1>1. RefundAt(p) /\ RefundIsCredited
  BY DEF RefundInv
<1>2. /\ refunded \in Nat /\ credit \in Nat /\ n[p] \in Nat /\ held[p].refunded \in Nat
      /\ credit' \in Nat /\ refunded' \in Nat
  BY HandTypes DEF DocTypes
<1>3. Price' = Price /\ Price \in Nat
  BY PriceType DEF Price
<1>4. credit' >= credit
  BY DEF Stays
<1>5. refunded' = refunded /\ (status' = "FAILED" => status = "FAILED") => RefundIsCredited'
  BY <1>1, <1>2, <1>3, <1>4 DEF RefundIsCredited
<1> USE DEF Saved, orderVars, queueVars, boundVars, Rest, ReadOnly
<1>6. CASE WorkerLock(p)
  BY <1>6, <1>5 DEF WorkerLock
<1>7. CASE WorkerFind(p)
  BY <1>7, <1>5 DEF WorkerFind
<1>8. CASE WorkerPrepare(p)
  BY <1>8, <1>5 DEF WorkerPrepare
<1>9. CASE WorkerResume(p)
  BY <1>9, <1>5 DEF WorkerResume, SaveStatus
<1>10. CASE WorkerBought(p)
  BY <1>10, <1>5 DEF WorkerBought
<1>11. CASE WorkerRefused(p)
  BY <1>11, <1>5 DEF WorkerRefused
<1>12. CASE WorkerSaveId(p)
  BY <1>12, <1>5 DEF WorkerSaveId
<1>13. CASE WorkerDeliver(p)
  BY <1>13, <1>5 DEF WorkerDeliver, Insert
<1>14. CASE WorkerCount(p)
  BY <1>14, <1>5 DEF WorkerCount
<1>15. CASE WorkerPublish(p)
  BY <1>15, <1>5 DEF WorkerPublish, SaveDelivery, SaveStatus
<1>16. CASE WorkerProcessing(p)
  BY <1>16, <1>5 DEF WorkerProcessing, SaveStatus
<1>17. CASE WorkerPush(p)
  BY <1>17, <1>5 DEF WorkerPush
<1>18. CASE WorkerFail(p)
  BY <1>18, <1>5 DEF WorkerFail
<1>19. CASE WorkerUnlock(p)
  BY <1>19, <1>5 DEF WorkerUnlock
<1>20. CASE Schedulers(p)
  BY <1>20, <1>5 DEF Schedulers, RepushList, RepushLocked, RepushPush, RepollList, RepollPush
<1>21. CASE PollFind(p)
  BY <1>21, <1>5 DEF PollFind
<1>22. CASE PollFetch(p)
  BY <1>22, <1>5 DEF PollFetch
<1>23. CASE PollCount(p)
  BY <1>23, <1>5 DEF PollCount
<1>24. CASE PollHeal(p)
  BY <1>24, <1>5 DEF PollHeal
<1>25. CASE PollInsert(p)
  BY <1>25, <1>5 DEF PollInsert, Insert
<1>26. CASE PollRecount(p)
  BY <1>26, <1>5 DEF PollRecount
<1>27. CASE PollPublish(p)
  BY <1>27, <1>5 DEF PollPublish, SaveDelivery, SaveStatus
<1>28. CASE PollTimeout(p)
  BY <1>28, <1>5 DEF PollTimeout
<1>29. CASE RecoverCount(p)
  BY <1>29, <1>5 DEF RecoverCount
<1>30. CASE RecoverFetch(p)
  BY <1>30, <1>5 DEF RecoverFetch
<1>31. CASE RecoverInsert(p)
  BY <1>31, <1>5 DEF RecoverInsert, Insert
<1>32. CASE RecoverRecount(p)
  BY <1>32, <1>5 DEF RecoverRecount
<1>33. CASE RecoverPublish(p)
  BY <1>33, <1>5 DEF RecoverPublish
<1>34. CASE ExpireOrder(p)
  BY <1>34, <1>5 DEF ExpireOrder
<1>35. CASE ApproveCredit(p)
  BY <1>35, <1>5 DEF ApproveCredit, Credit
<1>36. CASE ApproveSave(p)
  <2>1. pc[p] = "aSave" /\ credit' = credit /\ refunded' \in {Price, refunded}
    BY <1>36 DEF ApproveSave
  <2> QED  BY <1>1, <1>2, <1>3, <2>1 DEF RefundAt, RefundIsCredited
<1>37. CASE RefundCredit(p)
  BY <1>37, <1>5 DEF RefundCredit, Credit
<1>38. CASE RefundSave(p)
  <2>1. /\ pc[p] = "fSave" /\ credit' = credit /\ refunded' = held[p].refunded + n[p]
        /\ status' = "FAILED" => status = "FAILED"
    BY <1>38 DEF RefundSave, SaveStatus
  <2> QED  BY <1>1, <1>2, <1>3, <2>1 DEF RefundAt, RefundIsCredited
<1>39. CASE MissingRead(p)
  BY <1>39, <1>5 DEF MissingRead
<1>40. CASE MissingFind(p)
  BY <1>40, <1>5 DEF MissingFind
<1>41. CASE MissingSave(p)
  BY <1>41, <1>5 DEF MissingSave, SaveStatus
<1>42. CASE RetryDelete(p)
  BY <1>42, <1>5 DEF RetryDelete
<1>43. CASE RetrySave(p)
  BY <1>43, <1>5 DEF RetrySave, SaveStatus
<1>44. CASE RetryPush(p)
  BY <1>44, <1>5 DEF RetryPush
<1>45. CASE ImportInsert(p)
  BY <1>45, <1>5 DEF ImportInsert
<1>46. CASE ImportCount(p)
  BY <1>46, <1>5 DEF ImportCount
<1>47. CASE ImportSave(p)
  BY <1>47, <1>5 DEF ImportSave, SaveStatus
<1>48. CASE SyncSaveId(p)
  BY <1>48, <1>5 DEF SyncSaveId
<1>49. CASE SyncFetch(p)
  BY <1>49, <1>5 DEF SyncFetch
<1>50. CASE SyncInsert(p)
  BY <1>50, <1>5 DEF SyncInsert, Insert
<1>51. CASE SyncCount(p)
  BY <1>51, <1>5 DEF SyncCount
<1>52. CASE SyncSave(p)
  BY <1>52, <1>5 DEF SyncSave, SaveDelivery, SaveStatus
<1>53. CASE StartAny(p)
  BY <1>53, <1>5 DEF StartAny, WorkerPop, RepushStart, RepollStart, PollPop, RecoverStart,
     ExpireStart
<1>54. CASE AskAny(p)
  BY <1>54, <1>5 DEF AskAny, ApproveStart, Request, RefundStart, MissingStart, RetryStart,
     ImportStart, SyncStart
<1>55. CASE WorkerThrow(p)
  BY <1>55, <1>5 DEF WorkerThrow
<1>56. CASE PollThrow(p)
  BY <1>56, <1>5 DEF PollThrow
<1>57. CASE Abort(p)
  BY <1>57, <1>5 DEF Abort
<1> QED
  BY <1>6, <1>7, <1>8, <1>9, <1>10, <1>11, <1>12, <1>13, <1>14, <1>15, <1>16, <1>17, <1>18,
     <1>19, <1>20, <1>21, <1>22, <1>23, <1>24, <1>25, <1>26, <1>27, <1>28, <1>29, <1>30, <1>31,
     <1>32, <1>33, <1>34, <1>35, <1>36, <1>37, <1>38, <1>39, <1>40, <1>41, <1>42, <1>43, <1>44,
     <1>45, <1>46, <1>47, <1>48, <1>49, <1>50, <1>51, <1>52, <1>53, <1>54, <1>55, <1>56, <1>57
     DEF Act, Step, Worker, Poll, Recover, Administer

\* Order and wallet agree after every step.
LEMMA RefundStep ==
    ASSUME FlagTypes, DocTypes, DocTypes', ProcTypes, StoreInv, RefundInv, [Next]_vars
    PROVE  RefundInv'
<1>1. Stays
  BY StaysStep
<1>2. ASSUME NEW p \in Procs, Act(p) PROVE RefundInv'
  <2>1. \A q \in Procs : q # p => RefundAt(q)'
    BY <1>1, <1>2, OthersRest, RefundAtStays DEF RefundInv
  <2> QED  BY <1>1, <1>2, <2>1, RefundAtStep, CreditedAct DEF RefundInv
<1>3. CASE Outside \/ UNCHANGED vars
  <2>1. UNCHANGED <<refunded, status, credit, pc, held, n>>
    BY <1>3 DEF Outside, LockExpires, LoseQueues, EndDatePasses, vars, orderVars, procVars
  <2>2. \A q \in Procs : RefundAt(q)'
    BY <1>1, <2>1, RefundAtStays DEF RefundInv, Rests
  <2> QED  BY <2>1, <2>2 DEF RefundInv, RefundIsCredited, Price
<1> QED  BY <1>2, <1>3 DEF Next, Act, Outside

-----------------------------------------------------------------------------
(* The proxies.                                                            *)

\* What an execution takes with it from the provider or the database to the order.
LEMMA StoreAtStep ==
    ASSUME DocTypes, ProcTypes, Stays, StoreInv, NEW p \in Procs, Act(p)
    PROVE  StoreAt(p)'
<1>1. StoreAt(p)
  BY DEF StoreInv
<1>2. proxies \in Nat /\ n[p] \in Nat /\ retries \in Nat
  BY HandTypes DEF DocTypes
<1>3. retries' = 0 => retries = 0 /\ proxies' >= proxies
  BY DEF Stays
<1> USE <1>1, <1>2, <1>3, GotoAt, CarryAt, DropAt, FinishAt, BeginAt DEF StoreAt, Answered,
         Selling, Locked, Rest, ReadOnly
<1>4. CASE WorkerLock(p)
  BY <1>4 DEF WorkerLock
<1>5. CASE WorkerFind(p)
  BY <1>5 DEF WorkerFind, ProcTypes
<1>6. CASE WorkerPrepare(p)
  BY <1>6 DEF WorkerPrepare, ProcTypes
<1>7. CASE WorkerResume(p)
  BY <1>7 DEF WorkerResume, SaveStatus
<1>8. CASE WorkerBought(p)
  BY <1>8, LifecycleAssumption DEF WorkerBought
<1>9. CASE WorkerRefused(p)
  BY <1>9 DEF WorkerRefused, ProcTypes
<1>10. CASE WorkerSaveId(p)
  BY <1>10 DEF WorkerSaveId
<1>11. CASE WorkerDeliver(p)
  BY <1>11 DEF WorkerDeliver, Insert
<1>12. CASE WorkerCount(p)
  BY <1>12 DEF WorkerCount
<1>13. CASE WorkerPublish(p)
  BY <1>13 DEF WorkerPublish, SaveDelivery, SaveStatus
<1>14. CASE WorkerProcessing(p)
  BY <1>14 DEF WorkerProcessing, SaveStatus
<1>15. CASE WorkerPush(p)
  BY <1>15 DEF WorkerPush
<1>16. CASE WorkerFail(p)
  BY <1>16 DEF WorkerFail
<1>17. CASE WorkerUnlock(p)
  BY <1>17 DEF WorkerUnlock
<1>18. CASE RepushList(p)
  BY <1>18 DEF RepushList
<1>19. CASE RepushLocked(p)
  BY <1>19 DEF RepushLocked
<1>20. CASE RepushPush(p)
  BY <1>20 DEF RepushPush
<1>21. CASE RepollList(p)
  BY <1>21 DEF RepollList
<1>22. CASE RepollPush(p)
  BY <1>22 DEF RepollPush
<1>23. CASE PollFind(p)
  BY <1>23 DEF PollFind, ProcTypes
<1>24. CASE PollFetch(p)
  BY <1>24, LifecycleAssumption DEF PollFetch, ProcTypes
<1>25. CASE PollCount(p)
  BY <1>25 DEF PollCount
<1>26. CASE PollHeal(p)
  BY <1>26 DEF PollHeal
<1>27. CASE PollInsert(p)
  BY <1>27 DEF PollInsert, Insert
<1>28. CASE PollRecount(p)
  BY <1>28 DEF PollRecount
<1>29. CASE PollPublish(p)
  BY <1>29 DEF PollPublish, SaveDelivery, SaveStatus
<1>30. CASE PollTimeout(p)
  BY <1>30 DEF PollTimeout
<1>31. CASE RecoverCount(p)
  BY <1>31 DEF RecoverCount
<1>32. CASE RecoverFetch(p)
  BY <1>32, LifecycleAssumption DEF RecoverFetch
<1>33. CASE RecoverInsert(p)
  BY <1>33 DEF RecoverInsert, Insert
<1>34. CASE RecoverRecount(p)
  BY <1>34 DEF RecoverRecount, NothingStored
<1>35. CASE RecoverPublish(p)
  BY <1>35 DEF RecoverPublish
<1>36. CASE ExpireOrder(p)
  BY <1>36 DEF ExpireOrder
<1>37. CASE ApproveCredit(p)
  BY <1>37 DEF ApproveCredit, Credit
<1>38. CASE ApproveSave(p)
  BY <1>38 DEF ApproveSave, SaveStatus
<1>39. CASE RefundCredit(p)
  BY <1>39 DEF RefundCredit, Credit
<1>40. CASE RefundSave(p)
  BY <1>40 DEF RefundSave, SaveStatus
<1>41. CASE MissingRead(p)
  BY <1>41 DEF MissingRead, ProcTypes
<1>42. CASE MissingFind(p)
  BY <1>42 DEF MissingFind, ProcTypes
<1>43. CASE MissingSave(p)
  BY <1>43 DEF MissingSave, SaveStatus
<1>44. CASE RetryDelete(p)
  BY <1>44 DEF RetryDelete, boundVars
<1>45. CASE RetrySave(p)
  BY <1>45 DEF RetrySave, SaveStatus, boundVars
<1>46. CASE RetryPush(p)
  BY <1>46 DEF RetryPush
<1>47. CASE ImportInsert(p)
  BY <1>47 DEF ImportInsert
<1>48. CASE ImportCount(p)
  BY <1>48, LifecycleAssumption DEF ImportCount
<1>49. CASE ImportSave(p)
  BY <1>49 DEF ImportSave, SaveStatus
<1>50. CASE SyncSaveId(p)
  BY <1>50 DEF SyncSaveId
<1>51. CASE SyncFetch(p)
  BY <1>51, LifecycleAssumption DEF SyncFetch
<1>52. CASE SyncInsert(p)
  BY <1>52 DEF SyncInsert, Insert
<1>53. CASE SyncCount(p)
  BY <1>53 DEF SyncCount
<1>54. CASE SyncSave(p)
  BY <1>54 DEF SyncSave, SaveDelivery, SaveStatus
<1>55. CASE WorkerPop(p)
  BY <1>55 DEF WorkerPop
<1>56. CASE RepushStart(p)
  BY <1>56 DEF RepushStart
<1>57. CASE RepollStart(p)
  BY <1>57 DEF RepollStart
<1>58. CASE PollPop(p)
  BY <1>58 DEF PollPop
<1>59. CASE RecoverStart(p)
  BY <1>59 DEF RecoverStart
<1>60. CASE ExpireStart(p)
  BY <1>60 DEF ExpireStart
<1>61. CASE ApproveStart(p)
  BY <1>61 DEF ApproveStart, Request
<1>62. CASE RefundStart(p)
  BY <1>62 DEF RefundStart, ProcTypes
<1>63. CASE MissingStart(p)
  BY <1>63 DEF MissingStart, Request
<1>64. CASE RetryStart(p)
  BY <1>64 DEF RetryStart
<1>65. CASE ImportStart(p)
  BY <1>65 DEF ImportStart, Request
<1>66. CASE SyncStart(p)
  BY <1>66 DEF SyncStart, Request
<1>67. CASE WorkerThrow(p)
  BY <1>67 DEF WorkerThrow
<1>68. CASE PollThrow(p)
  BY <1>68 DEF PollThrow
<1>69. CASE Abort(p)
  BY <1>69 DEF Abort
<1> QED
  BY <1>4, <1>5, <1>6, <1>7, <1>8, <1>9, <1>10, <1>11, <1>12, <1>13, <1>14, <1>15, <1>16, <1>17,
     <1>18, <1>19, <1>20, <1>21, <1>22, <1>23, <1>24, <1>25, <1>26, <1>27, <1>28, <1>29, <1>30,
     <1>31, <1>32, <1>33, <1>34, <1>35, <1>36, <1>37, <1>38, <1>39, <1>40, <1>41, <1>42, <1>43,
     <1>44, <1>45, <1>46, <1>47, <1>48, <1>49, <1>50, <1>51, <1>52, <1>53, <1>54, <1>55, <1>56,
     <1>57, <1>58, <1>59, <1>60, <1>61, <1>62, <1>63, <1>64, <1>65, <1>66, <1>67, <1>68, <1>69
     DEF Act, Step, Worker, Schedulers, Poll, Recover, Administer, StartAny, AskAny

\* An order that was never retried is sold with proxies.
LEMMA SoldAct ==
    ASSUME DocTypes, DocTypes', ProcTypes, Stays, StoreInv, NEW p \in Procs, Act(p)
    PROVE  SoldIsStored'
<1>1. StoreAt(p) /\ SoldIsStored
  BY DEF StoreInv
<1>2. proxies \in Nat /\ proxies' \in Nat
  BY DEF DocTypes
<1>3. retries' = 0 => retries = 0 /\ proxies' >= proxies
  BY DEF Stays
<1>4. (status' \in {"ACTIVE", "PARTIAL"} => status \in {"ACTIVE", "PARTIAL"} \/ pc[p] \in Selling)
        => SoldIsStored'
  BY <1>1, <1>2, <1>3 DEF SoldIsStored, StoreAt
<1> USE DEF Selling, Saved, orderVars, queueVars, boundVars, Rest, ReadOnly
<1>5. CASE WorkerLock(p)
  BY <1>5, <1>4 DEF WorkerLock
<1>6. CASE WorkerFind(p)
  BY <1>6, <1>4 DEF WorkerFind
<1>7. CASE WorkerPrepare(p)
  BY <1>7, <1>4 DEF WorkerPrepare
<1>8. CASE WorkerResume(p)
  BY <1>8, <1>4 DEF WorkerResume, SaveStatus
<1>9. CASE WorkerBought(p)
  BY <1>9, <1>4 DEF WorkerBought
<1>10. CASE WorkerRefused(p)
  BY <1>10, <1>4 DEF WorkerRefused
<1>11. CASE WorkerSaveId(p)
  BY <1>11, <1>4 DEF WorkerSaveId
<1>12. CASE WorkerDeliver(p)
  BY <1>12, <1>4 DEF WorkerDeliver, Insert
<1>13. CASE WorkerCount(p)
  BY <1>13, <1>4 DEF WorkerCount
<1>14. CASE WorkerPublish(p)
  BY <1>14, <1>4 DEF WorkerPublish, SaveDelivery, SaveStatus
<1>15. CASE WorkerProcessing(p)
  BY <1>15, <1>4 DEF WorkerProcessing, SaveStatus
<1>16. CASE WorkerPush(p)
  BY <1>16, <1>4 DEF WorkerPush
<1>17. CASE WorkerFail(p)
  BY <1>17, <1>4 DEF WorkerFail
<1>18. CASE WorkerUnlock(p)
  BY <1>18, <1>4 DEF WorkerUnlock
<1>19. CASE Schedulers(p)
  BY <1>19, <1>4 DEF Schedulers, RepushList, RepushLocked, RepushPush, RepollList, RepollPush
<1>20. CASE PollFind(p)
  BY <1>20, <1>4 DEF PollFind
<1>21. CASE PollFetch(p)
  BY <1>21, <1>4 DEF PollFetch
<1>22. CASE PollCount(p)
  BY <1>22, <1>4 DEF PollCount
<1>23. CASE PollHeal(p)
  BY <1>23, <1>4 DEF PollHeal
<1>24. CASE PollInsert(p)
  BY <1>24, <1>4 DEF PollInsert, Insert
<1>25. CASE PollRecount(p)
  BY <1>25, <1>4 DEF PollRecount
<1>26. CASE PollPublish(p)
  BY <1>26, <1>4 DEF PollPublish, SaveDelivery, SaveStatus
<1>27. CASE PollTimeout(p)
  BY <1>27, <1>4 DEF PollTimeout
<1>28. CASE RecoverCount(p)
  BY <1>28, <1>4 DEF RecoverCount
<1>29. CASE RecoverFetch(p)
  BY <1>29, <1>4 DEF RecoverFetch
<1>30. CASE RecoverInsert(p)
  BY <1>30, <1>4 DEF RecoverInsert, Insert
<1>31. CASE RecoverRecount(p)
  BY <1>31, <1>4 DEF RecoverRecount
<1>32. CASE RecoverPublish(p)
  BY <1>32, <1>4 DEF RecoverPublish
<1>33. CASE ExpireOrder(p)
  BY <1>33, <1>4 DEF ExpireOrder
<1>34. CASE ApproveCredit(p)
  BY <1>34, <1>4 DEF ApproveCredit, Credit
<1>35. CASE ApproveSave(p)
  BY <1>35, <1>4 DEF ApproveSave, SaveStatus
<1>36. CASE RefundCredit(p)
  BY <1>36, <1>4 DEF RefundCredit, Credit
<1>37. CASE RefundSave(p)
  BY <1>37, <1>4 DEF RefundSave, SaveStatus
<1>38. CASE MissingRead(p)
  BY <1>38, <1>4 DEF MissingRead
<1>39. CASE MissingFind(p)
  BY <1>39, <1>4 DEF MissingFind
<1>40. CASE MissingSave(p)
  BY <1>40, <1>4 DEF MissingSave, SaveStatus
<1>41. CASE RetryDelete(p)
  BY <1>41, <1>4 DEF RetryDelete
<1>42. CASE RetrySave(p)
  BY <1>42, <1>4 DEF RetrySave, SaveStatus
<1>43. CASE RetryPush(p)
  BY <1>43, <1>4 DEF RetryPush
<1>44. CASE ImportInsert(p)
  BY <1>44, <1>4 DEF ImportInsert
<1>45. CASE ImportCount(p)
  BY <1>45, <1>4 DEF ImportCount
<1>46. CASE ImportSave(p)
  BY <1>46, <1>4 DEF ImportSave, SaveStatus
<1>47. CASE SyncSaveId(p)
  BY <1>47, <1>4 DEF SyncSaveId
<1>48. CASE SyncFetch(p)
  BY <1>48, <1>4 DEF SyncFetch
<1>49. CASE SyncInsert(p)
  BY <1>49, <1>4 DEF SyncInsert, Insert
<1>50. CASE SyncCount(p)
  BY <1>50, <1>4 DEF SyncCount
<1>51. CASE SyncSave(p)
  BY <1>51, <1>4 DEF SyncSave, SaveDelivery, SaveStatus
<1>52. CASE StartAny(p)
  BY <1>52, <1>4 DEF StartAny, WorkerPop, RepushStart, RepollStart, PollPop, RecoverStart,
     ExpireStart
<1>53. CASE AskAny(p)
  BY <1>53, <1>4 DEF AskAny, ApproveStart, Request, RefundStart, MissingStart, RetryStart,
     ImportStart, SyncStart
<1>54. CASE WorkerThrow(p)
  BY <1>54, <1>4 DEF WorkerThrow
<1>55. CASE PollThrow(p)
  BY <1>55, <1>4 DEF PollThrow
<1>56. CASE Abort(p)
  BY <1>56, <1>4 DEF Abort
<1> QED
  BY <1>5, <1>6, <1>7, <1>8, <1>9, <1>10, <1>11, <1>12, <1>13, <1>14, <1>15, <1>16, <1>17,
     <1>18, <1>19, <1>20, <1>21, <1>22, <1>23, <1>24, <1>25, <1>26, <1>27, <1>28, <1>29, <1>30,
     <1>31, <1>32, <1>33, <1>34, <1>35, <1>36, <1>37, <1>38, <1>39, <1>40, <1>41, <1>42, <1>43,
     <1>44, <1>45, <1>46, <1>47, <1>48, <1>49, <1>50, <1>51, <1>52, <1>53, <1>54, <1>55, <1>56
     DEF Act, Step, Worker, Poll, Recover, Administer

\* The proxies are counted before every step that sells.
LEMMA StoreStep ==
    ASSUME DocTypes, DocTypes', ProcTypes, StoreInv, [Next]_vars
    PROVE  StoreInv'
<1>1. Stays
  BY StaysStep
<1>2. ASSUME NEW q \in Procs, Rests(q) PROVE StoreAt(q)'
  <2>1. StoreAt(q) /\ proxies \in Nat /\ proxies' \in Nat /\ retries \in Nat
    BY DEF StoreInv, DocTypes
  <2> QED  BY <1>1, <1>2, <2>1 DEF StoreAt, Rests, Stays
<1>3. ASSUME NEW p \in Procs, Act(p) PROVE StoreInv'
  <2>1. \A q \in Procs : q # p => StoreAt(q)'
    BY <1>2, <1>3, OthersRest
  <2> QED  BY <1>1, <1>3, <2>1, StoreAtStep, SoldAct DEF StoreInv
<1>4. CASE Outside \/ UNCHANGED vars
  <2>1. UNCHANGED <<status, proxies, retries, pc, held, n>>
    BY <1>4 DEF Outside, LockExpires, LoseQueues, EndDatePasses, vars, orderVars, procVars,
     boundVars
  <2> QED  BY <1>2, <2>1 DEF StoreInv, SoldIsStored, Rests
<1> QED  BY <1>3, <1>4 DEF Next, Act, Outside

-----------------------------------------------------------------------------
(* The theorems.                                                           *)

\* The inductive invariant holds at first.
LEMMA InvInit == Init => IInv
<1> SUFFICES ASSUME Init PROVE IInv
  OBVIOUS
<1>1. TypeOK
  BY TypeInit
<1>2. BuyInv
  BY DEF Init, BuyInv, Exclusive, ClaimAt, Locked
<1>3. RefundInv
  BY DEF Init, RefundInv, RefundIsCredited, RefundAt
<1>4. StoreInv
  BY DEF Init, StoreInv, SoldIsStored, StoreAt, Answered, Selling
<1> QED  BY <1>1, <1>2, <1>3, <1>4 DEF IInv

\* Every step keeps the inductive invariant.
LEMMA InvStep == IInv /\ [Next]_vars => IInv'
<1> SUFFICES ASSUME IInv, [Next]_vars PROVE IInv'
  OBVIOUS
<1>1. FlagTypes /\ DocTypes /\ ProcTypes /\ BuyInv /\ RefundInv /\ StoreInv
  BY TypeSplit DEF IInv
<1>2. FlagTypes' /\ DocTypes' /\ ProcTypes'
  BY <1>1, FlagStep, DocStep, ProcStep
<1>3. TypeOK'
  BY <1>2, TypeSplit, PTL
<1>4. BuyInv' /\ RefundInv' /\ StoreInv'
  BY <1>1, <1>2, BuyStep, RefundStep, StoreStep
<1> QED  BY <1>3, <1>4 DEF IInv

\* The inductive invariant always holds.
THEOREM Invariance == Spec => []IInv
  BY InvInit, InvStep, PTL DEF Spec

\* GPNIP is asked to buy once, however often the lock expires under a worker, the order is retried
\* and processes die; and while no lock expires, one worker at most is inside provider.buy().
THEOREM BoughtOnce == Spec => []BuysOnce
<1>1. IInv => BuysOnce
  BY DEF IInv, BuyInv, Exclusive, Locked, BuysOnce, FencedBuysOnce, OneBuyer
<1> QED  BY <1>1, Invariance, PTL

\* The order never shows a refund the wallet did not get, and a FAILED order was refunded in full,
\* whatever the administrators ask for at the same time.
THEOREM RefundsAreCredited == Spec => []RefundIsCredited
<1>1. IInv => RefundIsCredited
  BY DEF IInv, RefundInv
<1> QED  BY <1>1, Invariance, PTL

\* An order that was never retried is sold only with proxies in the database.
THEOREM SoldAreStored == Spec => []SoldIsStored
<1>1. IInv => SoldIsStored
  BY DEF IInv, StoreInv
<1> QED  BY <1>1, Invariance, PTL
=============================================================================
