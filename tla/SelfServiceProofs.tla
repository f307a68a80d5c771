------------------------- MODULE SelfServiceProofs -------------------------
(***************************************************************************)
(* Theorems about SelfService for any number of executions, keys and       *)
(* requests, every quota and price, and any number of deaths, refusals,    *)
(* edits and lapsed locks.                                                 *)
(*                                                                         *)
(* IInv, besides the types, says which labels belong to which request, and *)
(* then, aspect by aspect, what the order, its provider and the one        *)
(* execution that changes the aspect have in common while it is not        *)
(* unsure: what the provider answered is in hand until it is written.      *)
(* StatusInv does the same for DEPLETED, KeyInv for the keys of top-ups;   *)
(* WalletInv is the ledger of what is paid for them.                       *)
(***************************************************************************)
EXTENDS SelfService, Totals, FiniteSetTheorems, TLAPS

Doings == {"nothing", "gb", "password", "allowed", "address", "proxies", "sync"}

\* What an execution holds in hand.
Jobs == [does : Doings, key : Keys \cup {NoKey}, status : Statuses, gb : Nat, new : Nat,
         address : Nat]

HandTypes == job \in [Procs -> Jobs] /\ told \in Nat /\ lapsed \subseteq Keys

\* A top-up that knows the order, and one that has its lock, if it has a key.
Paying  == {"debit", "extend", "refund", "save"}
Entered == {"read", "keep"} \cup Paying

LabelsOf(does) ==
    CASE does = "gb"       -> {"cached", "lock"} \cup Entered
      [] does = "password" -> {"call", "write", "credentials"}
      [] does = "allowed"  -> {"call", "write"}
      [] does = "address"  -> {"find", "rotate", "stored", "cool"}
      [] does = "proxies"  -> {"again", "overwrite"}
      [] does = "sync"     -> {"fetch", "mark"}
      [] OTHER             -> {"idle"}

\* Each request goes through its own labels, and only top-ups have keys.
ControlAt(p) ==
    /\ pc[p] \in LabelsOf(job[p].does)
    /\ job[p].key # NoKey => job[p].does = "gb"
    /\ pc[p] \in {"cached", "lock", "keep"} => job[p].key # NoKey

ControlInv == \A p \in Procs : ControlAt(p)

\* What changes an aspect; one execution at most does.
Changers(a) == IF a \in {"password", "address"} THEN {a, "proxies"} ELSE {a}

Alone(a) ==
    \A p, q \in Procs : job[p].does \in Changers(a) /\ job[q].does \in Changers(a) => p = q

AloneInv == \A a \in Aspects : a \notin unsure => Alone(a)

\* A top-up counts from the gigabytes the order has; the provider has one more
\* from its answer to the save.
GbAt(p) ==
    /\ pc[p] \in Paying => job[p].gb = gb
    /\ pc[p] = "save" => remote["gb"] = gb + 1

GbInv ==
    "gb" \notin unsure =>
        /\ \A p \in Procs : GbAt(p)
        /\ (\A p \in Procs : pc[p] # "save") => remote["gb"] = gb

\* The allowed addresses that will be written are those in force.
Writes(p, a) == pc[p] = "write" /\ job[p].does = a

AllowedInv ==
    "allowed" \notin unsure =>
        /\ \A p \in Procs : Writes(p, "allowed") => job[p].new = remote["allowed"]
        /\ (\A p \in Procs : ~Writes(p, "allowed")) => copy["allowed"] = remote["allowed"]

\* The password that will be written is the one in force; before it is written
\* to the order, it is in the proxies.
PasswordAt(p) ==
    /\ pc[p] = "overwrite" => job[p].new = remote["password"]
    /\ Writes(p, "password") => job[p].new = remote["password"]
    /\ pc[p] = "credentials" =>
           job[p].new = remote["password"] /\ copy["password"] = remote["password"]

PasswordTold ==
    \/ told = remote["password"]
    \/ /\ copy["password"] = remote["password"]
       /\ Gateway => copy["gateway"] = remote["password"]

PasswordInv ==
    "password" \notin unsure =>
        /\ \A p \in Procs : PasswordAt(p)
        /\ (\A p \in Procs : ~Writes(p, "password") /\ pc[p] # "credentials") => PasswordTold

\* The address that will be written is the one in force.
AddressAt(p) ==
    /\ pc[p] = "stored" => job[p].new = remote["address"]
    /\ pc[p] = "overwrite" => job[p].address = remote["address"]

AddressInv ==
    "address" \notin unsure =>
        /\ \A p \in Procs : AddressAt(p)
        /\ (\A p \in Procs : pc[p] \notin {"stored", "overwrite"})
              => copy["address"] = remote["address"]

\* A sync that met no other and no top-up compares with the quota of an order
\* that is not DEPLETED.
SyncsApart ==
    \A p, q \in Procs : job[p].does = "sync" /\ job[q].does \in {"sync", "gb"} => p = q

SyncAt(p) == job[p].does = "sync" => job[p].gb = gb /\ status # "DEPLETED"

\* A top-up under way has read DEPLETED if the order is, and no longer is once saved.
SpentAt(p) ==
    /\ pc[p] \in Paying => job[p].status = "DEPLETED" \/ status # "DEPLETED"
    /\ pc[p] = "keep" => status # "DEPLETED"

StatusInv ==
    "status" \notin unsure =>
        /\ SyncsApart
        /\ \A p \in Procs : SyncAt(p)
        /\ "gb" \notin unsure => /\ status = "DEPLETED" => used >= gb
                                 /\ \A p \in Procs : SpentAt(p)

\* While its lock does not lapse, one request of a key is past the lock, and
\* the key is not answered; one still before the lock finds it taken.
Holds(p, k) == job[p].key = k /\ pc[p] \in Entered

OneHolds(k) == \A p, q \in Procs : Holds(p, k) /\ Holds(q, k) => p = q

KeyAt(p, k) ==
    /\ Holds(p, k) => k \in locks /\ k \notin answered
    /\ job[p].key = k /\ pc[p] = "lock" /\ k \in answered => k \in locks

KeyInv == \A k \in Keys \ lapsed : OneHolds(k) /\ \A p \in Procs : KeyAt(p, k)

WalletInv == troubles \in Nat /\ WalletTopsUp

IInv ==
    /\ TypeOK /\ HandTypes /\ ControlInv /\ AloneInv
    /\ GbInv /\ AllowedInv /\ PasswordInv /\ AddressInv /\ StatusInv /\ KeyInv
    /\ WalletInv

\* A step of execution p, whatever it does.
Act(p) ==
    TopUp(p) \/ Edit(p) \/ Rotate(p) \/ Refetch(p) \/ SyncStart(p) \/ Sync(p) \/ Abort(p)

-----------------------------------------------------------------------------
(* Types.                                                                  *)

FlagTypes == ended \in BOOLEAN /\ open \in BOOLEAN /\ cooling \in BOOLEAN

DocTypes ==
    /\ status \in Statuses /\ gb \in Nat /\ used \in Nat
    /\ copy \in [{"password", "gateway", "allowed", "address"} -> Nat]
    /\ remote \in [{"gb", "used", "password", "allowed", "address"} -> Nat]
    /\ remote["used"] <= remote["gb"]
    /\ money \in Nat /\ spent \in Nat /\ unbooked \in Nat
    /\ answered \subseteq Keys /\ locks \subseteq Keys
    /\ told \in Nat /\ lapsed \subseteq Keys /\ unsure \subseteq Aspects \cup {"status"}

ProcTypes == pc \in [Procs -> Labels] /\ job \in [Procs -> Jobs]

\* Who does nothing is idle, and the reverse: the labels say so.
LEMMA IdleMeans ==
    ASSUME ControlInv, ProcTypes
    PROVE  \A p \in Procs : pc[p] = "idle" <=> job[p].does = "nothing"
<1> SUFFICES ASSUME NEW p \in Procs PROVE pc[p] = "idle" <=> job[p].does = "nothing"
  OBVIOUS
<1>1. ControlAt(p) /\ job[p].does \in Doings
  BY DEF ControlInv, ProcTypes, Jobs
<1> QED  BY <1>1 DEF ControlAt, LabelsOf, Doings, Entered, Paying

\* The types of the flags, the documents and the executions, apart.
LEMMA TypeSplit ==
    ASSUME ControlInv
    PROVE  TypeOK /\ HandTypes <=> FlagTypes /\ DocTypes /\ ProcTypes
<1>1. ASSUME TypeOK, HandTypes PROVE FlagTypes /\ DocTypes /\ ProcTypes
  BY <1>1 DEF TypeOK, HandTypes, FlagTypes, DocTypes, ProcTypes
<1>2. ASSUME FlagTypes, DocTypes, ProcTypes PROVE TypeOK /\ HandTypes
  BY <1>2, IdleMeans DEF TypeOK, HandTypes, FlagTypes, DocTypes, ProcTypes
<1> QED  BY <1>1, <1>2

\* What an execution has in hand is well typed.
LEMMA JobTypes ==
    ASSUME ProcTypes, NEW p \in Procs
    PROVE  /\ job[p].does \in Doings /\ job[p].key \in Keys \cup {NoKey}
           /\ job[p].status \in Statuses /\ job[p].gb \in Nat /\ job[p].new \in Nat
           /\ job[p].address \in Nat /\ job[p] \in Jobs /\ pc[p] \in Labels
  BY DEF ProcTypes, Jobs

\* The empty hand is well typed.
LEMMA IdleType == Idle \in Jobs
  BY DEF Idle, Jobs, Doings, Statuses

\* What the provider answers, or the order shows, is taken into a well-typed hand.
LEMMA HandType ==
    ASSUME NEW j \in Jobs, NEW v \in Nat, NEW w \in Nat, NEW s \in Statuses
    PROVE  /\ [j EXCEPT !.new = v] \in Jobs
           /\ [j EXCEPT !.new = v, !.address = w] \in Jobs
           /\ [j EXCEPT !.status = s, !.gb = v] \in Jobs
           /\ [Idle EXCEPT !.does = "sync", !.gb = v] \in Jobs
           /\ \A k \in Keys \cup {NoKey} : [Idle EXCEPT !.does = "gb", !.key = k] \in Jobs
           /\ \A d \in Doings : [Idle EXCEPT !.does = d] \in Jobs
  BY DEF Idle, Jobs, Doings, Statuses

\* The labels of some requests tell what they do.
LEMMA LabelMeans ==
    ASSUME ControlInv, ProcTypes, NEW p \in Procs
    PROVE  /\ pc[p] \in {"cached", "lock", "keep"} =>
                  job[p].key \in Keys /\ job[p].does = "gb"
           /\ pc[p] \in Entered => job[p].does = "gb"
           /\ pc[p] = "call" => job[p].does \in {"password", "allowed"}
           /\ pc[p] = "write" => job[p].does \in {"password", "allowed"}
           /\ pc[p] = "credentials" => job[p].does = "password"
           /\ pc[p] \in {"find", "rotate", "stored", "cool"} => job[p].does = "address"
           /\ pc[p] \in {"again", "overwrite"} => job[p].does = "proxies"
           /\ pc[p] \in {"fetch", "mark"} => job[p].does = "sync"
           /\ pc[p] = "idle" <=> job[p].does = "nothing"
<1>1. ControlAt(p) /\ job[p].does \in Doings /\ job[p].key \in Keys \cup {NoKey}
  BY DEF ControlInv, ProcTypes, Jobs
<1> QED  BY <1>1 DEF ControlAt, LabelsOf, Doings, Entered, Paying

\* What the provider holds, it counts.
LEMMA RemoteTypes ==
    ASSUME DocTypes, NEW a \in {"gb", "used", "password", "allowed", "address"}
    PROVE  remote[a] \in Nat /\ remote[a] + 1 \in Nat
<1>1. remote[a] \in Nat
  BY DEF DocTypes
<1> QED  BY <1>1

\* Going on leaves the others alone.
LEMMA GotoAt ==
    ASSUME ProcTypes, NEW p \in Procs, NEW l, NEW j, Goto(p, l, j)
    PROVE  /\ pc'[p] = l /\ job'[p] = j
           /\ \A q \in Procs \ {p} : pc'[q] = pc[q] /\ job'[q] = job[q]
  BY DEF ProcTypes, Goto

\* So does ending.
LEMMA FinishAt ==
    ASSUME ProcTypes, NEW p \in Procs, Finish(p)
    PROVE  /\ pc'[p] = "idle" /\ job'[p] = Idle
           /\ \A q \in Procs \ {p} : pc'[q] = pc[q] /\ job'[q] = job[q]
  BY GotoAt DEF Finish

\* An execution that goes on stays well typed.
LEMMA GotoType ==
    ASSUME ProcTypes, NEW p \in Procs, NEW l \in Labels, NEW j \in Jobs, Goto(p, l, j)
    PROVE  ProcTypes'
  BY DEF ProcTypes, Goto

\* A top-up that starts, with a key or without, is well typed.
LEMMA TopUpType ==
    ASSUME ProcTypes, NEW p \in Procs, NEW k \in Keys \cup {NoKey}, TopUpStart(p, k)
    PROVE  ProcTypes'
<1> DEFINE l == IF k = NoKey THEN "read" ELSE "cached"
           j == [Idle EXCEPT !.does = "gb", !.key = k]
<1>1. Goto(p, l, j)
  BY DEF TopUpStart, Begin
<1>2. l \in Labels
  BY DEF Labels
<1>3. j \in Jobs
  BY DEF Idle, Jobs, Doings, Statuses
<1> QED  BY <1>1, <1>2, <1>3, GotoType

\* An execution that ends stays well typed.
LEMMA FinishType ==
    ASSUME ProcTypes, NEW p \in Procs, Finish(p)
    PROVE  ProcTypes'
  BY GotoType, IdleType DEF Finish, Labels

\* Who touches an aspect.
LEMMA TouchMeans ==
    ASSUME NEW a \in Aspects, NEW d
    PROVE  a \in Touches(d) <=> d \in Changers(a)
  BY DEF Aspects, Touches, Changers

\* A request whose aspect stays sure is alone with it.
LEMMA BeginAt ==
    ASSUME ProcTypes, NEW p \in Procs, NEW l, NEW j, Begin(p, l, j)
    PROVE  /\ pc[p] = "idle" /\ pc'[p] = l /\ job'[p] = j
           /\ \A q \in Procs \ {p} : pc'[q] = pc[q] /\ job'[q] = job[q]
           /\ unsure \subseteq unsure' /\ unsure' \subseteq unsure \cup Aspects \cup {"status"}
           /\ \A a \in Aspects : a \notin unsure' /\ j.does \in Changers(a) =>
                  \A q \in Procs \ {p} : job[q].does \notin Changers(a)
           /\ "status" \notin unsure' /\ j.does = "gb" =>
                  \A q \in Procs \ {p} : job[q].does # "sync"
<1>1. Goto(p, l, j) /\ pc[p] = "idle"
  BY DEF Begin
<1>2. \A a \in Aspects : a \notin unsure' /\ j.does \in Changers(a) =>
          \A q \in Procs \ {p} : job[q].does \notin Changers(a)
  BY TouchMeans DEF Begin, Touched
<1>3. /\ unsure \subseteq unsure' /\ unsure' \subseteq unsure \cup Aspects \cup {"status"}
      /\ "status" \notin unsure' /\ j.does = "gb" =>
             \A q \in Procs \ {p} : job[q].does # "sync"
  BY DEF Begin, Doing, Touches, Aspects
<1> QED  BY <1>1, <1>2, <1>3, GotoAt

\* The initial states are well typed.
LEMMA TypeInit == Init => FlagTypes /\ DocTypes /\ ProcTypes /\ ControlInv
<1> SUFFICES ASSUME Init PROVE FlagTypes /\ DocTypes /\ ProcTypes /\ ControlInv
  OBVIOUS
<1>1. FlagTypes
  BY DEF Init, FlagTypes
<1>2. DocTypes
  BY ServiceAssumption DEF Init, DocTypes, Statuses
<1>3. ProcTypes
  BY IdleType DEF Init, ProcTypes, Labels
<1>4. ControlInv
  BY DEF Init, ControlInv, ControlAt, LabelsOf, Idle
<1> QED  BY <1>1, <1>2, <1>3, <1>4

\* Every step keeps the flags Boolean.
LEMMA FlagStep ==
    ASSUME FlagTypes, [Next]_vars
    PROVE  FlagTypes'
<1>1. CASE Environment
  BY <1>1 DEF Environment, Consume, UpdateProxy, AdminCancel, Expire, Close, EndPasses,
     SwitchPartner, Cooled, Lapse, FlagTypes, worldVars
<1>2. CASE UNCHANGED vars
  BY <1>2 DEF FlagTypes, vars, worldVars
<1>3. ASSUME NEW p \in Procs, Act(p) PROVE FlagTypes'
  <2> USE <1>3
  <2>1. CASE TopUp(p)
    BY <2>1 DEF TopUp, TopUpStart, TopUpCached, TopUpLock, TopUpRead, TopUpDebit, TopUpExtend,
       TopUpRefused, TopUpRefund, TopUpSave, TopUpKeep, FlagTypes, worldVars
  <2>2. CASE Edit(p)
    BY <2>2 DEF Edit, EditStart, EditCall, EditRefused, EditWrite, EditCredentials, EditFails,
       FlagTypes, worldVars
  <2>3. CASE Rotate(p)
    BY <2>3 DEF Rotate, RotateStart, RotateFind, RotateCall, RotateRefused, RotateStore,
       RotateCool, FlagTypes, worldVars
  <2>4. CASE Refetch(p)
    BY <2>4 DEF Refetch, RefetchStart, RefetchCall, RefetchRefused, RefetchStore, FlagTypes,
       worldVars
  <2>5. CASE SyncStart(p)
    BY <2>5 DEF SyncStart, FlagTypes, worldVars
  <2>6. CASE Sync(p)
    BY <2>6 DEF Sync, SyncFetch, SyncRefused, SyncMark, FlagTypes, worldVars
  <2>7. CASE Abort(p)
    BY <2>7 DEF Abort, FlagTypes, worldVars
  <2> QED
    BY <2>1, <2>2, <2>3, <2>4, <2>5, <2>6, <2>7 DEF Act
<1> QED  BY <1>1, <1>2, <1>3 DEF Next, Act

\* Every step keeps the types of the order, the provider, the wallet and the keys.
LEMMA DocStep ==
    ASSUME DocTypes, ProcTypes, ControlInv, [Next]_vars
    PROVE  DocTypes'
<1>1. CASE Environment
  <2> USE DEF DocTypes, orderVars, moneyVars, keyVars, worldVars, histVars, bounds
  <2>1. CASE Consume
    BY <2>1 DEF Consume
  <2>2. CASE UpdateProxy
    BY <2>2 DEF UpdateProxy, Aspects
  <2>3. CASE AdminCancel
    BY <2>3 DEF AdminCancel, Close, Statuses
  <2>4. CASE Expire
    BY <2>4 DEF Expire, Close, Statuses
  <2>5. CASE EndPasses \/ SwitchPartner \/ Cooled
    BY <2>5 DEF EndPasses, SwitchPartner, Cooled
  <2>6. ASSUME NEW k \in Keys, Lapse(k) PROVE DocTypes'
    BY <2>6 DEF Lapse
  <2> QED  BY <1>1, <2>1, <2>2, <2>3, <2>4, <2>5, <2>6 DEF Environment
<1>2. CASE UNCHANGED vars
  BY <1>2 DEF DocTypes, vars, orderVars, moneyVars, keyVars, worldVars, histVars
<1>3. ASSUME NEW p \in Procs, Act(p) PROVE DocTypes'
  <2> USE <1>3, JobTypes, ServiceAssumption DEF DocTypes, orderVars, moneyVars,
         keyVars, worldVars, histVars
  <2>1. ASSUME NEW k \in Keys \cup {NoKey}, TopUpStart(p, k) PROVE DocTypes'
    BY <2>1, BeginAt DEF TopUpStart, Begin
  <2>2. CASE TopUpCached(p)
    BY <2>2 DEF TopUpCached
  <2>3. CASE TopUpLock(p)
    BY <2>3, LabelMeans DEF TopUpLock
  <2>4. CASE TopUpRead(p)
    BY <2>4 DEF TopUpRead
  <2>5. CASE TopUpDebit(p)
    BY <2>5 DEF TopUpDebit
  <2>6. CASE TopUpExtend(p)
    BY <2>6 DEF TopUpExtend
  <2>7. CASE TopUpRefused(p)
    <3>1. remote' = remote \/ \E a \in {"gb", "password", "allowed", "address"} :
              remote' = [remote EXCEPT ![a] = @ + 1]
      BY <2>7, LabelMeans DEF TopUpRefused
    <3>2. /\ remote' \in [{"gb", "used", "password", "allowed", "address"} -> Nat]
          /\ remote'["used"] <= remote'["gb"]
      BY <3>1
    <3>3. unsure' \subseteq Aspects \cup {"status"}
      BY <2>7, LabelMeans DEF TopUpRefused, Aspects
    <3> QED  BY <2>7, <3>2, <3>3 DEF TopUpRefused
  <2>8. CASE TopUpRefund(p)
    BY <2>8 DEF TopUpRefund
  <2>9. CASE TopUpSave(p)
    BY <2>9 DEF TopUpSave, Statuses
  <2>10. CASE TopUpKeep(p)
    BY <2>10, LabelMeans DEF TopUpKeep
  <2>11. ASSUME NEW a \in {"password", "allowed"}, EditStart(p, a) PROVE DocTypes'
    BY <2>11, BeginAt DEF EditStart, Begin
  <2>12. CASE EditCall(p)
    BY <2>12, LabelMeans DEF EditCall
  <2>13. CASE EditRefused(p)
    <3>1. remote' = remote \/ \E a \in {"gb", "password", "allowed", "address"} :
              remote' = [remote EXCEPT ![a] = @ + 1]
      BY <2>13, LabelMeans DEF EditRefused
    <3>2. /\ remote' \in [{"gb", "used", "password", "allowed", "address"} -> Nat]
          /\ remote'["used"] <= remote'["gb"]
      BY <3>1
    <3>3. unsure' \subseteq Aspects \cup {"status"}
      BY <2>13, LabelMeans DEF EditRefused, Aspects
    <3> QED  BY <2>13, <3>2, <3>3 DEF EditRefused
  <2>14. CASE EditWrite(p)
    BY <2>14, LabelMeans DEF EditWrite
  <2>15. CASE EditCredentials(p)
    BY <2>15 DEF EditCredentials
  <2>16. CASE EditFails(p)
    BY <2>16 DEF EditFails, Aspects
  <2>17. CASE RotateStart(p)
    BY <2>17, BeginAt DEF RotateStart, Begin
  <2>18. CASE RotateFind(p)
    BY <2>18 DEF RotateFind
  <2>19. CASE RotateCall(p)
    <3>1. remote' = remote \/ remote' = [remote EXCEPT !["address"] = @ + 1]
      BY <2>19 DEF RotateCall
    <3>2. /\ remote' \in [{"gb", "used", "password", "allowed", "address"} -> Nat]
          /\ remote'["used"] <= remote'["gb"]
      BY <3>1
    <3>3. unsure' \subseteq Aspects \cup {"status"}
      BY <2>19 DEF RotateCall, Aspects
    <3> QED  BY <2>19, <3>2, <3>3 DEF RotateCall
  <2>20. CASE RotateRefused(p)
    <3>1. remote' = remote \/ \E a \in {"gb", "password", "allowed", "address"} :
              remote' = [remote EXCEPT ![a] = @ + 1]
      BY <2>20, LabelMeans DEF RotateRefused
    <3>2. /\ remote' \in [{"gb", "used", "password", "allowed", "address"} -> Nat]
          /\ remote'["used"] <= remote'["gb"]
      BY <3>1
    <3>3. unsure' \subseteq Aspects \cup {"status"}
      BY <2>20, LabelMeans DEF RotateRefused, Aspects
    <3> QED  BY <2>20, <3>2, <3>3 DEF RotateRefused
  <2>21. CASE RotateStore(p)
    BY <2>21 DEF RotateStore
  <2>22. CASE RotateCool(p)
    BY <2>22 DEF RotateCool
  <2>23. CASE RefetchStart(p)
    BY <2>23, BeginAt DEF RefetchStart, Begin
  <2>24. CASE RefetchCall(p)
    BY <2>24 DEF RefetchCall
  <2>25. CASE RefetchRefused(p)
    BY <2>25 DEF RefetchRefused
  <2>26. CASE RefetchStore(p)
    BY <2>26 DEF RefetchStore
  <2>27. CASE SyncStart(p)
    BY <2>27 DEF SyncStart, Doing
  <2>28. CASE SyncFetch(p)
    BY <2>28 DEF SyncFetch
  <2>29. CASE SyncRefused(p)
    BY <2>29 DEF SyncRefused
  <2>30. CASE SyncMark(p)
    BY <2>30 DEF SyncMark, Statuses
  <2>31. CASE Abort(p)
    BY <2>31 DEF Abort, InHand, Touches, Aspects
  <2> QED
    BY <2>1, <2>2, <2>3, <2>4, <2>5, <2>6, <2>7, <2>8, <2>9, <2>10, <2>11, <2>12, <2>13, <2>14,
       <2>15, <2>16, <2>17, <2>18, <2>19, <2>20, <2>21, <2>22, <2>23, <2>24, <2>25, <2>26,
       <2>27, <2>28, <2>29, <2>30, <2>31 DEF Act, TopUp, Edit, Rotate, Refetch, Sync
<1> QED  BY <1>1, <1>2, <1>3 DEF Next, Act

\* Every step keeps the types of the executions.
LEMMA ProcStep ==
    ASSUME DocTypes, ProcTypes, ControlInv, [Next]_vars
    PROVE  ProcTypes'
<1>1. CASE Environment
  BY <1>1 DEF Environment, Consume, UpdateProxy, AdminCancel, Expire, Close, EndPasses,
     SwitchPartner, Cooled, Lapse, ProcTypes
<1>2. CASE UNCHANGED vars
  BY <1>2 DEF ProcTypes, vars
<1>3. ASSUME NEW p \in Procs, Act(p) PROVE ProcTypes'
  <2> USE <1>3, JobTypes, IdleType, HandType, GotoType, FinishType DEF Labels
  <2>1. ASSUME NEW k \in Keys \cup {NoKey}, TopUpStart(p, k) PROVE ProcTypes'
    BY <2>1, TopUpType
  <2>2. CASE TopUpCached(p)
    BY <2>2 DEF TopUpCached
  <2>3. CASE TopUpLock(p)
    BY <2>3 DEF TopUpLock
  <2>4. CASE TopUpRead(p)
    BY <2>4 DEF TopUpRead, DocTypes
  <2>5. CASE TopUpDebit(p)
    BY <2>5 DEF TopUpDebit
  <2>6. CASE TopUpExtend(p)
    BY <2>6 DEF TopUpExtend
  <2>7. CASE TopUpRefused(p)
    BY <2>7 DEF TopUpRefused
  <2>8. CASE TopUpRefund(p)
    BY <2>8 DEF TopUpRefund
  <2>9. CASE TopUpSave(p)
    BY <2>9 DEF TopUpSave
  <2>10. CASE TopUpKeep(p)
    BY <2>10 DEF TopUpKeep
  <2>11. ASSUME NEW a \in {"password", "allowed"}, EditStart(p, a) PROVE ProcTypes'
    BY <2>11 DEF EditStart, Begin, Doings
  <2>12. CASE EditCall(p)
    <3>1. remote[job[p].does] + 1 \in Nat
      BY <2>12, LabelMeans, RemoteTypes DEF EditCall
    <3> QED  BY <2>12, <3>1 DEF EditCall
  <2>13. CASE EditRefused(p)
    BY <2>13 DEF EditRefused
  <2>14. CASE EditWrite(p)
    BY <2>14 DEF EditWrite
  <2>15. CASE EditCredentials(p)
    BY <2>15 DEF EditCredentials
  <2>16. CASE EditFails(p)
    BY <2>16 DEF EditFails
  <2>17. CASE RotateStart(p)
    BY <2>17 DEF RotateStart, Begin, Doings
  <2>18. CASE RotateFind(p)
    BY <2>18 DEF RotateFind
  <2>19. CASE RotateCall(p)
    <3>1. remote["address"] + 1 \in Nat
      BY RemoteTypes
    <3> QED  BY <2>19, <3>1 DEF RotateCall
  <2>20. CASE RotateRefused(p)
    BY <2>20 DEF RotateRefused
  <2>21. CASE RotateStore(p)
    BY <2>21 DEF RotateStore
  <2>22. CASE RotateCool(p)
    BY <2>22 DEF RotateCool
  <2>23. CASE RefetchStart(p)
    BY <2>23 DEF RefetchStart, Begin, Doings
  <2>24. CASE RefetchCall(p)
    BY <2>24 DEF RefetchCall, DocTypes
  <2>25. CASE RefetchRefused(p)
    BY <2>25 DEF RefetchRefused
  <2>26. CASE RefetchStore(p)
    BY <2>26 DEF RefetchStore
  <2>27. CASE SyncStart(p)
    BY <2>27 DEF SyncStart, DocTypes
  <2>28. CASE SyncFetch(p)
    BY <2>28 DEF SyncFetch, DocTypes
  <2>29. CASE SyncRefused(p)
    BY <2>29 DEF SyncRefused
  <2>30. CASE SyncMark(p)
    BY <2>30 DEF SyncMark
  <2>31. CASE Abort(p)
    BY <2>31 DEF Abort
  <2> QED
    BY <2>1, <2>2, <2>3, <2>4, <2>5, <2>6, <2>7, <2>8, <2>9, <2>10, <2>11, <2>12, <2>13, <2>14,
       <2>15, <2>16, <2>17, <2>18, <2>19, <2>20, <2>21, <2>22, <2>23, <2>24, <2>25, <2>26,
       <2>27, <2>28, <2>29, <2>30, <2>31 DEF Act, TopUp, Edit, Rotate, Refetch, Sync
<1> QED  BY <1>1, <1>2, <1>3 DEF Next, Act

-----------------------------------------------------------------------------
(* What the steps that take something in hand make of it.                  *)

\* A hand with other values does the same.
LEMMA HandFields ==
    ASSUME NEW j \in Jobs, NEW v, NEW w, NEW s, NEW k, NEW d
    PROVE  /\ LET i == [j EXCEPT !.new = v] IN
              i.does = j.does /\ i.key = j.key /\ i.gb = j.gb /\ i.status = j.status /\ i.new = v
           /\ LET i == [j EXCEPT !.new = v, !.address = w] IN
              i.does = j.does /\ i.key = j.key /\ i.new = v /\ i.address = w
           /\ LET i == [j EXCEPT !.status = s, !.gb = v] IN
              i.does = j.does /\ i.key = j.key /\ i.gb = v /\ i.status = s
           /\ LET i == [Idle EXCEPT !.does = d, !.key = k] IN i.does = d /\ i.key = k
           /\ LET i == [Idle EXCEPT !.does = d] IN i.does = d /\ i.key = NoKey
           /\ LET i == [Idle EXCEPT !.does = "sync", !.gb = v] IN
              i.does = "sync" /\ i.key = NoKey /\ i.gb = v
           /\ Idle.does = "nothing" /\ Idle.key = NoKey
<1>1. Idle.does = "nothing" /\ Idle.key = NoKey
  BY DEF Idle
<1> QED  BY <1>1, IdleType DEF Jobs

\* An ended execution does nothing.
LEMMA IdleFields == Idle.does = "nothing" /\ Idle.key = NoKey
  BY DEF Idle

LEMMA TopUpStartAt ==
    ASSUME ProcTypes, NEW p \in Procs, NEW k, TopUpStart(p, k)
    PROVE  /\ pc'[p] \in {"read", "cached"} /\ (pc'[p] = "cached" => k # NoKey)
           /\ job'[p].does = "gb" /\ job'[p].key = k /\ pc[p] = "idle"
           /\ pc'[p] = "read" => k = NoKey
<1>1. /\ pc'[p] = (IF k = NoKey THEN "read" ELSE "cached") /\ pc[p] = "idle"
      /\ job'[p] = [Idle EXCEPT !.does = "gb", !.key = k]
  BY BeginAt DEF TopUpStart
<1> QED  BY <1>1, HandFields, IdleType

LEMMA TopUpReadAt ==
    ASSUME ProcTypes, NEW p \in Procs, TopUpRead(p)
    PROVE  /\ pc[p] = "read"
           /\ \/ pc'[p] = "idle" /\ job'[p] = Idle
              \/ /\ pc'[p] = "debit" /\ status \in Usable
                 /\ job'[p].does = job[p].does /\ job'[p].key = job[p].key
                 /\ job'[p].status = status /\ job'[p].gb = gb
<1>1. CASE Operable
  <2>1. pc'[p] = "debit" /\ job'[p] = [job[p] EXCEPT !.status = status, !.gb = gb]
    BY <1>1, GotoAt DEF TopUpRead
  <2> QED  BY <1>1, <2>1, HandFields, JobTypes DEF TopUpRead, Operable
<1>2. CASE ~Operable
  BY <1>2, FinishAt DEF TopUpRead
<1> QED  BY <1>1, <1>2

LEMMA EditStartAt ==
    ASSUME ProcTypes, NEW p \in Procs, NEW a, EditStart(p, a)
    PROVE  pc'[p] = "call" /\ job'[p].does = a /\ job'[p].key = NoKey /\ pc[p] = "idle"
<1>1. pc'[p] = "call" /\ pc[p] = "idle" /\ job'[p] = [Idle EXCEPT !.does = a]
  BY BeginAt DEF EditStart
<1> QED  BY <1>1, HandFields, IdleType

LEMMA EditCallAt ==
    ASSUME ProcTypes, NEW p \in Procs, EditCall(p)
    PROVE  /\ pc[p] = "call" /\ pc'[p] = "write"
           /\ job'[p].does = job[p].does /\ job'[p].key = job[p].key
           /\ job'[p].new = remote[job[p].does] + 1
<1>1. job'[p] = [job[p] EXCEPT !.new = remote[job[p].does] + 1] /\ pc'[p] = "write"
  BY GotoAt DEF EditCall
<1> QED  BY <1>1, HandFields, JobTypes DEF EditCall

LEMMA RotateStartAt ==
    ASSUME ProcTypes, NEW p \in Procs, RotateStart(p)
    PROVE  pc'[p] = "find" /\ job'[p].does = "address" /\ job'[p].key = NoKey /\ pc[p] = "idle"
<1>1. pc'[p] = "find" /\ pc[p] = "idle" /\ job'[p] = [Idle EXCEPT !.does = "address"]
  BY BeginAt DEF RotateStart
<1> QED  BY <1>1, HandFields, IdleType

LEMMA RotateCallAt ==
    ASSUME ProcTypes, NEW p \in Procs, RotateCall(p)
    PROVE  /\ pc[p] = "rotate"
           /\ job'[p].does = job[p].does /\ job'[p].key = job[p].key
           /\ \/ /\ pc'[p] = "stored" /\ job'[p].new = remote["address"] + 1
                 /\ remote' = [remote EXCEPT !["address"] = @ + 1]
              \/ pc'[p] = "cool" /\ (remote' = remote \/ "address" \in unsure')
<1>1. CASE Goto(p, "stored", [job[p] EXCEPT !.new = remote["address"] + 1])
           /\ remote' = [remote EXCEPT !["address"] = @ + 1]
  <2>1. pc'[p] = "stored" /\ job'[p] = [job[p] EXCEPT !.new = remote["address"] + 1]
    BY <1>1, GotoAt
  <2> QED  BY <1>1, <2>1, HandFields, JobTypes DEF RotateCall
<1>2. CASE Goto(p, "cool", job[p]) /\ (remote' = remote \/ "address" \in unsure')
  BY <1>2, GotoAt DEF RotateCall
<1> QED  BY <1>1, <1>2 DEF RotateCall

LEMMA RefetchStartAt ==
    ASSUME ProcTypes, NEW p \in Procs, RefetchStart(p)
    PROVE  pc'[p] = "again" /\ job'[p].does = "proxies" /\ job'[p].key = NoKey /\ pc[p] = "idle"
<1>1. pc'[p] = "again" /\ pc[p] = "idle" /\ job'[p] = [Idle EXCEPT !.does = "proxies"]
  BY BeginAt DEF RefetchStart
<1> QED  BY <1>1, HandFields, IdleType

LEMMA RefetchCallAt ==
    ASSUME ProcTypes, NEW p \in Procs, RefetchCall(p)
    PROVE  /\ pc[p] = "again" /\ pc'[p] = "overwrite"
           /\ job'[p].does = job[p].does /\ job'[p].key = job[p].key
           /\ job'[p].new = remote["password"] /\ job'[p].address = remote["address"]
<1>1. /\ pc[p] = "again" /\ pc'[p] = "overwrite"
      /\ job'[p] = [job[p] EXCEPT !.new = remote["password"], !.address = remote["address"]]
  BY GotoAt DEF RefetchCall
<1> QED  BY <1>1, HandFields, JobTypes

LEMMA SyncStartAt ==
    ASSUME ProcTypes, NEW p \in Procs, SyncStart(p)
    PROVE  /\ pc'[p] = "fetch" /\ job'[p].does = "sync" /\ job'[p].key = NoKey /\ pc[p] = "idle"
           /\ job'[p].gb = gb
<1>1. pc'[p] = "fetch" /\ job'[p] = [Idle EXCEPT !.does = "sync", !.gb = gb] /\ pc[p] = "idle"
  BY GotoAt DEF SyncStart
<1> QED  BY <1>1, HandFields, IdleType

LEMMA SyncFetchAt ==
    ASSUME ProcTypes, NEW p \in Procs, SyncFetch(p)
    PROVE  /\ pc[p] = "fetch" /\ pc'[p] = "mark" /\ job'[p].does = job[p].does
           /\ job'[p].key = job[p].key /\ job'[p].gb = job[p].gb
<1>1. pc[p] = "fetch" /\ pc'[p] = "mark" /\ job'[p] = [job[p] EXCEPT !.new = remote["used"]]
  BY GotoAt DEF SyncFetch
<1> QED  BY <1>1, HandFields, JobTypes

-----------------------------------------------------------------------------
(* Labels, and who is alone with an aspect.                                *)

\* A step of one execution leaves the others where they are.
LEMMA OthersSame ==
    ASSUME ProcTypes, NEW p \in Procs, Act(p)
    PROVE  \A q \in Procs \ {p} : pc'[q] = pc[q] /\ job'[q] = job[q]
<1>1. ASSUME NEW k \in Keys \cup {NoKey}, TopUpStart(p, k)
      PROVE  \A q \in Procs \ {p} : pc'[q] = pc[q] /\ job'[q] = job[q]
  BY <1>1, BeginAt DEF TopUpStart
<1>2. CASE TopUpCached(p)
  BY <1>2, GotoAt, FinishAt DEF TopUpCached
<1>3. CASE TopUpLock(p)
  BY <1>3, GotoAt, FinishAt DEF TopUpLock
<1>4. CASE TopUpRead(p)
  BY <1>4, GotoAt, FinishAt DEF TopUpRead
<1>5. CASE TopUpDebit(p)
  BY <1>5, GotoAt, FinishAt DEF TopUpDebit
<1>6. CASE TopUpExtend(p)
  BY <1>6, GotoAt, FinishAt DEF TopUpExtend
<1>7. CASE TopUpRefused(p)
  BY <1>7, GotoAt, FinishAt DEF TopUpRefused
<1>8. CASE TopUpRefund(p)
  BY <1>8, GotoAt, FinishAt DEF TopUpRefund
<1>9. CASE TopUpSave(p)
  BY <1>9, GotoAt, FinishAt DEF TopUpSave
<1>10. CASE TopUpKeep(p)
  BY <1>10, GotoAt, FinishAt DEF TopUpKeep
<1>11. ASSUME NEW a \in {"password", "allowed"}, EditStart(p, a)
      PROVE  \A q \in Procs \ {p} : pc'[q] = pc[q] /\ job'[q] = job[q]
  BY <1>11, BeginAt DEF EditStart
<1>12. CASE EditCall(p)
  BY <1>12, GotoAt, FinishAt DEF EditCall
<1>13. CASE EditRefused(p)
  BY <1>13, GotoAt, FinishAt DEF EditRefused
<1>14. CASE EditWrite(p)
  BY <1>14, GotoAt, FinishAt DEF EditWrite
<1>15. CASE EditCredentials(p)
  BY <1>15, GotoAt, FinishAt DEF EditCredentials
<1>16. CASE EditFails(p)
  BY <1>16, GotoAt, FinishAt DEF EditFails
<1>17. CASE RotateStart(p)
  BY <1>17, BeginAt DEF RotateStart
<1>18. CASE RotateFind(p)
  BY <1>18, GotoAt, FinishAt DEF RotateFind
<1>19. CASE RotateCall(p)
  BY <1>19, GotoAt, FinishAt DEF RotateCall
<1>20. CASE RotateRefused(p)
  BY <1>20, GotoAt, FinishAt DEF RotateRefused
<1>21. CASE RotateStore(p)
  BY <1>21, GotoAt, FinishAt DEF RotateStore
<1>22. CASE RotateCool(p)
  BY <1>22, GotoAt, FinishAt DEF RotateCool
<1>23. CASE RefetchStart(p)
  BY <1>23, BeginAt DEF RefetchStart
<1>24. CASE RefetchCall(p)
  BY <1>24, GotoAt, FinishAt DEF RefetchCall
<1>25. CASE RefetchRefused(p)
  BY <1>25, GotoAt, FinishAt DEF RefetchRefused
<1>26. CASE RefetchStore(p)
  BY <1>26, GotoAt, FinishAt DEF RefetchStore
<1>27. CASE SyncStart(p)
  BY <1>27, GotoAt, FinishAt DEF SyncStart
<1>28. CASE SyncFetch(p)
  BY <1>28, GotoAt, FinishAt DEF SyncFetch
<1>29. CASE SyncRefused(p)
  BY <1>29, GotoAt, FinishAt DEF SyncRefused
<1>30. CASE SyncMark(p)
  BY <1>30, GotoAt, FinishAt DEF SyncMark
<1>31. CASE Abort(p)
  BY <1>31, GotoAt, FinishAt DEF Abort
<1> QED
  BY <1>1, <1>2, <1>3, <1>4, <1>5, <1>6, <1>7, <1>8, <1>9, <1>10, <1>11, <1>12, <1>13, <1>14,
     <1>15, <1>16, <1>17, <1>18, <1>19, <1>20, <1>21, <1>22, <1>23, <1>24, <1>25, <1>26, <1>27,
     <1>28, <1>29, <1>30, <1>31 DEF Act, TopUp, Edit, Rotate, Refetch, Sync

\* The environment leaves them all.
LEMMA OutsideSame ==
    ASSUME Environment \/ UNCHANGED vars
    PROVE  UNCHANGED <<pc, job, gb, spent>>
  BY DEF Environment, Consume, UpdateProxy, AdminCancel, Expire, Close, EndPasses,
     SwitchPartner, Cooled, Lapse, vars, orderVars, moneyVars

\* A request keeps what it does and its key until it ends.
LEMMA DoesKept ==
    ASSUME ProcTypes, NEW p \in Procs, Act(p), pc[p] # "idle"
    PROVE  \/ job'[p] = Idle /\ pc'[p] = "idle"
           \/ job'[p].does = job[p].does /\ job'[p].key = job[p].key
<1> USE JobTypes DEF Jobs
<1>1. ASSUME NEW k \in Keys \cup {NoKey}, TopUpStart(p, k)
      PROVE  \/ job'[p] = Idle /\ pc'[p] = "idle"
             \/ job'[p].does = job[p].does /\ job'[p].key = job[p].key
  BY <1>1, TopUpStartAt
<1>2. CASE TopUpCached(p)
  BY <1>2, GotoAt, FinishAt DEF TopUpCached
<1>3. CASE TopUpLock(p)
  BY <1>3, GotoAt, FinishAt DEF TopUpLock
<1>4. CASE TopUpRead(p)
  BY <1>4, TopUpReadAt
<1>5. CASE TopUpDebit(p)
  BY <1>5, GotoAt, FinishAt DEF TopUpDebit
<1>6. CASE TopUpExtend(p)
  BY <1>6, GotoAt, FinishAt DEF TopUpExtend
<1>7. CASE TopUpRefused(p)
  BY <1>7, GotoAt, FinishAt DEF TopUpRefused
<1>8. CASE TopUpRefund(p)
  BY <1>8, GotoAt, FinishAt DEF TopUpRefund
<1>9. CASE TopUpSave(p)
  BY <1>9, GotoAt, FinishAt DEF TopUpSave
<1>10. CASE TopUpKeep(p)
  BY <1>10, GotoAt, FinishAt DEF TopUpKeep
<1>11. ASSUME NEW a \in {"password", "allowed"}, EditStart(p, a)
      PROVE  \/ job'[p] = Idle /\ pc'[p] = "idle"
             \/ job'[p].does = job[p].does /\ job'[p].key = job[p].key
  BY <1>11, EditStartAt
<1>12. CASE EditCall(p)
  BY <1>12, EditCallAt
<1>13. CASE EditRefused(p)
  BY <1>13, GotoAt, FinishAt DEF EditRefused
<1>14. CASE EditWrite(p)
  BY <1>14, GotoAt, FinishAt DEF EditWrite
<1>15. CASE EditCredentials(p)
  BY <1>15, GotoAt, FinishAt DEF EditCredentials
<1>16. CASE EditFails(p)
  BY <1>16, GotoAt, FinishAt DEF EditFails
<1>17. CASE RotateStart(p)
  BY <1>17, RotateStartAt
<1>18. CASE RotateFind(p)
  BY <1>18, GotoAt, FinishAt DEF RotateFind
<1>19. CASE RotateCall(p)
  BY <1>19, RotateCallAt
<1>20. CASE RotateRefused(p)
  BY <1>20, GotoAt, FinishAt DEF RotateRefused
<1>21. CASE RotateStore(p)
  BY <1>21, GotoAt, FinishAt DEF RotateStore
<1>22. CASE RotateCool(p)
  BY <1>22, GotoAt, FinishAt DEF RotateCool
<1>23. CASE RefetchStart(p)
  BY <1>23, RefetchStartAt
<1>24. CASE RefetchCall(p)
  BY <1>24, RefetchCallAt
<1>25. CASE RefetchRefused(p)
  BY <1>25, GotoAt, FinishAt DEF RefetchRefused
<1>26. CASE RefetchStore(p)
  BY <1>26, GotoAt, FinishAt DEF RefetchStore
<1>27. CASE SyncStart(p)
  BY <1>27, SyncStartAt
<1>28. CASE SyncFetch(p)
  BY <1>28, SyncFetchAt
<1>29. CASE SyncRefused(p)
  BY <1>29, GotoAt, FinishAt DEF SyncRefused
<1>30. CASE SyncMark(p)
  BY <1>30, GotoAt, FinishAt DEF SyncMark
<1>31. CASE Abort(p)
  BY <1>31, GotoAt, FinishAt DEF Abort
<1> QED
  BY <1>1, <1>2, <1>3, <1>4, <1>5, <1>6, <1>7, <1>8, <1>9, <1>10, <1>11, <1>12, <1>13, <1>14,
     <1>15, <1>16, <1>17, <1>18, <1>19, <1>20, <1>21, <1>22, <1>23, <1>24, <1>25, <1>26, <1>27,
     <1>28, <1>29, <1>30, <1>31 DEF Act, TopUp, Edit, Rotate, Refetch, Sync

\* Labels and requests, as a table.
LEMMA LabelTable ==
    ASSUME NEW d \in Doings, NEW l
    PROVE  l \in LabelsOf(d) <=>
               \/ d = "gb" /\ l \in {"cached", "lock", "read", "keep", "debit", "extend", "refund",
                                     "save"}
               \/ d = "password" /\ l \in {"call", "write", "credentials"}
               \/ d = "allowed" /\ l \in {"call", "write"}
               \/ d = "address" /\ l \in {"find", "rotate", "stored", "cool"}
               \/ d = "proxies" /\ l \in {"again", "overwrite"}
               \/ d = "sync" /\ l \in {"fetch", "mark"}
               \/ d = "nothing" /\ l = "idle"
<1>1. CASE d = "gb"  BY <1>1 DEF LabelsOf, Entered, Paying
<1>2. CASE d = "password"  BY <1>2 DEF LabelsOf
<1>3. CASE d = "allowed"  BY <1>3 DEF LabelsOf
<1>4. CASE d = "address"  BY <1>4 DEF LabelsOf
<1>5. CASE d = "proxies"  BY <1>5 DEF LabelsOf
<1>6. CASE d = "sync"  BY <1>6 DEF LabelsOf
<1>7. CASE d = "nothing"  BY <1>7 DEF LabelsOf
<1> QED  BY <1>1, <1>2, <1>3, <1>4, <1>5, <1>6, <1>7 DEF Doings

\* An execution stays with the labels of its request.
LEMMA ControlAtStep ==
    ASSUME ProcTypes, ControlInv, NEW p \in Procs, Act(p)
    PROVE  ControlAt(p)'
<1> USE LabelMeans, LabelTable, IdleFields DEF ControlAt, Entered, Paying, Doings
<1>0. /\ job[p].key # NoKey => job[p].does = "gb"
      /\ pc[p] \in {"cached", "lock", "keep"} => job[p].key # NoKey
  BY DEF ControlInv
<1>1. ASSUME NEW k \in Keys \cup {NoKey}, TopUpStart(p, k) PROVE ControlAt(p)'
  BY <1>1, TopUpStartAt, <1>0
<1>2. CASE TopUpCached(p)
  BY <1>2, GotoAt, FinishAt, <1>0 DEF TopUpCached
<1>3. CASE TopUpLock(p)
  BY <1>3, GotoAt, FinishAt, <1>0 DEF TopUpLock
<1>4. CASE TopUpRead(p)
  BY <1>4, TopUpReadAt, <1>0
<1>5. CASE TopUpDebit(p)
  BY <1>5, GotoAt, FinishAt, <1>0 DEF TopUpDebit
<1>6. CASE TopUpExtend(p)
  BY <1>6, GotoAt, FinishAt, <1>0 DEF TopUpExtend
<1>7. CASE TopUpRefused(p)
  BY <1>7, GotoAt, FinishAt, <1>0 DEF TopUpRefused
<1>8. CASE TopUpRefund(p)
  BY <1>8, GotoAt, FinishAt, <1>0 DEF TopUpRefund
<1>9. CASE TopUpSave(p)
  BY <1>9, GotoAt, FinishAt, <1>0 DEF TopUpSave
<1>10. CASE TopUpKeep(p)
  BY <1>10, GotoAt, FinishAt, <1>0 DEF TopUpKeep
<1>11. ASSUME NEW a \in {"password", "allowed"}, EditStart(p, a) PROVE ControlAt(p)'
  BY <1>11, EditStartAt, <1>0
<1>12. CASE EditCall(p)
  BY <1>12, EditCallAt, <1>0
<1>13. CASE EditRefused(p)
  BY <1>13, GotoAt, FinishAt, <1>0 DEF EditRefused
<1>14. CASE EditWrite(p)
  BY <1>14, GotoAt, FinishAt, <1>0 DEF EditWrite
<1>15. CASE EditCredentials(p)
  BY <1>15, GotoAt, FinishAt, <1>0 DEF EditCredentials
<1>16. CASE EditFails(p)
  BY <1>16, GotoAt, FinishAt, <1>0 DEF EditFails
<1>17. CASE RotateStart(p)
  BY <1>17, RotateStartAt, <1>0
<1>18. CASE RotateFind(p)
  BY <1>18, GotoAt, FinishAt, <1>0 DEF RotateFind
<1>19. CASE RotateCall(p)
  BY <1>19, RotateCallAt, <1>0
<1>20. CASE RotateRefused(p)
  BY <1>20, GotoAt, FinishAt, <1>0 DEF RotateRefused
<1>21. CASE RotateStore(p)
  BY <1>21, GotoAt, FinishAt, <1>0 DEF RotateStore
<1>22. CASE RotateCool(p)
  BY <1>22, GotoAt, FinishAt, <1>0 DEF RotateCool
<1>23. CASE RefetchStart(p)
  BY <1>23, RefetchStartAt, <1>0
<1>24. CASE RefetchCall(p)
  BY <1>24, RefetchCallAt, <1>0
<1>25. CASE RefetchRefused(p)
  BY <1>25, GotoAt, FinishAt, <1>0 DEF RefetchRefused
<1>26. CASE RefetchStore(p)
  BY <1>26, GotoAt, FinishAt, <1>0 DEF RefetchStore
<1>27. CASE SyncStart(p)
  BY <1>27, SyncStartAt, <1>0
<1>28. CASE SyncFetch(p)
  BY <1>28, SyncFetchAt, <1>0
<1>29. CASE SyncRefused(p)
  BY <1>29, GotoAt, FinishAt, <1>0 DEF SyncRefused
<1>30. CASE SyncMark(p)
  BY <1>30, GotoAt, FinishAt, <1>0 DEF SyncMark
<1>31. CASE Abort(p)
  BY <1>31, GotoAt, FinishAt, <1>0 DEF Abort
<1> QED
  BY <1>1, <1>2, <1>3, <1>4, <1>5, <1>6, <1>7, <1>8, <1>9, <1>10, <1>11, <1>12, <1>13, <1>14,
     <1>15, <1>16, <1>17, <1>18, <1>19, <1>20, <1>21, <1>22, <1>23, <1>24, <1>25, <1>26, <1>27,
     <1>28, <1>29, <1>30, <1>31 DEF Act, TopUp, Edit, Rotate, Refetch, Sync

LEMMA ControlStep ==
    ASSUME ProcTypes, ControlInv, [Next]_vars
    PROVE  ControlInv'
<1>1. CASE Environment \/ UNCHANGED vars
  BY <1>1, OutsideSame DEF ControlInv, ControlAt
<1>2. ASSUME NEW p \in Procs, Act(p) PROVE ControlInv'
  BY <1>2, OthersSame, ControlAtStep DEF ControlInv, ControlAt
<1> QED  BY <1>1, <1>2 DEF Next, Act

\* Only reading the proxies again makes an aspect sure: its address, if nothing
\* else changes it.
LEMMA SureStep ==
    ASSUME ProcTypes, NEW p \in Procs, Act(p), NEW a \in unsure, a \notin unsure'
    PROVE  /\ a = "address" /\ RefetchCall(p)
           /\ \A q \in Procs \ {p} : job[q].does \notin Changers("address")
<1> USE DEF histVars
<1>0. "address" \notin Touched(p) =>
          \A q \in Procs \ {p} : job[q].does \notin Changers("address")
  BY TouchMeans DEF Touched, Aspects
<1>1. CASE TopUp(p)
  BY <1>1 DEF TopUp, TopUpStart, TopUpCached, TopUpLock, TopUpRead, TopUpDebit, TopUpExtend,
     TopUpRefused, TopUpRefund, TopUpSave, TopUpKeep, Begin
<1>2. CASE Edit(p)
  BY <1>2 DEF Edit, EditStart, EditCall, EditRefused, EditWrite, EditCredentials, EditFails,
     Begin
<1>3. CASE Rotate(p)
  BY <1>3 DEF Rotate, RotateStart, RotateFind, RotateCall, RotateRefused, RotateStore,
     RotateCool, Begin
<1>4. CASE RefetchStart(p)
  BY <1>4 DEF RefetchStart, Begin
<1>5. CASE RefetchCall(p)
  BY <1>5, <1>0 DEF RefetchCall
<1>6. CASE RefetchRefused(p)
  BY <1>6 DEF RefetchRefused
<1>7. CASE RefetchStore(p)
  BY <1>7 DEF RefetchStore
<1>8. CASE SyncStart(p)
  BY <1>8 DEF SyncStart
<1>9. CASE Sync(p)
  BY <1>9 DEF Sync, SyncFetch, SyncRefused, SyncMark
<1>10. CASE Abort(p)
  BY <1>10 DEF Abort
<1> QED
  BY <1>1, <1>2, <1>3, <1>4, <1>5, <1>6, <1>7, <1>8, <1>9, <1>10 DEF Act, Refetch

\* The environment makes nothing sure.
LEMMA SureOutside ==
    ASSUME Environment \/ UNCHANGED vars
    PROVE  unsure \subseteq unsure'
  BY DEF Environment, Consume, UpdateProxy, AdminCancel, Expire, Close, EndPasses,
     SwitchPartner, Cooled, Lapse, vars, histVars

\* A request that starts on an aspect that stays sure is alone with it.
LEMMA StartAlone ==
    ASSUME ProcTypes, ControlInv, NEW p \in Procs, Act(p), pc[p] = "idle",
           NEW a \in Aspects, a \notin unsure', job'[p].does \in Changers(a)
    PROVE  \A q \in Procs \ {p} : job[q].does \notin Changers(a)
<1>1. ASSUME NEW k \in Keys \cup {NoKey}, TopUpStart(p, k)
      PROVE  \A q \in Procs \ {p} : job[q].does \notin Changers(a)
  BY <1>1, BeginAt DEF TopUpStart
<1>2. ASSUME NEW b \in {"password", "allowed"}, EditStart(p, b)
      PROVE  \A q \in Procs \ {p} : job[q].does \notin Changers(a)
  BY <1>2, BeginAt DEF EditStart
<1>3. CASE RotateStart(p)
  BY <1>3, BeginAt DEF RotateStart
<1>4. CASE RefetchStart(p)
  BY <1>4, BeginAt DEF RefetchStart
<1>5. CASE SyncStart(p)
  <2>1. job'[p].does = "sync"
    BY <1>5, SyncStartAt
  <2> QED  BY <2>1 DEF Changers, Aspects
<1> QED
  BY <1>1, <1>2, <1>3, <1>4, <1>5 DEF Act, TopUp, TopUpCached, TopUpLock, TopUpRead,
     TopUpDebit, TopUpExtend, TopUpRefused, TopUpRefund, TopUpSave, TopUpKeep, Edit, EditCall,
     EditRefused, EditWrite, EditCredentials, EditFails, Rotate, RotateFind, RotateCall,
     RotateRefused, RotateStore, RotateCool, Refetch, RefetchCall, RefetchRefused,
     RefetchStore, Sync, SyncFetch, SyncRefused, SyncMark, Abort

\* While an aspect is not unsure, one execution at most changes it.
LEMMA AloneStep ==
    ASSUME ProcTypes, ControlInv, AloneInv, [Next]_vars
    PROVE  AloneInv'
<1>1. CASE Environment \/ UNCHANGED vars
  BY <1>1, OutsideSame, SureOutside DEF AloneInv, Alone
<1>2. ASSUME NEW p \in Procs, Act(p) PROVE AloneInv'
  <2> SUFFICES ASSUME NEW a \in Aspects, a \notin unsure',
                      NEW q \in Procs \ {p}, job'[p].does \in Changers(a)
               PROVE  job[q].does \notin Changers(a)
    <3>1. ASSUME NEW a \in Aspects, a \notin unsure' PROVE a \notin unsure \/ a = "address"
      <4> SUFFICES ASSUME a \in unsure PROVE a = "address"
        OBVIOUS
      <4> QED  BY <1>2, <3>1, SureStep
    <3> QED  BY <1>2, <3>1, OthersSame, SureStep DEF AloneInv, Alone
  <2>1. CASE pc[p] = "idle"
    BY <1>2, <2>1, StartAlone
  <2>2. CASE pc[p] # "idle" /\ a \in unsure
    BY <1>2, <2>2, SureStep
  <2>3. CASE pc[p] # "idle" /\ a \notin unsure
    <3>1. job'[p].does = job[p].does
      BY <1>2, <2>3, DoesKept DEF Idle, Changers, Aspects
    <3> QED  BY <2>3, <3>1 DEF AloneInv, Alone
  <2> QED  BY <2>1, <2>2, <2>3
<1> QED  BY <1>1, <1>2 DEF Next, Act

-----------------------------------------------------------------------------
(* Gigabytes.                                                              *)

\* While an aspect stays sure, the others do not change it when p does.
LEMMA OthersElsewhere ==
    ASSUME AloneInv, NEW a \in Aspects, a \notin unsure, NEW p \in Procs,
           job[p].does \in Changers(a)
    PROVE  \A q \in Procs \ {p} : job[q].does \notin Changers(a)
  BY DEF AloneInv, Alone

\* Who does not top up leaves the gigabytes alone.
LEMMA GbFrame ==
    ASSUME ProcTypes, DocTypes, ControlInv, NEW p \in Procs, Act(p), job[p].does # "gb"
    PROVE  /\ gb' = gb /\ remote'["gb"] = remote["gb"] /\ pc'[p] \notin Paying \cup {"keep"}
           /\ pc[p] \notin Entered
<1> USE LabelMeans DEF Paying, Entered, orderVars, worldVars, DocTypes
<1>1. ASSUME NEW k \in Keys \cup {NoKey}, TopUpStart(p, k)
      PROVE  /\ gb' = gb /\ remote'["gb"] = remote["gb"]
             /\ pc'[p] \notin Paying \cup {"keep"} /\ pc[p] \notin Entered
  BY <1>1, BeginAt, TopUpStartAt DEF TopUpStart, Begin
<1>2. CASE TopUpCached(p)
  BY <1>2, GotoAt, FinishAt DEF TopUpCached
<1>3. CASE TopUpLock(p)
  BY <1>3, GotoAt, FinishAt DEF TopUpLock
<1>4. CASE TopUpRead(p)
  BY <1>4, GotoAt, FinishAt, TopUpReadAt DEF TopUpRead
<1>5. CASE TopUpDebit(p)
  BY <1>5, GotoAt, FinishAt DEF TopUpDebit
<1>6. CASE TopUpExtend(p)
  BY <1>6, GotoAt, FinishAt DEF TopUpExtend
<1>7. CASE TopUpRefused(p)
  BY <1>7, GotoAt, FinishAt DEF TopUpRefused
<1>8. CASE TopUpRefund(p)
  BY <1>8, GotoAt, FinishAt DEF TopUpRefund
<1>9. CASE TopUpSave(p)
  BY <1>9, GotoAt, FinishAt DEF TopUpSave
<1>10. CASE TopUpKeep(p)
  BY <1>10, GotoAt, FinishAt DEF TopUpKeep
<1>11. ASSUME NEW a \in {"password", "allowed"}, EditStart(p, a)
      PROVE  /\ gb' = gb /\ remote'["gb"] = remote["gb"]
             /\ pc'[p] \notin Paying \cup {"keep"} /\ pc[p] \notin Entered
  BY <1>11, BeginAt, EditStartAt DEF EditStart, Begin
<1>12. CASE EditCall(p)
  BY <1>12, GotoAt, FinishAt, EditCallAt DEF EditCall
<1>13. CASE EditRefused(p)
  BY <1>13, GotoAt, FinishAt DEF EditRefused
<1>14. CASE EditWrite(p)
  BY <1>14, GotoAt, FinishAt DEF EditWrite
<1>15. CASE EditCredentials(p)
  BY <1>15, GotoAt, FinishAt DEF EditCredentials
<1>16. CASE EditFails(p)
  BY <1>16, GotoAt, FinishAt DEF EditFails
<1>17. CASE RotateStart(p)
  BY <1>17, BeginAt, RotateStartAt DEF RotateStart, Begin
<1>18. CASE RotateFind(p)
  BY <1>18, GotoAt, FinishAt DEF RotateFind
<1>19. CASE RotateCall(p)
  BY <1>19, GotoAt, FinishAt, RotateCallAt DEF RotateCall
<1>20. CASE RotateRefused(p)
  BY <1>20, GotoAt, FinishAt DEF RotateRefused
<1>21. CASE RotateStore(p)
  BY <1>21, GotoAt, FinishAt DEF RotateStore
<1>22. CASE RotateCool(p)
  BY <1>22, GotoAt, FinishAt DEF RotateCool
<1>23. CASE RefetchStart(p)
  BY <1>23, BeginAt, RefetchStartAt DEF RefetchStart, Begin
<1>24. CASE RefetchCall(p)
  BY <1>24, GotoAt, FinishAt, RefetchCallAt DEF RefetchCall
<1>25. CASE RefetchRefused(p)
  BY <1>25, GotoAt, FinishAt DEF RefetchRefused
<1>26. CASE RefetchStore(p)
  BY <1>26, GotoAt, FinishAt DEF RefetchStore
<1>27. CASE SyncStart(p)
  BY <1>27, GotoAt, FinishAt, SyncStartAt DEF SyncStart
<1>28. CASE SyncFetch(p)
  BY <1>28, GotoAt, FinishAt, SyncFetchAt DEF SyncFetch
<1>29. CASE SyncRefused(p)
  BY <1>29, GotoAt, FinishAt DEF SyncRefused
<1>30. CASE SyncMark(p)
  BY <1>30, GotoAt, FinishAt DEF SyncMark
<1>31. CASE Abort(p)
  BY <1>31, GotoAt, FinishAt DEF Abort
<1> QED
  BY <1>1, <1>2, <1>3, <1>4, <1>5, <1>6, <1>7, <1>8, <1>9, <1>10, <1>11, <1>12, <1>13, <1>14,
     <1>15, <1>16, <1>17, <1>18, <1>19, <1>20, <1>21, <1>22, <1>23, <1>24, <1>25, <1>26, <1>27,
     <1>28, <1>29, <1>30, <1>31 DEF Act, TopUp, Edit, Rotate, Refetch, Sync

\* A top-up that meets no other keeps the count.
LEMMA GbOwn ==
    ASSUME ProcTypes, DocTypes, ControlInv, NEW p \in Procs, TopUp(p) \/ Abort(p),
           job[p].does = "gb", "gb" \notin unsure', GbAt(p),
           remote["gb"] = IF pc[p] = "save" THEN gb + 1 ELSE gb
    PROVE  /\ GbAt(p)'
           /\ remote'["gb"] = IF pc'[p] = "save" THEN gb' + 1 ELSE gb'
<1> USE DEF GbAt, Paying, orderVars, worldVars, histVars
<1>1. CASE TopUpCached(p) \/ TopUpLock(p) \/ TopUpDebit(p) \/ TopUpRefund(p) \/ TopUpKeep(p)
  BY <1>1, GotoAt, FinishAt DEF TopUpCached, TopUpLock, TopUpDebit, TopUpRefund, TopUpKeep
<1>2. CASE TopUpRead(p)
  BY <1>2, TopUpReadAt DEF TopUpRead
<1>3. CASE TopUpExtend(p)
  BY <1>3, GotoAt, RemoteTypes DEF TopUpExtend, DocTypes
<1>4. CASE TopUpRefused(p)
  BY <1>4, GotoAt DEF TopUpRefused
<1>5. CASE TopUpSave(p)
  <2>1. pc'[p] \in {"idle", "keep"}
    BY <1>5, GotoAt, FinishAt DEF TopUpSave
  <2> QED  BY <1>5, <2>1 DEF TopUpSave
<1>6. CASE Abort(p)
  <2>1. pc[p] # "save"
    BY <1>6 DEF Abort, HalfDone, Touches, Aspects
  <2> QED  BY <1>6, <2>1, FinishAt DEF Abort
<1>7. pc[p] # "idle"
  BY LabelMeans
<1>8. ~ \E k \in Keys \cup {NoKey} : TopUpStart(p, k)
  BY <1>7, TopUpStartAt
<1> QED  BY <1>1, <1>2, <1>3, <1>4, <1>5, <1>6, <1>8 DEF TopUp

\* Only the requests of an aspect step while they do it.
LEMMA GbActs ==
    ASSUME ProcTypes, ControlInv, NEW p \in Procs, Act(p), job[p].does = "gb"
    PROVE  TopUp(p) \/ Abort(p)
<1> USE LabelMeans DEF Edit, Rotate, Refetch, Sync
<1>1. ~(\E a \in {"password", "allowed"} : EditStart(p, a)) /\ ~RotateStart(p)
      /\ ~RefetchStart(p) /\ ~SyncStart(p)
  BY EditStartAt, RotateStartAt, RefetchStartAt, SyncStartAt
<1>2. ~Edit(p)
  BY <1>1 DEF EditCall, EditRefused, EditWrite, EditCredentials, EditFails
<1>3. ~Rotate(p)
  BY <1>1 DEF RotateFind, RotateCall, RotateRefused, RotateStore, RotateCool
<1>4. ~Refetch(p) /\ ~Sync(p)
  BY <1>1 DEF RefetchCall, RefetchRefused, RefetchStore, SyncFetch, SyncRefused, SyncMark
<1> QED  BY <1>1, <1>2, <1>3, <1>4 DEF Act

\* The environment leaves the gigabytes alone.
LEMMA GbOutside ==
    ASSUME DocTypes, Environment \/ UNCHANGED vars
    PROVE  gb' = gb /\ remote'["gb"] = remote["gb"]
  BY DEF Environment, Consume, UpdateProxy, AdminCancel, Expire, Close, EndPasses,
     SwitchPartner, Cooled, Lapse, vars, orderVars, worldVars, DocTypes

\* While "gb" is not unsure, the order has what the provider has, but for the
\* gigabyte of the top-up under way.
LEMMA GbStep ==
    ASSUME ProcTypes, DocTypes, ControlInv, AloneInv, GbInv, [Next]_vars
    PROVE  GbInv'
<1> SUFFICES ASSUME "gb" \notin unsure'
             PROVE  /\ \A q \in Procs : GbAt(q)'
                    /\ (\A q \in Procs : pc'[q] # "save") => remote'["gb"] = gb'
  BY DEF GbInv
<1>1. CASE Environment \/ UNCHANGED vars
  BY <1>1, OutsideSame, SureOutside, GbOutside DEF GbInv, GbAt
<1>2. ASSUME NEW p \in Procs, Act(p)
      PROVE  /\ \A q \in Procs : GbAt(q)'
             /\ (\A q \in Procs : pc'[q] # "save") => remote'["gb"] = gb'
  <2>1. "gb" \notin unsure
    BY <1>2, SureStep
  <2>2. CASE job[p].does = "gb"
    <3>1. \A q \in Procs \ {p} : job[q].does # "gb"
      BY <2>1, <2>2, OthersElsewhere DEF Changers, Aspects
    <3>2. \A q \in Procs \ {p} : pc[q] \notin Paying
      BY <3>1, LabelMeans DEF Entered
    <3>3. remote["gb"] = IF pc[p] = "save" THEN gb + 1 ELSE gb
      BY <2>1, <3>2 DEF GbInv, GbAt, Paying
    <3>4. /\ GbAt(p)'
          /\ remote'["gb"] = IF pc'[p] = "save" THEN gb' + 1 ELSE gb'
      BY <1>2, <2>1, <2>2, <3>3, GbActs, GbOwn DEF GbInv
    <3> QED  BY <1>2, <3>2, <3>4, OthersSame DEF GbAt, Paying
  <2>3. CASE job[p].does # "gb"
    BY <1>2, <2>1, <2>3, GbFrame, OthersSame DEF GbInv, GbAt, Paying, Entered
  <2> QED  BY <2>2, <2>3
<1> QED  BY <1>1, <1>2 DEF Next, Act

-----------------------------------------------------------------------------
(* Allowed addresses, passwords, the proxy's address.                      *)

\* Only who does an aspect changes it at the provider.
LEMMA RemoteFrame ==
    ASSUME ProcTypes, DocTypes, ControlInv, NEW p \in Procs, Act(p),
           NEW a \in {"password", "allowed", "address"}, job[p].does # a
    PROVE  remote'[a] = remote[a]
<1> USE LabelMeans DEF worldVars, DocTypes, Entered, Paying
<1>1. ASSUME NEW k \in Keys \cup {NoKey}, TopUpStart(p, k) PROVE remote'[a] = remote[a]
  BY <1>1 DEF TopUpStart
<1>2. CASE TopUpCached(p)
  BY <1>2 DEF TopUpCached
<1>3. CASE TopUpLock(p)
  BY <1>3 DEF TopUpLock
<1>4. CASE TopUpRead(p)
  BY <1>4 DEF TopUpRead
<1>5. CASE TopUpDebit(p)
  BY <1>5 DEF TopUpDebit
<1>6. CASE TopUpExtend(p)
  BY <1>6 DEF TopUpExtend
<1>7. CASE TopUpRefused(p)
  BY <1>7 DEF TopUpRefused
<1>8. CASE TopUpRefund(p)
  BY <1>8 DEF TopUpRefund
<1>9. CASE TopUpSave(p)
  BY <1>9 DEF TopUpSave
<1>10. CASE TopUpKeep(p)
  BY <1>10 DEF TopUpKeep
<1>11. ASSUME NEW b \in {"password", "allowed"}, EditStart(p, b) PROVE remote'[a] = remote[a]
  BY <1>11 DEF EditStart
<1>12. CASE EditCall(p)
  BY <1>12 DEF EditCall
<1>13. CASE EditRefused(p)
  BY <1>13 DEF EditRefused
<1>14. CASE EditWrite(p)
  BY <1>14 DEF EditWrite
<1>15. CASE EditCredentials(p)
  BY <1>15 DEF EditCredentials
<1>16. CASE EditFails(p)
  BY <1>16 DEF EditFails
<1>17. CASE RotateStart(p)
  BY <1>17 DEF RotateStart
<1>18. CASE RotateFind(p)
  BY <1>18 DEF RotateFind
<1>19. CASE RotateCall(p)
  BY <1>19 DEF RotateCall
<1>20. CASE RotateRefused(p)
  BY <1>20 DEF RotateRefused
<1>21. CASE RotateStore(p)
  BY <1>21 DEF RotateStore
<1>22. CASE RotateCool(p)
  BY <1>22 DEF RotateCool
<1>23. CASE RefetchStart(p)
  BY <1>23 DEF RefetchStart
<1>24. CASE RefetchCall(p)
  BY <1>24 DEF RefetchCall
<1>25. CASE RefetchRefused(p)
  BY <1>25 DEF RefetchRefused
<1>26. CASE RefetchStore(p)
  BY <1>26 DEF RefetchStore
<1>27. CASE SyncStart(p)
  BY <1>27 DEF SyncStart
<1>28. CASE SyncFetch(p)
  BY <1>28 DEF SyncFetch
<1>29. CASE SyncRefused(p)
  BY <1>29 DEF SyncRefused
<1>30. CASE SyncMark(p)
  BY <1>30 DEF SyncMark
<1>31. CASE Abort(p)
  BY <1>31 DEF Abort
<1> QED
  BY <1>1, <1>2, <1>3, <1>4, <1>5, <1>6, <1>7, <1>8, <1>9, <1>10, <1>11, <1>12, <1>13, <1>14,
     <1>15, <1>16, <1>17, <1>18, <1>19, <1>20, <1>21, <1>22, <1>23, <1>24, <1>25, <1>26, <1>27,
     <1>28, <1>29, <1>30, <1>31 DEF Act, TopUp, Edit, Rotate, Refetch, Sync

\* Only its changers write an aspect, and only a change of password its credentials.
LEMMA CopyFrame ==
    ASSUME ProcTypes, DocTypes, ControlInv, NEW p \in Procs, Act(p)
    PROVE  /\ \A a \in {"password", "allowed", "address"} :
                  job[p].does \notin Changers(a) => copy'[a] = copy[a]
           /\ job[p].does # "password" => copy'["gateway"] = copy["gateway"] /\ told' = told
<1> DEFINE Kept ==
        /\ \A a \in {"password", "allowed", "address"} :
               job[p].does \notin Changers(a) => copy'[a] = copy[a]
        /\ job[p].does # "password" => copy'["gateway"] = copy["gateway"] /\ told' = told
<1> USE LabelMeans DEF orderVars, histVars, DocTypes, Changers
<1>1. ASSUME NEW k \in Keys \cup {NoKey}, TopUpStart(p, k) PROVE Kept
  BY <1>1 DEF TopUpStart
<1>2. CASE TopUpCached(p)
  BY <1>2 DEF TopUpCached
<1>3. CASE TopUpLock(p)
  BY <1>3 DEF TopUpLock
<1>4. CASE TopUpRead(p)
  BY <1>4 DEF TopUpRead
<1>5. CASE TopUpDebit(p)
  BY <1>5 DEF TopUpDebit
<1>6. CASE TopUpExtend(p)
  BY <1>6 DEF TopUpExtend
<1>7. CASE TopUpRefused(p)
  BY <1>7 DEF TopUpRefused
<1>8. CASE TopUpRefund(p)
  BY <1>8 DEF TopUpRefund
<1>9. CASE TopUpSave(p)
  BY <1>9 DEF TopUpSave
<1>10. CASE TopUpKeep(p)
  BY <1>10 DEF TopUpKeep
<1>11. ASSUME NEW a \in {"password", "allowed"}, EditStart(p, a) PROVE Kept
  BY <1>11 DEF EditStart
<1>12. CASE EditCall(p)
  BY <1>12 DEF EditCall
<1>13. CASE EditRefused(p)
  BY <1>13 DEF EditRefused
<1>14. CASE EditWrite(p)
  BY <1>14 DEF EditWrite
<1>15. CASE EditCredentials(p)
  BY <1>15 DEF EditCredentials
<1>16. CASE EditFails(p)
  BY <1>16 DEF EditFails
<1>17. CASE RotateStart(p)
  BY <1>17 DEF RotateStart
<1>18. CASE RotateFind(p)
  BY <1>18 DEF RotateFind
<1>19. CASE RotateCall(p)
  BY <1>19 DEF RotateCall
<1>20. CASE RotateRefused(p)
  BY <1>20 DEF RotateRefused
<1>21. CASE RotateStore(p)
  BY <1>21 DEF RotateStore
<1>22. CASE RotateCool(p)
  BY <1>22 DEF RotateCool
<1>23. CASE RefetchStart(p)
  BY <1>23 DEF RefetchStart
<1>24. CASE RefetchCall(p)
  BY <1>24 DEF RefetchCall
<1>25. CASE RefetchRefused(p)
  BY <1>25 DEF RefetchRefused
<1>26. CASE RefetchStore(p)
  BY <1>26 DEF RefetchStore
<1>27. CASE SyncStart(p)
  BY <1>27 DEF SyncStart
<1>28. CASE SyncFetch(p)
  BY <1>28 DEF SyncFetch
<1>29. CASE SyncRefused(p)
  BY <1>29 DEF SyncRefused
<1>30. CASE SyncMark(p)
  BY <1>30 DEF SyncMark
<1>31. CASE Abort(p)
  BY <1>31 DEF Abort
<1> QED
  BY <1>1, <1>2, <1>3, <1>4, <1>5, <1>6, <1>7, <1>8, <1>9, <1>10, <1>11, <1>12, <1>13, <1>14,
     <1>15, <1>16, <1>17, <1>18, <1>19, <1>20, <1>21, <1>22, <1>23, <1>24, <1>25, <1>26, <1>27,
     <1>28, <1>29, <1>30, <1>31 DEF Act, TopUp, Edit, Rotate, Refetch, Sync

\* Where the requests begin.
LEMMA StartLabels ==
    ASSUME ProcTypes, ControlInv, NEW p \in Procs, Act(p), pc[p] = "idle"
    PROVE  pc'[p] \in {"read", "cached", "call", "find", "again", "fetch"}
<1>1. CASE TopUp(p)
  BY <1>1, TopUpStartAt DEF TopUp, TopUpCached, TopUpLock, TopUpRead, TopUpDebit,
     TopUpExtend, TopUpRefused, TopUpRefund, TopUpSave, TopUpKeep
<1>2. CASE Edit(p)
  BY <1>2, EditStartAt DEF Edit, EditCall, EditRefused, EditWrite, EditCredentials,
     EditFails
<1>3. CASE Rotate(p)
  BY <1>3, RotateStartAt DEF Rotate, RotateFind, RotateCall, RotateRefused,
     RotateStore, RotateCool
<1>4. CASE Refetch(p)
  BY <1>4, RefetchStartAt DEF Refetch, RefetchCall, RefetchRefused, RefetchStore
<1>5. CASE SyncStart(p)
  BY <1>5, SyncStartAt
<1>6. CASE Sync(p)
  BY <1>6 DEF Sync, SyncFetch, SyncRefused, SyncMark
<1>7. CASE Abort(p)
  BY <1>7 DEF Abort
<1> QED
  BY <1>1, <1>2, <1>3, <1>4, <1>5, <1>6, <1>7 DEF Act

\* The labels of an execution in the next state tell what it does there.
LEMMA LabelMeansNext ==
    ASSUME ControlInv', ProcTypes', NEW p \in Procs
    PROVE  /\ pc'[p] \in {"stored"} => job'[p].does = "address"
           /\ pc'[p] = "overwrite" => job'[p].does = "proxies"
           /\ pc'[p] = "credentials" => job'[p].does = "password"
<1>1. ControlAt(p)' /\ job'[p].does \in Doings
  BY DEF ControlInv, ProcTypes, Jobs
<1> QED  BY <1>1 DEF ControlAt, LabelsOf, Doings, Entered, Paying

\* The environment changes no aspect but those it makes unsure.
LEMMA AspectsOutside ==
    ASSUME DocTypes, Environment \/ UNCHANGED vars,
           NEW a \in {"password", "allowed", "address"}, a \notin unsure'
    PROVE  /\ remote'[a] = remote[a] /\ copy'[a] = copy[a]
           /\ copy'["gateway"] = copy["gateway"] /\ told' = told
<1> USE DEF orderVars, worldVars, histVars, DocTypes
<1>1. CASE Consume
  BY <1>1 DEF Consume
<1>2. CASE UpdateProxy
  BY <1>2 DEF UpdateProxy
<1>3. CASE AdminCancel \/ Expire
  BY <1>3 DEF AdminCancel, Expire, Close
<1>4. CASE EndPasses \/ SwitchPartner \/ Cooled
  BY <1>4 DEF EndPasses, SwitchPartner, Cooled
<1>5. ASSUME NEW k \in Keys, Lapse(k)
      PROVE  /\ remote'[a] = remote[a] /\ copy'[a] = copy[a]
             /\ copy'["gateway"] = copy["gateway"] /\ told' = told
  BY <1>5 DEF Lapse
<1>6. CASE UNCHANGED vars
  BY <1>6 DEF vars
<1> QED  BY <1>1, <1>2, <1>3, <1>4, <1>5, <1>6 DEF Environment

\* What an execution that changes an aspect can do.
LEMMA AspectActs ==
    ASSUME ProcTypes, ControlInv, NEW p \in Procs, Act(p)
    PROVE  /\ job[p].does \in {"password", "allowed"} =>
                  EditCall(p) \/ EditRefused(p) \/ EditWrite(p) \/ EditCredentials(p)
                  \/ EditFails(p) \/ Abort(p)
           /\ job[p].does = "address" =>
                  RotateFind(p) \/ RotateCall(p) \/ RotateRefused(p) \/ RotateStore(p)
                  \/ RotateCool(p) \/ Abort(p)
           /\ job[p].does = "proxies" =>
                  RefetchCall(p) \/ RefetchRefused(p) \/ RefetchStore(p) \/ Abort(p)
           /\ job[p].does = "sync" =>
                  SyncFetch(p) \/ SyncRefused(p) \/ SyncMark(p) \/ Abort(p)
<1> USE LabelMeans
<1>1. job[p].does # "nothing" =>
          /\ ~(\E k \in Keys \cup {NoKey} : TopUpStart(p, k))
          /\ ~(\E a \in {"password", "allowed"} : EditStart(p, a))
          /\ ~RotateStart(p) /\ ~RefetchStart(p) /\ ~SyncStart(p)
  BY TopUpStartAt, EditStartAt, RotateStartAt, RefetchStartAt, SyncStartAt
<1>2. job[p].does \notin {"nothing", "gb"} => ~TopUp(p)
  BY <1>1 DEF TopUp, TopUpCached, TopUpLock, TopUpRead, TopUpDebit, TopUpExtend, TopUpRefused,
     TopUpRefund, TopUpSave, TopUpKeep, Entered, Paying
<1>3. job[p].does \in {"address", "proxies", "sync"} => ~Edit(p)
  BY <1>1 DEF Edit, EditCall, EditRefused, EditWrite, EditCredentials, EditFails
<1>4. job[p].does \in {"password", "allowed", "proxies", "sync"} => ~Rotate(p)
  BY <1>1 DEF Rotate, RotateFind, RotateCall, RotateRefused, RotateStore, RotateCool
<1>5. job[p].does \in {"password", "allowed", "address", "sync"} => ~Refetch(p)
  BY <1>1 DEF Refetch, RefetchCall, RefetchRefused, RefetchStore
<1>6. job[p].does \in {"password", "allowed", "address", "proxies"} => ~Sync(p)
  BY <1>1 DEF Sync, SyncFetch, SyncRefused, SyncMark
<1> QED
  BY <1>1, <1>2, <1>3, <1>4, <1>5, <1>6 DEF Act, Edit, Rotate, Refetch, Sync

\* A request that dies half done makes its aspects unsure.
LEMMA AbortAt ==
    ASSUME ProcTypes, NEW p \in Procs, Abort(p), NEW a \in Aspects, a \notin unsure',
           job[p].does \in Changers(a)
    PROVE  /\ ~HalfDone(p) /\ a \notin unsure /\ pc'[p] = "idle"
           /\ UNCHANGED <<remote, copy, told>>
  BY TouchMeans, FinishAt DEF Abort, orderVars, worldVars

\* An edit of the allowed addresses that meets no other.
AllowedOne(p) ==
    IF Writes(p, "allowed") THEN job[p].new = remote["allowed"]
                            ELSE copy["allowed"] = remote["allowed"]

LEMMA AllowedOwn ==
    ASSUME ProcTypes, DocTypes, ControlInv, NEW p \in Procs, Act(p),
           job[p].does = "allowed", "allowed" \notin unsure', AllowedOne(p)
    PROVE  AllowedOne(p)'
<1> USE DEF AllowedOne, Writes
<1>1. CASE EditCall(p)
  <2>1. remote'["allowed"] = remote["allowed"] + 1
    BY <1>1 DEF EditCall, DocTypes
  <2> QED  BY <1>1, <2>1, EditCallAt
<1>2. CASE EditRefused(p)
  BY <1>2, FinishAt DEF EditRefused, orderVars
<1>3. CASE EditWrite(p)
  BY <1>3, FinishAt DEF EditWrite, DocTypes, worldVars
<1>4. CASE EditFails(p)
  BY <1>4, LabelMeans DEF EditFails
<1>5. CASE EditCredentials(p)
  BY <1>5, LabelMeans DEF EditCredentials
<1>6. CASE Abort(p)
  BY <1>6, AbortAt DEF HalfDone, Changers, Aspects
<1> QED  BY <1>1, <1>2, <1>3, <1>4, <1>5, <1>6, AspectActs

\* While "allowed" is not unsure, the order shows what the provider has, but
\* for the edit under way.
LEMMA AllowedStep ==
    ASSUME ProcTypes, DocTypes, ControlInv, AloneInv, AllowedInv, [Next]_vars
    PROVE  AllowedInv'
<1> DEFINE Holding == /\ \A q \in Procs : Writes(q, "allowed") => job[q].new = remote["allowed"]
                      /\ (\A q \in Procs : ~Writes(q, "allowed"))
                            => copy["allowed"] = remote["allowed"]
<1> SUFFICES ASSUME "allowed" \notin unsure'
             PROVE  Holding'
  BY DEF AllowedInv
<1>1. CASE Environment \/ UNCHANGED vars
  <2>1. Holding
    BY <1>1, SureOutside DEF AllowedInv
  <2> QED  BY <1>1, <2>1, OutsideSame, AspectsOutside DEF Writes
<1>2. ASSUME NEW p \in Procs, Act(p)
      PROVE  Holding'
  <2>1. "allowed" \notin unsure /\ Holding
    BY <1>2, SureStep DEF AllowedInv
  <2>2. CASE job[p].does = "allowed"
    <3>1. \A q \in Procs \ {p} : job[q].does # "allowed"
      BY <2>1, <2>2, OthersElsewhere DEF Changers, Aspects
    <3>2. AllowedOne(p)
      BY <2>1, <3>1 DEF AllowedOne, Writes
    <3>3. AllowedOne(p)'
      BY <1>2, <2>2, <3>2, AllowedOwn
    <3> QED  BY <1>2, <3>1, <3>3, OthersSame DEF AllowedOne, Writes
  <2>3. CASE job[p].does # "allowed"
    <3>1. remote'["allowed"] = remote["allowed"] /\ copy'["allowed"] = copy["allowed"]
      BY <1>2, <2>3, RemoteFrame, CopyFrame DEF Changers
    <3>2. ~Writes(p, "allowed") /\ ~Writes(p, "allowed")'
      <4>1. CASE pc[p] = "idle"
        BY <1>2, <4>1, StartLabels DEF Writes
      <4>2. CASE pc[p] # "idle"
        BY <1>2, <2>3, <4>2, DoesKept DEF Writes
      <4> QED  BY <4>1, <4>2
    <3> QED  BY <1>2, <2>1, <3>1, <3>2, OthersSame DEF Writes
  <2> QED  BY <2>2, <2>3
<1> QED  BY <1>1, <1>2 DEF Next, Act

\* A change of the password, or a reading of the proxies, that meets no other.
PasswordOne(p) ==
    /\ PasswordAt(p)
    /\ ~Writes(p, "password") /\ pc[p] # "credentials" => PasswordTold

LEMMA PasswordOwn ==
    ASSUME ProcTypes, DocTypes, ControlInv, NEW p \in Procs, Act(p),
           job[p].does \in {"password", "proxies"}, "password" \notin unsure', PasswordOne(p)
    PROVE  PasswordOne(p)'
<1> USE DEF PasswordOne, PasswordAt, PasswordTold, Writes
<1>1. CASE EditCall(p)
  <2>1. job[p].does = "password"
    BY <1>1, LabelMeans DEF EditCall
  <2>2. remote'["password"] = remote["password"] + 1
    BY <1>1, <2>1 DEF EditCall, DocTypes
  <2> QED  BY <1>1, <2>1, <2>2, EditCallAt
<1>2. CASE EditRefused(p)
  <2>1. job[p].does = "password"
    BY <1>2, LabelMeans DEF EditRefused
  <2> QED  BY <1>2, <2>1, FinishAt DEF EditRefused, orderVars
<1>3. CASE EditWrite(p)
  <2>1. job[p].does = "password" /\ job[p].new = remote["password"]
    BY <1>3, LabelMeans DEF EditWrite
  <2>2. copy'["password"] = remote'["password"] /\ remote' = remote
    BY <1>3, <2>1 DEF EditWrite, DocTypes, worldVars
  <2>3. CASE Gateway
    BY <1>3, <2>1, <2>2, <2>3, GotoAt DEF EditWrite
  <2>4. CASE ~Gateway
    BY <1>3, <2>1, <2>2, <2>4, FinishAt DEF EditWrite
  <2> QED  BY <2>3, <2>4
<1>4. CASE EditFails(p)
  <2>1. job[p].does = "password" /\ job[p].new = remote["password"] /\ pc[p] # "overwrite"
    BY <1>4, LabelMeans DEF EditFails
  <2> QED  BY <1>4, <2>1, FinishAt DEF EditFails, worldVars
<1>5. CASE EditCredentials(p)
  BY <1>5, FinishAt DEF EditCredentials, DocTypes, worldVars
<1>6. CASE Abort(p)
  BY <1>6, AbortAt DEF HalfDone, Changers, Aspects
<1>7. CASE RefetchCall(p)
  BY <1>7, RefetchCallAt DEF RefetchCall, orderVars, worldVars
<1>8. CASE RefetchRefused(p)
  BY <1>8, FinishAt DEF RefetchRefused, orderVars, worldVars, histVars
<1>9. CASE RefetchStore(p)
  <2>1. /\ copy'["password"] = job[p].new /\ copy'["gateway"] = copy["gateway"]
        /\ UNCHANGED <<told, remote>> /\ pc'[p] = "idle" /\ pc[p] = "overwrite"
    BY <1>9, FinishAt DEF RefetchStore, DocTypes, worldVars, histVars
  <2> QED  BY <2>1
<1> QED  BY <1>1, <1>2, <1>3, <1>4, <1>5, <1>6, <1>7, <1>8, <1>9, AspectActs

\* While "password" is not unsure, the password in force is shown, told, or in
\* the hands of the execution that writes it.
LEMMA PasswordStep ==
    ASSUME ProcTypes, DocTypes, ControlInv, AloneInv, PasswordInv, [Next]_vars
    PROVE  PasswordInv'
<1> DEFINE Holding ==
        /\ \A q \in Procs : PasswordAt(q)
        /\ (\A q \in Procs : ~Writes(q, "password") /\ pc[q] # "credentials") => PasswordTold
<1> SUFFICES ASSUME "password" \notin unsure'
             PROVE  Holding'
  BY DEF PasswordInv
<1>1. CASE Environment \/ UNCHANGED vars
  <2>1. Holding
    BY <1>1, SureOutside DEF PasswordInv
  <2> QED  BY <1>1, <2>1, OutsideSame, AspectsOutside DEF Writes, PasswordAt, PasswordTold
<1>2. ASSUME NEW p \in Procs, Act(p)
      PROVE  Holding'
  <2>1. "password" \notin unsure /\ Holding
    BY <1>2, SureStep DEF PasswordInv
  <2>2. CASE job[p].does \in {"password", "proxies"}
    <3>1. \A q \in Procs \ {p} : job[q].does \notin {"password", "proxies"}
      BY <2>1, <2>2, OthersElsewhere DEF Changers, Aspects
    <3>2. \A q \in Procs \ {p} :
              ~Writes(q, "password") /\ pc[q] \notin {"credentials", "overwrite"}
      BY <3>1, LabelMeans DEF Writes
    <3>3. PasswordOne(p)
      BY <2>1, <3>2 DEF PasswordOne
    <3>4. PasswordOne(p)'
      BY <1>2, <2>2, <3>3, PasswordOwn
    <3>5. \A q \in Procs \ {p} :
              /\ ~Writes(q, "password")' /\ pc'[q] # "credentials"
              /\ PasswordAt(q)'
      BY <1>2, <3>2, OthersSame DEF Writes, PasswordAt
    <3> QED  BY <3>4, <3>5 DEF PasswordOne
  <2>3. CASE job[p].does \notin {"password", "proxies"}
    <3>1. /\ remote'["password"] = remote["password"] /\ copy'["password"] = copy["password"]
          /\ copy'["gateway"] = copy["gateway"] /\ told' = told
      BY <1>2, <2>3, RemoteFrame, CopyFrame DEF Changers
    <3>2. ~Writes(p, "password") /\ pc[p] \notin {"credentials", "overwrite"}
      BY <2>3, LabelMeans DEF Writes
    <3>3. ~Writes(p, "password")' /\ pc'[p] \notin {"credentials", "overwrite"}
      <4>1. CASE pc[p] = "idle"
        BY <1>2, <4>1, StartLabels DEF Writes
      <4>2. CASE pc[p] # "idle"
        <5>1. job'[p].does \notin {"password", "proxies"}
          BY <1>2, <2>3, <4>2, DoesKept, IdleFields
        <5>2. ControlInv' /\ ProcTypes'
          BY <1>2, ControlStep, ProcStep DEF Next, Act
        <5> QED  BY <5>1, <5>2, LabelMeansNext DEF Writes
      <4> QED  BY <4>1, <4>2
    <3> QED  BY <1>2, <2>1, <3>1, <3>2, <3>3, OthersSame DEF Writes, PasswordAt, PasswordTold
  <2> QED  BY <2>2, <2>3
<1> QED  BY <1>1, <1>2 DEF Next, Act

\* A rotation, or a reading of the proxies, that meets no other.
AddressOne(p) ==
    /\ AddressAt(p)
    /\ pc[p] \notin {"stored", "overwrite"} => copy["address"] = remote["address"]

LEMMA AddressOwn ==
    ASSUME ProcTypes, DocTypes, ControlInv, NEW p \in Procs, Act(p),
           job[p].does \in {"address", "proxies"}, "address" \notin unsure',
           RefetchCall(p) \/ AddressOne(p)
    PROVE  AddressOne(p)'
<1> USE DEF AddressOne, AddressAt
<1>1. CASE RefetchCall(p)
  BY <1>1, RefetchCallAt DEF RefetchCall, worldVars
<1>2. CASE RefetchRefused(p)
  <2>1. AddressOne(p)
    BY <1>2, FinishAt, RefetchCallAt DEF RefetchRefused
  <2> QED  BY <1>2, <2>1, FinishAt DEF RefetchRefused, orderVars, worldVars
<1>3. CASE RefetchStore(p)
  <2>1. /\ copy'["address"] = job[p].address /\ remote' = remote
        /\ pc'[p] = "idle" /\ pc[p] = "overwrite"
    BY <1>3, FinishAt DEF RefetchStore, DocTypes, worldVars
  <2> QED  BY <1>3, <2>1, RefetchCallAt
<1>4. CASE Abort(p)
  <2>1. ~HalfDone(p) /\ pc'[p] = "idle" /\ UNCHANGED <<remote, copy>>
    BY <1>4, AbortAt DEF Changers, Aspects
  <2>2. AddressOne(p)
    <3>1. RefetchCall(p) => pc'[p] = "overwrite"
      BY RefetchCallAt
    <3> QED  BY <2>1, <3>1
  <2> QED  BY <2>1, <2>2 DEF HalfDone
<1>5. CASE RotateFind(p) \/ RotateCool(p)
  <2>1. ~RefetchCall(p)
    BY <1>5 DEF RotateFind, RotateCool, RefetchCall
  <2> QED  BY <1>5, <2>1, GotoAt, FinishAt DEF RotateFind, RotateCool, orderVars, worldVars
<1>6. CASE RotateCall(p)
  <2>1. ~RefetchCall(p) /\ copy' = copy
    BY <1>6 DEF RotateCall, RefetchCall, orderVars
  <2>2. remote' = [remote EXCEPT !["address"] = @ + 1] => remote'["address"] = remote["address"] + 1
    BY DEF DocTypes
  <2> QED  BY <1>6, <2>1, <2>2, RotateCallAt
<1>7. CASE RotateRefused(p)
  <2>1. ~RefetchCall(p)
    BY <1>7 DEF RotateRefused, RefetchCall
  <2> QED  BY <1>7, <2>1, FinishAt DEF RotateRefused, orderVars
<1>8. CASE RotateStore(p)
  <2>1. ~RefetchCall(p)
    BY <1>8 DEF RotateStore, RefetchCall
  <2> QED  BY <1>8, <2>1, GotoAt DEF RotateStore, DocTypes, worldVars
<1> QED  BY <1>1, <1>2, <1>3, <1>4, <1>5, <1>6, <1>7, <1>8, AspectActs

\* While "address" is not unsure, the proxies show the provider's address, but
\* for the execution that writes it.
LEMMA AddressStep ==
    ASSUME ProcTypes, DocTypes, ControlInv, AloneInv, AddressInv, [Next]_vars
    PROVE  AddressInv'
<1> DEFINE Holding ==
        /\ \A q \in Procs : AddressAt(q)
        /\ (\A q \in Procs : pc[q] \notin {"stored", "overwrite"})
              => copy["address"] = remote["address"]
<1> SUFFICES ASSUME "address" \notin unsure'
             PROVE  Holding'
  BY DEF AddressInv
<1>1. CASE Environment \/ UNCHANGED vars
  <2>1. Holding
    BY <1>1, SureOutside DEF AddressInv
  <2> QED  BY <1>1, <2>1, OutsideSame, AspectsOutside DEF AddressAt
<1>2. ASSUME NEW p \in Procs, Act(p)
      PROVE  Holding'
  <2>1. CASE job[p].does \in {"address", "proxies"}
    <3>1. \A q \in Procs \ {p} : job[q].does \notin {"address", "proxies"}
      <4>1. CASE "address" \in unsure
        BY <1>2, <4>1, SureStep DEF Changers
      <4>2. CASE "address" \notin unsure
        BY <2>1, <4>2, OthersElsewhere DEF Changers, Aspects
      <4> QED  BY <4>1, <4>2
    <3>2. \A q \in Procs \ {p} : pc[q] \notin {"stored", "overwrite"}
      BY <3>1, LabelMeans
    <3>3. RefetchCall(p) \/ AddressOne(p)
      <4>1. CASE "address" \in unsure
        BY <1>2, <4>1, SureStep
      <4>2. CASE "address" \notin unsure
        BY <3>2, <4>2 DEF AddressInv, AddressOne
      <4> QED  BY <4>1, <4>2
    <3>4. AddressOne(p)'
      BY <1>2, <2>1, <3>3, AddressOwn
    <3>5. \A q \in Procs \ {p} : pc'[q] \notin {"stored", "overwrite"} /\ AddressAt(q)'
      BY <1>2, <3>2, OthersSame DEF AddressAt
    <3> QED  BY <3>4, <3>5 DEF AddressOne
  <2>2. CASE job[p].does \notin {"address", "proxies"}
    <3>1. "address" \notin unsure
      BY <1>2, <2>2, SureStep, RefetchCallAt, LabelMeans
    <3>2. remote'["address"] = remote["address"] /\ copy'["address"] = copy["address"]
      BY <1>2, <2>2, RemoteFrame, CopyFrame DEF Changers
    <3>3. pc[p] \notin {"stored", "overwrite"}
      BY <2>2, LabelMeans
    <3>4. pc'[p] \notin {"stored", "overwrite"}
      <4>1. CASE pc[p] = "idle"
        BY <1>2, <4>1, StartLabels
      <4>2. CASE pc[p] # "idle"
        <5>1. job'[p].does \notin {"address", "proxies"}
          BY <1>2, <2>2, <4>2, DoesKept, IdleFields
        <5>2. ControlInv' /\ ProcTypes'
          BY <1>2, ControlStep, ProcStep DEF Next, Act
        <5> QED  BY <5>1, <5>2, LabelMeansNext
      <4> QED  BY <4>1, <4>2
    <3>5. Holding
      BY <3>1 DEF AddressInv
    <3> QED  BY <1>2, <3>2, <3>3, <3>4, <3>5, OthersSame DEF AddressAt
  <2> QED  BY <2>1, <2>2
<1> QED  BY <1>1, <1>2 DEF Next, Act

-----------------------------------------------------------------------------
(* DEPLETED.                                                               *)

\* Only top-ups and syncs write the status and the usage.
LEMMA StatusFrame ==
    ASSUME ProcTypes, ControlInv, NEW p \in Procs, Act(p), job[p].does \notin {"gb", "sync"}
    PROVE  status' = status /\ used' = used
<1> USE LabelMeans DEF orderVars, Entered, Paying
<1>1. ASSUME NEW k \in Keys \cup {NoKey}, TopUpStart(p, k)
      PROVE  status' = status /\ used' = used
  BY <1>1 DEF TopUpStart
<1>2. CASE TopUpCached(p)
  BY <1>2 DEF TopUpCached
<1>3. CASE TopUpLock(p)
  BY <1>3 DEF TopUpLock
<1>4. CASE TopUpRead(p)
  BY <1>4 DEF TopUpRead
<1>5. CASE TopUpDebit(p)
  BY <1>5 DEF TopUpDebit
<1>6. CASE TopUpExtend(p)
  BY <1>6 DEF TopUpExtend
<1>7. CASE TopUpRefused(p)
  BY <1>7 DEF TopUpRefused
<1>8. CASE TopUpRefund(p)
  BY <1>8 DEF TopUpRefund
<1>9. CASE TopUpSave(p)
  BY <1>9 DEF TopUpSave
<1>10. CASE TopUpKeep(p)
  BY <1>10 DEF TopUpKeep
<1>11. ASSUME NEW a \in {"password", "allowed"}, EditStart(p, a)
      PROVE  status' = status /\ used' = used
  BY <1>11 DEF EditStart
<1>12. CASE EditCall(p)
  BY <1>12 DEF EditCall
<1>13. CASE EditRefused(p)
  BY <1>13 DEF EditRefused
<1>14. CASE EditWrite(p)
  BY <1>14 DEF EditWrite
<1>15. CASE EditCredentials(p)
  BY <1>15 DEF EditCredentials
<1>16. CASE EditFails(p)
  BY <1>16 DEF EditFails
<1>17. CASE RotateStart(p)
  BY <1>17 DEF RotateStart
<1>18. CASE RotateFind(p)
  BY <1>18 DEF RotateFind
<1>19. CASE RotateCall(p)
  BY <1>19 DEF RotateCall
<1>20. CASE RotateRefused(p)
  BY <1>20 DEF RotateRefused
<1>21. CASE RotateStore(p)
  BY <1>21 DEF RotateStore
<1>22. CASE RotateCool(p)
  BY <1>22 DEF RotateCool
<1>23. CASE RefetchStart(p)
  BY <1>23 DEF RefetchStart
<1>24. CASE RefetchCall(p)
  BY <1>24 DEF RefetchCall
<1>25. CASE RefetchRefused(p)
  BY <1>25 DEF RefetchRefused
<1>26. CASE RefetchStore(p)
  BY <1>26 DEF RefetchStore
<1>27. CASE SyncStart(p)
  BY <1>27 DEF SyncStart
<1>28. CASE SyncFetch(p)
  BY <1>28 DEF SyncFetch
<1>29. CASE SyncRefused(p)
  BY <1>29 DEF SyncRefused
<1>30. CASE SyncMark(p)
  BY <1>30 DEF SyncMark
<1>31. CASE Abort(p)
  BY <1>31 DEF Abort
<1> QED
  BY <1>1, <1>2, <1>3, <1>4, <1>5, <1>6, <1>7, <1>8, <1>9, <1>10, <1>11, <1>12, <1>13, <1>14,
     <1>15, <1>16, <1>17, <1>18, <1>19, <1>20, <1>21, <1>22, <1>23, <1>24, <1>25, <1>26, <1>27,
     <1>28, <1>29, <1>30, <1>31 DEF Act, TopUp, Edit, Rotate, Refetch, Sync

\* The environment never makes an order DEPLETED.
LEMMA StatusOutside ==
    ASSUME Environment \/ UNCHANGED vars
    PROVE  (status' = status \/ status' # "DEPLETED") /\ used' = used
  BY DEF Environment, Consume, UpdateProxy, AdminCancel, Expire, Close, EndPasses,
     SwitchPartner, Cooled, Lapse, vars, orderVars

\* A sync, or a top-up, that starts while the status stays sure meets no sync.
LEMMA SyncsStart ==
    ASSUME ProcTypes, ControlInv, NEW p \in Procs, Act(p), pc[p] = "idle", "status" \notin unsure'
    PROVE  /\ job'[p].does = "sync" =>
                  /\ \A q \in Procs \ {p} : job[q].does \notin {"sync", "gb"}
                  /\ job'[p].gb = gb' /\ status' # "DEPLETED"
           /\ job'[p].does = "gb" => \A q \in Procs \ {p} : job[q].does # "sync"
<1> DEFINE Kept == /\ job'[p].does = "sync" =>
                          /\ \A q \in Procs \ {p} : job[q].does \notin {"sync", "gb"}
                          /\ job'[p].gb = gb' /\ status' # "DEPLETED"
                   /\ job'[p].does = "gb" => \A q \in Procs \ {p} : job[q].does # "sync"
<1>1. ASSUME NEW k \in Keys \cup {NoKey}, TopUpStart(p, k) PROVE Kept
  <2>1. job'[p].does = "gb"
    BY <1>1, TopUpStartAt
  <2>2. \A q \in Procs \ {p} : job[q].does # "sync"
    <3>1. [Idle EXCEPT !.does = "gb", !.key = k].does = "gb"
      BY HandFields, IdleType
    <3> QED  BY <1>1, <3>1, BeginAt DEF TopUpStart
  <2> QED  BY <2>1, <2>2
<1>2. ASSUME NEW a \in {"password", "allowed"}, EditStart(p, a) PROVE Kept
  BY <1>2, EditStartAt
<1>3. CASE RotateStart(p) \/ RefetchStart(p)
  BY <1>3, RotateStartAt, RefetchStartAt
<1>4. CASE SyncStart(p)
  <2>1. job'[p].does = "sync" /\ job'[p].gb = gb
    BY <1>4, SyncStartAt
  <2>2. gb' = gb /\ status' # "DEPLETED"
    BY <1>4 DEF SyncStart, orderVars
  <2>3. \A q \in Procs \ {p} : job[q].does \notin {"sync", "gb"}
    BY <1>4 DEF SyncStart, Doing
  <2> QED  BY <2>1, <2>2, <2>3
<1> QED
  BY <1>1, <1>2, <1>3, <1>4 DEF Act, TopUp, TopUpCached, TopUpLock, TopUpRead,
     TopUpDebit, TopUpExtend, TopUpRefused, TopUpRefund, TopUpSave, TopUpKeep, Edit, EditCall,
     EditRefused, EditWrite, EditCredentials, EditFails, Rotate, RotateFind, RotateCall,
     RotateRefused, RotateStore, RotateCool, Refetch, RefetchCall, RefetchRefused,
     RefetchStore, Sync, SyncFetch, SyncRefused, SyncMark, Abort

\* A top-up that meets no other, and no sync.
LEMMA SpentOwn ==
    ASSUME ProcTypes, DocTypes, ControlInv, NEW p \in Procs, Act(p), job[p].does = "gb",
           "gb" \notin unsure', SpentAt(p), status = "DEPLETED" => used >= gb
    PROVE  SpentAt(p)' /\ (status' = "DEPLETED" => used' >= gb')
<1> USE DEF SpentAt, Paying, orderVars, worldVars, histVars
<1>1. CASE TopUpCached(p) \/ TopUpLock(p) \/ TopUpDebit(p) \/ TopUpRefund(p) \/ TopUpKeep(p)
  BY <1>1, GotoAt, FinishAt DEF TopUpCached, TopUpLock, TopUpDebit, TopUpRefund, TopUpKeep
<1>2. CASE TopUpRead(p)
  BY <1>2, TopUpReadAt DEF TopUpRead
<1>3. CASE TopUpExtend(p)
  BY <1>3, GotoAt DEF TopUpExtend
<1>4. CASE TopUpRefused(p)
  BY <1>4, GotoAt DEF TopUpRefused
<1>5. CASE TopUpSave(p)
  <2>1. pc'[p] \in {"idle", "keep"}
    BY <1>5, GotoAt, FinishAt DEF TopUpSave
  <2>2. status' # "DEPLETED"
    BY <1>5 DEF TopUpSave
  <2> QED  BY <2>1, <2>2
<1>6. CASE Abort(p)
  BY <1>6, FinishAt DEF Abort
<1>7. ~ \E k \in Keys \cup {NoKey} : TopUpStart(p, k)
  BY LabelMeans, TopUpStartAt
<1> QED  BY <1>1, <1>2, <1>3, <1>4, <1>5, <1>6, <1>7, GbActs DEF TopUp

\* A sync that meets no other, and no top-up.
LEMMA SyncOwn ==
    ASSUME ProcTypes, DocTypes, ControlInv, NEW p \in Procs, Act(p), job[p].does = "sync",
           SyncAt(p)
    PROVE  /\ gb' = gb /\ SyncAt(p)' /\ pc'[p] \notin Paying \cup {"keep"}
           /\ status' = "DEPLETED" => used' >= gb'
<1> USE DEF SyncAt, orderVars, Paying
<1>1. CASE SyncFetch(p)
  BY <1>1, SyncFetchAt DEF SyncFetch
<1>2. CASE SyncRefused(p)
  BY <1>2, FinishAt, IdleFields DEF SyncRefused
<1>3. CASE SyncMark(p)
  <2>1. pc'[p] = "idle" /\ job'[p].does = "nothing" /\ gb' = gb
    BY <1>3, FinishAt, IdleFields DEF SyncMark
  <2>2. status' = "DEPLETED" => job[p].new >= job[p].gb /\ used' = job[p].new
    BY <1>3 DEF SyncMark
  <2> QED  BY <2>1, <2>2
<1>4. CASE Abort(p)
  BY <1>4, FinishAt, IdleFields DEF Abort
<1> QED  BY <1>1, <1>2, <1>3, <1>4, AspectActs

\* While the status is not unsure, DEPLETED means spent.
LEMMA StatusStep ==
    ASSUME ProcTypes, DocTypes, ControlInv, AloneInv, StatusInv, [Next]_vars
    PROVE  StatusInv'
<1> DEFINE Spent == /\ status = "DEPLETED" => used >= gb
                    /\ \A q \in Procs : SpentAt(q)
<1> SUFFICES ASSUME "status" \notin unsure'
             PROVE  SyncsApart' /\ (\A q \in Procs : SyncAt(q)') /\ ("gb" \notin unsure' => Spent')
  BY DEF StatusInv
<1>1. CASE Environment \/ UNCHANGED vars
  <2>1. SyncsApart /\ (\A q \in Procs : SyncAt(q)) /\ ("gb" \notin unsure => Spent)
    BY <1>1, SureOutside DEF StatusInv
  <2>2. "gb" \notin unsure' => "gb" \notin unsure
    BY <1>1, SureOutside
  <2> QED  BY <1>1, <2>1, <2>2, OutsideSame, StatusOutside DEF SyncsApart, SyncAt, SpentAt
<1>2. ASSUME NEW p \in Procs, Act(p)
      PROVE  SyncsApart' /\ (\A q \in Procs : SyncAt(q)') /\ ("gb" \notin unsure' => Spent')
  <2>0. "status" \notin unsure
    BY <1>2, SureStep
  <2>1. SyncsApart /\ (\A q \in Procs : SyncAt(q)) /\ ("gb" \notin unsure => Spent)
    BY <2>0 DEF StatusInv
  <2>2. "gb" \notin unsure' => "gb" \notin unsure
    BY <1>2, SureStep
  <2>3. CASE pc[p] = "idle"
    <3>1. job[p].does = "nothing"
      BY <2>3, LabelMeans
    <3>2. gb' = gb /\ status' = status /\ used' = used
      BY <1>2, <3>1, GbFrame, StatusFrame
    <3>3. pc'[p] \notin Paying \cup {"keep"}
      BY <1>2, <2>3, StartLabels DEF Paying
    <3>4. SyncsApart'
      BY <1>2, <2>1, <2>3, SyncsStart, OthersSame DEF SyncsApart
    <3>5. \A q \in Procs : SyncAt(q)'
      BY <1>2, <2>1, <2>3, <3>2, SyncsStart, OthersSame DEF SyncAt
    <3> QED  BY <1>2, <2>1, <2>2, <3>2, <3>3, <3>4, <3>5, OthersSame DEF SpentAt
  <2>4. CASE pc[p] # "idle" /\ job[p].does \notin {"gb", "sync"}
    <3>1. gb' = gb /\ status' = status /\ used' = used /\ pc'[p] \notin Paying \cup {"keep"}
      BY <1>2, <2>4, GbFrame, StatusFrame
    <3>2. job'[p].does \notin {"gb", "sync"}
      BY <1>2, <2>4, DoesKept, IdleFields
    <3> QED
      BY <1>2, <2>1, <2>2, <3>1, <3>2, OthersSame DEF SyncsApart, SyncAt, SpentAt
  <2>5. CASE job[p].does = "gb"
    <3>1. \A q \in Procs : job[q].does # "sync"
      BY <2>1, <2>5 DEF SyncsApart
    <3>2. pc[p] # "idle"
      BY <2>5, LabelMeans
    <3>3. job'[p].does # "sync"
      BY <1>2, <2>5, <3>2, DoesKept, IdleFields
    <3>4. SyncsApart' /\ \A q \in Procs : SyncAt(q)'
      BY <1>2, <3>1, <3>3, OthersSame DEF SyncsApart, SyncAt
    <3>5. ASSUME "gb" \notin unsure' PROVE Spent'
      <4>1. \A q \in Procs \ {p} : job[q].does # "gb"
        BY <2>2, <2>5, <3>5, OthersElsewhere DEF Changers, Aspects
      <4>2. \A q \in Procs \ {p} : pc[q] \notin Paying \cup {"keep"}
        BY <4>1, LabelMeans DEF Entered
      <4>3. SpentAt(p)' /\ (status' = "DEPLETED" => used' >= gb')
        BY <1>2, <2>1, <2>2, <2>5, <3>5, SpentOwn
      <4> QED  BY <1>2, <4>2, <4>3, OthersSame DEF SpentAt
    <3> QED  BY <3>4, <3>5
  <2>6. CASE job[p].does = "sync"
    <3>1. \A q \in Procs \ {p} : job[q].does \notin {"gb", "sync"}
      BY <2>1, <2>6 DEF SyncsApart
    <3>2. \A q \in Procs \ {p} : pc[q] \notin Paying \cup {"keep"}
      BY <3>1, LabelMeans DEF Entered
    <3>3. /\ gb' = gb /\ SyncAt(p)' /\ pc'[p] \notin Paying \cup {"keep"}
          /\ status' = "DEPLETED" => used' >= gb'
      BY <1>2, <2>1, <2>6, SyncOwn
    <3> QED  BY <1>2, <3>1, <3>2, <3>3, OthersSame DEF SyncsApart, SyncAt, SpentAt
  <2> QED  BY <2>3, <2>4, <2>5, <2>6
<1> QED  BY <1>1, <1>2 DEF Next, Act

-----------------------------------------------------------------------------
(* Keys.                                                                   *)

\* What a step does with a key, its lock and its answer.
KeyMoves(p, k) ==
    /\ locks \subseteq locks' /\ lapsed \subseteq lapsed' /\ answered \subseteq answered'
    /\ k \in answered' => k \in answered \/ (Holds(p, k) /\ ~Holds(p, k)')
    /\ Holds(p, k)' =>
           \/ Holds(p, k)
           \/ /\ pc[p] = "lock" /\ job[p].key = k /\ k \notin locks
              /\ k \in locks' /\ answered' = answered
    /\ pc'[p] = "lock" /\ job'[p].key = k => k \notin answered'

LEMMA KeyActs ==
    ASSUME ProcTypes, ControlInv, NEW p \in Procs, Act(p), NEW k \in Keys
    PROVE  KeyMoves(p, k)
<1> USE ServiceAssumption, LabelMeans, IdleFields DEF KeyMoves, Holds, Entered, Paying, keyVars,
         histVars
<1>1. ASSUME NEW j \in Keys \cup {NoKey}, TopUpStart(p, j) PROVE KeyMoves(p, k)
  <2>1. UNCHANGED <<locks, lapsed, answered>>
    BY <1>1 DEF TopUpStart
  <2>2. /\ pc'[p] \in {"read", "cached"} /\ job'[p].key = j /\ (pc'[p] = "read" => j = NoKey)
    BY <1>1, TopUpStartAt
  <2> QED  BY <2>1, <2>2
<1>2. CASE TopUpCached(p)
  BY <1>2, GotoAt, FinishAt DEF TopUpCached
<1>3. CASE TopUpLock(p)
  BY <1>3, GotoAt, FinishAt DEF TopUpLock
<1>4. CASE TopUpRead(p)
  BY <1>4, TopUpReadAt DEF TopUpRead
<1>5. CASE TopUpDebit(p)
  BY <1>5, GotoAt, FinishAt DEF TopUpDebit
<1>6. CASE TopUpExtend(p)
  BY <1>6, GotoAt, FinishAt DEF TopUpExtend
<1>7. CASE TopUpRefused(p)
  BY <1>7, GotoAt, FinishAt DEF TopUpRefused
<1>8. CASE TopUpRefund(p)
  BY <1>8, GotoAt, FinishAt DEF TopUpRefund
<1>9. CASE TopUpSave(p)
  BY <1>9, GotoAt, FinishAt DEF TopUpSave
<1>10. CASE TopUpKeep(p)
  BY <1>10, GotoAt, FinishAt DEF TopUpKeep
<1>11. ASSUME NEW a \in {"password", "allowed"}, EditStart(p, a) PROVE KeyMoves(p, k)
  BY <1>11, EditStartAt DEF EditStart
<1>12. CASE EditCall(p)
  BY <1>12, EditCallAt DEF EditCall
<1>13. CASE EditRefused(p)
  BY <1>13, GotoAt, FinishAt DEF EditRefused
<1>14. CASE EditWrite(p)
  BY <1>14, GotoAt, FinishAt DEF EditWrite
<1>15. CASE EditCredentials(p)
  BY <1>15, GotoAt, FinishAt DEF EditCredentials
<1>16. CASE EditFails(p)
  BY <1>16, GotoAt, FinishAt DEF EditFails
<1>17. CASE RotateStart(p)
  BY <1>17, RotateStartAt DEF RotateStart
<1>18. CASE RotateFind(p)
  BY <1>18, GotoAt, FinishAt DEF RotateFind
<1>19. CASE RotateCall(p)
  BY <1>19, RotateCallAt DEF RotateCall
<1>20. CASE RotateRefused(p)
  BY <1>20, GotoAt, FinishAt DEF RotateRefused
<1>21. CASE RotateStore(p)
  BY <1>21, GotoAt, FinishAt DEF RotateStore
<1>22. CASE RotateCool(p)
  BY <1>22, GotoAt, FinishAt DEF RotateCool
<1>23. CASE RefetchStart(p)
  BY <1>23, RefetchStartAt DEF RefetchStart
<1>24. CASE RefetchCall(p)
  BY <1>24, RefetchCallAt DEF RefetchCall
<1>25. CASE RefetchRefused(p)
  BY <1>25, GotoAt, FinishAt DEF RefetchRefused
<1>26. CASE RefetchStore(p)
  BY <1>26, GotoAt, FinishAt DEF RefetchStore
<1>27. CASE SyncStart(p)
  BY <1>27, SyncStartAt DEF SyncStart
<1>28. CASE SyncFetch(p)
  BY <1>28, SyncFetchAt DEF SyncFetch
<1>29. CASE SyncRefused(p)
  BY <1>29, GotoAt, FinishAt DEF SyncRefused
<1>30. CASE SyncMark(p)
  BY <1>30, GotoAt, FinishAt DEF SyncMark
<1>31. CASE Abort(p)
  BY <1>31, GotoAt, FinishAt DEF Abort
<1> QED
  BY <1>1, <1>2, <1>3, <1>4, <1>5, <1>6, <1>7, <1>8, <1>9, <1>10, <1>11, <1>12, <1>13, <1>14,
     <1>15, <1>16, <1>17, <1>18, <1>19, <1>20, <1>21, <1>22, <1>23, <1>24, <1>25, <1>26, <1>27,
     <1>28, <1>29, <1>30, <1>31 DEF Act, TopUp, Edit, Rotate, Refetch, Sync

\* While a lock does not lapse, its key tops up once.
LEMMA KeyStep ==
    ASSUME ProcTypes, ControlInv, KeyInv, [Next]_vars
    PROVE  KeyInv'
<1> SUFFICES ASSUME NEW k \in Keys, k \notin lapsed'
             PROVE  OneHolds(k)' /\ \A q \in Procs : KeyAt(q, k)'
  BY DEF KeyInv
<1>1. CASE Environment \/ UNCHANGED vars
  <2>1. UNCHANGED <<pc, job>>
    BY <1>1, OutsideSame
  <2>2. lapsed \subseteq lapsed'
    BY <1>1 DEF Environment, Consume, UpdateProxy, AdminCancel, Expire, Close, EndPasses,
       SwitchPartner, Cooled, Lapse, vars, histVars
  <2>3. \/ k \in locks <=> k \in locks'
        \/ \A q \in Procs : job[q].key # k
    BY <1>1 DEF Environment, Consume, UpdateProxy, AdminCancel, Expire, Close, EndPasses,
       SwitchPartner, Cooled, Lapse, vars, keyVars
  <2>4. answered' = answered
    BY <1>1 DEF Environment, Consume, UpdateProxy, AdminCancel, Expire, Close, EndPasses,
       SwitchPartner, Cooled, Lapse, vars, keyVars
  <2> QED  BY <2>1, <2>2, <2>3, <2>4 DEF KeyInv, OneHolds, Holds, KeyAt
<1>2. ASSUME NEW p \in Procs, Act(p)
      PROVE  OneHolds(k)' /\ \A q \in Procs : KeyAt(q, k)'
  <2>1. KeyMoves(p, k)
    BY <1>2, KeyActs
  <2>2. OneHolds(k) /\ \A q \in Procs : KeyAt(q, k)
    BY <2>1 DEF KeyInv, KeyMoves
  <2>3. \A q \in Procs \ {p} : /\ Holds(q, k)' <=> Holds(q, k)
                               /\ pc'[q] = pc[q] /\ job'[q] = job[q]
    BY <1>2, OthersSame DEF Holds
  <2>4. OneHolds(k)'
    BY <2>1, <2>2, <2>3 DEF KeyMoves, OneHolds, KeyAt
  <2>5. \A q \in Procs \ {p} : KeyAt(q, k)'
    BY <2>1, <2>2, <2>3 DEF KeyMoves, OneHolds, KeyAt
  <2>6. KeyAt(p, k)'
    BY <2>1, <2>2 DEF KeyMoves, KeyAt
  <2> QED  BY <2>4, <2>5, <2>6
<1> QED  BY <1>1, <1>2 DEF Next, Act

-----------------------------------------------------------------------------
(* The ledger of top-ups.                                                  *)

Held == {"extend", "refund", "save"}

Later == troubles' \in {troubles, troubles + 1}

\* A step that moves no money leaves a debit in hand, or none.
Quiet(p) ==
    /\ UNCHANGED <<money, spent, unbooked>> /\ Later
    /\ pc'[p] \in Held <=> pc[p] \in Held

\* A debit is taken in hand, paid back, entered in the ledger, or lost.
WalletMoves(p) ==
    \/ Quiet(p)
    \/ /\ pc[p] \notin Held /\ pc'[p] \in Held
       /\ money' = money - Price /\ UNCHANGED <<spent, unbooked, troubles>>
    \/ /\ pc[p] \in Held /\ pc'[p] \notin Held
       /\ \/ money' = money + Price /\ UNCHANGED <<spent, unbooked, troubles>>
          \/ spent' = spent + Price /\ UNCHANGED <<money, unbooked, troubles>>
          \/ /\ unbooked' = unbooked + Price /\ troubles' = troubles + 1
             /\ UNCHANGED <<money, spent>>

\* Whatever an execution does, it does one of these.
LEMMA WalletActs ==
    ASSUME DocTypes, ProcTypes, ControlInv, NEW p \in Procs, Act(p)
    PROVE  WalletMoves(p)
<1> USE ServiceAssumption, LabelMeans, IdleFields DEF WalletMoves, Held, Later, InHand, moneyVars,
         histVars, bounds
<1>1. ASSUME NEW j \in Keys \cup {NoKey}, TopUpStart(p, j) PROVE WalletMoves(p)
  BY <1>1, TopUpStartAt DEF TopUpStart, Begin, Quiet
<1>2. CASE TopUpCached(p)
  BY <1>2, GotoAt, FinishAt DEF TopUpCached, Quiet
<1>3. CASE TopUpLock(p)
  BY <1>3, GotoAt, FinishAt DEF TopUpLock, Quiet
<1>4. CASE TopUpRead(p)
  BY <1>4, TopUpReadAt DEF TopUpRead, Quiet
<1>5. CASE TopUpDebit(p)
  <2>1. UNCHANGED <<unbooked, troubles>>
    BY <1>5 DEF TopUpDebit
  <2>2. CASE money < Price
    BY <1>5, <2>1, <2>2, FinishAt DEF TopUpDebit, Quiet
  <2>3. CASE ~(money < Price)
    BY <1>5, <2>1, <2>3, GotoAt DEF TopUpDebit, Quiet
  <2> QED  BY <2>2, <2>3
<1>6. CASE TopUpExtend(p)
  BY <1>6, GotoAt, FinishAt DEF TopUpExtend, Quiet
<1>7. CASE TopUpRefused(p)
  BY <1>7, GotoAt DEF TopUpRefused, Trouble, Quiet
<1>8. CASE TopUpRefund(p)
  BY <1>8, GotoAt, FinishAt DEF TopUpRefund, Quiet
<1>9. CASE TopUpSave(p)
  <2>1. UNCHANGED <<unbooked, troubles>>
    BY <1>9 DEF TopUpSave
  <2>2. CASE job[p].key = NoKey
    BY <1>9, <2>1, <2>2, FinishAt DEF TopUpSave, Quiet
  <2>3. CASE ~(job[p].key = NoKey)
    BY <1>9, <2>1, <2>3, GotoAt DEF TopUpSave, Quiet
  <2> QED  BY <2>2, <2>3
<1>10. CASE TopUpKeep(p)
  BY <1>10, GotoAt, FinishAt DEF TopUpKeep, Quiet
<1>11. ASSUME NEW a \in {"password", "allowed"}, EditStart(p, a) PROVE WalletMoves(p)
  BY <1>11, EditStartAt DEF EditStart, Begin, Quiet
<1>12. CASE EditCall(p)
  BY <1>12, EditCallAt DEF EditCall, Quiet
<1>13. CASE EditRefused(p)
  BY <1>13, GotoAt, FinishAt DEF EditRefused, Trouble, Quiet
<1>14. CASE EditWrite(p)
  BY <1>14, GotoAt, FinishAt DEF EditWrite, Quiet
<1>15. CASE EditCredentials(p)
  BY <1>15, GotoAt, FinishAt DEF EditCredentials, Quiet
<1>16. CASE EditFails(p)
  BY <1>16, GotoAt, FinishAt DEF EditFails, Trouble, Quiet
<1>17. CASE RotateStart(p)
  BY <1>17, RotateStartAt DEF RotateStart, Begin, Quiet
<1>18. CASE RotateFind(p)
  BY <1>18, GotoAt, FinishAt DEF RotateFind, Quiet
<1>19. CASE RotateCall(p)
  BY <1>19, RotateCallAt DEF RotateCall, Quiet
<1>20. CASE RotateRefused(p)
  BY <1>20, GotoAt, FinishAt DEF RotateRefused, Trouble, Quiet
<1>21. CASE RotateStore(p)
  BY <1>21, GotoAt, FinishAt DEF RotateStore, Quiet
<1>22. CASE RotateCool(p)
  BY <1>22, GotoAt, FinishAt DEF RotateCool, Quiet
<1>23. CASE RefetchStart(p)
  BY <1>23, RefetchStartAt DEF RefetchStart, Begin, Quiet
<1>24. CASE RefetchCall(p)
  BY <1>24, RefetchCallAt DEF RefetchCall, Quiet
<1>25. CASE RefetchRefused(p)
  BY <1>25, GotoAt, FinishAt DEF RefetchRefused, Trouble, Quiet
<1>26. CASE RefetchStore(p)
  BY <1>26, GotoAt, FinishAt DEF RefetchStore, Quiet
<1>27. CASE SyncStart(p)
  BY <1>27, SyncStartAt DEF SyncStart, Quiet
<1>28. CASE SyncFetch(p)
  BY <1>28, SyncFetchAt DEF SyncFetch, Quiet
<1>29. CASE SyncRefused(p)
  BY <1>29, GotoAt, FinishAt DEF SyncRefused, Trouble, Quiet
<1>30. CASE SyncMark(p)
  BY <1>30, GotoAt, FinishAt DEF SyncMark, Quiet
<1>31. CASE Abort(p)
  <2>1. /\ unbooked' = unbooked + InHand(p) /\ troubles' = troubles + 1
        /\ UNCHANGED <<money, spent>> /\ pc'[p] \notin Held
    BY <1>31, FinishAt DEF Abort, Trouble
  <2>2. CASE pc[p] \in Held
    BY <2>1, <2>2
  <2>3. CASE pc[p] \notin Held
    <3>1. unbooked' = unbooked
      BY <2>1, <2>3 DEF DocTypes
    <3> QED  BY <2>1, <2>3, <3>1 DEF Quiet
  <2> QED  BY <2>2, <2>3
<1> QED
  BY <1>1, <1>2, <1>3, <1>4, <1>5, <1>6, <1>7, <1>8, <1>9, <1>10, <1>11, <1>12, <1>13, <1>14,
     <1>15, <1>16, <1>17, <1>18, <1>19, <1>20, <1>21, <1>22, <1>23, <1>24, <1>25, <1>26, <1>27,
     <1>28, <1>29, <1>30, <1>31 DEF Act, TopUp, Edit, Rotate, Refetch, Sync

\* What the executions have in hand is an integer.
LEMMA HandsType ==
    /\ \A p \in Procs : Hands[p] \in Int /\ Hands'[p] \in Int
    /\ SumFunctionOnSet(Hands, Procs) \in Int
<1>1. \A p \in Procs : Hands[p] \in Int /\ Hands'[p] \in Int
  BY ServiceAssumption DEF Hands, InHand
<1> QED  BY <1>1, ServiceAssumption, SumInt

\* Every step keeps the ledger.
LEMMA WalletStep ==
    ASSUME DocTypes, DocTypes', ProcTypes, ControlInv, WalletInv, [Next]_vars
    PROVE  WalletInv'
<1> DEFINE sum == SumFunctionOnSet(Hands, Procs)
<1>0. /\ money \in Int /\ spent \in Int /\ unbooked \in Int /\ Price \in Int /\ StartMoney \in Int
      /\ sum \in Int /\ troubles \in Nat
      /\ money + spent + unbooked + sum = StartMoney
      /\ troubles = 0 => unbooked = 0
  BY HandsType, ServiceAssumption DEF DocTypes, WalletInv, WalletTopsUp
<1>1. CASE Environment \/ UNCHANGED vars
  <2>1. UNCHANGED <<pc, money, spent, unbooked>> /\ Later
    BY <1>1 DEF Environment, Consume, UpdateProxy, AdminCancel, Expire, Close, EndPasses,
       SwitchPartner, Cooled, Lapse, Trouble, Later, vars, moneyVars, histVars, bounds
  <2>2. Hands' = Hands
    BY <2>1 DEF Hands, InHand
  <2> QED  BY <1>0, <2>1, <2>2 DEF WalletInv, WalletTopsUp, Later
<1>2. ASSUME NEW p \in Procs, Act(p)
      PROVE  WalletInv'
  <2>1. WalletMoves(p)
    BY <1>2, WalletActs
  <2>2. \A q \in Procs \ {p} : Hands'[q] = Hands[q]
    BY <1>2, OthersSame DEF Hands, InHand
  <2>3. SumFunctionOnSet(Hands', Procs) = sum - Hands[p] + Hands'[p]
    BY <2>2, HandsType, ServiceAssumption, SumChange
  <2>4. /\ Hands[p] = IF pc[p] \in Held THEN Price ELSE 0
        /\ Hands'[p] = IF pc'[p] \in Held THEN Price ELSE 0
    BY DEF Hands, InHand, Held
  <2> HIDE DEF sum
  <2>5. /\ troubles' \in Nat
        /\ troubles' = 0 => unbooked' = 0
        /\ money' + spent' + unbooked' + SumFunctionOnSet(Hands', Procs) = StartMoney
    <3>1. CASE Quiet(p)
      <4>1. Hands'[p] = Hands[p] /\ Hands[p] \in Int
        BY <2>4, <3>1, ServiceAssumption DEF Quiet
      <4> QED  BY <1>0, <2>3, <3>1, <4>1 DEF Quiet, Later
    <3>2. CASE ~Quiet(p)
      BY <1>0, <2>1, <2>3, <2>4, <3>2 DEF WalletMoves
    <3> QED  BY <3>1, <3>2
  <2> QED  BY <2>5 DEF WalletInv, WalletTopsUp
<1> QED  BY <1>1, <1>2 DEF Next, Act

\* At first nothing is in hand.
LEMMA WalletInit == Init => WalletInv
<1> SUFFICES ASSUME Init PROVE WalletInv
  OBVIOUS
<1>1. \A p \in Procs : Hands[p] = 0
  BY DEF Init, Hands, InHand
<1>2. SumFunctionOnSet(Hands, Procs) = 0
  BY <1>1, ServiceAssumption, SumZero
<1> QED  BY <1>2, ServiceAssumption DEF Init, WalletInv, WalletTopsUp

-----------------------------------------------------------------------------
(* The invariant and the theorems.                                         *)

\* The labels of the next state tell who is idle there.
LEMMA IdleNext ==
    ASSUME ControlInv', ProcTypes'
    PROVE  \A p \in Procs : pc'[p] = "idle" <=> job'[p].does = "nothing"
<1> SUFFICES ASSUME NEW p \in Procs PROVE pc'[p] = "idle" <=> job'[p].does = "nothing"
  OBVIOUS
<1>1. ControlAt(p)' /\ job'[p].does \in Doings
  BY DEF ControlInv, ProcTypes, Jobs
<1> QED  BY <1>1 DEF ControlAt, LabelsOf, Doings, Entered, Paying

\* The initial states satisfy the invariant.
LEMMA InvInit == Init => IInv
<1> SUFFICES ASSUME Init PROVE IInv
  OBVIOUS
<1>1. TypeOK /\ HandTypes /\ ControlInv
  BY TypeInit, TypeSplit
<1>2. \A p \in Procs : pc[p] = "idle" /\ job[p].does = "nothing" /\ job[p].key = NoKey
  BY IdleFields DEF Init
<1>3. AloneInv
  BY <1>2 DEF AloneInv, Alone, Changers, Aspects
<1>4. GbInv /\ AllowedInv /\ PasswordInv /\ AddressInv
  BY <1>2 DEF Init, GbInv, GbAt, Paying, AllowedInv, Writes, PasswordInv, PasswordAt,
     PasswordTold, AddressInv, AddressAt
<1>5. StatusInv
  BY <1>2 DEF Init, StatusInv, SyncsApart, SyncAt, SpentAt, Paying
<1>6. KeyInv
  BY <1>2 DEF KeyInv, OneHolds, Holds, Entered, Paying, KeyAt
<1> QED  BY <1>1, <1>3, <1>4, <1>5, <1>6, WalletInit DEF IInv

\* Every step keeps the invariant.
LEMMA InvStep == IInv /\ [Next]_vars => IInv'
<1> SUFFICES ASSUME IInv, [Next]_vars PROVE IInv'
  OBVIOUS
<1>1. FlagTypes /\ DocTypes /\ ProcTypes /\ ControlInv
  BY TypeSplit DEF IInv
<1>2. FlagTypes' /\ DocTypes' /\ ProcTypes' /\ ControlInv'
  BY <1>1, FlagStep, DocStep, ProcStep, ControlStep
<1>3. TypeOK' /\ HandTypes'
  <2>1. \A p \in Procs : pc'[p] = "idle" <=> job'[p].does = "nothing"
    BY <1>2, IdleNext
  <2> QED  BY <1>2, <2>1 DEF FlagTypes, DocTypes, ProcTypes, TypeOK, HandTypes
<1>4. AloneInv' /\ GbInv' /\ AllowedInv' /\ PasswordInv' /\ AddressInv' /\ StatusInv' /\ KeyInv'
  BY <1>1, AloneStep, GbStep, AllowedStep, PasswordStep, AddressStep, StatusStep, KeyStep
     DEF IInv
<1>5. WalletInv'
  BY <1>1, <1>2, WalletStep DEF IInv
<1> QED  BY <1>2, <1>3, <1>4, <1>5 DEF IInv

\* IInv is an invariant.
THEOREM Invariance == Spec => []IInv
  BY InvInit, InvStep, PTL DEF Spec

\* Every variable keeps its type: no balance is negative, no gateway is used
\* beyond its quota.
THEOREM TypeCorrect == Spec => []TypeOK
<1>1. IInv => TypeOK
  BY DEF IInv
<1> QED  BY <1>1, Invariance, PTL

\* An aspect that is settled has no execution on its way to write it.
LEMMA SettledMeans ==
    ASSUME NEW a \in Aspects, Settled(a)
    PROVE  a \notin unsure /\ \A p \in Procs : job[p].does \notin Changers(a)
  BY TouchMeans DEF Settled

\* Unless two operations overlapped or one was cut off after the provider's answer,
\* the order shows the quota, addresses and password that are in force at its provider
\* (or the error that did not store the password told it).
THEOREM ShownTruly == Spec => []ShownIsTrue
<1>1. IInv => ShownIsTrue
  <2> SUFFICES ASSUME IInv PROVE ShownIsTrue
    OBVIOUS
  <2>0. ProcTypes /\ ControlInv
    BY TypeSplit DEF IInv
  <2>1. Settled("gb") => gb = remote["gb"]
    <3> SUFFICES ASSUME Settled("gb") PROVE gb = remote["gb"]
      OBVIOUS
    <3>1. "gb" \notin unsure /\ \A p \in Procs : job[p].does # "gb"
      BY SettledMeans DEF Changers, Aspects
    <3>2. \A p \in Procs : pc[p] # "save"
      BY <2>0, <3>1, LabelMeans DEF Entered, Paying
    <3> QED  BY <3>1, <3>2 DEF IInv, GbInv
  <2>2. Settled("allowed") => copy["allowed"] = remote["allowed"]
    BY SettledMeans DEF IInv, AllowedInv, Writes, Changers, Aspects
  <2>3. Settled("address") => copy["address"] = remote["address"]
    <3> SUFFICES ASSUME Settled("address") PROVE copy["address"] = remote["address"]
      OBVIOUS
    <3>1. "address" \notin unsure /\ \A p \in Procs : job[p].does \notin {"address", "proxies"}
      BY SettledMeans DEF Changers, Aspects
    <3>2. \A p \in Procs : pc[p] \notin {"stored", "overwrite"}
      BY <2>0, <3>1, LabelMeans
    <3> QED  BY <3>1, <3>2 DEF IInv, AddressInv
  <2>4. PasswordKnown
    <3> SUFFICES ASSUME Settled("password") PROVE PasswordTold
      BY DEF PasswordKnown, PasswordTold
    <3>1. "password" \notin unsure /\ \A p \in Procs : job[p].does \notin {"password", "proxies"}
      BY SettledMeans DEF Changers, Aspects
    <3>2. \A p \in Procs : ~Writes(p, "password") /\ pc[p] # "credentials"
      BY <2>0, <3>1, LabelMeans DEF Writes
    <3> QED  BY <3>1, <3>2 DEF IInv, PasswordInv
  <2> QED  BY <2>1, <2>2, <2>3, <2>4 DEF ShownIsTrue, MirrorsProvider
<1> QED  BY <1>1, Invariance, PTL

\* An order that no sync met during a top-up is DEPLETED only with its quota spent.
THEOREM DepletedWhenSpent == Spec => []DepletedIsSpent
<1>1. IInv => DepletedIsSpent
  BY SettledMeans DEF IInv, StatusInv, DepletedIsSpent, Aspects
<1> QED  BY <1>1, Invariance, PTL

\* A key tops up once, unless its lock lapsed under the request that held it.
THEOREM KeysTopUpOnce == Spec => []KeyTopsUpOnce
<1>1. IInv => KeyTopsUpOnce
  <2> SUFFICES ASSUME IInv, NEW k \in Keys \ lapsed
               PROVE  Cardinality({p \in Procs : job[p].key = k
                                                 /\ pc[p] \in {"extend", "save", "keep"}})
                      + (IF k \in answered THEN 1 ELSE 0) <= 1
    BY DEF KeyTopsUpOnce
  <2> DEFINE S == {p \in Procs : job[p].key = k /\ pc[p] \in {"extend", "save", "keep"}}
  <2>1. \A p \in S : Holds(p, k)
    BY DEF Holds, Entered, Paying
  <2>2. /\ \A p, q \in S : p = q
        /\ k \in answered => S = {}
    BY <2>1 DEF IInv, KeyInv, OneHolds, KeyAt
  <2>3. CASE S = {}
    BY <2>3, FS_EmptySet
  <2>4. CASE S # {}
    <3>1. PICK p \in S : S = {p}
      BY <2>2, <2>4
    <3>2. Cardinality(S) = 1
      BY <3>1, FS_Singleton
    <3>3. k \notin answered
      BY <2>2, <2>4
    <3> HIDE DEF S
    <3>4. Cardinality(S) + (IF k \in answered THEN 1 ELSE 0) <= 1
      BY <3>2, <3>3
    <3> QED  BY <3>4 DEF S
  <2> QED  BY <2>3, <2>4
<1> QED  BY <1>1, Invariance, PTL

\* What is paid is topped up, once, or paid back once; only a death or a failed write loses it.
THEOREM TopUpsArePaid == Spec => []TopUpsPaid
<1>1. IInv => WalletTopsUp
  BY DEF IInv, WalletInv
<1>2. TypeOK /\ WalletTopsUp /\ KeyTopsUpOnce => TopUpsPaid
  BY DEF TopUpsPaid
<1> QED  BY <1>1, <1>2, TypeCorrect, KeysTopUpOnce, Invariance, PTL
=============================================================================
