---------------------------- MODULE VoucherQuota ----------------------------
(***************************************************************************)
(* What a voucher promises, with none of the steps that keep the promise.  *)
(*                                                                         *)
(* A purchase that names the voucher is admitted to a place within both    *)
(* quotas, or refused for ever.  A place is held while the purchase is     *)
(* unpaid; a paid purchase keeps its place until the provider's outcome is *)
(* known, and then the place is used up or handed back, for ever.  The     *)
(* administrator may change the terms at any time: later admissions obey   *)
(* the new limits, places already given are not taken back.                *)
(*                                                                         *)
(* VoucherPurchase implements this specification with single-document      *)
(* updates of the voucher, wallet, intent and order documents.             *)
(***************************************************************************)
EXTENDS Integers, FiniteSets

CONSTANTS
    Intents,        \* purchases, one per (user, idempotency key)
    Users,
    Owner,          \* the user of each intent
    Configs         \* the editable terms an administrator may store

Terms == [active: BOOLEAN, totalLimit: Nat \ {0}, perUserLimit: Nat \ {0},
          discount: Nat]

VARIABLES
    config,         \* the terms in force
    phase           \* where each purchase stands

vars == <<config, phase>>

Phases == {"none", "held", "refused", "paid", "used", "returned"}

\* The purchases that occupy a place of the voucher.
Live == {i \in Intents : phase[i] \in {"held", "paid", "used"}}

LiveOf(u) == {i \in Live : Owner[i] = u}

TypeOK == config \in Configs /\ phase \in [Intents -> Phases]

Init == config \in Configs /\ phase = [i \in Intents |-> "none"]

Move(i, from, to) ==
    /\ phase[i] \in from
    /\ phase' = [phase EXCEPT ![i] = to]
    /\ UNCHANGED config

Admit(i) ==
    /\ config.active
    /\ Cardinality(Live) < config.totalLimit
    /\ Cardinality(LiveOf(Owner[i])) < config.perUserLimit
    /\ Move(i, {"none"}, "held")

Refuse(i) == Move(i, {"none", "held"}, "refused")

Pay(i) == Move(i, {"held"}, "paid")

Consume(i) == Move(i, {"paid"}, "used")

Return(i) == Move(i, {"paid"}, "returned")

Configure == config' \in Configs /\ UNCHANGED phase

Next ==
    \/ Configure
    \/ \E i \in Intents :
          Admit(i) \/ Refuse(i) \/ Pay(i) \/ Consume(i) \/ Return(i)

Spec == Init /\ [][Next]_vars
=============================================================================
