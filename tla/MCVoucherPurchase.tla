------------------------- MODULE MCVoucherPurchase -------------------------
(* VoucherPurchase on instances small enough for TLC.                       *)
EXTENDS VoucherPurchase, TLC

CONSTANTS i1, i2, u1, p1, p2

\* Two purchases of the same user, or a single one.
OneOwner == i1 :> u1 @@ i2 :> u1
SoleOwner == i1 :> u1

Prices == [i \in Intents |-> 2]

Offer(active, total, perUser, discount) ==
    [active |-> active, totalLimit |-> total, perUserLimit |-> perUser,
     discount |-> discount]

\* One place for all, or one place each; the second discount exceeds the price.
TightConfigs == {Offer(TRUE, 1, 2, 1), Offer(TRUE, 2, 1, 3)}

\* Room for both; an edit changes the price, or pauses the voucher.
RoomyConfigs == {Offer(TRUE, 2, 2, 0), Offer(TRUE, 2, 2, 1), Offer(FALSE, 2, 2, 1)}

OneRoomyConfig == {Offer(TRUE, 2, 2, 0)}

\* An execution dies, or the wallet moves once, or an administrator edits once: none of them is
\* fair, so a bound on them takes no step from the fairness.
OneDisturbance ==
    /\ aborts' > 0 => moves' = 0 /\ revision' = 1
    /\ moves' = 0 \/ revision' = 1

\* Purchases of the same user at the same price are interchangeable.
FullSymmetry == Permutations(Procs) \cup Permutations(Intents)
=============================================================================
