----------------------------- MODULE MCWallets -----------------------------
(* The two balances of a user: the wallet that DirectPurchase spends and    *)
(* the affiliate balance of Payouts.  They share no document, so one is     *)
(* explored while the other rests in its initial state.                     *)
EXTENDS Payouts, TLC

CONSTANTS c1, c2, p1, p2, k1, k2,
          Keys, VoucherKeys, Price, StartMoney, MaxRequests, MaxOrders, MaxTroubles

VARIABLES orders, queue, money, spent, cache, lock, step, request,
          unbooked, overlap, lapsed, requests, troubles,
          buying     \* chosen in the initial state: which of the two acts

Shop == INSTANCE DirectPurchase WITH pc <- step, job <- request

ASSUME ShopAssumption == Shop!PurchaseAssumption

MCAmount == c1 :> 1 @@ c2 :> 2

Symmetry == Permutations(Procs)

ShopVars == <<orders, queue, money, spent, cache, lock, step, request, unbooked, overlap,
              lapsed, requests, troubles>>

WalletsNext ==
    /\ UNCHANGED buying
    /\ \/ buying /\ Shop!Next /\ UNCHANGED vars
       \/ ~buying /\ Next /\ UNCHANGED ShopVars

WalletsInit == buying \in BOOLEAN /\ Init /\ Shop!Init

Wallets == WalletsInit /\ [][WalletsNext]_<<vars, ShopVars, buying>>

\* DirectPurchase: every debit is in the ledger, in hand, or unbooked because a call failed or
\* the process died (buy).
PurchasesPaid == Shop!TypeOK /\ Shop!PurchasesPaid

\* DirectPurchase: a retry that follows the answer, or the crash, of the request before it buys
\* nothing more (buy).
RetryIsFree == Shop!RetryIsFree
============================================================================
