---------------------------- MODULE MCVoucherRaces ----------------------------
(* Two purchases of one user by two executions: either places are scarce and *)
(* the wallet is empty until it gains, or there is room for both but the     *)
(* voucher's arrays are nearly full and its terms are edited.                *)
EXTENDS MCVoucherPurchase

VARIABLE crowded     \* chosen in the initial state: which of the two

Crowded == INSTANCE VoucherPurchase WITH
              ReservationCap <- 1, ReceiptCap <- 2, AuditCap <- 2, MaxSafe <- 2,
              StartMoney <- {1}, MaxMoves <- 0

Offers == IF crowded THEN RoomyConfigs ELSE TightConfigs

AllConfigs == TightConfigs \cup RoomyConfigs

RacesInit ==
    /\ crowded \in BOOLEAN /\ config \in Offers
    /\ \/ crowded /\ Crowded!Init
       \/ ~crowded /\ Init

RacesNext ==
    /\ UNCHANGED crowded
    /\ \/ crowded /\ Crowded!Next
       \/ ~crowded /\ Next
    /\ config' \in Offers

Races == RacesInit /\ [][RacesNext]_<<vars, crowded>>
=============================================================================
