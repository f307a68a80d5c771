---------------------------- MODULE MCDepositCredit ----------------------------
(* DepositCredit on instances small enough for TLC.                         *)
EXTENDS DepositCredit, TLC

CONSTANTS t1, t2, u1, u2, c1

OneIntent == c1 :> u1

Wire(method, intent, names, fit) ==
    [method |-> method, intent |-> intent, names |-> names, fit |-> fit]

Bonus == Wire("bank", c1, u1, "fits")

\* Every kind of transfer the handlers tell apart.
Kinds ==
    {Wire("bank", c1, u1, f) : f \in {"fits", "late", "differs"}} \cup
    {Wire("bank", NoIntent, u1, f) : f \in {"fits", "small"}} \cup
    {Wire("bank", NoIntent, NoUser, f) : f \in {"fits", "unknown"}} \cup
    {Wire("binance", NoIntent, u1, "fits")}

\* A wallet holds a fraction, or an execution dies and the wallets are spent from: none of them is
\* fair, so a bound on them takes no step from the fairness.
OneDisturbance ==
    \/ \A u \in Users : whole'[u]
    \/ aborts' = 0 /\ \A u \in Users : spent'[u] = 0 /\ (u # u1 => whole'[u])

\* A transfer with a bonus, next to one of any kind.
BonusAndAny == {t1 :> Bonus @@ t2 :> w : w \in Kinds}
=============================================================================
