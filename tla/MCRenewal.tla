----------------------------- MODULE MCRenewal -----------------------------
(* Renewal on two orders and two executions.                                *)
EXTENDS Renewal, TLC

CONSTANTS o1, o2, s1, s2, b1, p1, p2

\* Two proxies in the first order, one in the second.
TwoOrders == o1 :> {s1, s2} @@ o2 :> {s1}
AnyKind == o1 :> "latest" @@ o2 :> "gpnip"

\* The selection holds a proxy of each.
OneOfEach == b1 :> (o1 :> {s1} @@ o2 :> {s1})

\* A request meets the scheduler.  A second one comes only where a failure left a renewal unsaved,
\* once that is over, and the scheduler never fires then.
SecondAfterFailure ==
    /\ requests' > requests /\ requests > 0 =>
         /\ \E o \in Orders : unsaved[o]
         /\ fired = 0 /\ now = 0 /\ \A p \in Executions : stage[p] = "idle"
    /\ requests > 1 => fired' = fired

Symmetry == Permutations(Executions)
=============================================================================
