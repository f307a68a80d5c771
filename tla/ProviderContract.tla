-------------------------- MODULE ProviderContract --------------------------
(***************************************************************************)
(* What the shop may rely on when it calls a provider's adapter            *)
(* (src/src/proxy-providers/proxy-provider.interface.ts): whatever is lost *)
(* or late on the way, one call is charged at most once for each thing it  *)
(* asks for, and an adapter never claims what the provider has not done.   *)
(* It promises nothing about a call that threw: the provider may have      *)
(* acted, or may still act.                                                *)
(***************************************************************************)
EXTENDS Naturals, Sequences

CONSTANTS
    Units,     \* what a call asks for: the order as a whole, or each proxy
    MaxCalls   \* bound on the calls

VARIABLE calls   \* every call that may cost money, in the order made

Called == [state |-> "open", spent |-> [u \in Units |-> 0], claimed |-> {}]

Open == calls # <<>> /\ calls[Len(calls)].state = "open"

Init == calls = <<>>

Call ==
    /\ ~Open /\ Len(calls) < MaxCalls
    /\ calls' = Append(calls, Called)

\* The provider acts on call i, during the call or after it was given up.
Spend(i) ==
    \E U \in (SUBSET Units) \ {{}} :
        /\ \A u \in U : calls[i].spent[u] = 0
        /\ calls' = [calls EXCEPT ![i].spent = [u \in Units |-> IF u \in U THEN 1 ELSE @[u]]]

\* The call answers, for what was done by then.
Return ==
    /\ Open
    /\ \E C \in SUBSET {u \in Units : calls[Len(calls)].spent[u] = 1} :
          calls' = [calls EXCEPT ![Len(calls)].state = "returned",
                                 ![Len(calls)].claimed = C]

\* The provider acts and its answer comes back: one step of a caller.
SpendAndReturn ==
    /\ Open
    /\ \E U \in (SUBSET Units) \ {{}} : LET last == calls[Len(calls)] IN
         /\ \A u \in U : last.spent[u] = 0
         /\ \E C \in SUBSET (U \cup {u \in Units : last.spent[u] = 1}) :
              calls' = [calls EXCEPT ![Len(calls)] =
                 [state |-> "returned", claimed |-> C,
                  spent |-> [u \in Units |-> IF u \in U THEN 1 ELSE last.spent[u]]]]

Throw ==
    /\ Open
    /\ \E U \in SUBSET {u \in Units : calls[Len(calls)].spent[u] = 0} :
         calls' = [calls EXCEPT ![Len(calls)].state = "threw",
            ![Len(calls)].spent = [u \in Units |-> IF u \in U THEN 1 ELSE @[u]]]

Next ==
    \/ Call \/ Return \/ SpendAndReturn \/ Throw
    \/ \E i \in 1..Len(calls) : Spend(i)

Spec == Init /\ [][Next]_calls
=============================================================================
