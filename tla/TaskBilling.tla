----------------------------- MODULE TaskBilling -----------------------------
(***************************************************************************)
(* What the wallet promises to the services that run paid tasks, without   *)
(* its grants, allocations and cycles: a task holds at most one            *)
(* reservation, a settlement ends it once, charges no more than it held    *)
(* and returns the rest.  Wallet.tla implements this specification.        *)
(***************************************************************************)
EXTENDS Integers

CONSTANTS Tasks, MaxPoints

VARIABLES
    held,      \* task -> points it holds, or Nothing
    charged,   \* task -> points it has paid so far
    returned   \* task -> points it has given back so far

vars == <<held, charged, returned>>

Nothing == -1

Init ==
    /\ held = [t \in Tasks |-> Nothing]
    /\ charged = [t \in Tasks |-> 0]
    /\ returned = [t \in Tasks |-> 0]

Hold(t, amount) ==
    /\ held[t] = Nothing
    /\ held' = [held EXCEPT ![t] = amount]
    /\ UNCHANGED <<charged, returned>>

Settle(t, charge) ==
    /\ held[t] # Nothing
    /\ charge <= held[t]
    /\ held' = [held EXCEPT ![t] = Nothing]
    /\ charged' = [charged EXCEPT ![t] = @ + charge]
    /\ returned' = [returned EXCEPT ![t] = @ + (held[t] - charge)]

Next == \E t \in Tasks, points \in 0 .. MaxPoints : Hold(t, points) \/ Settle(t, points)

Spec == Init /\ [][Next]_vars
=============================================================================
