------------------------------ MODULE MCRefund ------------------------------
(* Model values for TLC: the grants of one completed order.                *)
EXTENDS Refund, TLC

(* An order of a plan: a point bought and a point given, both of which     *)
(* lapse at time 1.                                                        *)
PlanOrder ==
    [g \in GrantIds |-> IF g = 1 THEN NewGrant("subscription", 1, 1) ELSE NewGrant("gift", 1, 1)]

(* The first number is used for a part and for the rest, the second for    *)
(* the rest.                                                               *)
PartThenRest == {<<1, 0>>, <<1, 1>>, <<2, 0>>}

AdminSymmetry == Permutations(Admins)
=============================================================================
