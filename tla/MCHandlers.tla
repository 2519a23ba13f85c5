----------------------------- MODULE MCHandlers ------------------------------
(* Either model with the other at rest: a node and a run for a canvas      *)
(* whose user may undo, and no order; or orders, and a canvas that nobody  *)
(* opens.  No symmetry is declared: the runs check liveness, for which it  *)
(* is unsound.                                                             *)
EXTENDS Handlers, TLC

CONSTANTS n1, r1, d1, d2

OneRun == r1 :> n1
Undo == {<<d1, d2>>, <<d2, d1>>}

NoRun == [r \in {} |-> n1]
=============================================================================
