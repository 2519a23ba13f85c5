---------------------------- MODULE MCImageTask -----------------------------
(* Model values for TLC: slots in processes of their own, and requests that *)
(* all carry the idempotency key of one task.                               *)
EXTENDS ImageTask, TLC

CONSTANT t1

EachItsOwn == [s \in Slots |-> s]
OneTask == [r \in Requests |-> t1]
=============================================================================
