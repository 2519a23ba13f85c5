------------------------------ MODULE Handlers ------------------------------
(***************************************************************************)
(* The requests of users and administrators that the API process carries   *)
(* out in several transactions: those for a canvas (Canvas) and those for  *)
(* the orders of the cashier (Payment).  The two share no row: a step is   *)
(* one of either.                                                          *)
(***************************************************************************)
EXTENDS Canvas

CONSTANTS
    Orders, Trades, Numbered, Cancelers, PendingLimit, Timeout, MaxTime   \* of Payment

VARIABLES
    orders, credits, events, creator, canceler, session, collected, now   \* of Payment

Cashier == INSTANCE Payment
ASSUME CashierAssumption == Cashier!PaymentAssumption

cashierVars == <<orders, credits, events, creator, canceler, session, collected, now>>
handlerVars == <<vars, cashierVars>>

HandlersInit == Init /\ Cashier!Init
HandlersNext ==
    \/ Next /\ UNCHANGED cashierVars
    \/ Cashier!Next /\ UNCHANGED vars
HandlersSpec == HandlersInit /\ [][HandlersNext]_handlerVars /\ Fairness /\ Cashier!Fairness

-----------------------------------------------------------------------------
(* A completed order was credited once, any other order never, whatever    *)
(* webhooks, syncs and cancellations were replayed or raced.               *)
CreditedOnce == Cashier!CreditedOnce
(* A request that read an initialized order cancels it only once its       *)
(* session is closed, so that no payment can follow                        *)
(* (cancelCashierOrderSafely).                                             *)
CancelClosesFirst == Cashier!CancelClosesFirst
(* Money the provider collected ends in a credit                           *)
(* (completeRechargeOrderInTx).                                            *)
PaidIsCredited == Cashier!PaidIsCredited
(* A pending order whose time runs out does not stay pending               *)
(* (ExpirePendingOrders).                                                  *)
PendingEnds == Cashier!PendingEnds
=============================================================================
