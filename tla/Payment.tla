------------------------------ MODULE Payment -------------------------------
(***************************************************************************)
(* The cashier orders of ONE user, from their creation to the credit of    *)
(* their points: createCashierOrder, cancelCashierOrderSafely, the payment *)
(* webhooks and status syncs of internal/http/handlers/api.go, the expiry  *)
(* of pending orders, and the store methods these call, each of which is   *)
(* one transaction.                                                        *)
(*                                                                         *)
(* The payment provider is outside this repository: it opens a session for *)
(* an order, lets the user pay it, closes it on request, and delivers the  *)
(* success of a trade any number of times, late and in any order.          *)
(***************************************************************************)
EXTENDS Integers, FiniteSets

CONSTANTS
    Orders,          \* the orders this user creates
    Trades,          \* provider transaction numbers
    Numbered,        \* orders whose channel numbers the trade when it opens (stripe)
    Cancelers,       \* who may ask to cancel an order: its user, an administrator
    PendingLimit,    \* max_pending_orders_per_user
    Timeout,         \* order_timeout_seconds, in ticks
    MaxTime          \* bound: the clock

NoTrade == "no trade"
NoOrder == "no order"
PaymentAssumption ==
    /\ Numbered \subseteq Orders
    /\ PendingLimit \in Nat /\ Timeout \in Nat /\ MaxTime \in Nat
    /\ NoTrade \notin Trades /\ NoOrder \notin Orders

Statuses == {"none", "pending", "canceled", "expired", "failed", "completed"}
CreateSteps == {"limit", "insert", "display", "initialize", "fail", "done"}
CancelSteps == {"idle", "query", "close", "local", "reconcile"}

VARIABLES
    orders,      \* order -> its row
    credits,     \* order -> how often its points were granted
    events,      \* trade -> the order of its payment.succeeded event
    creator,     \* order -> where the request that creates it is
    canceler,    \* order, asker -> where the request that cancels it is
    session,     \* order -> the provider's session for it
    collected,   \* order -> trades with which the provider collected money
    now

vars == <<orders, credits, events, creator, canceler, session, collected, now>>

(* A request to cancel holds what it read of the row: whether the order    *)
(* was initialized, and its trade.                                         *)
NoRequest == [step |-> "idle", shown |-> FALSE, trade |-> NoTrade]

Rows == [status: Statuses, shown: BOOLEAN, trade: {NoTrade} \cup Trades,
         due: 0 .. MaxTime + Timeout]
Asks == [step: CancelSteps, shown: BOOLEAN, trade: {NoTrade} \cup Trades]
Sessions == [state: {"none", "open", "closed"}, trade: {NoTrade} \cup Trades]

Init ==
    /\ orders = [o \in Orders |->
                    [status |-> "none", shown |-> FALSE, trade |-> NoTrade, due |-> 0]]
    /\ credits = [o \in Orders |-> 0]
    /\ events = [t \in Trades |-> NoOrder]
    /\ creator = [o \in Orders |-> "limit"]
    /\ canceler = [o \in Orders |-> [c \in Cancelers |-> NoRequest]]
    /\ session = [o \in Orders |-> [state |-> "none", trade |-> NoTrade]]
    /\ collected = [o \in Orders |-> {}]
    /\ now = 0

-----------------------------------------------------------------------------
(* Transactions of the store *)

(* Faulty: an order the user was shown never runs out.                     *)
IsDueUnlessShown(o) == orders[o].status = "pending" /\ orders[o].due <= now /\ ~orders[o].shown
(* ExpirePendingOrder *)
IsDue(o) == orders[o].status = "pending" /\ orders[o].due <= now
SetStatus(o, status) == orders' = [orders EXCEPT ![o].status = status]

(* ExpirePendingOrdersForList, when the user's orders are listed.          *)
AfterLazyExpiry ==
    [o \in Orders |-> IF IsDue(o) THEN [orders[o] EXCEPT !.status = "expired"] ELSE orders[o]]

(* Faulty: an order that expired is no longer completed by its payment.    *)
CanRecoverUnlessExpired(status) == status \in {"pending", "canceled", "failed"}
(* PaymentSuccessCanRecoverStatus *)
CanRecover(status) == status \in {"pending", "canceled", "expired", "failed"}

EventFits(o, t) == events[t] \in {NoOrder, o}

IsReplay(o, t) == orders[o].status = "completed" /\ orders[o].trade = t

(* Faulty: a second payment of a completed order grants the points again.  *)
CanCompleteTwice(o, t) == orders[o].status # "none" /\ EventFits(o, t)
CanComplete(o, t) ==
    /\ orders[o].trade \in {NoTrade, t}
    /\ CanRecover(orders[o].status)
    /\ EventFits(o, t)

(* MarkOrderPaid of a cashier order: completeRechargeOrderInTx.            *)
MarkOrderPaid(o, t) ==
    \/ /\ IsReplay(o, t)
       /\ EventFits(o, t)
       /\ events' = [events EXCEPT ![t] = o]
       /\ UNCHANGED <<orders, credits>>
    \/ /\ ~IsReplay(o, t)
       /\ CanComplete(o, t)
       /\ orders' = [orders EXCEPT ![o] = [@ EXCEPT !.status = "completed", !.trade = t]]
       /\ credits' = [credits EXCEPT ![o] = @ + 1]
       /\ events' = [events EXCEPT ![t] = o]

(* CancelOrder *)
CanCancel(o) == orders[o].status = "pending"

-----------------------------------------------------------------------------
(* createCashierOrder: the count of pending orders, the row, the provider, *)
(* the result.                                                             *)

Pending(rows) == Cardinality({o \in Orders : rows[o].status = "pending"})

CheckLimit(o) ==
    /\ creator[o] = "limit"
    /\ orders' = AfterLazyExpiry
    /\ creator' = [creator EXCEPT ![o] =
                    IF Pending(orders') >= PendingLimit THEN "done" ELSE "insert"]
    /\ UNCHANGED <<credits, events, canceler, session, collected, now>>

DueTime == now + Timeout
(* CreateOrder, CreateCustomAmountOrder *)
Insert(o) ==
    /\ creator[o] = "insert"
    /\ orders' = [orders EXCEPT ![o] = [@ EXCEPT !.status = "pending", !.due = DueTime]]
    /\ creator' = [creator EXCEPT ![o] = "display"]
    /\ UNCHANGED <<credits, events, canceler, session, collected, now>>

(* The provider opens a session, refuses, or leaves the request not        *)
(* knowing which; in that case the order stays as it is.                   *)
Display(o) ==
    /\ creator[o] = "display"
    /\ \/ /\ \E t \in IF o \in Numbered THEN Trades ELSE {NoTrade} :
                /\ \A p \in Orders : t # NoTrade => session[p].trade # t
                /\ session' = [session EXCEPT ![o] = [state |-> "open", trade |-> t]]
          /\ \E next \in {"initialize", "done"} : creator' = [creator EXCEPT ![o] = next]
       \/ /\ \E next \in {"fail", "done"} : creator' = [creator EXCEPT ![o] = next]
          /\ UNCHANGED session
    /\ UNCHANGED <<orders, credits, events, canceler, collected, now>>

(* InitializePaymentOrder *)
Initialize(o) ==
    /\ creator[o] = "initialize"
    /\ orders' = IF orders[o].status = "pending"
                 THEN [orders EXCEPT ![o] = [@ EXCEPT !.shown = TRUE, !.trade = session[o].trade]]
                 ELSE orders
    /\ creator' = [creator EXCEPT ![o] = "done"]
    /\ UNCHANGED <<credits, events, canceler, session, collected, now>>

(* FailPaymentOrderInitialization *)
FailInitialization(o) ==
    /\ creator[o] = "fail"
    /\ orders' = IF orders[o].status = "pending" /\ ~orders[o].shown
                 THEN [orders EXCEPT ![o].status = "failed"]
                 ELSE orders
    /\ creator' = [creator EXCEPT ![o] = "done"]
    /\ UNCHANGED <<credits, events, canceler, session, collected, now>>

-----------------------------------------------------------------------------
(* Expiry: the worker's ExpirePendingOrders, or a read of the order.       *)

Expire(o) ==
    /\ IsDue(o)
    /\ SetStatus(o, "expired")
    /\ UNCHANGED <<credits, events, creator, canceler, session, collected, now>>

-----------------------------------------------------------------------------
(* cancelCashierOrderSafely, by the user or by an administrator.           *)

Resume(o, c, step) == canceler' = [canceler EXCEPT ![o][c].step = step]
(* The handler gives up, or dies; the order keeps its status.              *)
GiveUp(o, c) == canceler' = [canceler EXCEPT ![o][c] = NoRequest]

(* An order shown to the user has to be asked for at the provider.         *)
StartCancel(o, c) ==
    /\ canceler[o][c].step = "idle"
    /\ orders[o].status = "pending" /\ ~IsDue(o)
    /\ canceler' = [canceler EXCEPT ![o][c] =
            [step |-> IF orders[o].shown THEN "query" ELSE "local",
             shown |-> orders[o].shown, trade |-> orders[o].trade]]
    /\ UNCHANGED <<orders, credits, events, creator, session, collected, now>>

(* Faulty: an order the provider reports pending is canceled unclosed.     *)
StepForPendingUnclosed(o) == "local"
StepForPending(o) == "close"
QueryCancel(o, c) ==
    /\ canceler[o][c].step = "query"
    /\ \/ Resume(o, c, IF collected[o] # {} THEN "reconcile"
                    ELSE IF session[o].state = "closed" THEN "local"
                    ELSE StepForPending(o))
       \/ GiveUp(o, c)
    /\ UNCHANGED <<orders, credits, events, creator, session, collected, now>>

(* ClosePayment: closed, already paid, or an answer that does not say.     *)
CloseSession(o, c) ==
    /\ canceler[o][c].step = "close"
    /\ IF collected[o] # {}
       THEN UNCHANGED session /\ (Resume(o, c, "reconcile") \/ GiveUp(o, c))
       ELSE \/ session' = [session EXCEPT ![o].state = "closed"]
               /\ (Resume(o, c, "local") \/ GiveUp(o, c))
            \/ UNCHANGED session /\ GiveUp(o, c)
    /\ UNCHANGED <<orders, credits, events, creator, collected, now>>

(* cancelCashierOrderLocally *)
CancelLocally(o, c) ==
    /\ canceler[o][c].step = "local"
    /\ IF CanCancel(o) THEN SetStatus(o, "canceled") ELSE UNCHANGED orders
    /\ GiveUp(o, c)
    /\ UNCHANGED <<credits, events, creator, session, collected, now>>

(* reconcileCashierOrderFromProviderQuery; the trade must be the one of    *)
(* the row read at the start.                                              *)
ReconcileCancel(o, c) ==
    /\ canceler[o][c].step = "reconcile"
    /\ \/ \E t \in collected[o] :
            canceler[o][c].trade \in {NoTrade, t} /\ MarkOrderPaid(o, t)
       \/ UNCHANGED <<orders, credits, events>>
    /\ GiveUp(o, c)
    /\ UNCHANGED <<creator, session, collected, now>>

-----------------------------------------------------------------------------
(* The provider *)

(* The user pays a session whose address reached them; some channels let   *)
(* one session be paid twice, under two transaction numbers.               *)
Pay(o, t) ==
    /\ orders[o].shown /\ session[o].state = "open"
    /\ session[o].trade \in {NoTrade, t}
    /\ \A p \in Orders : t \notin collected[p]
    /\ collected' = [collected EXCEPT ![o] = @ \cup {t}]
    /\ UNCHANGED <<orders, credits, events, creator, canceler, session, now>>

(* A webhook, or a status sync asked for by the user or an administrator,  *)
(* brings the success of a trade.                                          *)
Success(o, t) ==
    /\ t \in collected[o]
    /\ MarkOrderPaid(o, t)
    /\ UNCHANGED <<creator, canceler, session, collected, now>>

Tick ==
    /\ now < MaxTime
    /\ now' = now + 1
    /\ UNCHANGED <<orders, credits, events, creator, canceler, session, collected>>

Create(o) == CheckLimit(o) \/ Insert(o) \/ Display(o) \/ Initialize(o) \/ FailInitialization(o)
Cancel(o, c) == \/ StartCancel(o, c) \/ QueryCancel(o, c) \/ CloseSession(o, c)
                \/ CancelLocally(o, c) \/ ReconcileCancel(o, c)

Next ==
    \/ \E o \in Orders : Create(o) \/ Expire(o)
    \/ \E o \in Orders, c \in Cancelers : Cancel(o, c)
    \/ \E o \in Orders, t \in Trades : Pay(o, t) \/ Success(o, t)
    \/ Tick

(* Providers repeat a success until it is answered with success, and the   *)
(* worker keeps sweeping; nothing else is promised.                        *)
Fairness ==
    /\ \A o \in Orders, t \in Trades : WF_vars(Success(o, t))
    /\ \A o \in Orders : WF_vars(Expire(o))
    /\ WF_vars(Tick)

Spec == Init /\ [][Next]_vars /\ Fairness

-----------------------------------------------------------------------------
(* Properties *)

TypeOK ==
    /\ orders \in [Orders -> Rows]
    /\ credits \in [Orders -> Nat]
    /\ events \in [Trades -> {NoOrder} \cup Orders]
    /\ creator \in [Orders -> CreateSteps]
    /\ canceler \in [Orders -> [Cancelers -> Asks]]
    /\ session \in [Orders -> Sessions]
    /\ collected \in [Orders -> SUBSET Trades]
    /\ now \in 0 .. MaxTime

(* A completed order was credited once, any other order never, whatever    *)
(* webhooks, syncs and cancellations were replayed or raced.               *)
CreditedOnce ==
    \A o \in Orders : credits[o] = IF orders[o].status = "completed" THEN 1 ELSE 0

(* A completed order keeps its status and its trade: no handler that read  *)
(* the order while it was pending overwrites it.                           *)
CompletedIsFinal ==
    [][\A o \in Orders : orders[o].status = "completed" =>
            /\ orders'[o].status = "completed"
            /\ orders'[o].trade = orders[o].trade]_vars

(* A request that read an initialized order cancels it only once its       *)
(* session is closed: no payment can follow, however the steps of payment, *)
(* expiry and other requests fall between its query, close and write.      *)
CancelClosesFirst ==
    [][\A o \in Orders, c \in Cancelers :
            (canceler'[o][c] # canceler[o][c] /\ canceler[o][c].shown
             /\ orders[o].status # "canceled" /\ orders'[o].status = "canceled")
                => session[o].state = "closed"]_vars

(* "A user cannot locally cancel an initialized provider order unless the  *)
(* provider has confirmed it is closed" (PRD of 2026-08-06, line 66).      *)
CanceledIsClosed ==
    \A o \in Orders :
        orders[o].status = "canceled" /\ orders[o].shown => session[o].state = "closed"

(* Money the provider collected ends in a credit, although the order may   *)
(* meanwhile expire, be canceled or be marked failed.                      *)
PaidIsCredited ==
    \A o \in Orders : collected[o] # {} ~> credits[o] > 0

(* A pending order whose time runs out does not stay pending, shown or not.*)
PendingEnds ==
    \A o \in Orders :
        (orders[o].status = "pending" /\ orders[o].due <= MaxTime) ~> orders[o].status # "pending"

-----------------------------------------------------------------------------
(* What the code does not keep: TLC refutes each of these, with the        *)
(* constants the README names.                                             *)

(* "User pending orders over the limit: 409" (technical design of          *)
(* 2026-06-05, line 713): no user has more pending orders than allowed.    *)
PendingWithinLimit == Pending(orders) <= PendingLimit
=============================================================================
