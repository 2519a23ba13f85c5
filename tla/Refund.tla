------------------------------- MODULE Refund -------------------------------
(***************************************************************************)
(* The refund of ONE completed cashier order, while its owner's tasks keep *)
(* spending: the handler of POST .../orders/{id}/refund in                 *)
(* internal/http/handlers/api.go, run by several administrators at once,   *)
(* the store methods it calls, the payment channel, and the retries of a   *)
(* refund the channel made but the store could not book.                   *)
(*                                                                         *)
(* Each store method is one transaction and one action; the handler holds  *)
(* no lock between them.  The wallet of the owner is Wallet; the order's   *)
(* points are the grants in OrderGrants.                                   *)
(***************************************************************************)
EXTENDS Wallet

CONSTANTS
    OrderGrants,     \* the grants that crediting the order created
    OrderAmount,     \* what the order cost
    RefundTrades,    \* refund trade numbers, one per intended refund
    Admins,          \* administrators working on the order
    Requests,        \* refund_amount_cny of a request; Rest when it is empty
    Submitted,       \* the requests that are sent: <<trade, amount>>
    Channel          \* how the order was paid

Rest == 0
NoTrade == 0

ASSUME RefundAssumption ==
    /\ OrderGrants \subseteq GrantIds
    /\ \A g \in OrderGrants : Opening[g].status = "active"
    /\ OrderAmount \in Nat \ {0}
    /\ RefundTrades \subseteq Nat \ {NoTrade} /\ IsFiniteSet(RefundTrades)
    /\ Requests \subseteq 0 .. OrderAmount
    /\ Submitted \subseteq RefundTrades \X Requests
    /\ Channel \in {"manual", "stripe", "alipay", "easypay"}

OrderStatuses == {"completed", "partially_refunded", "refunded"}
Steps == {"idle", "check", "settle", "freeze", "call", "finish", "release", "withdraw", "record"}

VARIABLES
    order,         \* its row: status and the refund part of its payload
    freeze,        \* grant -> refund_freeze_trade_no and amount of its metadata
    channel,       \* refund trade -> what the payment channel did
    admin,         \* the requests in progress
    compensation   \* refund trade -> its refund.local_finalize_failed event

refundVars == <<order, freeze, channel, admin, compensation>>
allVars == <<grants, allocs, ledger, redeemed, now, forfeited,
             order, freeze, channel, admin, compensation>>

NoFreeze == [trade |-> NoTrade, amount |-> 0]
Idle == [step |-> "idle", trade |-> NoTrade, request |-> Rest,
         status |-> "completed", refunded |-> 0]

RefundInit ==
    /\ Init
    /\ order = [status |-> "completed", amount |-> 0, points |-> 0,
                last |-> NoTrade, records |-> {}]
    /\ freeze = [g \in GrantIds |-> NoFreeze]
    /\ channel = [r \in RefundTrades |-> [state |-> "none", amount |-> 0]]
    /\ admin = [a \in Admins |-> Idle]
    /\ compensation = [r \in RefundTrades |-> "none"]

-----------------------------------------------------------------------------
(* The plan of a refund: the amount asked for, turned into points.         *)

OrderPoints == SumFunction([g \in OrderGrants |-> Opening[g].total])
AmountLeft == OrderAmount - order.amount
PointsLeft == OrderPoints - order.points
AmountAsked(request) == IF request = Rest THEN AmountLeft ELSE request

(* The share of the points, rounded half up; the last refund takes what is *)
(* left.                                                                   *)
PointsAsked(request) ==
    IF AmountAsked(request) = AmountLeft THEN PointsLeft
    ELSE (2 * request * OrderPoints + OrderAmount) \div (2 * OrderAmount)

HasPlan(request) ==
    /\ AmountLeft > 0 /\ PointsLeft > 0
    /\ AmountAsked(request) <= AmountLeft
    /\ PointsAsked(request) \in 1 .. PointsLeft

EndsOrder(request) ==
    \/ order.amount + AmountAsked(request) >= OrderAmount
    \/ order.points + PointsAsked(request) >= OrderPoints

(* What a grant holds frozen for a refund, and the grants a refund of that *)
(* trade may take from.                                                    *)
HeldFor(g, r) == IF freeze[g].trade = r THEN grants[g].hold ELSE 0
RefundableGrants(r) ==
    {g \in OrderGrants : \/ grants[g].status = "active"
                         \/ grants[g].status = "expired" /\ HeldFor(g, r) > 0}

Held(r) == SumFunction([g \in RefundableGrants(r) |-> HeldFor(g, r)])
Available(r) == SumFunction([g \in RefundableGrants(r) |-> grants[g].available])
Frozen(r) == SumFunction([g \in RefundableGrants(r) |-> grants[g].frozen])
Consumed(r) == SumFunction([g \in RefundableGrants(r) |-> grants[g].consumed])

IsRecorded(r) == \E x \in order.records : x.trade = r

(* ensureRefundFreezeSetMatches *)
FreezeMatches(r, request) ==
    /\ \A g \in RefundableGrants(r) :
           HeldFor(g, r) > 0 => /\ grants[g].frozen >= HeldFor(g, r)
                                /\ freeze[g].amount = AmountAsked(request)
    /\ Held(r) = PointsAsked(request)

NothingSpent(r, request) ==
    /\ Consumed(r) = 0
    /\ IF Held(r) > 0
       THEN Frozen(r) = Held(r) /\ Held(r) >= PointsAsked(request)
       ELSE Frozen(r) = 0 /\ Available(r) >= PointsAsked(request)

(* The conditions RefundPaymentOrder checks before it writes.              *)
CanRefund(r, request) ==
    /\ order.status \in {"completed", "partially_refunded"}
    /\ HasPlan(request)
    /\ RefundableGrants(r) # {}
    /\ Held(r) > 0 => FreezeMatches(r, request)
    /\ NothingSpent(r, request)

GrantOrder == {o \in GrantIds \X GrantIds : o[1] < o[2]}
(* allocateRefundAcrossGrants *)
Shares(offer, r, points) ==
    Spreads([g \in GrantIds |-> IF g \in RefundableGrants(r) THEN offer[g] ELSE 0],
            GrantOrder, points)

-----------------------------------------------------------------------------
(* The store's transactions, as relations on the order and the grants.     *)

(* FreezeRefundPaymentOrder: succeeds, with or without writing.            *)
FreezeIsDone(r) == order.status = "refunded" \/ IsRecorded(r)

FreezeRefund(r, request) ==
    \/ /\ FreezeIsDone(r) \/ (HasPlan(request) /\ Held(r) > 0 /\ FreezeMatches(r, request))
       /\ UNCHANGED <<grants, freeze>>
    \/ /\ ~FreezeIsDone(r)
       /\ HasPlan(request)
       /\ RefundableGrants(r) # {}
       /\ Held(r) = 0
       /\ NothingSpent(r, request)
       /\ \E part \in Shares([g \in GrantIds |-> grants[g].available], r, PointsAsked(request)) :
            /\ grants' = [g \in GrantIds |->
                    IF part[g] = 0 THEN grants[g]
                    ELSE [grants[g] EXCEPT !.available = @ - part[g],
                                           !.frozen = @ + part[g],
                                           !.hold = part[g]]]
            /\ freeze' = [g \in GrantIds |->
                    IF part[g] = 0 THEN freeze[g]
                    ELSE [trade |-> r, amount |-> AmountAsked(request)]]

CanFreeze(r, request) ==
    \/ FreezeIsDone(r)
    \/ /\ HasPlan(request)
       /\ RefundableGrants(r) # {}
       /\ IF Held(r) > 0 THEN FreezeMatches(r, request) ELSE NothingSpent(r, request)

(* ReleaseRefundPaymentOrder: one grant. *)
ReleasedGrant(grant) ==
    LET back == IF grant.frozen < grant.hold THEN grant.frozen ELSE grant.hold
        lapsed == grant.status = "expired" \/ grant.expires <= now
    IN  [grant EXCEPT !.available = IF lapsed THEN 0 ELSE @ + back,
                      !.frozen = @ - back,
                      !.status = IF lapsed THEN "expired" ELSE @,
                      !.hold = 0]

ReleaseRefund(r) ==
    LET freed == IF order.status = "refunded" THEN {}
                 ELSE {g \in RefundableGrants(r) : HeldFor(g, r) > 0}
    IN  /\ grants' = [g \in GrantIds |->
                        IF g \in freed THEN ReleasedGrant(grants[g]) ELSE grants[g]]
        /\ freeze' = [g \in GrantIds |-> IF g \in freed THEN NoFreeze ELSE freeze[g]]

(* Faulty: unfreezes the points that the refund took.                      *)
RefundedGrantUnfrozen(grant, part, usesFreeze, ends) ==
    [grant EXCEPT !.available = IF usesFreeze THEN @ + part ELSE @ - part,
                  !.frozen = IF usesFreeze THEN @ - part ELSE @, !.hold = 0]
(* One grant gives up its part of a refund. *)
RefundedGrant(grant, part, usesFreeze, ends) ==
    LET available == IF usesFreeze THEN grant.available ELSE grant.available - part
        frozen == IF usesFreeze THEN grant.frozen - part ELSE grant.frozen
        closed == grant.status # "expired" /\ (ends \/ (available = 0 /\ frozen = 0))
    IN  [grant EXCEPT !.available = available, !.frozen = frozen, !.hold = 0,
                      !.status = IF closed THEN "refunded" ELSE @]

(* Faulty: a refund that is booked again when it is requested again.       *)
IsBookedNever(r) == order.status = "refunded"
IsBooked(r) == IsRecorded(r) \/ order.status = "refunded"

(* RefundPaymentOrder: succeeds, with or without writing.                  *)
RefundOrder(r, request) ==
    \/ IsBooked(r) /\ UNCHANGED <<grants, freeze, order, ledger>>
    \/ /\ ~IsBooked(r)
       /\ CanRefund(r, request)
       /\ \E part \in Shares([g \in GrantIds |-> IF Held(r) > 0 THEN HeldFor(g, r) ELSE grants[g].available],
                             r, PointsAsked(request)) :
            /\ grants' = [g \in GrantIds |->
                    IF part[g] = 0 THEN grants[g]
                    ELSE RefundedGrant(grants[g], part[g], Held(r) > 0, EndsOrder(request))]
            /\ freeze' = [g \in GrantIds |-> IF part[g] = 0 THEN freeze[g] ELSE NoFreeze]
            /\ ledger' = ledger \cup
                    {NewRow("payment_refund", g, r, -part[g]) :
                        g \in {h \in GrantIds : part[h] > 0}}
       /\ order' = [status |-> IF EndsOrder(request) THEN "refunded" ELSE "partially_refunded",
                    amount |-> order.amount + AmountAsked(request),
                    points |-> order.points + PointsAsked(request),
                    last |-> r,
                    records |-> order.records \cup
                        {[trade |-> r, amount |-> AmountAsked(request),
                          points |-> PointsAsked(request)]}]

RefundSucceeds(r, request) == IsBooked(r) \/ CanRefund(r, request)

-----------------------------------------------------------------------------
(* The handler, one action per call it makes.                              *)

At(a, step) == admin[a].step = step
Goto(a, step) == admin' = [admin EXCEPT ![a].step = step]
Leave(a) == admin' = [admin EXCEPT ![a] = Idle]

(* GetOrderForAdmin: the handler keeps the row it read.                    *)
Start(a, r, request) ==
    /\ At(a, "idle")
    /\ <<r, request>> \in Submitted
    /\ admin' = [admin EXCEPT ![a] =
                    [step |-> "check", trade |-> r, request |-> request,
                     status |-> order.status, refunded |-> order.amount]]
    /\ UNCHANGED <<grants, allocs, ledger, redeemed, now, forfeited,
                   order, freeze, channel, compensation>>

(* The trade number of the row CheckRefundPaymentOrder returns: the refund *)
(* asked for if it is booked, otherwise the last one noted in the payload. *)
CheckedTrade(r) == IF order.status # "refunded" /\ IsRecorded(r) THEN r ELSE order.last

(* How the handler recognises a refund that is already booked.             *)
LooksBooked(r) ==
    order.status \in {"partially_refunded", "refunded"} /\ CheckedTrade(r) = r

(* CheckRefundPaymentOrder, and where the handler goes on.                 *)
Check(a) ==
    /\ At(a, "check")
    /\ LET r == admin[a].trade
           passes == IsBooked(r) \/ CanRefund(r, admin[a].request)
       IN  IF ~passes THEN Leave(a)
           ELSE Goto(a, IF LooksBooked(r) THEN "settle" ELSE "freeze")
    /\ UNCHANGED <<grants, allocs, ledger, redeemed, now, forfeited,
                   order, freeze, channel, compensation>>

(* RefundPaymentOrder for a refund that looks booked.                      *)
Settle(a) ==
    /\ At(a, "settle")
    /\ \/ RefundOrder(admin[a].trade, admin[a].request)
       \/ /\ ~RefundSucceeds(admin[a].trade, admin[a].request)
          /\ UNCHANGED <<grants, freeze, order, ledger>>
    /\ Leave(a)
    /\ UNCHANGED <<allocs, redeemed, now, forfeited, channel, compensation>>

(* What the channel is asked to return, from the row read at the start.    *)
LeftAtStart(a) == OrderAmount - admin[a].refunded
AmountForChannel(a) ==
    IF admin[a].request = Rest THEN LeftAtStart(a) ELSE admin[a].request
AmountIsValid(a) == LeftAtStart(a) > 0 /\ AmountForChannel(a) <= LeftAtStart(a)
NeedsChannel(a) ==
    Channel # "manual" /\ admin[a].status \in {"completed", "partially_refunded"}

(* FreezeRefundPaymentOrder and cashierRefundAmountCNYForProvider.         *)
Freeze(a) ==
    /\ At(a, "freeze")
    /\ LET r == admin[a].trade
           request == admin[a].request
       IN  \/ /\ FreezeRefund(r, request)
              /\ Goto(a, IF ~AmountIsValid(a) THEN "release"
                         ELSE IF NeedsChannel(a) THEN "call" ELSE "finish")
           \/ ~CanFreeze(r, request) /\ Leave(a) /\ UNCHANGED <<grants, freeze>>
    /\ UNCHANGED <<allocs, ledger, redeemed, now, forfeited, order, channel, compensation>>

(* ReleaseRefundPaymentOrder, at its three places: "release" where the     *)
(* amount is not valid, the channel refused or an error counts as refusal, *)
(* "withdraw" where the channel was not asked or waits for the customer.   *)
Release(a) ==
    /\ At(a, "release") \/ At(a, "withdraw")
    /\ ReleaseRefund(admin[a].trade)
    /\ Leave(a)
    /\ UNCHANGED <<allocs, ledger, redeemed, now, forfeited, order, channel, compensation>>

(* RefundPaymentOrder, the last call; its failure is recorded if the       *)
(* channel was asked.                                                      *)
Finish(a) ==
    /\ At(a, "finish")
    /\ \/ RefundOrder(admin[a].trade, admin[a].request) /\ Leave(a)
       \/ /\ ~RefundSucceeds(admin[a].trade, admin[a].request)
          /\ IF NeedsChannel(a) THEN Goto(a, "record") ELSE Leave(a)
          /\ UNCHANGED <<grants, freeze, order, ledger>>
    /\ UNCHANGED <<allocs, redeemed, now, forfeited, channel, compensation>>

(* RecordRefundFinalizeFailure; the event does not keep the amount.        *)
Record(a) ==
    /\ At(a, "record")
    /\ compensation' = [compensation EXCEPT ![admin[a].trade] = "failed"]
    /\ Leave(a)
    /\ UNCHANGED <<grants, allocs, ledger, redeemed, now, forfeited, order, freeze, channel>>

(* The request dies with its process or with the client's connection.      *)
Abandon(a) ==
    /\ admin[a].step # "idle"
    /\ Leave(a)
    /\ UNCHANGED <<grants, allocs, ledger, redeemed, now, forfeited,
                   order, freeze, channel, compensation>>

-----------------------------------------------------------------------------
(* The payment channel: outside this repository.                           *)

Returned == SumFunction([r \in RefundTrades |->
                IF channel[r].state \in {"pending", "succeeded"} THEN channel[r].amount ELSE 0])

(* EasyPay gets no refund number, so a repeated call is another refund; to *)
(* the other channels it is the same one.                                  *)
IsRepeat(r) == Channel # "easypay" /\ channel[r].state # "none"

(* What the channel may do with a call.  It never returns more than was    *)
(* paid; only stripe answers before the outcome is known.                  *)
ChannelOutcomes(r, amount) ==
    IF IsRepeat(r) THEN IF channel[r].amount = amount THEN {channel[r]} ELSE {}
    ELSE IF Returned + amount > OrderAmount THEN {}
    ELSE {[state |-> s,
           amount |-> amount + (IF Channel = "easypay" THEN channel[r].amount ELSE 0)] :
             s \in IF Channel = "stripe" THEN {"pending", "succeeded", "failed"}
                   ELSE {"succeeded"}}

(* The handler's reading of an answer: RecordProviderRefundStatus notes a  *)
(* stripe answer in the payload, then the status decides.  A refund under  *)
(* way is reported as pending, or as one that waits for its customer       *)
(* (requires_action), which the handler takes for a failure.               *)
Noted(r) == IF Channel = "stripe" THEN [order EXCEPT !.last = r] ELSE order
Answered(a, outcome) ==
    /\ order' = Noted(admin[a].trade)
    /\ CASE outcome.state = "succeeded" -> Goto(a, "finish")
         [] outcome.state = "pending" -> Leave(a) \/ Goto(a, "withdraw")
         [] outcome.state = "failed" -> Goto(a, "release")

(* Faulty: the freeze is released although the outcome is unknown.         *)
UnansweredReleases(a) == Goto(a, "release")
(* The answer is lost.  refundCashierOrderWithProvider reports an uncertain *)
(* outcome for stripe only; any other error counts as a refusal.           *)
Unanswered(a) == IF Channel = "stripe" THEN Leave(a) ELSE Goto(a, "release")

(* The call fails before the channel is asked, be it the first call of the *)
(* trade or a repetition: the instance of the provider is gone, or its     *)
(* secret key is.  The error is certain, also on stripe.                   *)
NotAsked(a) == Goto(a, "withdraw") /\ UNCHANGED <<channel, order>>

(* refundCashierOrderWithProvider, and where the handler goes on.          *)
Call(a) ==
    /\ At(a, "call")
    /\ \/ \E outcome \in ChannelOutcomes(admin[a].trade, AmountForChannel(a)) :
            /\ channel' = [channel EXCEPT ![admin[a].trade] = outcome]
            /\ \/ Answered(a, outcome)
               \/ Unanswered(a) /\ UNCHANGED order
       \/ Unanswered(a) /\ UNCHANGED <<channel, order>>
       \/ NotAsked(a)
    /\ UNCHANGED <<grants, allocs, ledger, redeemed, now, forfeited, freeze, compensation>>

(* A stripe refund that is under way comes to its end. *)
ChannelSettles(r) ==
    /\ channel[r].state = "pending"
    /\ \E s \in {"succeeded", "failed"} : channel' = [channel EXCEPT ![r].state = s]
    /\ UNCHANGED <<grants, allocs, ledger, redeemed, now, forfeited,
                   order, freeze, admin, compensation>>

-----------------------------------------------------------------------------
(* RetryWebhookEvent, by an administrator or by the worker's               *)
(* ProcessRefundFinalizeFailures: the refund again, of the rest because    *)
(* the event carries no amount, then the event's status in a write of its  *)
(* own that a crash can lose.                                              *)
RetryRequest(r) == Rest
Retry(r) ==
    /\ compensation[r] = "failed"
    /\ RefundOrder(r, RetryRequest(r))
    /\ \E after \in {"processed", "failed"} :
            compensation' = [compensation EXCEPT ![r] = after]
    /\ UNCHANGED <<allocs, redeemed, now, forfeited, channel, admin>>

RefundStep ==
    \/ \E a \in Admins, r \in RefundTrades, request \in Requests : Start(a, r, request)
    \/ \E a \in Admins : Check(a) \/ Settle(a) \/ Freeze(a) \/ Call(a) \/ Release(a)
                            \/ Finish(a) \/ Record(a) \/ Abandon(a)
    \/ \E r \in RefundTrades : ChannelSettles(r) \/ Retry(r)

WalletStep ==
    /\ ReserveAny \/ FinalizeAny \/ GetBalance \/ AdjustAny \/ Tick
    /\ UNCHANGED refundVars

RefundNext == RefundStep \/ WalletStep

RefundSpec == RefundInit /\ [][RefundNext]_allVars

-----------------------------------------------------------------------------
(* Properties *)

RefundTypeOK ==
    /\ order \in [status: OrderStatuses, amount: 0 .. OrderAmount, points: 0 .. OrderPoints,
                  last: {NoTrade} \cup RefundTrades,
                  records: SUBSET [trade: RefundTrades, amount: 1 .. OrderAmount,
                                   points: 1 .. OrderPoints]]
    /\ freeze \in [GrantIds -> [trade: {NoTrade} \cup RefundTrades, amount: 0 .. OrderAmount]]
    /\ channel \in [RefundTrades -> [state: {"none", "pending", "succeeded", "failed"},
                                    amount: 0 .. OrderAmount]]
    /\ admin \in [Admins -> [step: Steps, trade: {NoTrade} \cup RefundTrades,
                             request: {Rest} \cup Requests, status: OrderStatuses,
                             refunded: 0 .. OrderAmount]]
    /\ compensation \in [RefundTrades -> {"none", "failed", "processed"}]

(* However many administrators, retries and lost answers there are, the    *)
(* order's totals are those of its refund records, each trade is recorded  *)
(* once, and the points they name are the payment_refund rows written.     *)
RefundsAddUp ==
    /\ order.amount = SumFunction([x \in order.records |-> x.amount])
    /\ order.points = SumFunction([x \in order.records |-> x.points])
    /\ \A x, y \in order.records : x.trade = y.trade => x = y
    /\ \A x \in order.records :
           x.points = -TotalRows({w \in ledger : w.kind = "payment_refund" /\ w.cycle = x.trade})

(* A point of the order is spent, refunded or still there, never two of    *)
(* these: what a grant has left, what tasks consumed and what refunds took *)
(* back stay within what the order credited.                               *)
NoPointTwice ==
    \A g \in OrderGrants :
        grants[g].available + grants[g].frozen + grants[g].consumed
            - TotalRows({w \in ledger : w.kind = "payment_refund" /\ w.ref = g})
        <= Opening[g].total

(* A refunded order has no spendable or frozen points left in its grants.  *)
RefundedIsEmpty ==
    order.status = "refunded" =>
        \A g \in OrderGrants :
            grants[g].available = 0 /\ grants[g].frozen = 0 /\ grants[g].consumed = 0

(* Points held for a refund belong to a refund that can still be booked:   *)
(* no freeze survives the record of its trade.                             *)
FreezeIsPending ==
    \A g \in GrantIds :
        /\ (grants[g].hold > 0) <=> (freeze[g].trade # NoTrade)
        /\ grants[g].hold > 0 => g \in OrderGrants /\ ~IsRecorded(freeze[g].trade)

(* The answer of stripe may get lost, and several requests may work on one *)
(* trade: the points frozen for a refund then go back to the user only     *)
(* after the channel has refused it, or by a request that did not get to   *)
(* ask the channel or was told that the refund waits for the customer.     *)
(* Without a channel they never go back.                                   *)
LostAnswerKeepsFreeze ==
    [][\A g \in GrantIds :
            LET r == freeze[g].trade
            IN  /\ Channel \in {"stripe", "manual"}
                /\ r # NoTrade /\ freeze'[g].trade = NoTrade
                /\ \A x \in order'.records : x.trade # r
                => \/ channel[r].state = "failed"
                   \/ \E a \in Admins : admin[a].trade = r /\ admin[a].step = "withdraw"]_allVars

-----------------------------------------------------------------------------
(* What the code does not keep: TLC refutes each of these, with the        *)
(* constants the README names.                                             *)

(* "provider %s must not settle local refund" (admin_cashier_api_test.go): *)
(* a refund is booked only once the channel has made it.                   *)
WaitsForProvider ==
    Channel # "manual" =>
        \A x \in order.records : channel[x.trade].state = "succeeded"

(* The points frozen for a refund go back only if the channel did not make *)
(* the refund: a repetition that cannot ask any more releases them although *)
(* the first call went through.                                            *)
ReleaseMeansRefused ==
    [][\A g \in GrantIds :
            LET r == freeze[g].trade
            IN  /\ r # NoTrade /\ freeze'[g].trade = NoTrade
                /\ \A x \in order'.records : x.trade # r
                => channel[r].state # "succeeded"]_allVars

(* While its freeze stands, a refund the channel has made can be booked:   *)
(* no task gets between the channel and the books.                         *)
FreezeProtects ==
    \A g \in GrantIds :
        LET r == freeze[g].trade
        IN  r # NoTrade /\ channel[r].state = "succeeded" /\ Channel # "manual" =>
                CanRefund(r, freeze[g].amount)
=============================================================================
