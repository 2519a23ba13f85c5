------------------------------- MODULE Wallet -------------------------------
(***************************************************************************)
(* The point wallet of ONE user, as internal/repository/entstore/          *)
(* billing_store.go keeps it: the wallet_grants rows, the                  *)
(* wallet_reservation_allocations rows and the point_ledgers rows.         *)
(*                                                                         *)
(* Every store method runs inside withSerializableTx, which commits all of *)
(* its writes or none, so each method is one action here.  A method that   *)
(* finds its idempotency key already used changes nothing and is a         *)
(* stuttering step; one that returns an error rolls back and is one too.   *)
(*                                                                         *)
(* Points are small integers in place of five-digit decimals and time is a *)
(* bounded counter in place of the wall clock.                             *)
(***************************************************************************)
EXTENDS Integers, FiniteSets, FiniteSetsExt

CONSTANTS
    Tasks,            \* generation tasks that reserve points of this user
    AdjustKeys,       \* idempotency keys of administrator adjustments
    RedeemKeys,       \* idempotency keys this user redeems the code with
    SignupKey,        \* the key of the one signup trial
    MaxGrants,        \* bound: rows of wallet_grants
    MaxPoints,        \* bound: points of one grant, of one amount asked for
    MaxTime,          \* bound: the clock
    MaxCycle,         \* bound: last reservation cycle of a task
    Opening,          \* the grants bought before the history starts
    TrialPoints,      \* signup trial: points
    TrialDays,        \* signup trial: validity
    CodeReward,       \* redeem code: points
    CodeUntil,        \* redeem code: ValidUntil, also the expiry of its grant
    MaxRedemptions    \* redeem code: redemptions over all users

GrantIds == 1 .. MaxGrants
Cycles == 0 .. MaxCycle

(* An expiry that no clock value reaches stands for a NULL expires_at.     *)
Never == MaxTime + TrialDays + CodeUntil + 1

Kinds == {"trial", "subscription", "gift", "recharge"}
GrantStatuses == {"none", "active", "expired", "refunded"}
AllocStatuses == {"none", "reserved", "consumed", "refunded", "settled"}
RowKinds == {"reserve", "consume", "refund", "expire", "admin_adjust",
             "trial_grant", "redeem", "recharge", "payment_refund"}

ASSUME BoundsAssumption ==
    /\ IsFiniteSet(Tasks)
    /\ MaxGrants \in Nat /\ MaxPoints \in Nat
    /\ MaxTime \in Nat /\ MaxCycle \in Nat
    /\ TrialPoints \in 1 .. MaxPoints /\ TrialDays \in Nat
    /\ CodeReward \in 1 .. MaxPoints /\ CodeUntil \in Nat
    /\ MaxRedemptions \in Nat

(* A row of wallet_grants.  hold is refund_freeze_points of its metadata:  *)
(* the part of frozen that waits for a payment refund.                     *)
Grant == [kind: Kinds, status: GrantStatuses, total: Nat, available: Nat,
          frozen: Nat, consumed: Nat, expires: Nat, hold: Nat]

(* A row of wallet_reservation_allocations, found by task, cycle, grant.   *)
Alloc == [status: AllocStatuses, reserved: Nat, consumed: Nat, refunded: Nat]

(* A row of point_ledgers; kind, ref and cycle make its idempotency key.   *)
Row == [kind: RowKinds,
        ref: Tasks \cup AdjustKeys \cup RedeemKeys \cup {SignupKey} \cup GrantIds,
        cycle: Nat, points: Int]

NewGrant(kind, points, expires) ==
    [kind |-> kind, status |-> "active", total |-> points, available |-> points,
     frozen |-> 0, consumed |-> 0, expires |-> expires, hold |-> 0]

NoGrant == [NewGrant("gift", 0, Never) EXCEPT !.status = "none"]
NoAlloc == [status |-> "none", reserved |-> 0, consumed |-> 0, refunded |-> 0]

NewRow(kind, ref, cycle, points) ==
    [kind |-> kind, ref |-> ref, cycle |-> cycle, points |-> points]

ASSUME OpeningAssumption ==
    Opening \in [GrantIds -> {NoGrant} \cup
                  {NewGrant(k, p, e) : k \in Kinds, p \in 1 .. MaxPoints, e \in 0 .. Never}]

VARIABLES
    grants,     \* [GrantIds -> Grant]
    allocs,     \* [Tasks -> [Cycles -> [GrantIds -> Alloc]]]
    ledger,     \* a set of Row
    redeemed,   \* redeemed_count of the code
    now,        \* the clock
    forfeited   \* auxiliary: the allocations whose refund no grant took back

vars == <<grants, allocs, ledger, redeemed, now, forfeited>>

-----------------------------------------------------------------------------
(* Helpers *)

Total(f) == SumFunctionOnSet(f, GrantIds)
TotalRows(rows) == SumFunction([r \in rows |-> r.points])

HasRow(kind, ref, cycle) ==
    \E r \in ledger : r.kind = kind /\ r.ref = ref /\ r.cycle = cycle

(* taskLedgerState: which cycles of a task were reserved, which settled.   *)
ReservedCycles(t) == {c \in Cycles : HasRow("reserve", t, c)}
SettledCycles(t) == {c \in Cycles : HasRow("consume", t, c) \/ HasRow("refund", t, c)}
OpenCycles(t) == ReservedCycles(t) \ SettledCycles(t)
IsActiveCycle(t, c) == c \in OpenCycles(t) /\ \A d \in OpenCycles(t) : d <= c
(* Faulty: numbers the next cycle by the open ones, not by all of them.    *)
IsNextCycleCountingOpen(t, c) == c = Cardinality(OpenCycles(t))
IsNextCycle(t, c) == \A d \in Cycles : d < c <=> d \in ReservedCycles(t) \cup SettledCycles(t)

(* The balance and the reservation look at active grants, the day of       *)
(* expiry included; the sweep and the settlement exclude that day.         *)
Spendable(g) == grants[g].status = "active" /\ now <= grants[g].expires
(* Faulty: credits a refund whatever became of the grant.                  *)
CreditableAlways(grant) == TRUE
Creditable(grant) == grant.status = "active" /\ grant.expires > now
DueToExpire(g) ==
    /\ grants[g].status = "active"
    /\ grants[g].kind \in {"trial", "subscription", "gift"}
    /\ grants[g].expires # Never
    /\ grants[g].expires <= now

GrantPriority(kind) ==
    CASE kind = "trial" -> 1 [] kind = "subscription" -> 2
      [] kind = "gift" -> 3 [] kind = "recharge" -> 4

AdminDeductionPriority(kind) ==
    CASE kind = "recharge" -> 1 [] kind = "gift" -> 2
      [] kind = "subscription" -> 3 [] kind = "trial" -> 9

(* The sort of eligibleGrants.  Two grants of a kind that never expire are *)
(* left in the order the database returned them, which is any order.       *)
ReserveBefore(h, g) ==
    LET p == GrantPriority(grants[h].kind)
        q == GrantPriority(grants[g].kind)
    IN  \/ p < q
        \/ p = q /\ grants[h].expires < grants[g].expires
        \/ p = q /\ grants[h].expires = grants[g].expires
                 /\ grants[h].expires # Never /\ h < g
ReserveOrder == {o \in GrantIds \X GrantIds : ReserveBefore(o[1], o[2])}

(* The sort of deductAvailableGrants. *)
DeductBefore(h, g) ==
    LET p == AdminDeductionPriority(grants[h].kind)
        q == AdminDeductionPriority(grants[g].kind)
    IN  p < q \/ (p = q /\ h < g)
DeductOrder == {o \in GrantIds \X GrantIds : DeductBefore(o[1], o[2])}

(* The ways a loop that walks the grants in the given order, taking what   *)
(* each offers until amount is met, can spread amount.  None exists when   *)
(* the offers do not reach amount: the loop ends in an error.              *)
Spreads(offer, order, amount) ==
    {part \in [GrantIds -> 0 .. MaxPoints] :
        /\ \A g \in GrantIds : part[g] <= offer[g]
        /\ \A g, h \in GrantIds :
               part[g] > 0 /\ <<h, g>> \in order => part[h] = offer[h]
        /\ \A g, h \in GrantIds :
               0 < part[g] /\ part[g] < offer[g] /\ 0 < part[h] /\ part[h] < offer[h] => g = h
        /\ Total(part) = amount}

IsFreeSlot(g) ==
    grants[g].status = "none" /\ \A h \in GrantIds : h < g => grants[h].status # "none"

-----------------------------------------------------------------------------
(* Initial state: the grants already bought, with the rows that paid them. *)

Init ==
    /\ grants = Opening
    /\ allocs = [t \in Tasks |-> [c \in Cycles |-> [g \in GrantIds |-> NoAlloc]]]
    /\ ledger = {NewRow("recharge", g, 0, Opening[g].total) :
                    g \in {h \in GrantIds : Opening[h].status = "active"}}
    /\ redeemed = 0
    /\ now = 0
    /\ forfeited = {}

-----------------------------------------------------------------------------
(* Actions *)

(* Faulty: a retried ReserveTask does not look for an active cycle.        *)
MayReserveAlways(t) == TRUE
MayReserve(t) == OpenCycles(t) = {}

(* ReserveTask: a task without an active cycle opens its next one.         *)
Reserve(t, amount) ==
    /\ MayReserve(t)
    /\ \E c \in Cycles :
        /\ IsNextCycle(t, c)
        /\ \E take \in Spreads([g \in GrantIds |->
                                    IF Spendable(g) THEN grants[g].available ELSE 0],
                               ReserveOrder, amount) :
            /\ grants' = [g \in GrantIds |->
                            [grants[g] EXCEPT !.available = @ - take[g],
                                              !.frozen = @ + take[g]]]
            /\ allocs' = [allocs EXCEPT ![t][c] =
                            [g \in GrantIds |->
                                IF take[g] > 0
                                THEN [NoAlloc EXCEPT !.status = "reserved",
                                                     !.reserved = take[g]]
                                ELSE @[g]]]
        /\ ledger' = ledger \cup {NewRow("reserve", t, c, -amount)}
    /\ UNCHANGED <<redeemed, now, forfeited>>

(* expireExpiredGrants, inside the transactions that begin with it.        *)
Swept(g) ==
    IF DueToExpire(g)
    THEN [grants[g] EXCEPT !.available = 0, !.status = "expired"]
    ELSE grants[g]

(* Faulty: sweeps without writing the expire rows.                         *)
ExpireRowsForgotten == {}
ExpireRows ==
    {NewRow("expire", g, 0, -grants[g].available) :
        g \in {h \in GrantIds : DueToExpire(h) /\ grants[h].available > 0}}

(* Faulty: returns the whole reservation, the consumed part included.      *)
SettledGrantReturnsAll(grant, reserved, consume) ==
    [grant EXCEPT !.available = IF Creditable(grant) THEN @ + reserved ELSE @,
                  !.frozen = IF @ < reserved THEN 0 ELSE @ - reserved,
                  !.consumed = @ + consume]

(* settleAllocations: one grant gives up what was reserved on it.          *)
SettledGrant(grant, reserved, consume) ==
    [grant EXCEPT
        !.available = IF Creditable(grant) THEN @ + (reserved - consume) ELSE @,
        !.frozen = IF @ < reserved THEN 0 ELSE @ - reserved,
        !.consumed = @ + consume]

SettledAlloc(alloc, consume) ==
    IF alloc.status # "reserved" THEN alloc
    ELSE [alloc EXCEPT
            !.consumed = consume,
            !.refunded = alloc.reserved - consume,
            !.status = IF consume = alloc.reserved THEN "consumed"
                       ELSE IF consume > 0 THEN "settled" ELSE "refunded"]

(* Faulty: the refund row carries the reservation, not the difference.     *)
SettleRowsRefundAll(t, c, held, charged) ==
    {NewRow("consume", t, c, -charged), NewRow("refund", t, c, held)}

SettleRows(t, c, held, charged) ==
    (IF charged > 0 THEN {NewRow("consume", t, c, -charged)} ELSE {})
    \cup
    (IF charged = 0 \/ held > charged THEN {NewRow("refund", t, c, held - charged)} ELSE {})

(* FinalizeTask: sweep, then settle the active cycle, charging no more than *)
(* it holds.  A task whose cycles are all settled is answered with the      *)
(* balance after the sweep, which is GetBalance; one never reserved is an   *)
(* error.                                                                   *)
Finalize(t, actual) ==
    /\ \E c \in Cycles, held \in 0 .. MaxPoints :
        LET reservedOn == [g \in GrantIds |->
                IF allocs[t][c][g].status = "reserved" THEN allocs[t][c][g].reserved ELSE 0]
            charged == IF actual > held THEN held ELSE actual
        IN  /\ IsActiveCycle(t, c)
            /\ held = Total(reservedOn)
            /\ held = 0 => NewRow("reserve", t, c, 0) \in ledger
            /\ \E share \in Spreads(reservedOn, ReserveOrder, charged) :
                /\ grants' = [g \in GrantIds |->
                                SettledGrant(Swept(g), reservedOn[g], share[g])]
                /\ allocs' = [allocs EXCEPT ![t][c] =
                                [g \in GrantIds |-> SettledAlloc(@[g], share[g])]]
                /\ forfeited' = forfeited \cup
                        {<<t, c, g>> : g \in {h \in GrantIds :
                            share[h] < reservedOn[h] /\ ~Creditable(Swept(h))}}
            /\ ledger' = ledger \cup ExpireRows \cup SettleRows(t, c, held, charged)
    /\ UNCHANGED <<redeemed, now>>

(* GetBalance: reading the balance sweeps the expired grants.              *)
GetBalance ==
    /\ grants' = [g \in GrantIds |-> Swept(g)]
    /\ ledger' = ledger \cup ExpireRows
    /\ UNCHANGED <<allocs, redeemed, now, forfeited>>

(* Adjust: an administrator adds a grant that never expires, or takes      *)
(* points from the active grants, whatever their expiry.                   *)
Adjust(k, change) ==
    /\ ~HasRow("admin_adjust", k, 0)
    /\ \/ /\ change > 0
          /\ \E g \in GrantIds :
                /\ IsFreeSlot(g)
                /\ grants' = [grants EXCEPT ![g] = NewGrant("gift", change, Never)]
       \/ /\ change < 0
          /\ \E cut \in Spreads([g \in GrantIds |->
                                    IF grants[g].status = "active"
                                    THEN grants[g].available ELSE 0],
                                DeductOrder, -change) :
                grants' = [g \in GrantIds |-> [grants[g] EXCEPT !.available = @ - cut[g]]]
       \/ change = 0 /\ UNCHANGED grants
    /\ ledger' = ledger \cup {NewRow("admin_adjust", k, 0, change)}
    /\ UNCHANGED <<allocs, redeemed, now, forfeited>>

(* EnsureSignupTrialGrant: the trial of a user, granted once.              *)
SignupTrial ==
    /\ ~HasRow("trial_grant", SignupKey, 0)
    /\ \E g \in GrantIds :
        /\ IsFreeSlot(g)
        /\ grants' = [grants EXCEPT ![g] = NewGrant("trial", TrialPoints, now + TrialDays)]
    /\ ledger' = ledger \cup {NewRow("trial_grant", SignupKey, 0, TrialPoints)}
    /\ UNCHANGED <<allocs, redeemed, now, forfeited>>

(* RedeemCode by this user; each idempotency key redeems at most once.     *)
CodeIsOpen == now <= CodeUntil /\ redeemed < MaxRedemptions

Redeem(k) ==
    /\ ~HasRow("redeem", k, 0)
    /\ CodeIsOpen
    /\ \E g \in GrantIds :
        /\ IsFreeSlot(g)
        /\ grants' = [grants EXCEPT ![g] = NewGrant("gift", CodeReward, CodeUntil)]
    /\ ledger' = ledger \cup {NewRow("redeem", k, 0, CodeReward)}
    /\ redeemed' = redeemed + 1
    /\ UNCHANGED <<allocs, now, forfeited>>

(* RedeemCode by another user: only the counter is shared.                 *)
RedeemByOther ==
    /\ CodeIsOpen
    /\ redeemed' = redeemed + 1
    /\ UNCHANGED <<grants, allocs, ledger, now, forfeited>>

Tick ==
    /\ now < MaxTime
    /\ now' = now + 1
    /\ UNCHANGED <<grants, allocs, ledger, redeemed, forfeited>>

ReserveAny == \E t \in Tasks, amount \in 0 .. MaxPoints : Reserve(t, amount)
FinalizeAny == \E t \in Tasks, actual \in 0 .. MaxPoints : Finalize(t, actual)
AdjustAny == \E k \in AdjustKeys, change \in -MaxPoints .. MaxPoints : Adjust(k, change)
RedeemAny == \E k \in RedeemKeys : Redeem(k)

Next ==
    \/ ReserveAny \/ FinalizeAny \/ GetBalance \/ AdjustAny
    \/ SignupTrial \/ RedeemAny \/ RedeemByOther \/ Tick

Spec == Init /\ [][Next]_vars

-----------------------------------------------------------------------------
(* Properties *)

(* Every row has the columns its table declares.                           *)
TypeOK ==
    /\ grants \in [GrantIds -> Grant]
    /\ allocs \in [Tasks -> [Cycles -> [GrantIds -> Alloc]]]
    /\ ledger \subseteq Row
    /\ redeemed \in Nat
    /\ now \in 0 .. MaxTime
    /\ forfeited \subseteq Tasks \X Cycles \X GrantIds

(* No sequence of reservations, settlements, sweeps and adjustments lets a *)
(* grant give out more points than it was created with: the clamped        *)
(* frozen-reserved subtraction of settleAllocations never mints points.    *)
NoMint ==
    \A g \in GrantIds :
        grants[g].available + grants[g].frozen + grants[g].consumed <= grants[g].total

(* The frozen points of a grant are exactly those that open reservations   *)
(* took from it plus those a pending payment refund holds: nothing stays   *)
(* frozen for a task that has settled, and no reservation loses its cover. *)
FrozenIsBacked ==
    \A g \in GrantIds :
        grants[g].frozen = grants[g].hold +
            SumFunction([tc \in Tasks \X Cycles |->
                IF allocs[tc[1]][tc[2]][g].status = "reserved"
                THEN allocs[tc[1]][tc[2]][g].reserved ELSE 0])

(* What the grants record as consumed is what the consume rows of the      *)
(* ledger charged: the two records of spending, written by different       *)
(* functions, never drift apart.                                           *)
ConsumedMatchesLedger ==
    Total([g \in GrantIds |-> grants[g].consumed]) =
        -TotalRows({r \in ledger : r.kind = "consume"})

(* A task has at most one open reservation and it is its latest cycle, so  *)
(* a settlement can never pick an older reservation than the last one.     *)
OneOpenCycle ==
    \A t \in Tasks : \A c \in OpenCycles(t) :
        \A d \in Cycles : d # c => (d \in ReservedCycles(t) <=> d < c) /\ d \notin OpenCycles(t)

(* The allocations of a cycle add up to its ledger rows: reserved equals   *)
(* the reserve row and, once settled, consumed and refunded equal the      *)
(* consume and refund rows.                                                *)
RowPoints(kind, t, c) ==
    TotalRows({r \in ledger : r.kind = kind /\ r.ref = t /\ r.cycle = c})
CycleAddsUp ==
    \A t \in Tasks, c \in Cycles :
        /\ Total([g \in GrantIds |-> allocs[t][c][g].reserved]) = -RowPoints("reserve", t, c)
        /\ Total([g \in GrantIds |-> allocs[t][c][g].consumed]) = -RowPoints("consume", t, c)
        /\ Total([g \in GrantIds |-> allocs[t][c][g].refunded]) = RowPoints("refund", t, c)

(* Points are under reservation only while their cycle is open, and a      *)
(* closed allocation has split what it reserved into consumed and refunded *)
(* without remainder.                                                      *)
AllocationsFollowCycles ==
    \A t \in Tasks, c \in Cycles, g \in GrantIds :
        LET a == allocs[t][c][g]
        IN  /\ a.status = "reserved" => c \in OpenCycles(t)
            /\ a.status \in {"consumed", "settled", "refunded"} =>
                   a.reserved = a.consumed + a.refunded

(* The ledger reconciles with the grants: its rows, the consume rows aside *)
(* (the reserve row already took their points), add up to the points still *)
(* available plus those that were refunded to a grant past its expiry.     *)
LedgerReconciles ==
    TotalRows({r \in ledger : r.kind # "consume"}) =
        Total([g \in GrantIds |-> grants[g].available])
            + SumFunction([a \in forfeited |-> allocs[a[1]][a[2]][a[3]].refunded])

(* An expired grant never holds spendable points again, although           *)
(* settlements of tasks reserved before its expiry still arrive at it.     *)
ExpiredStaysEmpty ==
    \A g \in GrantIds : grants[g].status = "expired" => grants[g].available = 0

(* A settled cycle is closed for good: a replayed or late FinalizeTask     *)
(* changes neither its rows nor its allocations.                           *)
SettlementIsFinal ==
    [][\A t \in Tasks, c \in Cycles :
            c \in SettledCycles(t) =>
                /\ allocs'[t][c] = allocs[t][c]
                /\ \A r \in ledger' :
                       r.kind \in {"reserve", "consume", "refund"} /\ r.ref = t /\ r.cycle = c
                           => r \in ledger]_vars

(* Seen through its ledger rows, the wallet keeps the promise of           *)
(* TaskBilling: one reservation at a time, settled once, never overcharged. *)
OpenAmount(t) ==
    IF OpenCycles(t) = {} THEN -1
    ELSE -SumFunction([c \in OpenCycles(t) |-> RowPoints("reserve", t, c)])
PointsOf(kind, t) == SumFunction([c \in Cycles |-> RowPoints(kind, t, c)])

Billing == INSTANCE TaskBilling WITH
    held <- [t \in Tasks |-> OpenAmount(t)],
    charged <- [t \in Tasks |-> -PointsOf("consume", t)],
    returned <- [t \in Tasks |-> PointsOf("refund", t)]

ImplementsTaskBilling == Billing!Spec
=============================================================================
