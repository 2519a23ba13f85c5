----------------------------- MODULE WalletProofs -----------------------------
(***************************************************************************)
(* Theorems about Wallet for every number of grants, tasks, cycles, keys   *)
(* and points, and about Refund, which extends it, for every number of     *)
(* administrators and refunds.                                             *)
(***************************************************************************)
EXTENDS Refund, FiniteSetTheorems, WellFoundedInduction, TLAPS

-----------------------------------------------------------------------------
(* Typing *)

(* A grant built with natural numbers has the columns of the table.        *)
LEMMA NewGrantType ==
    ASSUME NEW kind \in Kinds, NEW points \in Nat, NEW expires \in Nat
    PROVE  NewGrant(kind, points, expires) \in Grant
BY DEF NewGrant, Grant, GrantStatuses

(* The expiry that stands for NULL is a natural number.                    *)
LEMMA NeverType == Never \in Nat
BY BoundsAssumption DEF Never

(* Every ledger row the module writes is a row of the table.               *)
LEMMA NewRowType ==
    ASSUME NEW kind \in RowKinds, NEW cycle \in Nat, NEW points \in Int,
           NEW ref \in Tasks \cup AdjustKeys \cup RedeemKeys \cup {SignupKey} \cup GrantIds
    PROVE  NewRow(kind, ref, cycle, points) \in Row
BY DEF NewRow, Row

(* A spread takes natural amounts, none beyond what is offered.            *)
LEMMA SpreadBounds ==
    ASSUME NEW offer, NEW before, NEW amount, NEW part \in Spreads(offer, before, amount),
           NEW g \in GrantIds
    PROVE  part[g] \in Nat /\ part[g] <= offer[g]
BY DEF Spreads

(* A cycle is a natural number.                                            *)
LEMMA CyclesNat == Cycles \subseteq Nat
BY BoundsAssumption DEF Cycles

(* The sweep keeps the table's columns and leaves expired grants empty.    *)
LEMMA SweptType ==
    ASSUME TypeOK, NEW g \in GrantIds
    PROVE  Swept(g) \in Grant
BY DEF TypeOK, Swept, Grant, GrantStatuses

(* The expire rows are rows of the table.                                  *)
LEMMA ExpireRowsType ==
    ASSUME TypeOK
    PROVE  ExpireRows \subseteq Row
BY DEF TypeOK, ExpireRows, Grant, NewRow, Row, RowKinds

(* Settling with a share no larger than the reservation keeps the columns. *)
LEMMA SettledGrantType ==
    ASSUME NEW grant \in Grant, NEW reserved \in Nat, NEW consume \in Nat, consume <= reserved
    PROVE  SettledGrant(grant, reserved, consume) \in Grant
<1>1. (IF Creditable(grant) THEN grant.available + (reserved - consume)
                            ELSE grant.available) \in Nat
  BY DEF Grant, Creditable
<1>2. (IF grant.frozen < reserved THEN 0 ELSE grant.frozen - reserved) \in Nat
  BY DEF Grant
<1>3. grant.consumed + consume \in Nat
  BY DEF Grant
<1> QED BY <1>1, <1>2, <1>3 DEF SettledGrant, Grant

(* A settled allocation has the columns of its table.                      *)
LEMMA SettledAllocType ==
    ASSUME NEW alloc \in Alloc, NEW consume \in Nat,
           alloc.status = "reserved" => consume <= alloc.reserved
    PROVE  SettledAlloc(alloc, consume) \in Alloc
<1>1. CASE alloc.status # "reserved"
  BY <1>1 DEF SettledAlloc
<1>2. CASE alloc.status = "reserved"
  <2>1. alloc.reserved - consume \in Nat
    BY <1>2 DEF Alloc
  <2> DEFINE status == IF consume = alloc.reserved THEN "consumed"
                       ELSE IF consume > 0 THEN "settled" ELSE "refunded"
  <2>2. status \in AllocStatuses
    BY DEF AllocStatuses
  <2>3. SettledAlloc(alloc, consume) =
          [alloc EXCEPT !.consumed = consume, !.refunded = alloc.reserved - consume,
                        !.status = status]
    BY <1>2 DEF SettledAlloc
  <2> HIDE DEF status
  <2> QED BY <2>1, <2>2, <2>3 DEF Alloc
<1> QED BY <1>1, <1>2

(* The rows of a settlement are rows of the table.                         *)
LEMMA SettleRowsType ==
    ASSUME NEW t \in Tasks, NEW c \in Cycles, NEW held \in Nat, NEW charged \in Nat
    PROVE  SettleRows(t, c, held, charged) \subseteq Row
<1>1. c \in Nat /\ -charged \in Int /\ held - charged \in Int
  BY CyclesNat
<1> QED BY <1>1 DEF SettleRows, NewRow, Row, RowKinds

(* The initial rows have their types.                                      *)
LEMMA TypeInit == Init => TypeOK
<1> SUFFICES ASSUME Init PROVE TypeOK
  OBVIOUS
<1>1. Opening \in [GrantIds -> Grant]
  <2>1. NoGrant \in Grant
    BY NeverType DEF NoGrant, NewGrant, Grant, GrantStatuses, Kinds
  <2>2. \A k \in Kinds, p \in 1 .. MaxPoints, e \in 0 .. Never : NewGrant(k, p, e) \in Grant
    BY NewGrantType, NeverType, BoundsAssumption
  <2> QED BY <2>1, <2>2, OpeningAssumption
<1>2. ledger \subseteq Row
  BY <1>1 DEF Init, NewRow, Row, RowKinds, Grant
<1>3. allocs \in [Tasks -> [Cycles -> [GrantIds -> Alloc]]]
  BY DEF Init, NoAlloc, Alloc, AllocStatuses
<1> QED BY <1>1, <1>2, <1>3, BoundsAssumption DEF Init, TypeOK

(* Every step keeps the types of the rows.                                 *)
LEMMA TypeNext == TypeOK /\ [Next]_vars => TypeOK'
<1> SUFFICES ASSUME TypeOK, [Next]_vars PROVE TypeOK'
  OBVIOUS
<1>1. ASSUME NEW t \in Tasks, NEW amount \in 0 .. MaxPoints, Reserve(t, amount)
      PROVE  TypeOK'
  <2>1. PICK c \in Cycles :
          /\ ledger' = ledger \cup {NewRow("reserve", t, c, -amount)}
          /\ \E take \in Spreads([g \in GrantIds |->
                                  IF Spendable(g) THEN grants[g].available ELSE 0],
                             ReserveOrder, amount) :
              /\ grants' = [g \in GrantIds |->
                              [grants[g] EXCEPT !.available = @ - take[g],
                                                !.frozen = @ + take[g]]]
              /\ allocs' = [allocs EXCEPT ![t][c] =
                              [g \in GrantIds |->
                                  IF take[g] > 0
                                  THEN [NoAlloc EXCEPT !.status = "reserved",
                                                       !.reserved = take[g]]
                                  ELSE @[g]]]
    BY <1>1 DEF Reserve
  <2>2. PICK take \in Spreads([g \in GrantIds |->
                                  IF Spendable(g) THEN grants[g].available ELSE 0],
                             ReserveOrder, amount) :
              /\ grants' = [g \in GrantIds |->
                              [grants[g] EXCEPT !.available = @ - take[g],
                                                !.frozen = @ + take[g]]]
              /\ allocs' = [allocs EXCEPT ![t][c] =
                              [g \in GrantIds |->
                                  IF take[g] > 0
                                  THEN [NoAlloc EXCEPT !.status = "reserved",
                                                       !.reserved = take[g]]
                                  ELSE @[g]]]
    BY <2>1
  <2>3. ASSUME NEW g \in GrantIds
        PROVE  take[g] \in Nat /\ take[g] <= grants[g].available
    <3>1. grants[g].available \in Nat
      BY DEF TypeOK, Grant
    <3>2. /\ take[g] \in Nat
          /\ take[g] <= (IF Spendable(g) THEN grants[g].available ELSE 0)
      BY SpreadBounds
    <3> QED BY <3>1, <3>2 DEF Spendable
  <2>4. grants' \in [GrantIds -> Grant]
    <3>1. ASSUME NEW g \in GrantIds
          PROVE  [grants[g] EXCEPT !.available = @ - take[g], !.frozen = @ + take[g]] \in Grant
      <4>1. grants[g] \in Grant
        BY DEF TypeOK
      <4>2. grants[g].available - take[g] \in Nat /\ grants[g].frozen + take[g] \in Nat
        BY <4>1, <2>3 DEF Grant
      <4> QED BY <4>1, <4>2 DEF Grant
    <3> QED BY <2>2, <3>1
  <2>5. allocs' \in [Tasks -> [Cycles -> [GrantIds -> Alloc]]]
    <3> DEFINE taken(g) == IF take[g] > 0
                           THEN [NoAlloc EXCEPT !.status = "reserved", !.reserved = take[g]]
                           ELSE allocs[t][c][g]
    <3>1. \A g \in GrantIds : taken(g) \in Alloc
      <4> SUFFICES ASSUME NEW g \in GrantIds PROVE taken(g) \in Alloc
        OBVIOUS
      <4>1. allocs[t][c][g] \in Alloc
        BY DEF TypeOK
      <4>2. [NoAlloc EXCEPT !.status = "reserved", !.reserved = take[g]] \in Alloc
        BY <2>3 DEF Alloc, NoAlloc, AllocStatuses
      <4> QED BY <4>1, <4>2
    <3>2. allocs' = [allocs EXCEPT ![t][c] = [g \in GrantIds |-> taken(g)]]
      BY <2>2
    <3> HIDE DEF taken
    <3> QED BY <3>1, <3>2 DEF TypeOK
  <2>6. ledger' \subseteq Row
    <3>1. c \in Nat /\ -amount \in Int
      BY CyclesNat, BoundsAssumption
    <3>2. NewRow("reserve", t, c, -amount) \in Row
      BY <3>1, NewRowType DEF RowKinds
    <3> QED BY <2>1, <3>2 DEF TypeOK
  <2> QED BY <1>1, <2>4, <2>5, <2>6 DEF Reserve, TypeOK
<1>2. ASSUME NEW t \in Tasks, NEW actual \in 0 .. MaxPoints, Finalize(t, actual)
      PROVE  TypeOK'
  <2> DEFINE reservedOn(c) == [g \in GrantIds |->
          IF allocs[t][c][g].status = "reserved" THEN allocs[t][c][g].reserved ELSE 0]
             charged(held) == IF actual > held THEN held ELSE actual
  <2>1. PICK c \in Cycles, held \in 0 .. MaxPoints :
          /\ ledger' = ledger \cup ExpireRows \cup SettleRows(t, c, held, charged(held))
          /\ \E share \in Spreads(reservedOn(c), ReserveOrder, charged(held)) :
              /\ grants' = [g \in GrantIds |->
                              SettledGrant(Swept(g), reservedOn(c)[g], share[g])]
              /\ allocs' = [allocs EXCEPT ![t][c] =
                              [g \in GrantIds |-> SettledAlloc(@[g], share[g])]]
              /\ forfeited' = forfeited \cup
                      {<<t, c, g>> : g \in {h \in GrantIds :
                          share[h] < reservedOn(c)[h] /\ ~Creditable(Swept(h))}}
    BY <1>2 DEF Finalize
  <2>2. PICK share \in Spreads(reservedOn(c), ReserveOrder, charged(held)) :
              /\ grants' = [g \in GrantIds |->
                              SettledGrant(Swept(g), reservedOn(c)[g], share[g])]
              /\ allocs' = [allocs EXCEPT ![t][c] =
                              [g \in GrantIds |-> SettledAlloc(@[g], share[g])]]
              /\ forfeited' = forfeited \cup
                      {<<t, c, g>> : g \in {h \in GrantIds :
                          share[h] < reservedOn(c)[h] /\ ~Creditable(Swept(h))}}
    BY <2>1
  <2>3. ASSUME NEW g \in GrantIds
        PROVE  /\ reservedOn(c)[g] \in Nat
               /\ share[g] \in Nat
               /\ share[g] <= reservedOn(c)[g]
    <3>1. allocs[t][c][g] \in Alloc
      BY DEF TypeOK
    <3>2. reservedOn(c)[g] \in Nat
      BY <3>1 DEF Alloc
    <3> HIDE DEF reservedOn
    <3> QED BY <3>2, SpreadBounds
  <2>4. grants' \in [GrantIds -> Grant]
    <3>1. \A g \in GrantIds : SettledGrant(Swept(g), reservedOn(c)[g], share[g]) \in Grant
      <4> HIDE DEF reservedOn
      <4> QED BY <2>3, SweptType, SettledGrantType
    <3> QED BY <2>2, <3>1
  <2>5. allocs' \in [Tasks -> [Cycles -> [GrantIds -> Alloc]]]
    <3>1. \A g \in GrantIds : allocs[t][c][g] \in Alloc
      BY DEF TypeOK
    <3>2. \A g \in GrantIds : SettledAlloc(allocs[t][c][g], share[g]) \in Alloc
      <4> SUFFICES ASSUME NEW g \in GrantIds
                   PROVE  SettledAlloc(allocs[t][c][g], share[g]) \in Alloc
        OBVIOUS
      <4>1. allocs[t][c][g].status = "reserved" => share[g] <= allocs[t][c][g].reserved
        BY <2>3
      <4>2. share[g] \in Nat
        BY <2>3
      <4> QED BY <3>1, <4>1, <4>2, SettledAllocType
    <3>3. [g \in GrantIds |-> SettledAlloc(allocs[t][c][g], share[g])] \in [GrantIds -> Alloc]
      BY <3>2
    <3> QED BY <2>2, <3>3 DEF TypeOK
  <2>6. ledger' \subseteq Row
    <3>1. held \in Nat /\ charged(held) \in Nat
      BY BoundsAssumption
    <3> QED BY <2>1, <3>1, ExpireRowsType, SettleRowsType DEF TypeOK
  <2>7. forfeited' \subseteq Tasks \X Cycles \X GrantIds
    BY <2>2 DEF TypeOK
  <2> QED BY <1>2, <2>4, <2>5, <2>6, <2>7 DEF Finalize, TypeOK
<1>3. CASE GetBalance
  BY <1>3, SweptType, ExpireRowsType DEF GetBalance, TypeOK
<1>4. ASSUME NEW k \in AdjustKeys, NEW change \in -MaxPoints .. MaxPoints, Adjust(k, change)
      PROVE  TypeOK'
  <2>0. change \in Int
    BY BoundsAssumption
  <2>1. ledger' \subseteq Row
    <3>1. NewRow("admin_adjust", k, 0, change) \in Row
      BY <2>0, NewRowType DEF RowKinds
    <3> QED BY <1>4, <3>1 DEF Adjust, TypeOK
  <2>2. CASE change > 0
    <3>1. NewGrant("gift", change, Never) \in Grant
      BY <2>0, <2>2, NewGrantType, NeverType DEF Kinds
    <3>2. \E g \in GrantIds : grants' = [grants EXCEPT ![g] = NewGrant("gift", change, Never)]
      BY <1>4, <2>0, <2>2 DEF Adjust
    <3> QED BY <1>4, <2>1, <3>1, <3>2 DEF Adjust, TypeOK
  <2>3. CASE change < 0
    <3>0. ~(change > 0) /\ change # 0
      BY <2>0, <2>3
    <3>1. PICK cut \in Spreads([g \in GrantIds |->
                                  IF grants[g].status = "active"
                                  THEN grants[g].available ELSE 0],
                               DeductOrder, -change) :
              grants' = [g \in GrantIds |-> [grants[g] EXCEPT !.available = @ - cut[g]]]
      BY <1>4, <3>0, Zenon DEF Adjust
    <3>2. ASSUME NEW g \in GrantIds
          PROVE  [grants[g] EXCEPT !.available = @ - cut[g]] \in Grant
      <4>1. grants[g] \in Grant
        BY DEF TypeOK
      <4>2. /\ cut[g] \in Nat
            /\ cut[g] <= (IF grants[g].status = "active" THEN grants[g].available ELSE 0)
        BY SpreadBounds
      <4>3. grants[g].available - cut[g] \in Nat
        BY <4>1, <4>2 DEF Grant
      <4> QED BY <4>1, <4>3 DEF Grant
    <3>3. grants' \in [GrantIds -> Grant]
      BY <3>1, <3>2
    <3> QED BY <1>4, <2>1, <3>3 DEF Adjust, TypeOK
  <2>4. CASE change = 0
    BY <1>4, <2>0, <2>4, <2>1 DEF Adjust, TypeOK
  <2> QED BY <2>0, <2>2, <2>3, <2>4
<1>5. CASE SignupTrial
  <2>1. now + TrialDays \in Nat /\ TrialPoints \in Nat
    BY BoundsAssumption DEF TypeOK
  <2>2. NewGrant("trial", TrialPoints, now + TrialDays) \in Grant
    BY <2>1, NewGrantType DEF Kinds
  <2>3. NewRow("trial_grant", SignupKey, 0, TrialPoints) \in Row
    BY <2>1, NewRowType DEF RowKinds
  <2> QED BY <1>5, <2>2, <2>3 DEF SignupTrial, TypeOK
<1>6. ASSUME NEW k \in RedeemKeys, Redeem(k)
      PROVE  TypeOK'
  <2>1. NewGrant("gift", CodeReward, CodeUntil) \in Grant
    BY BoundsAssumption, NewGrantType DEF Kinds
  <2>2. NewRow("redeem", k, 0, CodeReward) \in Row
    BY BoundsAssumption, NewRowType DEF RowKinds
  <2> QED BY <1>6, <2>1, <2>2 DEF Redeem, TypeOK
<1>7. CASE RedeemByOther
  BY <1>7 DEF RedeemByOther, TypeOK
<1>8. CASE Tick
  BY <1>8, BoundsAssumption DEF Tick, TypeOK
<1>9. CASE UNCHANGED vars
  BY <1>9 DEF vars, TypeOK
<1> QED
  BY <1>1, <1>2, <1>3, <1>4, <1>5, <1>6, <1>7, <1>8, <1>9
  DEF Next, ReserveAny, FinalizeAny, AdjustAny, RedeemAny

(* Every reachable state has the columns its tables declare.               *)
THEOREM TypeCorrect == Spec => []TypeOK
BY TypeInit, TypeNext, PTL DEF Spec

-----------------------------------------------------------------------------
(* How a step changes the cycles of the tasks *)

TaskRowKinds == {"reserve", "consume", "refund"}
OldTaskRows == \A r \in ledger' : r.kind \in TaskRowKinds => r \in ledger

(* The step of an action that is about no task. *)
Quiet ==
    /\ allocs' = allocs
    /\ OldTaskRows
    /\ \A t \in Tasks : /\ ReservedCycles(t)' = ReservedCycles(t)
                        /\ SettledCycles(t)' = SettledCycles(t)

Opens(t, c) ==
    /\ c \in Cycles /\ MayReserve(t) /\ IsNextCycle(t, c)
    /\ \A u \in Tasks : /\ ReservedCycles(u)' = IF u = t THEN ReservedCycles(u) \cup {c}
                                                ELSE ReservedCycles(u)
                        /\ SettledCycles(u)' = SettledCycles(u)
    /\ \A r \in ledger' : r.kind \in TaskRowKinds => r \in ledger \/ (r.ref = t /\ r.cycle = c)
    /\ \E f : /\ allocs' = [allocs EXCEPT ![t][c] = f]
              /\ \A g \in GrantIds :
                    f[g] = allocs[t][c][g] \/ f[g].status = "reserved"

Closes(t, c) ==
    /\ c \in Cycles /\ IsActiveCycle(t, c)
    /\ \A u \in Tasks : /\ ReservedCycles(u)' = ReservedCycles(u)
                        /\ SettledCycles(u)' = IF u = t THEN SettledCycles(u) \cup {c}
                                               ELSE SettledCycles(u)
    /\ \A r \in ledger' : r.kind \in TaskRowKinds => r \in ledger \/ (r.ref = t /\ r.cycle = c)
    /\ \E share : /\ allocs' = [allocs EXCEPT ![t][c] =
                                    [g \in GrantIds |-> SettledAlloc(@[g], share[g])]]
                  /\ \A g \in GrantIds :
                        /\ share[g] \in Nat
                        /\ allocs[t][c][g].status = "reserved" =>
                               share[g] <= allocs[t][c][g].reserved

(* Rows of the other kinds leave the cycles of every task as they were.    *)
LEMMA OtherRows ==
    ASSUME ledger \subseteq ledger', OldTaskRows
    PROVE  \A t \in Tasks : /\ ReservedCycles(t)' = ReservedCycles(t)
                            /\ SettledCycles(t)' = SettledCycles(t)
<1>1. \A kind \in TaskRowKinds, t \in Tasks, c \in Cycles :
        HasRow(kind, t, c)' <=> HasRow(kind, t, c)
  BY DEF OldTaskRows, HasRow
<1> QED BY <1>1 DEF ReservedCycles, SettledCycles, TaskRowKinds

(* A reservation opens one cycle, the next of its task.                    *)
LEMMA ReserveOpens ==
    ASSUME TypeOK, NEW t \in Tasks, NEW amount \in 0 .. MaxPoints, Reserve(t, amount)
    PROVE  \E c \in Cycles : Opens(t, c)
<1>1. PICK c \in Cycles :
        /\ IsNextCycle(t, c)
        /\ ledger' = ledger \cup {NewRow("reserve", t, c, -amount)}
        /\ \E f : /\ allocs' = [allocs EXCEPT ![t][c] = f]
                  /\ \A g \in GrantIds :
                        f[g] = allocs[t][c][g] \/ f[g].status = "reserved"
  <2>1. PICK c \in Cycles : /\ IsNextCycle(t, c)
                            /\ ledger' = ledger \cup {NewRow("reserve", t, c, -amount)}
                            /\ \E take : allocs' = [allocs EXCEPT ![t][c] =
                                    [g \in GrantIds |->
                                        IF take[g] > 0
                                        THEN [NoAlloc EXCEPT !.status = "reserved",
                                                             !.reserved = take[g]]
                                        ELSE @[g]]]
    BY DEF Reserve
  <2>2. PICK take : allocs' = [allocs EXCEPT ![t][c] =
                                    [g \in GrantIds |->
                                        IF take[g] > 0
                                        THEN [NoAlloc EXCEPT !.status = "reserved",
                                                             !.reserved = take[g]]
                                        ELSE @[g]]]
    BY <2>1
  <2> DEFINE after == [g \in GrantIds |->
                        IF take[g] > 0
                        THEN [NoAlloc EXCEPT !.status = "reserved", !.reserved = take[g]]
                        ELSE allocs[t][c][g]]
  <2>3. allocs' = [allocs EXCEPT ![t][c] = after]
    BY <2>2 DEF TypeOK
  <2>4. \A g \in GrantIds : after[g] = allocs[t][c][g] \/ after[g].status = "reserved"
    BY DEF NoAlloc
  <2> HIDE DEF after
  <2>5. \E f : /\ allocs' = [allocs EXCEPT ![t][c] = f]
              /\ \A g \in GrantIds : f[g] = allocs[t][c][g] \/ f[g].status = "reserved"
    BY <2>3, <2>4
  <2> QED BY <2>1, <2>5
<1>2. MayReserve(t)
  BY DEF Reserve
<1>3. \A r \in ledger' : r.kind \in TaskRowKinds => r \in ledger \/ (r.ref = t /\ r.cycle = c)
  BY <1>1 DEF NewRow
<1>4. ASSUME NEW u \in Tasks
      PROVE  /\ ReservedCycles(u)' = IF u = t THEN ReservedCycles(u) \cup {c}
                                     ELSE ReservedCycles(u)
             /\ SettledCycles(u)' = SettledCycles(u)
  <2> DEFINE row == NewRow("reserve", t, c, -amount)
  <2>0. row.kind = "reserve" /\ row.ref = t /\ row.cycle = c /\ ledger' = ledger \cup {row}
    BY <1>1 DEF NewRow
  <2> HIDE DEF row
  <2>1. ASSUME NEW d \in Cycles
        PROVE  /\ HasRow("reserve", u, d)' <=> HasRow("reserve", u, d) \/ (u = t /\ d = c)
               /\ HasRow("consume", u, d)' <=> HasRow("consume", u, d)
               /\ HasRow("refund", u, d)' <=> HasRow("refund", u, d)
    BY <2>0 DEF HasRow
  <2> QED BY <2>1 DEF ReservedCycles, SettledCycles
<1> QED BY <1>1, <1>2, <1>3, <1>4 DEF Opens

(* A settlement closes the active cycle of its task.                       *)
LEMMA FinalizeCloses ==
    ASSUME TypeOK, NEW t \in Tasks, NEW actual \in 0 .. MaxPoints, Finalize(t, actual)
    PROVE  \E c \in Cycles : Closes(t, c)
<1> DEFINE reservedOn(c) == [g \in GrantIds |->
        IF allocs[t][c][g].status = "reserved" THEN allocs[t][c][g].reserved ELSE 0]
           charged(held) == IF actual > held THEN held ELSE actual
<1>1. PICK c \in Cycles, held \in 0 .. MaxPoints :
        /\ IsActiveCycle(t, c)
        /\ ledger' = ledger \cup ExpireRows \cup SettleRows(t, c, held, charged(held))
        /\ \E share \in Spreads(reservedOn(c), ReserveOrder, charged(held)) :
                allocs' = [allocs EXCEPT ![t][c] =
                                [g \in GrantIds |-> SettledAlloc(@[g], share[g])]]
  BY DEF Finalize
<1>2. PICK share \in Spreads(reservedOn(c), ReserveOrder, charged(held)) :
        allocs' = [allocs EXCEPT ![t][c] = [g \in GrantIds |-> SettledAlloc(@[g], share[g])]]
  BY <1>1
<1>3. ASSUME NEW g \in GrantIds
      PROVE  /\ share[g] \in Nat
             /\ allocs[t][c][g].status = "reserved" => share[g] <= allocs[t][c][g].reserved
  <2>1. share[g] \in Nat /\ share[g] <= reservedOn(c)[g]
    <3> HIDE DEF reservedOn
    <3> QED BY SpreadBounds
  <2> QED BY <2>1
<1>4. \A r \in ExpireRows : r.kind \notin TaskRowKinds
  BY DEF ExpireRows, NewRow, TaskRowKinds
<1>5. /\ \A r \in SettleRows(t, c, held, charged(held)) :
            r.kind \in {"consume", "refund"} /\ r.ref = t /\ r.cycle = c
      /\ SettleRows(t, c, held, charged(held)) # {}
  <2>1. charged(held) \in Nat
    BY BoundsAssumption
  <2> HIDE DEF charged
  <2>2. charged(held) > 0 \/ charged(held) = 0
    BY <2>1
  <2>3. \A r \in SettleRows(t, c, held, charged(held)) :
            r.kind \in {"consume", "refund"} /\ r.ref = t /\ r.cycle = c
    BY DEF SettleRows, NewRow
  <2>4. SettleRows(t, c, held, charged(held)) # {}
    BY <2>2 DEF SettleRows
  <2> QED BY <2>3, <2>4
<1> HIDE DEF charged, reservedOn
<1>6. \A r \in ledger' : r.kind \in TaskRowKinds => r \in ledger \/ (r.ref = t /\ r.cycle = c)
  BY <1>1, <1>4, <1>5
<1>7. ASSUME NEW u \in Tasks
      PROVE  /\ ReservedCycles(u)' = ReservedCycles(u)
             /\ SettledCycles(u)' = IF u = t THEN SettledCycles(u) \cup {c}
                                    ELSE SettledCycles(u)
  <2>1. ASSUME NEW d \in Cycles
        PROVE  /\ HasRow("reserve", u, d)' <=> HasRow("reserve", u, d)
               /\ (HasRow("consume", u, d) \/ HasRow("refund", u, d))' <=>
                  HasRow("consume", u, d) \/ HasRow("refund", u, d) \/ (u = t /\ d = c)
    BY <1>1, <1>4, <1>5 DEF HasRow, TaskRowKinds
  <2> QED BY <2>1 DEF ReservedCycles, SettledCycles
<1> QED BY <1>1, <1>2, <1>3, <1>6, <1>7 DEF Closes

(* Every step is about no task, opens a cycle or closes one.               *)
LEMMA StepKinds ==
    ASSUME TypeOK, [Next]_vars
    PROVE  Quiet \/ \E t \in Tasks, c \in Cycles : Opens(t, c) \/ Closes(t, c)
<1>1. CASE ReserveAny
  BY <1>1, ReserveOpens DEF ReserveAny
<1>2. CASE FinalizeAny
  BY <1>2, FinalizeCloses DEF FinalizeAny
<1>3. CASE GetBalance
  <2>1. ledger \subseteq ledger' /\ OldTaskRows
    BY <1>3 DEF GetBalance, ExpireRows, NewRow, OldTaskRows, TaskRowKinds
  <2> QED BY <1>3, <2>1, OtherRows DEF GetBalance, Quiet
<1>4. ASSUME NEW k \in AdjustKeys, NEW change \in -MaxPoints .. MaxPoints, Adjust(k, change)
      PROVE  Quiet
  <2>1. ledger' = ledger \cup {NewRow("admin_adjust", k, 0, change)} /\ allocs' = allocs
    BY <1>4 DEF Adjust
  <2>2. ledger \subseteq ledger' /\ OldTaskRows
    BY <2>1 DEF NewRow, OldTaskRows, TaskRowKinds
  <2> QED BY <2>1, <2>2, OtherRows DEF Quiet
<1>5. CASE SignupTrial
  <2>1. ledger \subseteq ledger' /\ OldTaskRows
    BY <1>5 DEF SignupTrial, NewRow, OldTaskRows, TaskRowKinds
  <2> QED BY <1>5, <2>1, OtherRows DEF SignupTrial, Quiet
<1>6. ASSUME NEW k \in RedeemKeys, Redeem(k)
      PROVE  Quiet
  <2>1. ledger \subseteq ledger' /\ OldTaskRows
    BY <1>6 DEF Redeem, NewRow, OldTaskRows, TaskRowKinds
  <2> QED BY <1>6, <2>1, OtherRows DEF Redeem, Quiet
<1>7. CASE RedeemByOther \/ Tick \/ UNCHANGED vars
  BY <1>7 DEF RedeemByOther, Tick, vars, Quiet, OldTaskRows, ReservedCycles, SettledCycles, HasRow
<1> QED BY <1>1, <1>2, <1>3, <1>4, <1>5, <1>6, <1>7 DEF Next, AdjustAny, RedeemAny

-----------------------------------------------------------------------------
(* Cycles *)

(* The inductive invariant: OneOpenCycle is not inductive by itself, since *)
(* a settle row without its reserve row would let a cycle number be        *)
(* skipped.                                                                *)
SettledWereReserved == \A t \in Tasks : SettledCycles(t) \subseteq ReservedCycles(t)
CycleInv == TypeOK /\ SettledWereReserved /\ OneOpenCycle /\ AllocationsFollowCycles

(* The invariant of the cycles holds initially.                            *)
LEMMA CycleInvInit == Init => CycleInv
<1> SUFFICES ASSUME Init PROVE SettledWereReserved /\ OneOpenCycle /\ AllocationsFollowCycles
  BY TypeInit DEF CycleInv
<1>1. \A t \in Tasks : ReservedCycles(t) = {} /\ SettledCycles(t) = {}
  BY DEF Init, ReservedCycles, SettledCycles, HasRow, NewRow
<1>2. AllocationsFollowCycles
  BY DEF Init, AllocationsFollowCycles, NoAlloc
<1> QED BY <1>1, <1>2 DEF SettledWereReserved, OneOpenCycle, OpenCycles

(* The invariant of the cycles is inductive.                               *)
LEMMA CycleInvNext == CycleInv /\ [Next]_vars => CycleInv'
<1> SUFFICES ASSUME CycleInv, [Next]_vars
             PROVE  SettledWereReserved' /\ OneOpenCycle' /\ AllocationsFollowCycles'
  BY TypeNext DEF CycleInv
<1> USE DEF CycleInv
<1>1. CASE Quiet
  <2>1. \A t \in Tasks : OpenCycles(t)' = OpenCycles(t)
    BY <1>1 DEF Quiet, OpenCycles
  <2> QED
    BY <1>1, <2>1
    DEF Quiet, SettledWereReserved, OneOpenCycle, AllocationsFollowCycles
<1>2. ASSUME NEW t \in Tasks, NEW c \in Cycles, Opens(t, c)
      PROVE  SettledWereReserved' /\ OneOpenCycle' /\ AllocationsFollowCycles'
  <2>1. /\ OpenCycles(t) = {} /\ \A d \in Cycles : d < c <=> d \in ReservedCycles(t)
        /\ c \notin ReservedCycles(t) /\ c \notin SettledCycles(t)
    <3>1. c \in Nat
      BY CyclesNat
    <3> QED
      BY <1>2, <3>1 DEF Opens, MayReserve, IsNextCycle, OpenCycles, SettledWereReserved
  <2>2. OpenCycles(t)' = {c}
    BY <1>2, <2>1 DEF Opens, OpenCycles
  <2>3. \A u \in Tasks : u # t => OpenCycles(u)' = OpenCycles(u)
    BY <1>2 DEF Opens, OpenCycles
  <2>4. SettledWereReserved'
    BY <1>2 DEF Opens, SettledWereReserved
  <2>5. OneOpenCycle'
    BY <1>2, <2>1, <2>2, <2>3 DEF Opens, OneOpenCycle
  <2>6. AllocationsFollowCycles'
    <3>1. PICK f : /\ allocs' = [allocs EXCEPT ![t][c] = f]
                   /\ \A g \in GrantIds :
                         f[g] = allocs[t][c][g] \/ f[g].status = "reserved"
      BY <1>2 DEF Opens
    <3> SUFFICES ASSUME NEW u \in Tasks, NEW d \in Cycles, NEW g \in GrantIds
                 PROVE  /\ allocs'[u][d][g].status = "reserved" => d \in OpenCycles(u)'
                        /\ allocs'[u][d][g].status \in {"consumed", "settled", "refunded"} =>
                             allocs'[u][d][g].reserved =
                               allocs'[u][d][g].consumed + allocs'[u][d][g].refunded
      BY DEF AllocationsFollowCycles
    <3>2. CASE u = t /\ d = c
      <4>1. allocs'[u][d][g] = f[g]
        BY <3>1, <3>2 DEF TypeOK
      <4>2. allocs[t][c][g].status # "reserved"
        BY <2>1 DEF AllocationsFollowCycles
      <4>3. f[g] = allocs[t][c][g] \/ f[g].status = "reserved"
        BY <3>1
      <4> QED BY <4>1, <4>2, <4>3, <2>2, <3>2 DEF AllocationsFollowCycles
    <3>3. CASE ~(u = t /\ d = c)
      <4>1. allocs'[u][d] = allocs[u][d]
        BY <3>1, <3>3 DEF TypeOK
      <4>2. OpenCycles(u) \subseteq OpenCycles(u)'
        BY <2>1, <2>3
      <4> QED BY <4>1, <4>2 DEF AllocationsFollowCycles
    <3> QED BY <3>2, <3>3
  <2> QED BY <2>4, <2>5, <2>6
<1>3. ASSUME NEW t \in Tasks, NEW c \in Cycles, Closes(t, c)
      PROVE  SettledWereReserved' /\ OneOpenCycle' /\ AllocationsFollowCycles'
  <2>1. c \in OpenCycles(t) /\ OpenCycles(t) \subseteq {c}
    BY <1>3 DEF Closes, IsActiveCycle, OneOpenCycle, OpenCycles, ReservedCycles
  <2>2. OpenCycles(t)' = {}
    BY <1>3, <2>1 DEF Closes, OpenCycles
  <2>3. \A u \in Tasks : u # t => OpenCycles(u)' = OpenCycles(u)
    BY <1>3 DEF Closes, OpenCycles
  <2>4. SettledWereReserved'
    BY <1>3, <2>1 DEF Closes, SettledWereReserved, OpenCycles
  <2>5. OneOpenCycle'
    BY <1>3, <2>2, <2>3 DEF Closes, OneOpenCycle
  <2>6. AllocationsFollowCycles'
    <3>1. PICK share : /\ allocs' = [allocs EXCEPT ![t][c] =
                                        [g \in GrantIds |-> SettledAlloc(@[g], share[g])]]
                       /\ \A g \in GrantIds :
                            /\ share[g] \in Nat
                            /\ allocs[t][c][g].status = "reserved" =>
                                   share[g] <= allocs[t][c][g].reserved
      BY <1>3 DEF Closes
    <3> SUFFICES ASSUME NEW u \in Tasks, NEW d \in Cycles, NEW g \in GrantIds
                 PROVE  /\ allocs'[u][d][g].status = "reserved" => d \in OpenCycles(u)'
                        /\ allocs'[u][d][g].status \in {"consumed", "settled", "refunded"} =>
                             allocs'[u][d][g].reserved =
                               allocs'[u][d][g].consumed + allocs'[u][d][g].refunded
      BY DEF AllocationsFollowCycles
    <3>2. CASE u = t /\ d = c
      <4>1. allocs'[u][d][g] = SettledAlloc(allocs[t][c][g], share[g])
        BY <3>1, <3>2 DEF TypeOK
      <4>2. allocs[t][c][g] \in Alloc
        BY DEF TypeOK
      <4>3. CASE allocs[t][c][g].status = "reserved"
        <5> DEFINE a == allocs[t][c][g]
        <5>1. share[g] \in Nat /\ share[g] <= a.reserved /\ a.reserved \in Nat
          BY <3>1, <4>2, <4>3 DEF Alloc
        <5>2. /\ SettledAlloc(a, share[g]).status # "reserved"
              /\ SettledAlloc(a, share[g]).reserved = a.reserved
              /\ SettledAlloc(a, share[g]).consumed = share[g]
              /\ SettledAlloc(a, share[g]).refunded = a.reserved - share[g]
          BY <4>2, <4>3 DEF SettledAlloc, Alloc
        <5> HIDE DEF a
        <5> QED BY <4>1, <5>1, <5>2 DEF a
      <4>4. CASE allocs[t][c][g].status # "reserved"
        BY <4>1, <4>4 DEF SettledAlloc, AllocationsFollowCycles
      <4> QED BY <4>3, <4>4
    <3>3. CASE ~(u = t /\ d = c)
      <4>1. allocs'[u][d] = allocs[u][d]
        BY <3>1, <3>3 DEF TypeOK
      <4>2. d \in OpenCycles(u) => d \in OpenCycles(u)'
        BY <2>1, <2>3, <3>3
      <4> QED BY <4>1, <4>2 DEF AllocationsFollowCycles
    <3> QED BY <3>2, <3>3
  <2> QED BY <2>4, <2>5, <2>6
<1> QED BY <1>1, <1>2, <1>3, StepKinds

(* Every reachable state satisfies the cycle invariant.                    *)
THEOREM CyclesCorrect == Spec => []CycleInv
BY CycleInvInit, CycleInvNext, PTL DEF Spec

(* A task never has two open reservations, and an open one is its latest.  *)
THEOREM OneOpenCycleHolds == Spec => []OneOpenCycle
BY CyclesCorrect, PTL DEF CycleInv

(* Only an open cycle keeps points under reservation, and what a closed    *)
(* allocation reserved is consumed or refunded without remainder.          *)
THEOREM AllocationsFollowCyclesHolds == Spec => []AllocationsFollowCycles
BY CyclesCorrect, PTL DEF CycleInv

(* No step touches the rows or the allocations of a settled cycle.         *)
THEOREM SettlementIsFinalHolds == Spec => SettlementIsFinal
<1> DEFINE Untouched ==
        \A t \in Tasks, c \in Cycles :
            c \in SettledCycles(t) =>
                /\ allocs'[t][c] = allocs[t][c]
                /\ \A r \in ledger' :
                       r.kind \in {"reserve", "consume", "refund"} /\ r.ref = t /\ r.cycle = c
                           => r \in ledger
<1>1. CycleInv /\ [Next]_vars => [Untouched]_vars
  <2> SUFFICES ASSUME CycleInv, [Next]_vars,
                      NEW t \in Tasks, NEW c \in Cycles, c \in SettledCycles(t)
               PROVE  /\ allocs'[t][c] = allocs[t][c]
                      /\ \A r \in ledger' :
                            r.kind \in {"reserve", "consume", "refund"}
                                /\ r.ref = t /\ r.cycle = c => r \in ledger
    OBVIOUS
  <2>1. CASE Quiet
    BY <2>1 DEF Quiet, OldTaskRows, TaskRowKinds
  <2>2. ASSUME NEW u \in Tasks, NEW d \in Cycles, Opens(u, d) \/ Closes(u, d)
        PROVE  /\ allocs'[t][c] = allocs[t][c]
               /\ \A r \in ledger' :
                     r.kind \in {"reserve", "consume", "refund"}
                         /\ r.ref = t /\ r.cycle = c => r \in ledger
    <3>1. d \notin SettledCycles(u)
      <4>1. CASE Opens(u, d)
        BY <4>1, CyclesNat DEF Opens, IsNextCycle
      <4>2. CASE Closes(u, d)
        BY <4>2 DEF Closes, IsActiveCycle, OpenCycles
      <4> QED BY <2>2, <4>1, <4>2
    <3>2. ~(u = t /\ d = c)
      BY <3>1
    <3>3. PICK f : allocs' = [allocs EXCEPT ![u][d] = f]
      BY <2>2 DEF Opens, Closes
    <3>4. allocs'[t][c] = allocs[t][c]
      BY <3>2, <3>3 DEF CycleInv, TypeOK
    <3>5. \A r \in ledger' :
            r.kind \in TaskRowKinds => r \in ledger \/ (r.ref = u /\ r.cycle = d)
      BY <2>2 DEF Opens, Closes
    <3> QED BY <3>2, <3>4, <3>5 DEF TaskRowKinds
  <2> QED BY <2>1, <2>2, StepKinds DEF CycleInv
<1> QED BY <1>1, CyclesCorrect, PTL DEF Spec, SettlementIsFinal

-----------------------------------------------------------------------------
(* Expiry *)

(* No grant has expired initially.                                         *)
LEMMA ExpiredInit == Init => ExpiredStaysEmpty
<1> SUFFICES ASSUME Init, NEW g \in GrantIds
             PROVE  grants[g].status # "expired"
  BY DEF ExpiredStaysEmpty
<1>1. grants[g] \in {NoGrant} \cup
        {NewGrant(k, p, e) : k \in Kinds, p \in 1 .. MaxPoints, e \in 0 .. Never}
  BY OpeningAssumption DEF Init
<1> QED BY <1>1 DEF NoGrant, NewGrant

(* A new grant in a free slot is active. *)
LEMMA NewGrantKeepsExpired ==
    ASSUME TypeOK, ExpiredStaysEmpty,
           NEW slot \in GrantIds, NEW kind, NEW points, NEW expires,
           grants' = [grants EXCEPT ![slot] = NewGrant(kind, points, expires)]
    PROVE  ExpiredStaysEmpty'
BY DEF TypeOK, ExpiredStaysEmpty, NewGrant

(* Every step leaves an expired grant empty.                               *)
LEMMA ExpiredNext == TypeOK /\ ExpiredStaysEmpty /\ [Next]_vars => ExpiredStaysEmpty'
<1> SUFFICES ASSUME TypeOK, ExpiredStaysEmpty, [Next]_vars PROVE ExpiredStaysEmpty'
  OBVIOUS
<1>1. ASSUME NEW t \in Tasks, NEW amount \in 0 .. MaxPoints, Reserve(t, amount)
      PROVE  ExpiredStaysEmpty'
  <2>1. PICK take \in Spreads([g \in GrantIds |->
                                  IF Spendable(g) THEN grants[g].available ELSE 0],
                              ReserveOrder, amount) :
          grants' = [g \in GrantIds |->
                        [grants[g] EXCEPT !.available = @ - take[g], !.frozen = @ + take[g]]]
    BY <1>1 DEF Reserve
  <2> SUFFICES ASSUME NEW g \in GrantIds, grants'[g].status = "expired"
               PROVE  grants'[g].available = 0
    BY DEF ExpiredStaysEmpty
  <2>2. grants[g] \in Grant
    BY DEF TypeOK
  <2>3. /\ grants'[g].status = grants[g].status
        /\ grants'[g].available = grants[g].available - take[g]
    BY <2>1, <2>2 DEF Grant
  <2>4. take[g] \in Nat /\ take[g] <= (IF Spendable(g) THEN grants[g].available ELSE 0)
    BY SpreadBounds
  <2>5. ~Spendable(g) /\ grants[g].available = 0
    BY <2>3 DEF Spendable, ExpiredStaysEmpty
  <2> QED BY <2>3, <2>4, <2>5
<1>2. ASSUME NEW t \in Tasks, NEW actual \in 0 .. MaxPoints, Finalize(t, actual)
      PROVE  ExpiredStaysEmpty'
  <2>0. PICK c \in Cycles : \E share :
          grants' = [g \in GrantIds |->
                        SettledGrant(Swept(g),
                            [h \in GrantIds |-> IF allocs[t][c][h].status = "reserved"
                                                THEN allocs[t][c][h].reserved ELSE 0][g],
                            share[g])]
    BY <1>2 DEF Finalize
  <2>1. PICK share :
          grants' = [g \in GrantIds |->
                        SettledGrant(Swept(g),
                            [h \in GrantIds |-> IF allocs[t][c][h].status = "reserved"
                                                THEN allocs[t][c][h].reserved ELSE 0][g],
                            share[g])]
    BY <2>0
  <2> SUFFICES ASSUME NEW g \in GrantIds, grants'[g].status = "expired"
               PROVE  grants'[g].available = 0
    BY DEF ExpiredStaysEmpty
  <2>2. Swept(g) \in Grant
    BY SweptType
  <2>3. PICK reserved, consume : grants'[g] = SettledGrant(Swept(g), reserved, consume)
    BY <2>1
  <2>4. Swept(g).status = "expired"
    BY <2>2, <2>3 DEF SettledGrant, Grant
  <2>5. Swept(g).available = 0
    BY <2>4 DEF Swept, ExpiredStaysEmpty, TypeOK, Grant
  <2>6. ~Creditable(Swept(g))
    BY <2>4 DEF Creditable
  <2> QED BY <2>2, <2>3, <2>5, <2>6 DEF SettledGrant, Grant
<1>3. CASE GetBalance
  BY <1>3 DEF GetBalance, Swept, ExpiredStaysEmpty, TypeOK, Grant
<1>4. ASSUME NEW k \in AdjustKeys, NEW change \in -MaxPoints .. MaxPoints, Adjust(k, change)
      PROVE  ExpiredStaysEmpty'
  <2>1. CASE \E g \in GrantIds : grants' = [grants EXCEPT ![g] = NewGrant("gift", change, Never)]
    BY <2>1, NewGrantKeepsExpired
  <2>2. CASE \E cut \in Spreads([g \in GrantIds |->
                                    IF grants[g].status = "active"
                                    THEN grants[g].available ELSE 0],
                                DeductOrder, -change) :
                grants' = [g \in GrantIds |-> [grants[g] EXCEPT !.available = @ - cut[g]]]
    <3>1. PICK cut \in Spreads([g \in GrantIds |->
                                    IF grants[g].status = "active"
                                    THEN grants[g].available ELSE 0],
                                DeductOrder, -change) :
                grants' = [g \in GrantIds |-> [grants[g] EXCEPT !.available = @ - cut[g]]]
      BY <2>2
    <3> SUFFICES ASSUME NEW g \in GrantIds, grants'[g].status = "expired"
                 PROVE  grants'[g].available = 0
      BY DEF ExpiredStaysEmpty
    <3>2. grants[g] \in Grant
      BY DEF TypeOK
    <3>3. /\ grants'[g].status = grants[g].status
          /\ grants'[g].available = grants[g].available - cut[g]
      BY <3>1, <3>2 DEF Grant
    <3>4. /\ cut[g] \in Nat
          /\ cut[g] <= (IF grants[g].status = "active" THEN grants[g].available ELSE 0)
      BY SpreadBounds
    <3> QED BY <3>3, <3>4 DEF ExpiredStaysEmpty
  <2>3. CASE UNCHANGED grants
    BY <2>3 DEF ExpiredStaysEmpty
  <2> QED BY <1>4, <2>1, <2>2, <2>3, Zenon DEF Adjust
<1>5. CASE SignupTrial
  BY <1>5, NewGrantKeepsExpired DEF SignupTrial
<1>6. ASSUME NEW k \in RedeemKeys, Redeem(k)
      PROVE  ExpiredStaysEmpty'
  BY <1>6, NewGrantKeepsExpired DEF Redeem
<1>7. CASE RedeemByOther \/ Tick \/ UNCHANGED vars
  BY <1>7 DEF RedeemByOther, Tick, vars, ExpiredStaysEmpty
<1> QED BY <1>1, <1>2, <1>3, <1>4, <1>5, <1>6, <1>7
        DEF Next, ReserveAny, FinalizeAny, AdjustAny, RedeemAny

(* No late settlement, adjustment or sweep puts points back on a grant     *)
(* that has expired.                                                       *)
THEOREM ExpiredStaysEmptyHolds == Spec => []ExpiredStaysEmpty
BY TypeCorrect, ExpiredInit, ExpiredNext, PTL DEF Spec

-----------------------------------------------------------------------------
(* Sums *)

(* Induction over a finite set, for a set Q of subsets in the place of a   *)
(* predicate: what holds of a set as soon as it holds of the set without   *)
(* any one element holds of every finite set.                              *)
LEMMA SetInduction ==
    ASSUME NEW S, IsFiniteSet(S), NEW Q,
           \A T \in SUBSET S : (\A x \in T : T \ {x} \in Q) => T \in Q
    PROVE  S \in Q
<1> DEFINE Bad == {T \in SUBSET S : T \notin Q}
<1> SUFFICES ASSUME Bad # {} PROVE FALSE
  OBVIOUS
<1>1. IsWellFoundedOn(StrictSubsetOrdering(S), FiniteSubsetsOf(S))
  BY FS_StrictSubsetOrderingWellFounded
<1>2. Bad \subseteq FiniteSubsetsOf(S)
  BY FS_Subset DEF FiniteSubsetsOf
<1>3. PICK T \in Bad : \A U \in Bad : ~(<<U, T>> \in StrictSubsetOrdering(S))
  <2> HIDE DEF Bad
  <2> QED BY <1>1, <1>2, WFMin
<1>4. ASSUME NEW x \in T PROVE T \ {x} \notin Bad
  <2>1. T \in SUBSET S /\ T \ {x} \in SUBSET S /\ T \ {x} # T /\ T \ {x} \subseteq T
    OBVIOUS
  <2>2. <<T \ {x}, T>> \in StrictSubsetOrdering(S)
    BY <2>1 DEF StrictSubsetOrdering
  <2> HIDE DEF Bad
  <2> QED BY <1>3, <2>2
<1>5. \A x \in T : T \ {x} \in Q
  BY <1>4
<1> QED BY <1>3, <1>5

(* A sum is the value of a recursive function on the subsets of its index  *)
(* set, which takes the elements out in the order Pick chooses.            *)
Sum(f, S) == SumFunctionOnSet(f, S)
Pick(s) == CHOOSE x \in s : TRUE
SumOver(h, f, s) == IF s = {} THEN 0 ELSE f[Pick(s)] + h[s \ {Pick(s)}]
IsSum(h, f, S) ==
    h = [s \in SUBSET S |-> IF s = {} THEN 0 ELSE f[Pick(s)] + h[s \ {Pick(s)}]]

(* The element a fold picks belongs to the set.                            *)
LEMMA PickIn == ASSUME NEW s, s # {} PROVE Pick(s) \in s
BY DEF Pick

(* A sum is what the recursive function of the fold gives for the set.     *)
LEMMA SumIsSum == ASSUME NEW f, NEW S PROVE Sum(f, S) = (CHOOSE h : IsSum(h, f, S))[S]
BY DEF Sum, SumFunctionOnSet, FoldFunctionOnSet, MapThenFoldSet, IsSum, Pick

(* The sum of a function is its sum over its domain.                       *)
LEMMA SumFunctionIsSum == ASSUME NEW f PROVE SumFunction(f) = Sum(f, DOMAIN f)
BY DEF SumFunction, Sum

(* One step of the recursive function.                                     *)
LEMMA SumStep ==
    ASSUME NEW h, NEW f, NEW S, IsSum(h, f, S), NEW s \in SUBSET S
    PROVE  h[s] = SumOver(h, f, s)
BY DEF IsSum, SumOver

(* Two such functions agree where both are defined.                        *)
LEMMA SumUnique ==
    ASSUME NEW f, NEW S, NEW T, NEW h, NEW k, NEW R, IsFiniteSet(R),
           IsSum(h, f, S), IsSum(k, f, T), R \subseteq S, R \subseteq T
    PROVE  h[R] = k[R]
<1> DEFINE Q == {U \in SUBSET R : h[U] = k[U]}
<1>1. ASSUME NEW U \in SUBSET R, \A x \in U : U \ {x} \in Q PROVE U \in Q
  <2>1. h[U] = SumOver(h, f, U) /\ k[U] = SumOver(k, f, U)
    <3>1. U \in SUBSET S /\ U \in SUBSET T
      OBVIOUS
    <3> QED BY <3>1, SumStep
  <2>2. CASE U = {}
    BY <2>1, <2>2 DEF SumOver
  <2>3. CASE U # {}
    BY <1>1, <2>1, <2>3, PickIn DEF SumOver
  <2> QED BY <2>2, <2>3
<1> HIDE DEF Q
<1>2. R \in Q
  BY <1>1, SetInduction
<1> QED BY <1>2 DEF Q

(* There is such a function: from those for U without one element, the one *)
(* for U is put together.                                                  *)
LEMMA SumExists ==
    ASSUME NEW f, NEW S, IsFiniteSet(S) PROVE \E h : IsSum(h, f, S)
<1> DEFINE Q == {U \in SUBSET S : \E h : IsSum(h, f, U)}
<1>1. ASSUME NEW U \in SUBSET S, \A x \in U : U \ {x} \in Q PROVE U \in Q
  <2> DEFINE h == [x \in U |-> CHOOSE h : IsSum(h, f, U \ {x})]
             g == [s \in SUBSET U |-> IF s = {} THEN 0
                      ELSE f[Pick(s)] + h[Pick(s)][s \ {Pick(s)}]]
  <2>1. \A x \in U : IsSum(h[x], f, U \ {x})
    BY <1>1
  <2>2. ASSUME NEW s \in SUBSET U, s # {}
        PROVE  g[s \ {Pick(s)}] = h[Pick(s)][s \ {Pick(s)}]
    <3> DEFINE p == Pick(s)
               r == s \ {p}
               q == Pick(r)
    <3>1. p \in s /\ p \in U /\ r \in SUBSET U /\ r \in SUBSET (U \ {p})
      BY <2>2, PickIn
    <3>2. IsSum(h[p], f, U \ {p})
      BY <2>1, <3>1
    <3> HIDE DEF h
    <3>3. h[p][r] = SumOver(h[p], f, r)
      BY <3>1, <3>2, SumStep
    <3>4. CASE r = {}
      BY <3>3, <3>4 DEF SumOver
    <3>5. CASE r # {}
      <4>1. q \in r /\ q \in U
        BY <3>5, PickIn, <3>1
      <4> DEFINE hp == h[p]
                 hq == h[q]
                 R == r \ {q}
      <4>2. /\ IsSum(hp, f, U \ {p}) /\ IsSum(hq, f, U \ {q})
            /\ IsFiniteSet(R) /\ R \subseteq U \ {p} /\ R \subseteq U \ {q}
        BY <2>1, <3>1, <3>2, <4>1, FS_Subset
      <4>3. h[p][r] = f[q] + hp[R]
        BY <3>3, <3>5 DEF SumOver
      <4>4. g[r] = f[q] + hq[R]
        BY <3>1, <3>5
      <4> HIDE DEF hp, hq, R, p, q, r, g
      <4>5. hp[R] = hq[R]
        BY <4>2, SumUnique
      <4> QED BY <4>3, <4>4, <4>5 DEF p, r, g
    <3> QED BY <3>4, <3>5
  <2>3. g = [s \in SUBSET U |-> IF s = {} THEN 0 ELSE f[Pick(s)] + g[s \ {Pick(s)}]]
    <3> DEFINE d == [s \in SUBSET U |-> IF s = {} THEN 0 ELSE f[Pick(s)] + g[s \ {Pick(s)}]]
    <3>1. ASSUME NEW s \in SUBSET U PROVE g[s] = d[s]
      <4>1. CASE s = {}
        BY <4>1
      <4>2. CASE s # {}
        <5>1. d[s] = f[Pick(s)] + g[s \ {Pick(s)}]
          BY <4>2
        <5>2. g[s] = f[Pick(s)] + h[Pick(s)][s \ {Pick(s)}]
          BY <4>2
        <5>3. g[s \ {Pick(s)}] = h[Pick(s)][s \ {Pick(s)}]
          BY <2>2, <4>2
        <5> HIDE DEF g, d, h
        <5> QED BY <5>1, <5>2, <5>3
      <4> QED BY <4>1, <4>2
    <3> QED BY <3>1
  <2>4. IsSum(g, f, U)
    BY <2>3 DEF IsSum
  <2> QED BY <2>4
<1> HIDE DEF Q
<1>2. S \in Q
  BY <1>1, SetInduction
<1> QED BY <1>2 DEF Q

(* The recursive function of a larger set gives the sum of a smaller one.  *)
LEMMA SumIsPartial ==
    ASSUME NEW f, NEW S, IsFiniteSet(S), NEW h, NEW T, IsSum(h, f, T), S \subseteq T
    PROVE  Sum(f, S) = h[S]
<1> DEFINE k == CHOOSE k : IsSum(k, f, S)
<1>1. IsSum(k, f, S)
  BY SumExists
<1>2. Sum(f, S) = k[S]
  BY SumIsSum
<1> HIDE DEF k
<1>3. S \subseteq S
  OBVIOUS
<1>4. k[S] = h[S]
  BY <1>1, <1>3, SumUnique
<1> QED BY <1>2, <1>4

(* Nothing adds up to zero.                                                *)
LEMMA SumEmpty == ASSUME NEW f PROVE Sum(f, {}) = 0
<1>1. PICK h : IsSum(h, f, {})
  BY SumExists, FS_EmptySet
<1>2. h[{}] = 0
  BY <1>1, SumStep DEF SumOver
<1> QED BY <1>1, <1>2, SumIsPartial, FS_EmptySet

(* A sum is the picked term and the sum of the others.                     *)
LEMMA SumPick ==
    ASSUME NEW f, NEW S, IsFiniteSet(S), S # {}
    PROVE  Sum(f, S) = f[Pick(S)] + Sum(f, S \ {Pick(S)})
<1>1. PICK h : IsSum(h, f, S)
  BY SumExists
<1>2. h[S] = f[Pick(S)] + h[S \ {Pick(S)}]
  BY <1>1, SumStep DEF SumOver
<1>3. h[S] = Sum(f, S)
  BY <1>1, SumIsPartial
<1>4. h[S \ {Pick(S)}] = Sum(f, S \ {Pick(S)})
  BY <1>1, SumIsPartial, FS_Subset
<1> QED BY <1>2, <1>3, <1>4

(* A sum of integers is an integer, one of naturals a natural.             *)
LEMMA SumInt ==
    ASSUME NEW f, NEW S, IsFiniteSet(S), \A x \in S : f[x] \in Int
    PROVE  Sum(f, S) \in Int
<1> DEFINE Q == {U \in SUBSET S : Sum(f, U) \in Int}
<1>1. ASSUME NEW U \in SUBSET S, \A x \in U : U \ {x} \in Q PROVE U \in Q
  <2>1. CASE U = {}
    BY <2>1, SumEmpty
  <2>2. CASE U # {}
    <3>1. Pick(U) \in U /\ IsFiniteSet(U)
      BY <2>2, PickIn, FS_Subset
    <3>2. Sum(f, U \ {Pick(U)}) \in Int
      BY <1>1, <3>1
    <3>3. Sum(f, U) = f[Pick(U)] + Sum(f, U \ {Pick(U)})
      BY <2>2, <3>1, SumPick
    <3> QED BY <3>1, <3>2, <3>3
  <2> QED BY <2>1, <2>2
<1> HIDE DEF Q
<1>2. S \in Q
  BY <1>1, SetInduction
<1> QED BY <1>2 DEF Q

(* Natural terms have a natural sum.                                       *)
LEMMA SumNat ==
    ASSUME NEW f, NEW S, IsFiniteSet(S), \A x \in S : f[x] \in Nat
    PROVE  Sum(f, S) \in Nat
<1> DEFINE Q == {U \in SUBSET S : Sum(f, U) \in Nat}
<1>1. ASSUME NEW U \in SUBSET S, \A x \in U : U \ {x} \in Q PROVE U \in Q
  <2>1. CASE U = {}
    BY <2>1, SumEmpty
  <2>2. CASE U # {}
    <3>1. Pick(U) \in U /\ IsFiniteSet(U)
      BY <2>2, PickIn, FS_Subset
    <3>2. Sum(f, U \ {Pick(U)}) \in Nat
      BY <1>1, <3>1
    <3>3. Sum(f, U) = f[Pick(U)] + Sum(f, U \ {Pick(U)})
      BY <2>2, <3>1, SumPick
    <3> QED BY <3>1, <3>2, <3>3
  <2> QED BY <2>1, <2>2
<1> HIDE DEF Q
<1>2. S \in Q
  BY <1>1, SetInduction
<1> QED BY <1>2 DEF Q

(* The order in which a sum is taken does not matter.                      *)
LEMMA SumRemove ==
    ASSUME NEW f, NEW S, IsFiniteSet(S), \A x \in S : f[x] \in Int, NEW x \in S
    PROVE  Sum(f, S) = f[x] + Sum(f, S \ {x})
<1> DEFINE Q == {U \in SUBSET S : \A y \in U : Sum(f, U) = f[y] + Sum(f, U \ {y})}
<1>1. ASSUME NEW U \in SUBSET S, \A y \in U : U \ {y} \in Q PROVE U \in Q
  <2> SUFFICES ASSUME NEW y \in U PROVE Sum(f, U) = f[y] + Sum(f, U \ {y})
    OBVIOUS
  <2> DEFINE p == Pick(U)
  <2>1. p \in U /\ IsFiniteSet(U) /\ U # {}
    BY PickIn, FS_Subset
  <2>2. Sum(f, U) = f[p] + Sum(f, U \ {p})
    BY <2>1, SumPick
  <2>3. CASE y = p
    BY <2>2, <2>3
  <2>4. CASE y # p
    <3>1. Sum(f, U \ {p}) = f[y] + Sum(f, (U \ {p}) \ {y})
      BY <1>1, <2>1, <2>4
    <3>2. Sum(f, U \ {y}) = f[p] + Sum(f, (U \ {y}) \ {p})
      BY <1>1, <2>1, <2>4
    <3>3. (U \ {p}) \ {y} = (U \ {y}) \ {p}
      OBVIOUS
    <3>4. f[p] \in Int /\ f[y] \in Int /\ Sum(f, (U \ {y}) \ {p}) \in Int
      BY <2>1, SumInt, FS_Subset
    <3>5. Sum(f, U) = f[p] + (f[y] + Sum(f, (U \ {y}) \ {p}))
      BY <2>2, <3>1, <3>3
    <3>6. \A a, b, c \in Int : a + (b + c) = b + (a + c)
      OBVIOUS
    <3>7. f[p] + (f[y] + Sum(f, (U \ {y}) \ {p})) = f[y] + (f[p] + Sum(f, (U \ {y}) \ {p}))
      BY <3>4, <3>6
    <3> QED BY <3>2, <3>5, <3>7, Zenon
  <2> QED BY <2>3, <2>4
<1> HIDE DEF Q
<1>2. S \in Q
  BY <1>1, SetInduction
<1> QED BY <1>2 DEF Q

(* One more element adds its term.                                         *)
LEMMA SumInsert ==
    ASSUME NEW f, NEW S, IsFiniteSet(S), NEW x, x \notin S,
           \A y \in S \cup {x} : f[y] \in Int
    PROVE  Sum(f, S \cup {x}) = f[x] + Sum(f, S)
<1>1. IsFiniteSet(S \cup {x}) /\ x \in S \cup {x} /\ (S \cup {x}) \ {x} = S
  BY FS_AddElement
<1> QED BY <1>1, SumRemove

(* No element of a sum of naturals exceeds the sum.                        *)
LEMMA SumBound ==
    ASSUME NEW f, NEW S, IsFiniteSet(S), \A x \in S : f[x] \in Nat, NEW x \in S
    PROVE  f[x] <= Sum(f, S)
<1>1. Sum(f, S) = f[x] + Sum(f, S \ {x})
  BY SumRemove
<1>2. Sum(f, S \ {x}) \in Nat
  <2>1. IsFiniteSet(S \ {x}) /\ \A y \in S \ {x} : f[y] \in Nat
    BY FS_Subset
  <2> QED BY <2>1, SumNat
<1> QED BY <1>1, <1>2

(* Sums of the same numbers are the same.                                  *)
LEMMA SumSame ==
    ASSUME NEW f, NEW g, NEW S, IsFiniteSet(S), \A x \in S : f[x] = g[x]
    PROVE  Sum(f, S) = Sum(g, S)
<1> DEFINE Q == {U \in SUBSET S : Sum(f, U) = Sum(g, U)}
<1>1. ASSUME NEW U \in SUBSET S, \A x \in U : U \ {x} \in Q PROVE U \in Q
  <2>1. CASE U = {}
    BY <2>1, SumEmpty
  <2>2. CASE U # {}
    <3>1. Pick(U) \in U /\ IsFiniteSet(U)
      BY <2>2, PickIn, FS_Subset
    <3>2. /\ Sum(f, U) = f[Pick(U)] + Sum(f, U \ {Pick(U)})
          /\ Sum(g, U) = g[Pick(U)] + Sum(g, U \ {Pick(U)})
      BY <2>2, <3>1, SumPick
    <3> QED BY <1>1, <3>1, <3>2
  <2> QED BY <2>1, <2>2
<1> HIDE DEF Q
<1>2. S \in Q
  BY <1>1, SetInduction
<1> QED BY <1>2 DEF Q

(* Zeros add up to zero.                                                   *)
LEMMA SumZero ==
    ASSUME NEW f, NEW S, IsFiniteSet(S), \A x \in S : f[x] = 0
    PROVE  Sum(f, S) = 0
<1> DEFINE Q == {U \in SUBSET S : Sum(f, U) = 0}
<1>1. ASSUME NEW U \in SUBSET S, \A x \in U : U \ {x} \in Q PROVE U \in Q
  <2>1. CASE U = {}
    BY <2>1, SumEmpty
  <2>2. CASE U # {}
    <3>1. Pick(U) \in U /\ IsFiniteSet(U)
      BY <2>2, PickIn, FS_Subset
    <3>2. Sum(f, U) = f[Pick(U)] + Sum(f, U \ {Pick(U)})
      BY <2>2, <3>1, SumPick
    <3> QED BY <1>1, <3>1, <3>2
  <2> QED BY <2>1, <2>2
<1> HIDE DEF Q
<1>2. S \in Q
  BY <1>1, SetInduction
<1> QED BY <1>2 DEF Q

(* The sum of sums.                                                        *)
AddsUp(h, f, g, S) == \A x \in S : f[x] \in Int /\ g[x] \in Int /\ h[x] = f[x] + g[x]

(* The sum of two functions, term by term, is the sum of their sums.       *)
LEMMA SumPlus ==
    ASSUME NEW f, NEW g, NEW h, NEW S, IsFiniteSet(S), AddsUp(h, f, g, S)
    PROVE  Sum(h, S) = Sum(f, S) + Sum(g, S)
<1> USE DEF AddsUp
<1> DEFINE Q == {U \in SUBSET S : Sum(h, U) = Sum(f, U) + Sum(g, U)}
<1>1. ASSUME NEW U \in SUBSET S, \A x \in U : U \ {x} \in Q PROVE U \in Q
  <2>1. CASE U = {}
    BY <2>1, SumEmpty
  <2>2. CASE U # {}
    <3> DEFINE p == Pick(U)
               V == U \ {p}
    <3>1. p \in U /\ IsFiniteSet(U) /\ V \in SUBSET S /\ IsFiniteSet(V)
      BY <2>2, PickIn, FS_Subset
    <3>2. /\ Sum(f, U) = f[p] + Sum(f, V)
          /\ Sum(g, U) = g[p] + Sum(g, V)
          /\ Sum(h, U) = h[p] + Sum(h, V)
      BY <2>2, <3>1, SumPick
    <3>3. Sum(f, V) \in Int /\ Sum(g, V) \in Int
      BY <3>1, SumInt
    <3>4. Sum(h, V) = Sum(f, V) + Sum(g, V)
      BY <1>1, <3>1
    <3>5. f[p] \in Int /\ g[p] \in Int /\ h[p] = f[p] + g[p]
      BY <3>1
    <3>6. U \in SUBSET S
      OBVIOUS
    <3> HIDE DEF p, V
    <3> QED BY <3>2, <3>3, <3>4, <3>5
  <2> QED BY <2>1, <2>2
<1> HIDE DEF Q
<1>2. S \in Q
  BY <1>1, SetInduction
<1> QED BY <1>2 DEF Q

(* The sum over two disjoint sets.                                         *)
LEMMA SumUnion ==
    ASSUME NEW f, NEW S, NEW T, IsFiniteSet(S), IsFiniteSet(T), S \cap T = {},
           \A x \in S \cup T : f[x] \in Int
    PROVE  Sum(f, S \cup T) = Sum(f, S) + Sum(f, T)
<1> DEFINE Q == {U \in SUBSET T : Sum(f, S \cup U) = Sum(f, S) + Sum(f, U)}
<1>1. ASSUME NEW U \in SUBSET T, \A x \in U : U \ {x} \in Q PROVE U \in Q
  <2>1. CASE U = {}
    <3>1. S \cup U = S /\ Sum(f, S) \in Int
      BY <2>1, SumInt
    <3> QED BY <2>1, <3>1, SumEmpty
  <2>2. CASE U # {}
    <3> DEFINE p == Pick(U)
               V == U \ {p}
    <3>1. /\ p \in U /\ p \notin S /\ V \in SUBSET T
          /\ (S \cup U) \ {p} = S \cup V
      BY <2>2, PickIn
    <3>2. IsFiniteSet(U) /\ IsFiniteSet(V) /\ IsFiniteSet(S \cup U)
      <4>1. IsFiniteSet(U) /\ IsFiniteSet(V)
        BY FS_Subset
      <4> QED BY <4>1, FS_Union
    <3>3. Sum(f, U) = f[p] + Sum(f, V)
      BY <2>2, <3>2, SumPick
    <3>4. Sum(f, S \cup U) = f[p] + Sum(f, S \cup V)
      <4>1. p \in S \cup U /\ \A x \in S \cup U : f[x] \in Int
        BY <3>1
      <4>2. Sum(f, S \cup U) = f[p] + Sum(f, (S \cup U) \ {p})
        BY <3>2, <4>1, SumRemove
      <4> QED BY <3>1, <4>2
    <3>5. Sum(f, S \cup V) = Sum(f, S) + Sum(f, V)
      BY <1>1, <3>1
    <3>6. f[p] \in Int /\ Sum(f, S) \in Int /\ Sum(f, V) \in Int
      BY <3>1, <3>2, SumInt
    <3> HIDE DEF p, V
    <3>7. Sum(f, S \cup U) = Sum(f, S) + Sum(f, U)
      BY <3>3, <3>4, <3>5, <3>6
    <3> QED BY <3>7
  <2> QED BY <2>1, <2>2
<1> HIDE DEF Q
<1>2. T \in Q
  BY <1>1, SetInduction
<1> QED BY <1>2 DEF Q

(* What is zero outside of a part is summed over the part.                 *)
ZeroOutside(g, f, U, S) ==
    /\ U \subseteq S
    /\ \A x \in U : f[x] \in Int /\ g[x] = f[x]
    /\ \A x \in S \ U : g[x] = 0

(* Terms that are zero outside a part of a set do not count.               *)
LEMMA SumPart ==
    ASSUME NEW f, NEW g, NEW S, NEW U, IsFiniteSet(S), ZeroOutside(g, f, U, S)
    PROVE  Sum(g, S) = Sum(f, U)
<1> USE DEF ZeroOutside
<1>1. IsFiniteSet(U) /\ IsFiniteSet(S \ U)
  BY FS_Subset
<1>2. U \cap (S \ U) = {} /\ U \cup (S \ U) = S /\ \A x \in S : g[x] \in Int
  OBVIOUS
<1>3. Sum(g, U \cup (S \ U)) = Sum(g, U) + Sum(g, S \ U)
  BY <1>1, <1>2, SumUnion
<1>4. Sum(g, S \ U) = 0
  BY <1>1, SumZero
<1>5. Sum(g, U) = Sum(f, U) /\ Sum(f, U) \in Int
  BY <1>1, SumSame, SumInt
<1>6. Sum(g, S) = Sum(g, U) + Sum(g, S \ U)
  BY <1>2, <1>3, Zenon
<1> QED BY <1>4, <1>5, <1>6

(* A sum of which one element changes.                                     *)
LEMMA SumChange ==
    ASSUME NEW f, NEW g, NEW S, IsFiniteSet(S), NEW x \in S,
           \A y \in S : f[y] \in Int, \A y \in S \ {x} : g[y] = f[y], g[x] \in Int
    PROVE  Sum(g, S) = Sum(f, S) - f[x] + g[x]
<1>1. IsFiniteSet(S \ {x}) /\ \A y \in S : g[y] \in Int
  BY FS_Subset
<1>2. Sum(f, S) = f[x] + Sum(f, S \ {x})
  BY SumRemove
<1>3. Sum(g, S) = g[x] + Sum(g, S \ {x})
  BY <1>1, SumRemove
<1>4. Sum(g, S \ {x}) = Sum(f, S \ {x}) /\ Sum(f, S \ {x}) \in Int
  BY <1>1, SumSame, SumInt
<1> QED BY <1>2, <1>3, <1>4

Along(m, S) == {m[x] : x \in S}

(* A sum over what a function without repetitions makes of a set.          *)
LEMMA SumAlong ==
    ASSUME NEW f, NEW g, NEW S, NEW m, IsFiniteSet(S),
           \A x \in S : f[m[x]] \in Int /\ g[x] = f[m[x]],
           \A x, y \in S : m[x] = m[y] => x = y
    PROVE  IsFiniteSet(Along(m, S)) /\ Sum(f, Along(m, S)) = Sum(g, S)
<1> DEFINE Image(U) == {m[x] : x \in U}
           Q == {U \in SUBSET S : IsFiniteSet(Image(U)) /\ Sum(f, Image(U)) = Sum(g, U)}
<1>1. ASSUME NEW U \in SUBSET S, \A x \in U : U \ {x} \in Q PROVE U \in Q
  <2>1. CASE U = {}
    <3>1. Image(U) = {}
      BY <2>1
    <3> HIDE DEF Image
    <3> QED BY <2>1, <3>1, SumEmpty, FS_EmptySet
  <2>2. CASE U # {}
    <3> DEFINE p == Pick(U)
               V == U \ {p}
    <3>1. p \in U /\ IsFiniteSet(U) /\ V \in SUBSET S
      BY <2>2, PickIn, FS_Subset
    <3>2. Sum(g, U) = g[p] + Sum(g, V)
      BY <2>2, <3>1, SumPick
    <3>3. IsFiniteSet(Image(V)) /\ Sum(f, Image(V)) = Sum(g, V)
      BY <1>1, <3>1
    <3>4. Image(U) = Image(V) \cup {m[p]} /\ m[p] \notin Image(V)
      BY <3>1
    <3>5. \A y \in Image(V) \cup {m[p]} : f[y] \in Int
      BY <3>1
    <3>6. g[p] = f[m[p]]
      BY <3>1
    <3> HIDE DEF Image, p, V
    <3>7. Sum(f, Image(V) \cup {m[p]}) = f[m[p]] + Sum(f, Image(V))
      BY <3>3, <3>4, <3>5, SumInsert
    <3>8. IsFiniteSet(Image(U))
      BY <3>3, <3>4, FS_AddElement
    <3> QED BY <3>2, <3>3, <3>4, <3>6, <3>7, <3>8
  <2> QED BY <2>1, <2>2
<1> HIDE DEF Q
<1>2. S \in Q
  BY <1>1, SetInduction
<1>3. Along(m, S) = Image(S)
  BY DEF Along
<1> HIDE DEF Image
<1> QED BY <1>2, <1>3 DEF Q

-----------------------------------------------------------------------------
(* Totals *)

(* There are finitely many grants.                                         *)
LEMMA GrantsFinite == IsFiniteSet(GrantIds) /\ GrantIds \subseteq Nat
BY FS_Interval, BoundsAssumption DEF GrantIds

(* There are finitely many cycles.                                         *)
LEMMA CyclesFinite == IsFiniteSet(Cycles)
BY FS_Interval, BoundsAssumption DEF Cycles

(* The total of the model is the sum over the grants.                      *)
LEMMA TotalIsSum == ASSUME NEW f PROVE Total(f) = Sum(f, GrantIds)
BY DEF Total, Sum

(* Totals add up when the functions do.                                    *)
LEMMA TotalPlus ==
    ASSUME NEW h, NEW f, NEW g, AddsUp(h, f, g, GrantIds)
    PROVE  /\ Total(f) \in Int /\ Total(g) \in Int
           /\ Total(h) = Total(f) + Total(g)
<1>1. Sum(h, GrantIds) = Sum(f, GrantIds) + Sum(g, GrantIds)
  BY GrantsFinite, SumPlus
<1>2. Sum(f, GrantIds) \in Int /\ Sum(g, GrantIds) \in Int
  BY GrantsFinite, SumInt DEF AddsUp
<1> QED BY <1>1, <1>2, TotalIsSum

(* A total that only a part of the grants contributes to.                  *)
LEMMA TotalPart ==
    ASSUME NEW g, NEW f, NEW U, ZeroOutside(g, f, U, GrantIds)
    PROVE  Total(g) = Sum(f, U)
BY GrantsFinite, SumPart, TotalIsSum

(* Equal terms have equal totals.                                          *)
LEMMA TotalSame ==
    ASSUME NEW f, NEW g, \A x \in GrantIds : f[x] = g[x] PROVE Total(f) = Total(g)
BY GrantsFinite, SumSame, TotalIsSum

(* The points of a set of rows.                                            *)
Points == [r \in Row |-> r.points]

(* The points of a row are an integer.                                     *)
LEMMA PointsInt == \A r \in Row : Points[r] = r.points /\ Points[r] \in Int
BY DEF Points, Row

(* The points of a finite set of rows are the sum over its rows.           *)
LEMMA TotalRowsIsSum ==
    ASSUME NEW rows, rows \subseteq Row, IsFiniteSet(rows)
    PROVE  TotalRows(rows) = Sum(Points, rows) /\ TotalRows(rows) \in Int
<1> DEFINE f == [r \in rows |-> r.points]
<1>1. TotalRows(rows) = Sum(f, rows)
  <2>1. DOMAIN f = rows
    OBVIOUS
  <2> QED BY <2>1, SumFunctionIsSum DEF TotalRows
<1>2. \A r \in rows : f[r] = Points[r] /\ Points[r] \in Int
  BY PointsInt
<1> HIDE DEF f
<1> QED BY <1>1, <1>2, SumSame, SumInt

(* No rows, no points.                                                     *)
LEMMA NoRowsTotal == TotalRows({}) = 0
<1>1. {} \subseteq Row
  OBVIOUS
<1> QED BY <1>1, TotalRowsIsSum, SumEmpty, FS_EmptySet

(* The points of a single row are its own.                                 *)
LEMMA OneRowTotal == ASSUME NEW r \in Row PROVE TotalRows({r}) = r.points
<1>1. {r} \subseteq Row /\ IsFiniteSet({r})
  BY FS_Singleton
<1>2. TotalRows({r}) = Sum(Points, {r})
  BY <1>1, TotalRowsIsSum
<1>3. Sum(Points, {r}) = Points[r] + Sum(Points, {r} \ {r})
  BY <1>1, PointsInt, SumRemove
<1>4. {r} \ {r} = {}
  OBVIOUS
<1> QED BY <1>2, <1>3, <1>4, SumEmpty, PointsInt

(* The points of old and new rows add up.                                  *)
LEMMA RowsTotalUnion ==
    ASSUME NEW old, NEW new, old \subseteq Row, new \subseteq Row,
           IsFiniteSet(old), IsFiniteSet(new), old \cap new = {}
    PROVE  TotalRows(old \cup new) = TotalRows(old) + TotalRows(new)
<1>1. IsFiniteSet(old \cup new) /\ old \cup new \subseteq Row
  BY FS_Union
<1>2. Sum(Points, old \cup new) = Sum(Points, old) + Sum(Points, new)
  BY PointsInt, SumUnion
<1>3. /\ TotalRows(old \cup new) = Sum(Points, old \cup new)
      /\ TotalRows(old) = Sum(Points, old)
      /\ TotalRows(new) = Sum(Points, new)
  BY <1>1, TotalRowsIsSum
<1> QED BY <1>2, <1>3

(* A row for each of a set of grants.                                      *)
LEMMA RowsOfGrants ==
    ASSUME NEW G \in SUBSET GrantIds, NEW kind \in RowKinds, NEW c \in Nat,
           NEW p, \A g \in G : p[g] \in Int
    PROVE  LET rows == {NewRow(kind, g, c, p[g]) : g \in G}
           IN  /\ rows \subseteq Row
               /\ IsFiniteSet(rows)
               /\ TotalRows(rows) = Sum(p, G)
<1> DEFINE m == [g \in G |-> NewRow(kind, g, c, p[g])]
           rows == {NewRow(kind, g, c, p[g]) : g \in G}
<1>1. IsFiniteSet(G)
  BY GrantsFinite, FS_Subset
<1>2. rows = Along(m, G)
  BY DEF Along
<1>3. \A g \in G : m[g] \in Row /\ m[g].points = p[g] /\ m[g].ref = g
  BY NewRowType DEF NewRow
<1>4. \A g \in G : Points[m[g]] \in Int /\ p[g] = Points[m[g]]
  BY <1>3, PointsInt
<1>5. \A g, h \in G : m[g] = m[h] => g = h
  <2> HIDE DEF m
  <2> QED BY <1>3
<1> HIDE DEF m, rows
<1>6. IsFiniteSet(rows) /\ Sum(Points, rows) = Sum(p, G)
  BY <1>1, <1>2, <1>4, <1>5, SumAlong
<1>7. rows \subseteq Row
  BY <1>2, <1>3 DEF Along
<1>9. rows \subseteq Row /\ IsFiniteSet(rows) /\ TotalRows(rows) = Sum(p, G)
  BY <1>6, <1>7, TotalRowsIsSum
<1> QED BY <1>9 DEF rows

-----------------------------------------------------------------------------
(* What the steps write *)

(* What an open reservation holds of a grant.                              *)
Cover(t, c, g) ==
    IF allocs[t][c][g].status = "reserved" THEN allocs[t][c][g].reserved ELSE 0

(* What a task has reserved on a grant is a natural number.                *)
LEMMA CoverType ==
    ASSUME TypeOK, NEW t \in Tasks, NEW c \in Cycles, NEW g \in GrantIds
    PROVE  Cover(t, c, g) \in Nat
<1>1. allocs[t][c][g] \in Alloc
  BY DEF TypeOK
<1> QED BY <1>1 DEF Cover, Alloc

(* A reservation of amount, taking take from the grants.                   *)
Reserves(t, c, amount, take) ==
    /\ c \in Cycles /\ amount \in 0 .. MaxPoints /\ MayReserve(t) /\ IsNextCycle(t, c)
    /\ take \in [GrantIds -> Nat]
    /\ \A g \in GrantIds : take[g] <= grants[g].available
    /\ Total(take) = amount
    /\ grants' = [g \in GrantIds |->
                    [grants[g] EXCEPT !.available = @ - take[g], !.frozen = @ + take[g]]]
    /\ allocs' = [allocs EXCEPT ![t][c] =
                    [g \in GrantIds |->
                        IF take[g] > 0
                        THEN [NoAlloc EXCEPT !.status = "reserved", !.reserved = take[g]]
                        ELSE @[g]]]
    /\ ledger' = ledger \cup {NewRow("reserve", t, c, -amount)}
    /\ UNCHANGED <<redeemed, now, forfeited>>

(* A reservation takes a part of what each grant has available.            *)
LEMMA ReserveTakes ==
    ASSUME TypeOK, NEW t \in Tasks, NEW amount \in 0 .. MaxPoints, Reserve(t, amount)
    PROVE  \E c, take : Reserves(t, c, amount, take)
<1> DEFINE offer == [g \in GrantIds |-> IF Spendable(g) THEN grants[g].available ELSE 0]
<1>1. PICK c \in Cycles : \E take \in Spreads(offer, ReserveOrder, amount) :
        /\ IsNextCycle(t, c)
        /\ grants' = [g \in GrantIds |->
                        [grants[g] EXCEPT !.available = @ - take[g], !.frozen = @ + take[g]]]
        /\ allocs' = [allocs EXCEPT ![t][c] =
                        [g \in GrantIds |->
                            IF take[g] > 0
                            THEN [NoAlloc EXCEPT !.status = "reserved", !.reserved = take[g]]
                            ELSE @[g]]]
        /\ ledger' = ledger \cup {NewRow("reserve", t, c, -amount)}
  BY DEF Reserve
<1>2. PICK take \in Spreads(offer, ReserveOrder, amount) :
        /\ IsNextCycle(t, c)
        /\ grants' = [g \in GrantIds |->
                        [grants[g] EXCEPT !.available = @ - take[g], !.frozen = @ + take[g]]]
        /\ allocs' = [allocs EXCEPT ![t][c] =
                        [g \in GrantIds |->
                            IF take[g] > 0
                            THEN [NoAlloc EXCEPT !.status = "reserved", !.reserved = take[g]]
                            ELSE @[g]]]
        /\ ledger' = ledger \cup {NewRow("reserve", t, c, -amount)}
  BY <1>1
<1>3. take \in [GrantIds -> Nat] /\ Total(take) = amount
  BY BoundsAssumption DEF Spreads
<1>4. ASSUME NEW g \in GrantIds PROVE take[g] <= grants[g].available
  <2>1. take[g] <= offer[g] /\ take[g] \in Nat
    BY <1>2, SpreadBounds
  <2>2. grants[g].available \in Nat
    BY DEF TypeOK, Grant
  <2> QED BY <2>1, <2>2
<1>5. MayReserve(t) /\ UNCHANGED <<redeemed, now, forfeited>>
  BY DEF Reserve
<1>6. Reserves(t, c, amount, take)
  BY <1>2, <1>3, <1>4, <1>5 DEF Reserves
<1> QED BY <1>6

(* What it leaves of each grant and of each allocation.                    *)
LEMMA ReservedGrants ==
    ASSUME TypeOK, NEW t \in Tasks, NEW c, NEW amount, NEW take, Reserves(t, c, amount, take),
           NEW g \in GrantIds
    PROVE  /\ take[g] \in Nat /\ take[g] <= grants[g].available
           /\ grants[g] \in Grant
           /\ grants'[g].available = grants[g].available - take[g]
           /\ grants'[g].frozen = grants[g].frozen + take[g]
           /\ grants'[g].consumed = grants[g].consumed
           /\ grants'[g].hold = grants[g].hold
           /\ grants'[g].total = grants[g].total
           /\ grants'[g].status = grants[g].status
<1>1. grants[g] \in Grant
  BY DEF TypeOK
<1>2. grants'[g] = [grants[g] EXCEPT !.available = @ - take[g], !.frozen = @ + take[g]]
  BY DEF Reserves
<1> QED BY <1>1, <1>2 DEF Grant, Reserves

(* The allocations a reservation writes, and those it leaves alone.        *)
LEMMA ReservedAllocs ==
    ASSUME TypeOK, NEW t \in Tasks, NEW c, NEW amount, NEW take, Reserves(t, c, amount, take),
           NEW u \in Tasks, NEW d \in Cycles, NEW g \in GrantIds
    PROVE  /\ ~(u = t /\ d = c) => allocs'[u][d][g] = allocs[u][d][g]
           /\ u = t /\ d = c =>
                IF take[g] > 0
                THEN /\ allocs'[u][d][g].status = "reserved"
                     /\ allocs'[u][d][g].reserved = take[g]
                     /\ allocs'[u][d][g].consumed = 0
                     /\ allocs'[u][d][g].refunded = 0
                ELSE allocs'[u][d][g] = allocs[u][d][g]
<1> DEFINE new == [h \in GrantIds |->
                    IF take[h] > 0
                    THEN [NoAlloc EXCEPT !.status = "reserved", !.reserved = take[h]]
                    ELSE allocs[t][c][h]]
<1>1. allocs' = [allocs EXCEPT ![t][c] = new] /\ c \in Cycles
  BY DEF Reserves, TypeOK
<1>2. CASE u = t /\ d = c
  <2>1. allocs'[t][c] = new
    <3> HIDE DEF new
    <3> QED BY <1>1 DEF TypeOK
  <2>2. take[g] > 0 => /\ new[g].status = "reserved" /\ new[g].reserved = take[g]
                       /\ new[g].consumed = 0 /\ new[g].refunded = 0
    BY DEF NoAlloc
  <2>3. ~(take[g] > 0) => new[g] = allocs[t][c][g]
    OBVIOUS
  <2> HIDE DEF new
  <2> QED BY <1>2, <2>1, <2>2, <2>3
<1>3. CASE ~(u = t /\ d = c)
  <2>1. allocs'[u][d] = allocs[u][d]
    <3> HIDE DEF new
    <3> QED BY <1>1, <1>3 DEF TypeOK
  <2> QED BY <1>3, <2>1
<1> QED BY <1>2, <1>3

(* A settlement that charges charged of held, taking share from the grants. *)
Settles(t, c, held, charged, share) ==
    /\ c \in Cycles /\ IsActiveCycle(t, c)
    /\ held \in 0 .. MaxPoints /\ charged \in Nat /\ charged <= held
    /\ held = Total([g \in GrantIds |-> Cover(t, c, g)])
    /\ share \in [GrantIds -> Nat]
    /\ \A g \in GrantIds : share[g] <= Cover(t, c, g)
    /\ Total(share) = charged
    /\ grants' = [g \in GrantIds |-> SettledGrant(Swept(g), Cover(t, c, g), share[g])]
    /\ allocs' = [allocs EXCEPT ![t][c] = [g \in GrantIds |-> SettledAlloc(@[g], share[g])]]
    /\ forfeited' = forfeited \cup
            {<<t, c, g>> : g \in {h \in GrantIds :
                share[h] < Cover(t, c, h) /\ ~Creditable(Swept(h))}}
    /\ ledger' = ledger \cup ExpireRows \cup SettleRows(t, c, held, charged)
    /\ UNCHANGED <<redeemed, now>>

(* A settlement consumes a share of what each grant has reserved.          *)
LEMMA FinalizeSettles ==
    ASSUME TypeOK, NEW t \in Tasks, NEW actual \in 0 .. MaxPoints, Finalize(t, actual)
    PROVE  \E c, held, charged, share : Settles(t, c, held, charged, share)
<1> DEFINE reservedOn(c) == [g \in GrantIds |->
        IF allocs[t][c][g].status = "reserved" THEN allocs[t][c][g].reserved ELSE 0]
           charge(held) == IF actual > held THEN held ELSE actual
           lost(c, share) == {<<t, c, g>> : g \in {h \in GrantIds :
                                share[h] < reservedOn(c)[h] /\ ~Creditable(Swept(h))}}
           done(c, held, share) ==
              /\ grants' = [g \in GrantIds |->
                              SettledGrant(Swept(g), reservedOn(c)[g], share[g])]
              /\ allocs' = [allocs EXCEPT ![t][c] =
                              [g \in GrantIds |-> SettledAlloc(@[g], share[g])]]
              /\ forfeited' = forfeited \cup lost(c, share)
<1>1. PICK c \in Cycles, held \in 0 .. MaxPoints :
        /\ IsActiveCycle(t, c)
        /\ held = Total(reservedOn(c))
        /\ ledger' = ledger \cup ExpireRows \cup SettleRows(t, c, held, charge(held))
        /\ \E share \in Spreads(reservedOn(c), ReserveOrder, charge(held)) : done(c, held, share)
  BY DEF Finalize
<1>2. PICK share \in Spreads(reservedOn(c), ReserveOrder, charge(held)) : done(c, held, share)
  BY <1>1
<1>3. reservedOn(c) = [g \in GrantIds |-> Cover(t, c, g)]
  BY DEF Cover
<1>4. held \in Nat /\ charge(held) \in Nat /\ charge(held) <= held
  BY BoundsAssumption
<1>5. share \in [GrantIds -> Nat] /\ Total(share) = charge(held)
  BY BoundsAssumption DEF Spreads
<1>6. \A g \in GrantIds : share[g] <= Cover(t, c, g)
  <2> SUFFICES ASSUME NEW g \in GrantIds PROVE share[g] <= Cover(t, c, g)
    OBVIOUS
  <2> HIDE DEF reservedOn, charge
  <2>1. share[g] <= reservedOn(c)[g]
    BY SpreadBounds
  <2> QED BY <1>3, <2>1
<1>7. UNCHANGED <<redeemed, now>>
  BY DEF Finalize
<1>8. /\ grants' = [g \in GrantIds |-> SettledGrant(Swept(g), Cover(t, c, g), share[g])]
      /\ allocs' = [allocs EXCEPT ![t][c] = [g \in GrantIds |-> SettledAlloc(@[g], share[g])]]
      /\ forfeited' = forfeited \cup
            {<<t, c, g>> : g \in {h \in GrantIds :
                share[h] < Cover(t, c, h) /\ ~Creditable(Swept(h))}}
  BY <1>2 DEF Cover
<1>9. held = Total([g \in GrantIds |-> Cover(t, c, g)])
  BY <1>1, <1>3
<1> HIDE DEF reservedOn, charge, lost, done
<1>10. Settles(t, c, held, charge(held), share)
  BY <1>1, <1>4, <1>5, <1>6, <1>7, <1>8, <1>9 DEF Settles
<1> QED BY <1>10

(* What a settlement leaves on each grant.                                 *)
LEMMA SettledGrants ==
    ASSUME TypeOK, NEW t \in Tasks, NEW c, NEW held, NEW charged, NEW share,
           Settles(t, c, held, charged, share), NEW g \in GrantIds
    PROVE  /\ share[g] \in Nat /\ share[g] <= Cover(t, c, g) /\ Cover(t, c, g) \in Nat
           /\ grants[g] \in Grant /\ Swept(g) \in Grant
           /\ grants'[g].available = IF Creditable(Swept(g))
                                     THEN Swept(g).available + (Cover(t, c, g) - share[g])
                                     ELSE Swept(g).available
           /\ grants'[g].frozen = IF grants[g].frozen < Cover(t, c, g) THEN 0
                                  ELSE grants[g].frozen - Cover(t, c, g)
           /\ grants'[g].consumed = grants[g].consumed + share[g]
           /\ grants'[g].hold = grants[g].hold
           /\ grants'[g].total = grants[g].total
           /\ grants'[g].status = Swept(g).status
<1>1. grants[g] \in Grant /\ Swept(g) \in Grant
  BY SweptType DEF TypeOK
<1>2. grants'[g] = SettledGrant(Swept(g), Cover(t, c, g), share[g])
  BY DEF Settles
<1>3. /\ Swept(g).frozen = grants[g].frozen /\ Swept(g).consumed = grants[g].consumed
      /\ Swept(g).hold = grants[g].hold /\ Swept(g).total = grants[g].total
  BY <1>1 DEF Swept, Grant
<1>4. Cover(t, c, g) \in Nat /\ share[g] \in Nat /\ share[g] <= Cover(t, c, g)
  BY CoverType DEF Settles
<1> QED BY <1>1, <1>2, <1>3, <1>4 DEF SettledGrant, Grant

(* The allocations a settlement closes, and those it leaves alone.         *)
LEMMA SettledAllocs ==
    ASSUME TypeOK, NEW t \in Tasks, NEW c, NEW held, NEW charged, NEW share,
           Settles(t, c, held, charged, share),
           NEW u \in Tasks, NEW d \in Cycles, NEW g \in GrantIds
    PROVE  allocs'[u][d][g] = IF u = t /\ d = c THEN SettledAlloc(allocs[t][c][g], share[g])
                              ELSE allocs[u][d][g]
<1> DEFINE new == [h \in GrantIds |-> SettledAlloc(allocs[t][c][h], share[h])]
<1>1. allocs' = [allocs EXCEPT ![t][c] = new] /\ c \in Cycles
  BY DEF Settles, TypeOK
<1>2. CASE u = t /\ d = c
  <2>1. allocs'[t][c] = new
    <3> HIDE DEF new
    <3> QED BY <1>1 DEF TypeOK
  <2> QED BY <1>2, <2>1
<1>3. CASE ~(u = t /\ d = c)
  <2>1. allocs'[u][d] = allocs[u][d]
    <3> HIDE DEF new
    <3> QED BY <1>1, <1>3 DEF TypeOK
  <2> QED BY <1>3, <2>1
<1> QED BY <1>2, <1>3

-----------------------------------------------------------------------------
(* The steps of the wallet, by what they do to grants and rows *)

Sweeps ==
    /\ grants' = [g \in GrantIds |-> Swept(g)]
    /\ ledger' = ledger \cup ExpireRows
    /\ UNCHANGED <<allocs, forfeited>>

(* The row of an administrator, of the trial or of the code, never written *)
(* before.                                                                 *)
IsNewRow(row) ==
    /\ row \in Row
    /\ row.kind \in {"admin_adjust", "trial_grant", "redeem"}
    /\ ~HasRow(row.kind, row.ref, row.cycle)

Gains(slot, grant, row) ==
    /\ slot \in GrantIds /\ grants[slot].status = "none"
    /\ grant \in Grant /\ grant.status = "active"
    /\ grant.frozen = 0 /\ grant.consumed = 0 /\ grant.hold = 0
    /\ grant.available = row.points /\ grant.total = row.points
    /\ IsNewRow(row)
    /\ grants' = [grants EXCEPT ![slot] = grant]
    /\ ledger' = ledger \cup {row}
    /\ UNCHANGED <<allocs, forfeited>>

Cuts(cut, row) ==
    /\ cut \in [GrantIds -> Nat]
    /\ \A g \in GrantIds : cut[g] <= grants[g].available
    /\ row.points + Total(cut) = 0
    /\ IsNewRow(row)
    /\ grants' = [g \in GrantIds |-> [grants[g] EXCEPT !.available = @ - cut[g]]]
    /\ ledger' = ledger \cup {row}
    /\ UNCHANGED <<allocs, forfeited>>

Still == UNCHANGED <<grants, allocs, ledger, forfeited>>

(* A grant just created holds the points of its row and no others.         *)
LEMMA NewGrantGains ==
    ASSUME NEW slot \in GrantIds, IsFreeSlot(slot),
           NEW kind \in Kinds, NEW points \in Nat, NEW expires \in Nat,
           NEW row, IsNewRow(row), row.points = points,
           grants' = [grants EXCEPT ![slot] = NewGrant(kind, points, expires)],
           ledger' = ledger \cup {row}, UNCHANGED <<allocs, forfeited>>
    PROVE  Gains(slot, NewGrant(kind, points, expires), row)
<1> DEFINE grant == NewGrant(kind, points, expires)
<1>1. /\ grant.status = "active" /\ grant.frozen = 0 /\ grant.consumed = 0
      /\ grant.hold = 0 /\ grant.available = points /\ grant.total = points
  BY DEF NewGrant
<1>2. grant \in Grant
  BY NewGrantType
<1>3. grants[slot].status = "none"
  BY DEF IsFreeSlot
<1> HIDE DEF grant
<1> QED BY <1>1, <1>2, <1>3 DEF Gains, grant

(* Every step of the wallet is one of the six.                             *)
LEMMA LedgerSteps ==
    ASSUME TypeOK, [Next]_vars
    PROVE  \/ \E t \in Tasks : \E c, amount, take : Reserves(t, c, amount, take)
           \/ \E t \in Tasks : \E c, held, charged, share : Settles(t, c, held, charged, share)
           \/ Sweeps
           \/ \E slot, grant, row : Gains(slot, grant, row)
           \/ \E cut, row : Cuts(cut, row)
           \/ Still
<1>1. CASE ReserveAny
  BY <1>1, ReserveTakes DEF ReserveAny
<1>2. CASE FinalizeAny
  BY <1>2, FinalizeSettles DEF FinalizeAny
<1>3. CASE GetBalance
  BY <1>3 DEF GetBalance, Sweeps
<1>4. ASSUME NEW k \in AdjustKeys, NEW change \in -MaxPoints .. MaxPoints, Adjust(k, change)
      PROVE  \/ \E slot, grant, row : Gains(slot, grant, row)
             \/ \E cut, row : Cuts(cut, row)
  <2> DEFINE row == NewRow("admin_adjust", k, 0, change)
  <2>0. change \in Int
    BY BoundsAssumption
  <2>1. IsNewRow(row) /\ row.points = change
    BY <1>4, <2>0, NewRowType DEF Adjust, IsNewRow, NewRow, RowKinds
  <2>2. ledger' = ledger \cup {row} /\ UNCHANGED <<allocs, forfeited>>
    BY <1>4 DEF Adjust
  <2> HIDE DEF row
  <2>3. CASE change > 0
    <3>1. PICK slot \in GrantIds :
            /\ IsFreeSlot(slot)
            /\ grants' = [grants EXCEPT ![slot] = NewGrant("gift", change, Never)]
      BY <1>4, <2>0, <2>3 DEF Adjust
    <3>2. "gift" \in Kinds /\ change \in Nat
      BY <2>0, <2>3 DEF Kinds
    <3> QED BY <2>1, <2>2, <3>1, <3>2, NeverType, NewGrantGains
  <2>4. CASE change < 0
    <3> DEFINE offer == [g \in GrantIds |->
                            IF grants[g].status = "active" THEN grants[g].available ELSE 0]
    <3>0. ~(change > 0) /\ change # 0
      BY <2>0, <2>4
    <3>1. PICK cut \in Spreads(offer, DeductOrder, -change) :
            grants' = [g \in GrantIds |-> [grants[g] EXCEPT !.available = @ - cut[g]]]
      BY <1>4, <3>0, Zenon DEF Adjust
    <3>2. cut \in [GrantIds -> Nat] /\ Total(cut) = -change
      BY BoundsAssumption DEF Spreads
    <3>3. ASSUME NEW g \in GrantIds PROVE cut[g] <= grants[g].available
      <4>1. cut[g] <= offer[g] /\ cut[g] \in Nat
        BY <3>1, SpreadBounds
      <4>2. grants[g].available \in Nat
        BY DEF TypeOK, Grant
      <4> QED BY <4>1, <4>2
    <3>4. row.points + Total(cut) = 0
      BY <2>0, <2>1, <3>2
    <3> QED BY <2>1, <2>2, <3>1, <3>2, <3>3, <3>4 DEF Cuts
  <2>5. CASE change = 0
    <3> DEFINE cut == [g \in GrantIds |-> 0]
    <3>1. Total(cut) = 0
      <4>1. \A g \in GrantIds : cut[g] = 0
        OBVIOUS
      <4> HIDE DEF cut
      <4> QED BY <4>1, TotalIsSum, GrantsFinite, SumZero
    <3>2. ASSUME NEW g \in GrantIds
          PROVE  /\ cut[g] <= grants[g].available
                 /\ grants[g] = [grants[g] EXCEPT !.available = @ - cut[g]]
      BY DEF TypeOK, Grant
    <3>3. grants' = grants
      BY <1>4, <2>5, <2>0 DEF Adjust
    <3>4. grants' = [g \in GrantIds |-> [grants[g] EXCEPT !.available = @ - cut[g]]]
      BY <3>2, <3>3 DEF TypeOK
    <3>5. cut \in [GrantIds -> Nat]
      OBVIOUS
    <3> HIDE DEF cut
    <3>6. row.points + Total(cut) = 0
      BY <2>1, <2>5, <3>1
    <3>7. Cuts(cut, row)
      BY <2>1, <2>2, <3>2, <3>4, <3>5, <3>6 DEF Cuts
    <3> QED BY <3>7
  <2> QED BY <2>0, <2>3, <2>4, <2>5
<1>5. CASE SignupTrial
  <2> DEFINE row == NewRow("trial_grant", SignupKey, 0, TrialPoints)
  <2>1. TrialPoints \in Nat /\ now + TrialDays \in Nat /\ "trial" \in Kinds
    BY BoundsAssumption DEF TypeOK, Kinds
  <2>2. IsNewRow(row) /\ row.points = TrialPoints
    BY <1>5, <2>1, NewRowType DEF SignupTrial, IsNewRow, NewRow, RowKinds
  <2>3. /\ ledger' = ledger \cup {row} /\ UNCHANGED <<allocs, forfeited>>
        /\ \E slot \in GrantIds :
              /\ IsFreeSlot(slot)
              /\ grants' = [grants EXCEPT ![slot] =
                                NewGrant("trial", TrialPoints, now + TrialDays)]
    BY <1>5 DEF SignupTrial
  <2> HIDE DEF row
  <2> QED BY <2>1, <2>2, <2>3, NewGrantGains
<1>6. ASSUME NEW k \in RedeemKeys, Redeem(k)
      PROVE  \E slot, grant, row : Gains(slot, grant, row)
  <2> DEFINE row == NewRow("redeem", k, 0, CodeReward)
  <2>1. CodeReward \in Nat /\ CodeUntil \in Nat /\ "gift" \in Kinds
    BY BoundsAssumption DEF Kinds
  <2>2. IsNewRow(row) /\ row.points = CodeReward
    BY <1>6, <2>1, NewRowType DEF Redeem, IsNewRow, NewRow, RowKinds
  <2>3. /\ ledger' = ledger \cup {row} /\ UNCHANGED <<allocs, forfeited>>
        /\ \E slot \in GrantIds :
              /\ IsFreeSlot(slot)
              /\ grants' = [grants EXCEPT ![slot] = NewGrant("gift", CodeReward, CodeUntil)]
    BY <1>6 DEF Redeem
  <2> HIDE DEF row
  <2> QED BY <2>1, <2>2, <2>3, NewGrantGains
<1>7. CASE RedeemByOther \/ Tick \/ UNCHANGED vars
  BY <1>7 DEF RedeemByOther, Tick, vars, Still
<1> QED BY <1>1, <1>2, <1>3, <1>4, <1>5, <1>6, <1>7, Zenon DEF Next, AdjustAny, RedeemAny
-----------------------------------------------------------------------------
(* Grants *)

(* The sweep empties what is available of an expired grant.                *)
LEMMA SweptGrant ==
    ASSUME TypeOK, NEW g \in GrantIds
    PROVE  /\ grants[g] \in Grant /\ Swept(g) \in Grant
           /\ Swept(g).available = IF DueToExpire(g) THEN 0 ELSE grants[g].available
           /\ Swept(g).status = IF DueToExpire(g) THEN "expired" ELSE grants[g].status
           /\ Swept(g).frozen = grants[g].frozen
           /\ Swept(g).consumed = grants[g].consumed
           /\ Swept(g).hold = grants[g].hold
           /\ Swept(g).total = grants[g].total
<1>1. grants[g] \in Grant /\ Swept(g) \in Grant
  BY SweptType DEF TypeOK
<1> QED BY <1>1 DEF Swept, Grant

(* A gain fills one free slot.                                             *)
LEMMA GainedGrants ==
    ASSUME TypeOK, NEW slot, NEW grant, NEW row, Gains(slot, grant, row), NEW g \in GrantIds
    PROVE  grants'[g] = IF g = slot THEN grant ELSE grants[g]
BY DEF Gains, TypeOK

(* A deduction takes from what is available.                               *)
LEMMA CutGrants ==
    ASSUME TypeOK, NEW cut, NEW row, Cuts(cut, row), NEW g \in GrantIds
    PROVE  /\ cut[g] \in Nat /\ cut[g] <= grants[g].available
           /\ grants[g] \in Grant
           /\ grants'[g].available = grants[g].available - cut[g]
           /\ grants'[g].frozen = grants[g].frozen
           /\ grants'[g].consumed = grants[g].consumed
           /\ grants'[g].hold = grants[g].hold
           /\ grants'[g].total = grants[g].total
           /\ grants'[g].status = grants[g].status
<1>1. grants[g] \in Grant
  BY DEF TypeOK
<1>2. grants'[g] = [grants[g] EXCEPT !.available = @ - cut[g]]
  BY DEF Cuts
<1> QED BY <1>1, <1>2 DEF Grant, Cuts

(* A slot without a grant holds no points. *)
FreeIsEmpty ==
    \A g \in GrantIds : grants[g].status = "none" =>
        /\ grants[g].available = 0 /\ grants[g].frozen = 0
        /\ grants[g].consumed = 0 /\ grants[g].hold = 0

(* What open reservations hold of a grant, over all tasks and cycles.      *)
Covers(g) == [tc \in Tasks \X Cycles |-> Cover(tc[1], tc[2], g)]
Covered(g) == Sum(Covers(g), Tasks \X Cycles)

(* There are finitely many tasks and cycles.                               *)
LEMMA PairsFinite == IsFiniteSet(Tasks \X Cycles)
BY CyclesFinite, FS_Product, BoundsAssumption

(* FrozenIsBacked in the sums of this module.                              *)
LEMMA FrozenIsCovered ==
    FrozenIsBacked <=> \A g \in GrantIds : grants[g].frozen = grants[g].hold + Covered(g)
<1>1. ASSUME NEW g \in GrantIds
      PROVE  SumFunction([tc \in Tasks \X Cycles |->
                IF allocs[tc[1]][tc[2]][g].status = "reserved"
                THEN allocs[tc[1]][tc[2]][g].reserved ELSE 0]) = Covered(g)
  <2>1. Covers(g) = [tc \in Tasks \X Cycles |->
                IF allocs[tc[1]][tc[2]][g].status = "reserved"
                THEN allocs[tc[1]][tc[2]][g].reserved ELSE 0]
    BY DEF Covers, Cover
  <2>2. SumFunction(Covers(g)) = Sum(Covers(g), DOMAIN Covers(g))
    BY SumFunctionIsSum
  <2>3. DOMAIN Covers(g) = Tasks \X Cycles
    BY DEF Covers
  <2> QED BY <2>1, <2>2, <2>3 DEF Covered
<1> QED BY <1>1 DEF FrozenIsBacked

(* The same of the next state.                                            *)
LEMMA FrozenIsCoveredNext ==
    (\A g \in GrantIds : grants'[g].frozen = grants'[g].hold + Covered(g)')
        => FrozenIsBacked'
<1>1. ASSUME NEW g \in GrantIds
      PROVE  SumFunction([tc \in Tasks \X Cycles |->
                IF allocs'[tc[1]][tc[2]][g].status = "reserved"
                THEN allocs'[tc[1]][tc[2]][g].reserved ELSE 0]) = Covered(g)'
  <2>1. Covers(g)' = [tc \in Tasks \X Cycles |->
                IF allocs'[tc[1]][tc[2]][g].status = "reserved"
                THEN allocs'[tc[1]][tc[2]][g].reserved ELSE 0]
    BY DEF Covers, Cover
  <2>2. SumFunction(Covers(g)') = Sum(Covers(g)', DOMAIN Covers(g)')
    BY SumFunctionIsSum
  <2>3. DOMAIN Covers(g)' = Tasks \X Cycles
    BY DEF Covers
  <2> QED BY <2>1, <2>2, <2>3 DEF Covered
<1> QED BY <1>1 DEF FrozenIsBacked

(* What the tasks cover on a grant are natural numbers.                    *)
LEMMA CoversType ==
    ASSUME TypeOK, NEW g \in GrantIds
    PROVE  \A tc \in Tasks \X Cycles : Covers(g)[tc] \in Nat
BY CoverType DEF Covers

(* A single reservation covers no more than all of them.                   *)
LEMMA CoverBound ==
    ASSUME TypeOK, NEW t \in Tasks, NEW c \in Cycles, NEW g \in GrantIds
    PROVE  Covered(g) \in Nat /\ Cover(t, c, g) <= Covered(g)
<1>1. <<t, c>> \in Tasks \X Cycles /\ Covers(g)[<<t, c>>] = Cover(t, c, g)
  BY DEF Covers
<1>2. Covered(g) \in Nat
  BY CoversType, PairsFinite, SumNat DEF Covered
<1>3. Covers(g)[<<t, c>>] <= Covered(g)
  BY <1>1, CoversType, PairsFinite, SumBound DEF Covered
<1> QED BY <1>1, <1>2, <1>3

(* What all the tasks cover on a grant is a natural number.                *)
LEMMA CoveredType == ASSUME TypeOK, NEW g \in GrantIds PROVE Covered(g) \in Nat
BY CoversType, PairsFinite, SumNat DEF Covered

(* A step that changes one pair's cover changes the covered points by it.  *)
LEMMA CoverChange ==
    ASSUME TypeOK, NEW t \in Tasks, NEW c \in Cycles, NEW g \in GrantIds,
           \A tc \in (Tasks \X Cycles) \ {<<t, c>>} : Cover(tc[1], tc[2], g)' = Cover(tc[1], tc[2], g),
           Cover(t, c, g)' \in Int
    PROVE  Covered(g)' = Covered(g) - Cover(t, c, g) + Cover(t, c, g)'
<1> DEFINE f == Covers(g)
           h == Covers(g)'
           S == Tasks \X Cycles
<1>1. <<t, c>> \in S /\ f[<<t, c>>] = Cover(t, c, g) /\ h[<<t, c>>] = Cover(t, c, g)'
  BY DEF Covers
<1>2. \A y \in S : f[y] \in Int
  BY CoversType
<1>3. \A y \in S \ {<<t, c>>} : h[y] = f[y]
  BY DEF Covers
<1>4. IsFiniteSet(S)
  BY PairsFinite
<1>5. Covered(g) = Sum(f, S) /\ Covered(g)' = Sum(h, S)
  BY DEF Covered, Sum
<1> HIDE DEF f, h, S
<1>6. h[<<t, c>>] \in Int
  BY <1>1
<1>7. Sum(h, S) = Sum(f, S) - f[<<t, c>>] + h[<<t, c>>]
  BY <1>1, <1>2, <1>3, <1>4, <1>6, SumChange
<1> QED BY <1>1, <1>5, <1>7
(* No change of the allocations, no change of the cover.                   *)
LEMMA CoverSame ==
    ASSUME allocs' = allocs, NEW g \in GrantIds PROVE Covered(g)' = Covered(g)
BY DEF Covered, Covers, Cover

(* A reservation covers what it takes.                                     *)
LEMMA ReservedCover ==
    ASSUME TypeOK, AllocationsFollowCycles, NEW t \in Tasks, NEW c, NEW amount, NEW take,
           Reserves(t, c, amount, take), NEW g \in GrantIds
    PROVE  Covered(g)' = Covered(g) + take[g]
<1>1. c \in Cycles
  BY DEF Reserves
<1>2. Cover(t, c, g) = 0
  BY <1>1 DEF Reserves, MayReserve, AllocationsFollowCycles, Cover
<1>3. take[g] \in Nat
  BY ReservedGrants
<1>4. Cover(t, c, g)' = take[g]
  <2>1. IF take[g] > 0
        THEN allocs'[t][c][g].status = "reserved" /\ allocs'[t][c][g].reserved = take[g]
        ELSE allocs'[t][c][g] = allocs[t][c][g]
    BY <1>1, ReservedAllocs
  <2>2. CASE take[g] > 0
    BY <2>1, <2>2 DEF Cover
  <2>3. CASE ~(take[g] > 0)
    BY <1>2, <1>3, <2>1, <2>3 DEF Cover
  <2> QED BY <2>2, <2>3
<1>5. \A tc \in (Tasks \X Cycles) \ {<<t, c>>} :
        Cover(tc[1], tc[2], g)' = Cover(tc[1], tc[2], g)
  <2> SUFFICES ASSUME NEW u \in Tasks, NEW d \in Cycles, ~(u = t /\ d = c)
               PROVE  Cover(u, d, g)' = Cover(u, d, g)
    OBVIOUS
  <2>1. allocs'[u][d][g] = allocs[u][d][g]
    BY ReservedAllocs
  <2> QED BY <2>1 DEF Cover
<1>6. Covered(g)' = Covered(g) - Cover(t, c, g) + Cover(t, c, g)'
  BY <1>1, <1>3, <1>4, <1>5, CoverChange
<1>7. Covered(g) \in Nat
  BY CoveredType
<1> QED BY <1>2, <1>3, <1>4, <1>6, <1>7

(* A settlement gives up what it covered.                                  *)
LEMMA SettledCover ==
    ASSUME TypeOK, NEW t \in Tasks, NEW c, NEW held, NEW charged, NEW share,
           Settles(t, c, held, charged, share), NEW g \in GrantIds
    PROVE  Covered(g)' = Covered(g) - Cover(t, c, g) /\ Cover(t, c, g) <= Covered(g)
<1>1. c \in Cycles
  BY DEF Settles
<1>2. allocs[t][c][g] \in Alloc
  BY <1>1 DEF TypeOK
<1>3. Cover(t, c, g)' = 0
  <2>1. allocs'[t][c][g] = SettledAlloc(allocs[t][c][g], share[g])
    BY <1>1, SettledAllocs
  <2>2. SettledAlloc(allocs[t][c][g], share[g]).status # "reserved"
    BY <1>2 DEF SettledAlloc, Alloc
  <2> QED BY <2>1, <2>2 DEF Cover
<1>4. \A tc \in (Tasks \X Cycles) \ {<<t, c>>} :
        Cover(tc[1], tc[2], g)' = Cover(tc[1], tc[2], g)
  <2> SUFFICES ASSUME NEW u \in Tasks, NEW d \in Cycles, ~(u = t /\ d = c)
               PROVE  Cover(u, d, g)' = Cover(u, d, g)
    OBVIOUS
  <2>1. allocs'[u][d][g] = allocs[u][d][g]
    BY SettledAllocs
  <2> QED BY <2>1 DEF Cover
<1>5. Covered(g)' = Covered(g) - Cover(t, c, g) + Cover(t, c, g)'
  BY <1>1, <1>3, <1>4, CoverChange
<1>6. Covered(g) \in Nat /\ Cover(t, c, g) \in Nat /\ Cover(t, c, g) <= Covered(g)
  BY <1>1, CoverBound, CoverType
<1> QED BY <1>3, <1>5, <1>6

(* Every step of the wallet keeps the frozen points backed.                *)
LEMMA FrozenNext ==
    ASSUME TypeOK, AllocationsFollowCycles, FreeIsEmpty, FrozenIsBacked, [Next]_vars
    PROVE  FrozenIsBacked'
<1> SUFFICES ASSUME NEW g \in GrantIds
             PROVE  grants'[g].frozen = grants'[g].hold + Covered(g)'
  BY FrozenIsCoveredNext
<1>1. /\ grants[g].frozen = grants[g].hold + Covered(g)
      /\ grants[g].frozen \in Nat /\ grants[g].hold \in Nat /\ Covered(g) \in Nat
  BY FrozenIsCovered, CoveredType DEF TypeOK, Grant
<1>2. ASSUME NEW t \in Tasks, NEW c, NEW amount, NEW take, Reserves(t, c, amount, take)
      PROVE  grants'[g].frozen = grants'[g].hold + Covered(g)'
  <2>1. /\ grants'[g].frozen = grants[g].frozen + take[g]
        /\ grants'[g].hold = grants[g].hold /\ take[g] \in Nat
    BY <1>2, ReservedGrants
  <2>2. Covered(g)' = Covered(g) + take[g]
    BY <1>2, ReservedCover
  <2> QED BY <1>1, <2>1, <2>2
<1>3. ASSUME NEW t \in Tasks, NEW c, NEW held, NEW charged, NEW share,
             Settles(t, c, held, charged, share)
      PROVE  grants'[g].frozen = grants'[g].hold + Covered(g)'
  <2>1. /\ Cover(t, c, g) \in Nat
        /\ grants'[g].frozen = IF grants[g].frozen < Cover(t, c, g) THEN 0
                               ELSE grants[g].frozen - Cover(t, c, g)
        /\ grants'[g].hold = grants[g].hold
    BY <1>3, SettledGrants
  <2>2. Covered(g)' = Covered(g) - Cover(t, c, g) /\ Cover(t, c, g) <= Covered(g)
    BY <1>3, SettledCover
  <2> QED BY <1>1, <2>1, <2>2
<1>4. CASE Sweeps
  <2>1. grants'[g] = Swept(g) /\ Covered(g)' = Covered(g)
    BY <1>4, CoverSame DEF Sweeps
  <2> QED BY <1>1, <2>1, SweptGrant
<1>5. ASSUME NEW slot, NEW grant, NEW row, Gains(slot, grant, row)
      PROVE  grants'[g].frozen = grants'[g].hold + Covered(g)'
  <2>1. grants'[g] = (IF g = slot THEN grant ELSE grants[g]) /\ Covered(g)' = Covered(g)
    BY <1>5, CoverSame, GainedGrants DEF Gains
  <2>2. CASE g = slot
    <3>1. grants[g].frozen = 0 /\ grants[g].hold = 0 /\ grant.frozen = 0 /\ grant.hold = 0
      BY <1>5, <2>2 DEF Gains, FreeIsEmpty
    <3> QED BY <1>1, <2>1, <2>2, <3>1
  <2> QED BY <1>1, <2>1, <2>2
<1>6. ASSUME NEW cut, NEW row, Cuts(cut, row)
      PROVE  grants'[g].frozen = grants'[g].hold + Covered(g)'
  <2>1. Covered(g)' = Covered(g)
    BY <1>6, CoverSame DEF Cuts
  <2>2. grants'[g].frozen = grants[g].frozen /\ grants'[g].hold = grants[g].hold
    BY <1>6, CutGrants
  <2> QED BY <1>1, <2>1, <2>2
<1>7. CASE Still
  <2>1. Covered(g)' = Covered(g) /\ grants' = grants
    BY <1>7, CoverSame DEF Still
  <2> QED BY <1>1, <2>1
<1> QED BY <1>2, <1>3, <1>4, <1>5, <1>6, <1>7, LedgerSteps

(* What a step makes of a grant: the points it holds in all never grow, a  *)
(* free slot stays empty or is filled by a grant worth what it holds.      *)
Holding(g) == grants[g].available + grants[g].frozen + grants[g].consumed

(* No step raises what a grant holds: it is filled once, when created.     *)
LEMMA HoldingNext ==
    ASSUME TypeOK, FreeIsEmpty, FrozenIsBacked, [Next]_vars, NEW g \in GrantIds
    PROVE  \/ /\ grants'[g].total = grants[g].total
              /\ grants'[g].status = "none" <=> grants[g].status = "none"
              /\ Holding(g)' <= Holding(g)
              /\ grants[g].status = "none" =>
                    /\ grants'[g].available = 0 /\ grants'[g].frozen = 0
                    /\ grants'[g].consumed = 0 /\ grants'[g].hold = 0
           \/ /\ grants[g].status = "none" /\ grants'[g].status # "none"
              /\ Holding(g)' = grants'[g].total
<1>1. /\ grants[g] \in Grant
      /\ grants[g].available \in Nat /\ grants[g].frozen \in Nat
      /\ grants[g].consumed \in Nat /\ grants[g].hold \in Nat
  BY DEF TypeOK, Grant
<1>2. ASSUME NEW t \in Tasks, NEW c, NEW amount, NEW take, Reserves(t, c, amount, take)
      PROVE  /\ grants'[g].total = grants[g].total
             /\ grants'[g].status = grants[g].status
             /\ Holding(g)' <= Holding(g)
             /\ grants[g].status = "none" =>
                    /\ grants'[g].available = 0 /\ grants'[g].frozen = 0
                    /\ grants'[g].consumed = 0 /\ grants'[g].hold = 0
  <2>1. /\ take[g] \in Nat /\ take[g] <= grants[g].available
        /\ grants'[g].available = grants[g].available - take[g]
        /\ grants'[g].frozen = grants[g].frozen + take[g]
        /\ grants'[g].consumed = grants[g].consumed
        /\ grants'[g].hold = grants[g].hold
        /\ grants'[g].total = grants[g].total
        /\ grants'[g].status = grants[g].status
    BY <1>2, ReservedGrants
  <2> QED BY <1>1, <2>1 DEF Holding, FreeIsEmpty
<1>3. ASSUME NEW t \in Tasks, NEW c, NEW held, NEW charged, NEW share,
             Settles(t, c, held, charged, share)
      PROVE  /\ grants'[g].total = grants[g].total
             /\ grants'[g].status = "none" <=> grants[g].status = "none"
             /\ Holding(g)' <= Holding(g)
             /\ grants[g].status = "none" =>
                    /\ grants'[g].available = 0 /\ grants'[g].frozen = 0
                    /\ grants'[g].consumed = 0 /\ grants'[g].hold = 0
  <2> DEFINE cover == Cover(t, c, g)
  <2>1. /\ share[g] \in Nat /\ share[g] <= cover /\ cover \in Nat
        /\ grants'[g].available = IF Creditable(Swept(g))
                                  THEN Swept(g).available + (cover - share[g])
                                  ELSE Swept(g).available
        /\ grants'[g].frozen = IF grants[g].frozen < cover THEN 0
                               ELSE grants[g].frozen - cover
        /\ grants'[g].consumed = grants[g].consumed + share[g]
        /\ grants'[g].hold = grants[g].hold
        /\ grants'[g].total = grants[g].total
        /\ grants'[g].status = Swept(g).status
    BY <1>3, SettledGrants
  <2>2. cover <= grants[g].frozen
    <3>1. /\ cover <= Covered(g) /\ Covered(g) \in Nat
          /\ grants[g].frozen = grants[g].hold + Covered(g)
      BY <1>3, SettledCover, CoveredType, FrozenIsCovered
    <3> QED BY <1>1, <2>1, <3>1
  <2>3. /\ Swept(g).available \in Nat /\ Swept(g).available <= grants[g].available
        /\ Swept(g).status = "none" <=> grants[g].status = "none"
    BY <1>1, SweptGrant DEF DueToExpire
  <2>4. grants[g].status = "none" => ~Creditable(Swept(g))
    BY <2>3 DEF Creditable
  <2> HIDE DEF cover
  <2>5. grants'[g].available \in Nat /\ grants'[g].available <= grants[g].available + (cover - share[g])
    BY <1>1, <2>1, <2>3
  <2>6. grants'[g].frozen = grants[g].frozen - cover
    BY <1>1, <2>1, <2>2
  <2>7. Holding(g)' <= Holding(g)
    BY <1>1, <2>1, <2>5, <2>6 DEF Holding
  <2>8. grants[g].status = "none" =>
            /\ grants'[g].available = 0 /\ grants'[g].frozen = 0
            /\ grants'[g].consumed = 0 /\ grants'[g].hold = 0
    <3> SUFFICES ASSUME grants[g].status = "none"
                 PROVE  /\ grants'[g].available = 0 /\ grants'[g].frozen = 0
                        /\ grants'[g].consumed = 0 /\ grants'[g].hold = 0
      OBVIOUS
    <3>1. /\ grants[g].available = 0 /\ grants[g].frozen = 0
          /\ grants[g].consumed = 0 /\ grants[g].hold = 0
      BY DEF FreeIsEmpty
    <3>2. cover = 0 /\ share[g] = 0
      BY <2>1, <2>2, <3>1
    <3> QED BY <2>1, <2>3, <2>4, <2>6, <3>1, <3>2
  <2> QED BY <2>1, <2>3, <2>7, <2>8
<1>4. CASE Sweeps
  <2>1. grants'[g] = Swept(g)
    BY <1>4 DEF Sweeps
  <2>2. Swept(g).status = "none" <=> grants[g].status = "none"
    BY SweptGrant DEF DueToExpire
  <2>3. /\ Swept(g).available \in Nat /\ Swept(g).available <= grants[g].available
        /\ Swept(g).frozen = grants[g].frozen /\ Swept(g).consumed = grants[g].consumed
        /\ Swept(g).hold = grants[g].hold /\ Swept(g).total = grants[g].total
    BY <1>1, SweptGrant
  <2> QED BY <1>1, <2>1, <2>2, <2>3 DEF Holding, FreeIsEmpty
<1>5. ASSUME NEW slot, NEW grant, NEW row, Gains(slot, grant, row), g = slot
      PROVE  /\ grants[g].status = "none" /\ grants'[g].status # "none"
             /\ Holding(g)' = grants'[g].total
  <2>1. grants'[g] = grant
    BY <1>5, GainedGrants
  <2>2. /\ grants[g].status = "none" /\ grant.status = "active" /\ grant.frozen = 0
        /\ grant.consumed = 0 /\ grant.available = grant.total /\ grant.total \in Nat
    BY <1>5 DEF Gains, Grant
  <2> QED BY <2>1, <2>2 DEF Holding
<1>6. ASSUME NEW cut, NEW row, Cuts(cut, row)
      PROVE  /\ grants'[g].total = grants[g].total
             /\ grants'[g].status = grants[g].status
             /\ Holding(g)' <= Holding(g)
             /\ grants[g].status = "none" =>
                    /\ grants'[g].available = 0 /\ grants'[g].frozen = 0
                    /\ grants'[g].consumed = 0 /\ grants'[g].hold = 0
  <2>1. /\ cut[g] \in Nat /\ cut[g] <= grants[g].available
        /\ grants'[g].available = grants[g].available - cut[g]
        /\ grants'[g].frozen = grants[g].frozen
        /\ grants'[g].consumed = grants[g].consumed
        /\ grants'[g].hold = grants[g].hold
        /\ grants'[g].total = grants[g].total
        /\ grants'[g].status = grants[g].status
    BY <1>6, CutGrants
  <2> QED BY <1>1, <2>1 DEF Holding, FreeIsEmpty
<1>7. ASSUME grants'[g] = grants[g]
      PROVE  /\ Holding(g)' <= Holding(g)
             /\ grants[g].status = "none" =>
                    /\ grants'[g].available = 0 /\ grants'[g].frozen = 0
                    /\ grants'[g].consumed = 0 /\ grants'[g].hold = 0
  BY <1>1, <1>7 DEF Holding, FreeIsEmpty
<1>8. CASE Still
  BY <1>7, <1>8 DEF Still
<1>9. ASSUME NEW slot, NEW grant, NEW row, Gains(slot, grant, row), g # slot
      PROVE  grants'[g] = grants[g]
  BY <1>9, GainedGrants
<1> QED BY <1>2, <1>3, <1>4, <1>5, <1>6, <1>7, <1>8, <1>9, LedgerSteps
(* A slot without a grant stays empty.                                     *)
LEMMA FreeIsEmptyNext ==
    ASSUME TypeOK, FreeIsEmpty, FrozenIsBacked, [Next]_vars PROVE FreeIsEmpty'
BY HoldingNext DEF FreeIsEmpty

(* Every step of the wallet keeps NoMint.                                  *)
LEMMA NoMintNext ==
    ASSUME TypeOK, TypeOK', FreeIsEmpty, FrozenIsBacked, NoMint, [Next]_vars PROVE NoMint'
<1> SUFFICES ASSUME NEW g \in GrantIds PROVE Holding(g)' <= grants'[g].total
  BY DEF NoMint, Holding
<1>1. Holding(g) \in Nat /\ grants[g].total \in Nat /\ Holding(g) <= grants[g].total
  BY DEF NoMint, Holding, TypeOK, Grant
<1>2. Holding(g)' \in Nat /\ grants'[g].total \in Nat
  BY DEF Holding, TypeOK, Grant
<1>3. CASE grants'[g].total = grants[g].total /\ Holding(g)' <= Holding(g)
  BY <1>1, <1>2, <1>3
<1>4. CASE Holding(g)' = grants'[g].total
  BY <1>2, <1>4
<1> QED BY <1>3, <1>4, HoldingNext

(* The grants bought before the history starts satisfy the invariants.     *)
LEMMA GrantsInit == Init => FreeIsEmpty /\ FrozenIsBacked /\ NoMint
<1> SUFFICES ASSUME Init PROVE FreeIsEmpty /\ FrozenIsBacked /\ NoMint
  OBVIOUS
<1>0. TypeOK
  BY TypeInit
<1>1. ASSUME NEW g \in GrantIds
      PROVE  /\ grants[g].frozen = 0 /\ grants[g].consumed = 0 /\ grants[g].hold = 0
             /\ grants[g].available = grants[g].total /\ grants[g].total \in Nat
             /\ grants[g].status = "none" => grants[g].total = 0
  <2>1. grants[g] \in {NoGrant} \cup
          {NewGrant(k, p, e) : k \in Kinds, p \in 1 .. MaxPoints, e \in 0 .. Never}
    BY OpeningAssumption DEF Init
  <2>2. CASE grants[g] = NoGrant
    BY <2>2 DEF NoGrant, NewGrant
  <2>3. ASSUME NEW k \in Kinds, NEW p \in 1 .. MaxPoints, NEW e \in 0 .. Never,
               grants[g] = NewGrant(k, p, e)
        PROVE  /\ grants[g].frozen = 0 /\ grants[g].consumed = 0 /\ grants[g].hold = 0
               /\ grants[g].available = grants[g].total /\ grants[g].total \in Nat
               /\ grants[g].status = "none" => grants[g].total = 0
    BY <2>3, BoundsAssumption DEF NewGrant
  <2> QED BY <2>1, <2>2, <2>3
<1>2. ASSUME NEW g \in GrantIds PROVE Covered(g) = 0
  <2>1. \A tc \in Tasks \X Cycles : Covers(g)[tc] = 0
    BY DEF Covers, Cover, Init, NoAlloc
  <2> QED BY <2>1, PairsFinite, SumZero DEF Covered
<1>3. FrozenIsBacked
  BY <1>1, <1>2, FrozenIsCovered
<1> QED BY <1>1, <1>3 DEF FreeIsEmpty, NoMint

-----------------------------------------------------------------------------
(* The grants and the cycles *)

(* NoMint is not inductive by itself: a settlement adds to the available   *)
(* points of a grant what it takes from the frozen ones, and the clamp     *)
(* would mint points if a reservation could exceed them.                   *)
GrantInv == CycleInv /\ FreeIsEmpty /\ FrozenIsBacked /\ NoMint

(* The invariant of the grants holds initially.                            *)
LEMMA GrantInvInit == Init => GrantInv
BY CycleInvInit, GrantsInit DEF GrantInv

(* The invariant of the grants is inductive.                               *)
LEMMA GrantInvNext == GrantInv /\ [Next]_vars => GrantInv'
<1> SUFFICES ASSUME GrantInv, [Next]_vars PROVE GrantInv'
  OBVIOUS
<1>1. CycleInv' /\ TypeOK'
  BY CycleInvNext DEF GrantInv, CycleInv
<1>2. TypeOK /\ AllocationsFollowCycles
  BY DEF GrantInv, CycleInv
<1> QED BY <1>1, <1>2, FreeIsEmptyNext, FrozenNext, NoMintNext DEF GrantInv

(* Every reachable state satisfies the grants' invariant.                  *)
THEOREM GrantsCorrect == Spec => []GrantInv
BY GrantInvInit, GrantInvNext, PTL DEF Spec

(* No history of reservations, settlements, sweeps and adjustments lets a  *)
(* grant give out more points than it was created with.                    *)
THEOREM NoMintHolds == Spec => []NoMint
BY GrantsCorrect, PTL DEF GrantInv

(* The frozen points of a grant are exactly those of its open reservations *)
(* and of the refund it waits for.                                         *)
THEOREM FrozenIsBackedHolds == Spec => []FrozenIsBacked
BY GrantsCorrect, PTL DEF GrantInv

-----------------------------------------------------------------------------
(* Rows *)

KeyRows(rows, kind, t, c) == {r \in rows : r.kind = kind /\ r.ref = t /\ r.cycle = c}

(* The points of a key are those of the rows with that key.                *)
LEMMA RowPointsAreKeyRows ==
    ASSUME NEW kind, NEW t, NEW c
    PROVE  /\ RowPoints(kind, t, c) = TotalRows(KeyRows(ledger, kind, t, c))
           /\ RowPoints(kind, t, c)' = TotalRows(KeyRows(ledger', kind, t, c))
BY DEF RowPoints, KeyRows, TotalRows

(* The points of a key are an integer.                                     *)
LEMMA RowPointsInt ==
    ASSUME TypeOK, IsFiniteSet(ledger), NEW kind, NEW t, NEW c
    PROVE  RowPoints(kind, t, c) \in Int
<1>1. KeyRows(ledger, kind, t, c) \subseteq ledger
  BY DEF KeyRows
<1>2. KeyRows(ledger, kind, t, c) \subseteq Row /\ IsFiniteSet(KeyRows(ledger, kind, t, c))
  BY <1>1, FS_Subset DEF TypeOK
<1> QED BY <1>2, TotalRowsIsSum, RowPointsAreKeyRows

(* Rows of another key leave the points of a key as they were.             *)
LEMMA RowPointsSame ==
    ASSUME NEW new, ledger' = ledger \cup new, NEW kind, NEW t, NEW c,
           KeyRows(new, kind, t, c) = {}
    PROVE  RowPoints(kind, t, c)' = RowPoints(kind, t, c)
<1>1. KeyRows(ledger', kind, t, c) = KeyRows(ledger, kind, t, c)
  BY DEF KeyRows
<1> QED BY <1>1, RowPointsAreKeyRows

(* The first rows of a key are its points.                                 *)
LEMMA RowPointsFirst ==
    ASSUME NEW new, ledger' = ledger \cup new, NEW kind, NEW t, NEW c,
           KeyRows(ledger, kind, t, c) = {}
    PROVE  RowPoints(kind, t, c)' = TotalRows(KeyRows(new, kind, t, c))
<1>1. KeyRows(ledger', kind, t, c) = KeyRows(new, kind, t, c)
  BY DEF KeyRows
<1> QED BY <1>1, RowPointsAreKeyRows

(* What a settlement writes: the points it charges and those it returns.   *)
LEMMA SettleRowsPoints ==
    ASSUME NEW t \in Tasks, NEW c \in Cycles, NEW held \in Nat, NEW charged \in Nat,
           charged <= held
    PROVE  LET rows == SettleRows(t, c, held, charged)
           IN  /\ rows \subseteq Row /\ IsFiniteSet(rows)
               /\ \A r \in rows : r.kind \in {"consume", "refund"} /\ r.ref = t /\ r.cycle = c
               /\ TotalRows(KeyRows(rows, "consume", t, c)) + charged = 0
               /\ TotalRows(KeyRows(rows, "refund", t, c)) = held - charged
<1> DEFINE rows == SettleRows(t, c, held, charged)
           paid == NewRow("consume", t, c, -charged)
           back == NewRow("refund", t, c, held - charged)
<1>1. paid \in Row /\ back \in Row
  BY NewRowType, CyclesNat DEF RowKinds
<1>2. /\ paid.kind = "consume" /\ paid.ref = t /\ paid.cycle = c /\ paid.points = -charged
      /\ back.kind = "refund" /\ back.ref = t /\ back.cycle = c /\ back.points = held - charged
  BY DEF NewRow
<1>3. rows = (IF charged > 0 THEN {paid} ELSE {})
               \cup (IF charged = 0 \/ held > charged THEN {back} ELSE {})
  BY DEF SettleRows
<1> HIDE DEF paid, back, rows
<1>4. rows \subseteq Row /\ rows \subseteq {paid, back}
  BY <1>1, <1>3
<1>5. IsFiniteSet(rows)
  <2>1. IsFiniteSet({paid} \cup {back})
    BY FS_Singleton, FS_Union
  <2>2. rows \subseteq {paid} \cup {back}
    BY <1>4
  <2> QED BY <2>1, <2>2, FS_Subset
<1>6. TotalRows(KeyRows(rows, "consume", t, c)) + charged = 0
  <2>1. CASE charged > 0
    <3>1. KeyRows(rows, "consume", t, c) = {paid}
      BY <1>2, <1>3, <2>1 DEF KeyRows
    <3>2. TotalRows({paid}) = -charged
      BY <1>1, <1>2, OneRowTotal
    <3> QED BY <3>1, <3>2
  <2>2. CASE charged = 0
    <3>1. KeyRows(rows, "consume", t, c) = {}
      BY <1>2, <1>3, <2>2 DEF KeyRows
    <3> QED BY <2>2, <3>1, NoRowsTotal
  <2> QED BY <2>1, <2>2
<1>7. TotalRows(KeyRows(rows, "refund", t, c)) = held - charged
  <2>1. CASE charged = 0 \/ held > charged
    <3>1. KeyRows(rows, "refund", t, c) = {back}
      BY <1>2, <1>3, <2>1 DEF KeyRows
    <3> QED BY <1>1, <1>2, <3>1, OneRowTotal
  <2>2. CASE ~(charged = 0 \/ held > charged)
    <3>1. KeyRows(rows, "refund", t, c) = {}
      BY <1>2, <1>3, <2>2 DEF KeyRows
    <3> QED BY <2>2, <3>1, NoRowsTotal
  <2> QED BY <2>1, <2>2
<1>8. \A r \in rows : r.kind \in {"consume", "refund"} /\ r.ref = t /\ r.cycle = c
  BY <1>2, <1>4
<1>9. /\ rows \subseteq Row /\ IsFiniteSet(rows)
      /\ \A r \in rows : r.kind \in {"consume", "refund"} /\ r.ref = t /\ r.cycle = c
      /\ TotalRows(KeyRows(rows, "consume", t, c)) + charged = 0
      /\ TotalRows(KeyRows(rows, "refund", t, c)) = held - charged
  BY <1>4, <1>5, <1>6, <1>7, <1>8
<1> QED BY <1>9 DEF rows

(* What a sweep writes: the points it takes from the grants.               *)
LEMMA ExpireRowsPoints ==
    ASSUME TypeOK
    PROVE  /\ ExpireRows \subseteq Row /\ IsFiniteSet(ExpireRows)
           /\ \A r \in ExpireRows : r.kind = "expire" /\ r.ref \in GrantIds /\ DueToExpire(r.ref)
           /\ TotalRows(ExpireRows) \in Int
           /\ Total([g \in GrantIds |-> Swept(g).available]) =
                Total([g \in GrantIds |-> grants[g].available]) + TotalRows(ExpireRows)
<1> DEFINE G == {h \in GrantIds : DueToExpire(h) /\ grants[h].available > 0}
           p == [g \in GrantIds |-> -grants[g].available]
           q == [g \in GrantIds |-> IF g \in G THEN -grants[g].available ELSE 0]
           old == [g \in GrantIds |-> grants[g].available]
           new == [g \in GrantIds |-> Swept(g).available]
           rows == {NewRow("expire", g, 0, p[g]) : g \in G}
<1>1. \A g \in GrantIds : old[g] \in Nat
  BY DEF TypeOK, Grant
<1>2. G \subseteq GrantIds /\ \A g \in G : p[g] \in Int
  BY <1>1
<1>3. ExpireRows = rows
  BY DEF ExpireRows
<1>4. \A r \in rows : r.kind = "expire" /\ r.ref \in GrantIds /\ DueToExpire(r.ref)
  BY DEF NewRow
<1>5. rows \subseteq Row /\ IsFiniteSet(rows) /\ TotalRows(rows) = Sum(p, G)
  <2>1. "expire" \in RowKinds /\ 0 \in Nat /\ G \in SUBSET GrantIds
    BY DEF RowKinds
  <2>2. \A g \in G : p[g] \in Int
    BY <1>2
  <2> HIDE DEF p, G
  <2> QED BY <2>1, <2>2, RowsOfGrants
<1>6. ZeroOutside(q, p, G, GrantIds)
  BY <1>2 DEF ZeroOutside
<1>7. AddsUp(new, old, q, GrantIds)
  <2> SUFFICES ASSUME NEW g \in GrantIds
               PROVE  old[g] \in Int /\ q[g] \in Int /\ new[g] = old[g] + q[g]
    BY DEF AddsUp
  <2>1. /\ grants[g].available \in Nat
        /\ Swept(g).available = IF DueToExpire(g) THEN 0 ELSE grants[g].available
    BY SweptGrant DEF Grant
  <2> QED BY <2>1
<1> HIDE DEF p, q, G, old, new, rows
<1>8. Total(new) = Total(old) + TotalRows(ExpireRows) /\ TotalRows(ExpireRows) \in Int
  BY <1>3, <1>5, <1>6, <1>7, TotalPlus, TotalPart
<1> QED BY <1>3, <1>4, <1>5, <1>8 DEF old, new
(* The rows of the tasks do not change in the steps that are about no task. *)
Idles == Sweeps \/ (\E slot, grant, row : Gains(slot, grant, row))
                \/ (\E cut, row : Cuts(cut, row)) \/ Still

(* Steps that are not of a task write no row of a task.                    *)
LEMMA IdleRows ==
    ASSUME TypeOK, Idles
    PROVE  allocs' = allocs /\ forfeited' = forfeited /\ ledger \subseteq ledger' /\ OldTaskRows
<1>1. CASE Sweeps
  BY <1>1, ExpireRowsPoints DEF Sweeps, OldTaskRows, TaskRowKinds
<1>2. CASE \E slot, grant, row : Gains(slot, grant, row)
  BY <1>2 DEF Gains, IsNewRow, OldTaskRows, TaskRowKinds
<1>3. CASE \E cut, row : Cuts(cut, row)
  BY <1>3 DEF Cuts, IsNewRow, OldTaskRows, TaskRowKinds
<1>4. CASE Still
  BY <1>4 DEF Still, OldTaskRows
<1> QED BY <1>1, <1>2, <1>3, <1>4 DEF Idles

(* They leave the points of every task's rows as they are.                 *)
LEMMA IdlePoints ==
    ASSUME TypeOK, Idles, NEW kind \in TaskRowKinds
    PROVE  /\ \A t, c : RowPoints(kind, t, c)' = RowPoints(kind, t, c)
           /\ {r \in ledger' : r.kind = kind} = {r \in ledger : r.kind = kind}
<1>1. {r \in ledger' : r.kind = kind} = {r \in ledger : r.kind = kind}
  BY IdleRows DEF OldTaskRows
<1>2. ASSUME NEW t, NEW c PROVE RowPoints(kind, t, c)' = RowPoints(kind, t, c)
  <2>1. KeyRows(ledger', kind, t, c) = KeyRows(ledger, kind, t, c)
    BY <1>1 DEF KeyRows
  <2> QED BY <2>1, RowPointsAreKeyRows
<1> QED BY <1>1, <1>2

(* They leave the cycles of every task as they are.                        *)
LEMMA IdleCycles ==
    ASSUME TypeOK, Idles
    PROVE  \A t \in Tasks : /\ ReservedCycles(t)' = ReservedCycles(t)
                            /\ SettledCycles(t)' = SettledCycles(t)
BY IdleRows, OtherRows

(* The points of the rows after a reservation.                             *)
LEMMA ReservedRows ==
    ASSUME TypeOK, SettledWereReserved, NEW t \in Tasks, NEW c, NEW amount, NEW take,
           Reserves(t, c, amount, take)
    PROVE  /\ c \in Cycles /\ amount \in Nat
           /\ NewRow("reserve", t, c, -amount) \in Row
           /\ NewRow("reserve", t, c, -amount) \notin ledger
           /\ RowPoints("reserve", t, c)' + amount = 0
           /\ \A kind, u, d : ~(kind = "reserve" /\ u = t /\ d = c) =>
                    RowPoints(kind, u, d)' = RowPoints(kind, u, d)
           /\ \A u \in Tasks : SettledCycles(u)' = SettledCycles(u)
           /\ c \notin SettledCycles(t) /\ c \notin ReservedCycles(t)
<1> DEFINE row == NewRow("reserve", t, c, -amount)
<1>1. c \in Cycles /\ amount \in Nat
  <2>1. Total(take) \in Nat
    BY GrantsFinite, SumNat, TotalIsSum DEF Reserves
  <2> QED BY <2>1 DEF Reserves
<1>2. c \notin SettledCycles(t) /\ c \notin ReservedCycles(t)
  <2>1. ~(c < c)
    BY <1>1, CyclesNat
  <2> QED BY <1>1, <2>1 DEF Reserves, IsNextCycle
<1>3. row.kind = "reserve" /\ row.ref = t /\ row.cycle = c /\ row.points = -amount
  BY DEF NewRow
<1>4. row \in Row
  BY <1>1, CyclesNat, NewRowType DEF RowKinds
<1>5. ledger' = ledger \cup {row}
  BY DEF Reserves
<1> HIDE DEF row
<1>6. KeyRows(ledger, "reserve", t, c) = {}
  BY <1>1, <1>2 DEF ReservedCycles, HasRow, KeyRows
<1>7. RowPoints("reserve", t, c)' + amount = 0
  <2>1. KeyRows({row}, "reserve", t, c) = {row}
    BY <1>3 DEF KeyRows
  <2>2. RowPoints("reserve", t, c)' = TotalRows(KeyRows({row}, "reserve", t, c))
    BY <1>5, <1>6, RowPointsFirst
  <2>3. TotalRows({row}) = -amount
    BY <1>3, <1>4, OneRowTotal
  <2>4. TotalRows({row}) + amount = 0
    BY <1>1, <2>3
  <2> QED BY <2>1, <2>2, <2>4, Zenon
<1>8. ASSUME NEW kind, NEW u, NEW d, ~(kind = "reserve" /\ u = t /\ d = c)
      PROVE  RowPoints(kind, u, d)' = RowPoints(kind, u, d)
  <2>1. KeyRows({row}, kind, u, d) = {}
    BY <1>3, <1>8 DEF KeyRows
  <2> QED BY <1>5, <2>1, RowPointsSame
<1>9. ASSUME NEW u \in Tasks PROVE SettledCycles(u)' = SettledCycles(u)
  <2>1. \A d : /\ HasRow("consume", u, d)' <=> HasRow("consume", u, d)
               /\ HasRow("refund", u, d)' <=> HasRow("refund", u, d)
    BY <1>3, <1>5 DEF HasRow
  <2> QED BY <2>1 DEF SettledCycles
<1>10. row \notin ledger
  BY <1>3, <1>6 DEF KeyRows
<1> QED BY <1>1, <1>2, <1>4, <1>7, <1>8, <1>9, <1>10 DEF row

(* The points of the rows after a settlement.                              *)
LEMMA SettledRows ==
    ASSUME TypeOK, NEW t \in Tasks, NEW c, NEW held, NEW charged, NEW share,
           Settles(t, c, held, charged, share)
    PROVE  /\ c \in Cycles /\ held \in Nat /\ charged \in Nat /\ charged <= held
           /\ c \notin SettledCycles(t)
           /\ RowPoints("consume", t, c)' + charged = 0
           /\ RowPoints("refund", t, c)' = held - charged
           /\ \A kind \in TaskRowKinds : \A u, d :
                ~(kind \in {"consume", "refund"} /\ u = t /\ d = c) =>
                    RowPoints(kind, u, d)' = RowPoints(kind, u, d)
           /\ \A u \in Tasks : SettledCycles(u)' = IF u = t THEN SettledCycles(u) \cup {c}
                                                   ELSE SettledCycles(u)
<1> DEFINE rows == SettleRows(t, c, held, charged)
           new == ExpireRows \cup rows
<1>1. /\ c \in Cycles /\ held \in Nat /\ charged \in Nat /\ charged <= held
      /\ c \notin SettledCycles(t)
  BY BoundsAssumption DEF Settles, IsActiveCycle, OpenCycles
<1>2. /\ \A r \in rows : r.kind \in {"consume", "refund"} /\ r.ref = t /\ r.cycle = c
      /\ TotalRows(KeyRows(rows, "consume", t, c)) + charged = 0
      /\ TotalRows(KeyRows(rows, "refund", t, c)) = held - charged
  BY <1>1, SettleRowsPoints
<1>3. rows # {}
  BY <1>1 DEF SettleRows
<1>4. \A r \in ExpireRows : r.kind = "expire"
  BY ExpireRowsPoints
<1>5. ledger' = ledger \cup new
  BY DEF Settles
<1> HIDE DEF rows
<1>6. /\ KeyRows(new, "consume", t, c) = KeyRows(rows, "consume", t, c)
      /\ KeyRows(new, "refund", t, c) = KeyRows(rows, "refund", t, c)
  BY <1>4 DEF KeyRows
<1>7. KeyRows(ledger, "consume", t, c) = {} /\ KeyRows(ledger, "refund", t, c) = {}
  BY <1>1 DEF SettledCycles, HasRow, KeyRows
<1>8. ASSUME NEW kind \in TaskRowKinds, NEW u, NEW d,
             ~(kind \in {"consume", "refund"} /\ u = t /\ d = c)
      PROVE  RowPoints(kind, u, d)' = RowPoints(kind, u, d)
  <2>1. KeyRows(new, kind, u, d) = {}
    BY <1>2, <1>4, <1>8 DEF KeyRows, TaskRowKinds
  <2> HIDE DEF new
  <2> QED BY <1>5, <2>1, RowPointsSame
<1>9. /\ RowPoints("consume", t, c)' + charged = 0
      /\ RowPoints("refund", t, c)' = held - charged
  <2> HIDE DEF new
  <2>1. /\ RowPoints("consume", t, c)' = TotalRows(KeyRows(new, "consume", t, c))
        /\ RowPoints("refund", t, c)' = TotalRows(KeyRows(new, "refund", t, c))
    BY <1>5, <1>7, RowPointsFirst
  <2> QED BY <1>2, <1>6, <2>1
<1>10. ASSUME NEW u \in Tasks
       PROVE  SettledCycles(u)' = IF u = t THEN SettledCycles(u) \cup {c} ELSE SettledCycles(u)
  <2>1. ASSUME NEW d \in Cycles
        PROVE  (HasRow("consume", u, d) \/ HasRow("refund", u, d))' <=>
               HasRow("consume", u, d) \/ HasRow("refund", u, d) \/ (u = t /\ d = c)
    BY <1>2, <1>3, <1>4, <1>5 DEF HasRow
  <2> QED BY <1>1, <2>1 DEF SettledCycles
<1> QED BY <1>1, <1>8, <1>9, <1>10

(* The ledger stays finite.                                                *)
LEMMA LedgerFinite ==
    ASSUME TypeOK, IsFiniteSet(ledger), [Next]_vars PROVE IsFiniteSet(ledger')
<1>1. ASSUME NEW t \in Tasks, NEW c, NEW amount, NEW take, Reserves(t, c, amount, take)
      PROVE  IsFiniteSet(ledger')
  BY <1>1, FS_AddElement DEF Reserves
<1>2. ASSUME NEW t \in Tasks, NEW c, NEW held, NEW charged, NEW share,
             Settles(t, c, held, charged, share)
      PROVE  IsFiniteSet(ledger')
  <2>1. IsFiniteSet(SettleRows(t, c, held, charged))
    BY <1>2, SettledRows, SettleRowsPoints
  <2>2. ledger' = ledger \cup ExpireRows \cup SettleRows(t, c, held, charged)
    BY <1>2 DEF Settles
  <2> QED BY <2>1, <2>2, ExpireRowsPoints, FS_Union
<1>3. CASE Sweeps
  BY <1>3, ExpireRowsPoints, FS_Union DEF Sweeps
<1>4. ASSUME NEW slot, NEW grant, NEW row, Gains(slot, grant, row) PROVE IsFiniteSet(ledger')
  BY <1>4, FS_AddElement DEF Gains
<1>5. ASSUME NEW cut, NEW row, Cuts(cut, row) PROVE IsFiniteSet(ledger')
  BY <1>5, FS_AddElement DEF Cuts
<1>6. CASE Still
  BY <1>6 DEF Still
<1> QED BY <1>1, <1>2, <1>3, <1>4, <1>5, <1>6, LedgerSteps
(* Every step of the wallet is a reservation, a settlement or idle.        *)
LEMMA LedgerStepKinds ==
    ASSUME TypeOK, [Next]_vars
    PROVE  \/ \E t \in Tasks : \E c, amount, take : Reserves(t, c, amount, take)
           \/ \E t \in Tasks : \E c, held, charged, share : Settles(t, c, held, charged, share)
           \/ Idles
BY LedgerSteps, Zenon DEF Idles

-----------------------------------------------------------------------------
(* Allocations and rows *)

(* What an allocation says of its cycle, and what it has not given up.     *)
FreshAllocs ==
    \A t \in Tasks, c \in Cycles, g \in GrantIds :
        LET a == allocs[t][c][g]
        IN  /\ a.status \notin {"none", "reserved"} => c \in SettledCycles(t)
            /\ a.status = "none" => a.reserved = 0
            /\ a.status \in {"none", "reserved"} => a.consumed = 0 /\ a.refunded = 0

(* In an open cycle: what it reserved is what it covers.                   *)
LEMMA OpenAlloc ==
    ASSUME TypeOK, FreshAllocs, NEW t \in Tasks, NEW c \in Cycles, c \notin SettledCycles(t),
           NEW g \in GrantIds
    PROVE  /\ allocs[t][c][g] \in Alloc
           /\ allocs[t][c][g].reserved = Cover(t, c, g)
           /\ allocs[t][c][g].consumed = 0 /\ allocs[t][c][g].refunded = 0
BY DEF TypeOK, FreshAllocs, Cover

(* In a cycle that does not exist yet there is nothing.                    *)
LEMMA UnusedAlloc ==
    ASSUME CycleInv, FreshAllocs, NEW t \in Tasks, NEW c \in Cycles, c \notin ReservedCycles(t),
           NEW g \in GrantIds
    PROVE  allocs[t][c][g].status = "none" /\ allocs[t][c][g].reserved = 0
<1>1. allocs[t][c][g].status = "none"
  BY DEF CycleInv, SettledWereReserved, AllocationsFollowCycles, OpenCycles, FreshAllocs
<1> QED BY <1>1 DEF FreshAllocs

(* What a settlement makes of each allocation of its cycle.                *)
LEMMA ClosedAlloc ==
    ASSUME TypeOK, FreshAllocs, NEW t \in Tasks, NEW c, NEW held, NEW charged, NEW share,
           Settles(t, c, held, charged, share), NEW g \in GrantIds
    PROVE  /\ allocs'[t][c][g].reserved = allocs[t][c][g].reserved
           /\ allocs'[t][c][g].consumed = share[g]
           /\ allocs'[t][c][g].refunded = Cover(t, c, g) - share[g]
           /\ allocs'[t][c][g].status = "none" <=> allocs[t][c][g].status = "none"
           /\ allocs'[t][c][g].status # "reserved"
<1>1. c \in Cycles /\ c \notin SettledCycles(t)
  BY SettledRows
<1>2. allocs'[t][c][g] = SettledAlloc(allocs[t][c][g], share[g])
  BY <1>1, SettledAllocs
<1>3. /\ allocs[t][c][g] \in Alloc
      /\ allocs[t][c][g].reserved = Cover(t, c, g)
      /\ allocs[t][c][g].consumed = 0 /\ allocs[t][c][g].refunded = 0
  BY <1>1, OpenAlloc
<1>4. share[g] \in Nat /\ share[g] <= Cover(t, c, g) /\ Cover(t, c, g) \in Nat
  BY SettledGrants
<1>5. CASE allocs[t][c][g].status = "reserved"
  BY <1>2, <1>3, <1>4, <1>5 DEF SettledAlloc, Alloc
<1>6. CASE allocs[t][c][g].status # "reserved"
  <2>1. Cover(t, c, g) = 0 /\ share[g] = 0
    BY <1>4, <1>6 DEF Cover
  <2>2. allocs'[t][c][g] = allocs[t][c][g]
    BY <1>2, <1>6 DEF SettledAlloc
  <2> QED BY <1>3, <1>6, <2>1, <2>2
<1> QED BY <1>5, <1>6

(* A cycle that was not reserved has no allocation, after any step.        *)
LEMMA FreshAllocsNext ==
    ASSUME CycleInv, FreshAllocs, [Next]_vars PROVE FreshAllocs'
<1> DEFINE Fresh(a, settled) ==
            /\ a.status \notin {"none", "reserved"} => settled
            /\ a.status = "none" => a.reserved = 0
            /\ a.status \in {"none", "reserved"} => a.consumed = 0 /\ a.refunded = 0
<1>0. TypeOK /\ SettledWereReserved
  BY DEF CycleInv
<1>1. \A t \in Tasks, c \in Cycles, g \in GrantIds : Fresh(allocs[t][c][g], c \in SettledCycles(t))
  BY DEF FreshAllocs
<1>2. ASSUME NEW t \in Tasks, NEW c, NEW amount, NEW take, Reserves(t, c, amount, take),
             NEW u \in Tasks, NEW d \in Cycles, NEW g \in GrantIds
      PROVE  Fresh(allocs'[u][d][g], (d \in SettledCycles(u))')
  <2>1. (d \in SettledCycles(u))' <=> d \in SettledCycles(u)
    BY <1>0, <1>2, ReservedRows
  <2>2. CASE allocs'[u][d][g] = allocs[u][d][g]
    BY <1>1, <2>1, <2>2
  <2>3. CASE /\ allocs'[u][d][g].status = "reserved"
             /\ allocs'[u][d][g].consumed = 0
             /\ allocs'[u][d][g].refunded = 0
    BY <2>3
  <2> HIDE DEF Fresh
  <2> QED BY <1>0, <1>2, <2>2, <2>3, ReservedAllocs
<1>3. ASSUME NEW t \in Tasks, NEW c, NEW held, NEW charged, NEW share,
             Settles(t, c, held, charged, share),
             NEW u \in Tasks, NEW d \in Cycles, NEW g \in GrantIds
      PROVE  Fresh(allocs'[u][d][g], (d \in SettledCycles(u))')
  <2>1. (d \in SettledCycles(u))' <=> d \in SettledCycles(u) \/ (u = t /\ d = c)
    BY <1>0, <1>3, SettledRows
  <2>2. CASE ~(u = t /\ d = c)
    <3>1. allocs'[u][d][g] = allocs[u][d][g]
      BY <1>0, <1>3, <2>2, SettledAllocs
    <3> QED BY <1>1, <2>1, <2>2, <3>1
  <2>3. CASE u = t /\ d = c
    <3>1. c \in Cycles /\ c \notin SettledCycles(t)
      BY <1>0, <1>3, SettledRows
    <3>2. /\ allocs'[t][c][g].reserved = allocs[t][c][g].reserved
          /\ allocs'[t][c][g].status = "none" <=> allocs[t][c][g].status = "none"
          /\ allocs'[t][c][g].status # "reserved"
          /\ allocs'[t][c][g].consumed = share[g]
          /\ allocs'[t][c][g].refunded = Cover(t, c, g) - share[g]
      BY <1>0, <1>3, ClosedAlloc
    <3>3. /\ allocs[t][c][g].status = "none" => allocs[t][c][g].reserved = 0
          /\ allocs[t][c][g].status = "none" => Cover(t, c, g) = 0
      BY <3>1 DEF FreshAllocs, Cover
    <3>4. share[g] \in Nat /\ share[g] <= Cover(t, c, g) /\ Cover(t, c, g) \in Nat
      BY <1>0, <1>3, SettledGrants
    <3> QED BY <2>1, <2>3, <3>2, <3>3, <3>4
  <2> QED BY <2>2, <2>3
<1>4. CASE Idles
  <2>1. allocs' = allocs /\ \A u \in Tasks : SettledCycles(u)' = SettledCycles(u)
    BY <1>0, <1>4, IdleRows, IdleCycles
  <2> QED BY <2>1 DEF FreshAllocs
<1>5. ASSUME \A u \in Tasks, d \in Cycles, g \in GrantIds :
                Fresh(allocs'[u][d][g], (d \in SettledCycles(u))')
      PROVE  FreshAllocs'
  BY <1>5 DEF FreshAllocs
<1> HIDE DEF Fresh
<1> QED BY <1>0, <1>2, <1>3, <1>4, <1>5, LedgerStepKinds

(* The allocations of a cycle, as functions of the grants.                 *)
OfAllocs(field, t, c) == [g \in GrantIds |-> allocs[t][c][g][field]]

Balanced(t, c) ==
    /\ RowPoints("reserve", t, c) + Total(OfAllocs("reserved", t, c)) = 0
    /\ RowPoints("consume", t, c) + Total(OfAllocs("consumed", t, c)) = 0
    /\ Total(OfAllocs("refunded", t, c)) = RowPoints("refund", t, c)

(* The columns of the allocations are natural numbers.                     *)
LEMMA OfAllocsType ==
    ASSUME TypeOK, NEW t \in Tasks, NEW c \in Cycles
    PROVE  /\ Total(OfAllocs("reserved", t, c)) \in Nat
           /\ Total(OfAllocs("consumed", t, c)) \in Nat
           /\ Total(OfAllocs("refunded", t, c)) \in Nat
<1>1. \A g \in GrantIds : /\ OfAllocs("reserved", t, c)[g] \in Nat
                          /\ OfAllocs("consumed", t, c)[g] \in Nat
                          /\ OfAllocs("refunded", t, c)[g] \in Nat
  <2> SUFFICES ASSUME NEW g \in GrantIds
               PROVE  /\ OfAllocs("reserved", t, c)[g] \in Nat
                      /\ OfAllocs("consumed", t, c)[g] \in Nat
                      /\ OfAllocs("refunded", t, c)[g] \in Nat
    OBVIOUS
  <2>1. allocs[t][c][g] \in Alloc
    BY DEF TypeOK
  <2> QED BY <2>1 DEF Alloc, OfAllocs
<1> QED BY <1>1, GrantsFinite, SumNat, TotalIsSum

(* CycleAddsUp, cycle by cycle.                                            *)
LEMMA CycleAddsUpIs ==
    ASSUME TypeOK, IsFiniteSet(ledger)
    PROVE  CycleAddsUp <=> \A t \in Tasks, c \in Cycles : Balanced(t, c)
<1>1. \A x, y \in Int : x = -y <=> y + x = 0
  OBVIOUS
<1>2. ASSUME NEW t \in Tasks, NEW c \in Cycles
      PROVE  Balanced(t, c) <=>
               /\ Total(OfAllocs("reserved", t, c)) = -RowPoints("reserve", t, c)
               /\ Total(OfAllocs("consumed", t, c)) = -RowPoints("consume", t, c)
               /\ Total(OfAllocs("refunded", t, c)) = RowPoints("refund", t, c)
  <2>1. /\ Total(OfAllocs("reserved", t, c)) \in Int
        /\ Total(OfAllocs("consumed", t, c)) \in Int
    BY OfAllocsType
  <2>2. RowPoints("reserve", t, c) \in Int /\ RowPoints("consume", t, c) \in Int
    BY RowPointsInt
  <2> QED BY <1>1, <2>1, <2>2 DEF Balanced
<1>3. CycleAddsUp <=>
        \A t \in Tasks, c \in Cycles :
            /\ Total(OfAllocs("reserved", t, c)) = -RowPoints("reserve", t, c)
            /\ Total(OfAllocs("consumed", t, c)) = -RowPoints("consume", t, c)
            /\ Total(OfAllocs("refunded", t, c)) = RowPoints("refund", t, c)
  BY DEF CycleAddsUp, OfAllocs
<1> QED BY <1>2, <1>3
AreBalanced == \A t \in Tasks, c \in Cycles : Balanced(t, c)

(* CycleAddsUp in the present state.                                       *)
LEMMA AddsUpNow == TypeOK /\ IsFiniteSet(ledger) => (CycleAddsUp <=> AreBalanced)
BY CycleAddsUpIs DEF AreBalanced

(* CycleAddsUp in the next state.                                          *)
LEMMA AddsUpNext == (TypeOK /\ IsFiniteSet(ledger) => (CycleAddsUp <=> AreBalanced))'
BY AddsUpNow, PTL

(* The allocations and rows of a cycle that a step leaves alone.           *)
LEMMA SameBalance ==
    ASSUME NEW t \in Tasks, NEW c \in Cycles, Balanced(t, c),
           \A g \in GrantIds : allocs'[t][c][g] = allocs[t][c][g],
           \A kind \in TaskRowKinds : RowPoints(kind, t, c)' = RowPoints(kind, t, c)
    PROVE  Balanced(t, c)'
<1>1. \A field : OfAllocs(field, t, c)' = OfAllocs(field, t, c)
  BY DEF OfAllocs
<1>2. \A field : Total(OfAllocs(field, t, c))' = Total(OfAllocs(field, t, c))
  BY <1>1 DEF Total
<1>3. {"reserve", "consume", "refund"} = TaskRowKinds
  BY DEF TaskRowKinds
<1> QED BY <1>2, <1>3 DEF Balanced

(* Every step keeps the allocations of a cycle equal to its rows.          *)
LEMMA CycleAddsUpNext ==
    ASSUME CycleInv, CycleInv', IsFiniteSet(ledger), FreshAllocs, CycleAddsUp, [Next]_vars
    PROVE  CycleAddsUp'
<1>0. TypeOK /\ TypeOK' /\ SettledWereReserved
  BY DEF CycleInv
<1>1. AreBalanced
  BY <1>0, AddsUpNow
<1>2. IsFiniteSet(ledger')
  BY <1>0, LedgerFinite
<1> SUFFICES AreBalanced'
  BY <1>0, <1>2, AddsUpNext
<1>3. ASSUME NEW t \in Tasks, NEW c, NEW amount, NEW take, Reserves(t, c, amount, take),
             NEW u \in Tasks, NEW d \in Cycles
      PROVE  Balanced(u, d)'
  <2>1. CASE ~(u = t /\ d = c)
    <3>1. \A g \in GrantIds : allocs'[u][d][g] = allocs[u][d][g]
      BY <1>0, <1>3, <2>1, ReservedAllocs
    <3>2. \A kind \in TaskRowKinds : RowPoints(kind, u, d)' = RowPoints(kind, u, d)
      BY <1>0, <1>3, <2>1, ReservedRows
    <3> QED BY <1>1, <3>1, <3>2, SameBalance DEF AreBalanced
  <2>2. CASE u = t /\ d = c
    <3>1. /\ c \in Cycles /\ c \notin ReservedCycles(t)
          /\ RowPoints("reserve", t, c)' + amount = 0
          /\ RowPoints("consume", t, c)' = RowPoints("consume", t, c)
          /\ RowPoints("refund", t, c)' = RowPoints("refund", t, c)
      BY <1>0, <1>3, ReservedRows
    <3>2. ASSUME NEW g \in GrantIds
          PROVE  /\ allocs'[t][c][g].reserved = take[g]
                 /\ allocs'[t][c][g].consumed = allocs[t][c][g].consumed
                 /\ allocs'[t][c][g].refunded = allocs[t][c][g].refunded
      <4>1. allocs[t][c][g].status = "none" /\ allocs[t][c][g].reserved = 0
        BY <3>1, UnusedAlloc
      <4>2. allocs[t][c][g].consumed = 0 /\ allocs[t][c][g].refunded = 0
        BY <3>1, <4>1 DEF FreshAllocs
      <4>3. take[g] \in Nat
        BY <1>0, <1>3, ReservedGrants
      <4> QED BY <1>0, <1>3, <3>1, <4>1, <4>2, <4>3, ReservedAllocs
    <3>3. /\ Total(OfAllocs("reserved", t, c)') = Total(take)
          /\ Total(OfAllocs("consumed", t, c)') = Total(OfAllocs("consumed", t, c))
          /\ Total(OfAllocs("refunded", t, c)') = Total(OfAllocs("refunded", t, c))
      BY <3>2, TotalSame DEF OfAllocs
    <3>4. Total(take) = amount
      BY <1>3 DEF Reserves
    <3>5. Balanced(t, c)
      BY <1>1, <3>1 DEF AreBalanced
    <3>6. Balanced(t, c)'
      BY <3>1, <3>3, <3>4, <3>5 DEF Balanced, Total
    <3> QED BY <2>2, <3>6
  <2> QED BY <2>1, <2>2
<1>4. ASSUME NEW t \in Tasks, NEW c, NEW held, NEW charged, NEW share,
             Settles(t, c, held, charged, share),
             NEW u \in Tasks, NEW d \in Cycles
      PROVE  Balanced(u, d)'
  <2>1. CASE ~(u = t /\ d = c)
    <3>1. \A g \in GrantIds : allocs'[u][d][g] = allocs[u][d][g]
      BY <1>0, <1>4, <2>1, SettledAllocs
    <3>2. \A kind \in TaskRowKinds : RowPoints(kind, u, d)' = RowPoints(kind, u, d)
      BY <1>0, <1>4, <2>1, SettledRows
    <3> QED BY <1>1, <3>1, <3>2, SameBalance DEF AreBalanced
  <2>2. CASE u = t /\ d = c
    <3>1. /\ c \in Cycles
          /\ RowPoints("consume", t, c)' + charged = 0
          /\ RowPoints("refund", t, c)' = held - charged
      BY <1>0, <1>4, SettledRows
    <3>2. RowPoints("reserve", t, c)' = RowPoints("reserve", t, c)
      <4>1. "reserve" \in TaskRowKinds /\ "reserve" \notin {"consume", "refund"}
        BY DEF TaskRowKinds
      <4> QED BY <1>0, <1>4, <4>1, SettledRows
    <3>3. \A g \in GrantIds : /\ allocs'[t][c][g].reserved = allocs[t][c][g].reserved
                              /\ allocs'[t][c][g].consumed = share[g]
                              /\ allocs'[t][c][g].refunded = Cover(t, c, g) - share[g]
      BY <1>0, <1>4, ClosedAlloc
    <3> DEFINE cover == [g \in GrantIds |-> Cover(t, c, g)]
    <3>4. AddsUp(cover, share, OfAllocs("refunded", t, c)', GrantIds)
      <4>1. \A g \in GrantIds : share[g] \in Nat /\ Cover(t, c, g) \in Nat
        BY <1>0, <1>4, SettledGrants
      <4> QED BY <3>3, <4>1 DEF AddsUp, OfAllocs
    <3>5. Total(share) = charged /\ Total(cover) = held
      BY <1>4 DEF Settles
    <3> HIDE DEF cover
    <3>6. /\ Total(cover) = Total(share) + Total(OfAllocs("refunded", t, c)')
          /\ Total(share) \in Int /\ Total(OfAllocs("refunded", t, c)') \in Int
      BY <3>4, TotalPlus
    <3>7. /\ Total(OfAllocs("reserved", t, c)') = Total(OfAllocs("reserved", t, c))
          /\ Total(OfAllocs("consumed", t, c)') = Total(share)
      BY <3>3, TotalSame DEF OfAllocs
    <3>8. Balanced(t, c)
      BY <1>1, <3>1 DEF AreBalanced
    <3>9. Total(OfAllocs("refunded", t, c)') = held - charged
      BY <3>5, <3>6
    <3>10. Balanced(t, c)'
      BY <3>1, <3>2, <3>5, <3>7, <3>8, <3>9 DEF Balanced, Total
    <3> QED BY <2>2, <3>10
  <2> QED BY <2>1, <2>2
<1>5. CASE Idles
  <2>1. allocs' = allocs
    BY <1>0, <1>5, IdleRows
  <2>2. \A kind \in TaskRowKinds, t \in Tasks, c \in Cycles :
            RowPoints(kind, t, c)' = RowPoints(kind, t, c)
    BY <1>0, <1>5, IdlePoints
  <2> QED BY <1>1, <2>1, <2>2, SameBalance DEF AreBalanced
<1> QED BY <1>0, <1>3, <1>4, <1>5, LedgerStepKinds DEF AreBalanced
-----------------------------------------------------------------------------
(* The consumed points *)

ConsumeRows == {r \in ledger : r.kind = "consume"}
ConsumedOf == [g \in GrantIds |-> grants[g].consumed]
Consistent == TotalRows(ConsumeRows) + Total(ConsumedOf) = 0

(* The consumed points and the consume rows have integer totals.           *)
LEMMA ConsumedInt ==
    ASSUME TypeOK, IsFiniteSet(ledger)
    PROVE  /\ ConsumeRows \subseteq Row /\ IsFiniteSet(ConsumeRows)
           /\ TotalRows(ConsumeRows) \in Int /\ Total(ConsumedOf) \in Int
<1>1. ConsumeRows \subseteq ledger
  BY DEF ConsumeRows
<1>2. ConsumeRows \subseteq Row /\ IsFiniteSet(ConsumeRows)
  BY <1>1, FS_Subset DEF TypeOK
<1>3. \A g \in GrantIds : ConsumedOf[g] \in Int
  BY DEF ConsumedOf, TypeOK, Grant
<1> QED BY <1>2, <1>3, TotalRowsIsSum, TotalIsSum, GrantsFinite, SumInt

(* ConsumedMatchesLedger in the present state.                             *)
LEMMA ConsumedNow == TypeOK /\ IsFiniteSet(ledger) => (ConsumedMatchesLedger <=> Consistent)
<1>1. \A x, y \in Int : x = -y <=> y + x = 0
  OBVIOUS
<1>2. ConsumedMatchesLedger <=> Total(ConsumedOf) = -TotalRows(ConsumeRows)
  BY DEF ConsumedMatchesLedger, ConsumedOf, ConsumeRows
<1> QED BY <1>1, <1>2, ConsumedInt DEF Consistent

(* ConsumedMatchesLedger in the next state.                                *)
LEMMA ConsumedAfter == (TypeOK /\ IsFiniteSet(ledger) => (ConsumedMatchesLedger <=> Consistent))'
BY ConsumedNow, PTL

(* Only settlements consume. *)
LEMMA IdleConsumed ==
    ASSUME TypeOK, FreeIsEmpty, Idles, NEW g \in GrantIds
    PROVE  grants'[g].consumed = grants[g].consumed
<1>1. CASE Sweeps
  BY <1>1, SweptGrant DEF Sweeps
<1>2. ASSUME NEW slot, NEW grant, NEW row, Gains(slot, grant, row)
      PROVE  grants'[g].consumed = grants[g].consumed
  <2>1. grants'[g] = IF g = slot THEN grant ELSE grants[g]
    BY <1>2, GainedGrants
  <2>2. grant.consumed = 0 /\ grants[slot].consumed = 0
    BY <1>2 DEF Gains, FreeIsEmpty
  <2> QED BY <2>1, <2>2
<1>3. ASSUME NEW cut, NEW row, Cuts(cut, row)
      PROVE  grants'[g].consumed = grants[g].consumed
  BY <1>3, CutGrants
<1>4. CASE Still
  BY <1>4 DEF Still
<1> QED BY <1>1, <1>2, <1>3, <1>4 DEF Idles

(* Every step keeps the consumed points equal to the consume rows.         *)
LEMMA ConsumedNext ==
    ASSUME CycleInv, CycleInv', IsFiniteSet(ledger), FreeIsEmpty, ConsumedMatchesLedger,
           [Next]_vars
    PROVE  ConsumedMatchesLedger'
<1>0. TypeOK /\ TypeOK' /\ SettledWereReserved /\ IsFiniteSet(ledger')
  BY LedgerFinite DEF CycleInv
<1>1. Consistent
  BY <1>0, ConsumedNow
<1>2. /\ ConsumeRows \subseteq Row /\ IsFiniteSet(ConsumeRows)
      /\ TotalRows(ConsumeRows) \in Int /\ Total(ConsumedOf) \in Int
  BY <1>0, ConsumedInt
<1> SUFFICES Consistent'
  BY <1>0, ConsumedAfter
<1>3. ASSUME ConsumeRows' = ConsumeRows,
             \A g \in GrantIds : grants'[g].consumed = grants[g].consumed
      PROVE  Consistent'
  <2>1. ConsumedOf' = ConsumedOf
    BY <1>3 DEF ConsumedOf
  <2> QED BY <1>1, <1>3, <2>1 DEF Consistent, Total, TotalRows
<1>4. ASSUME NEW t \in Tasks, NEW c, NEW amount, NEW take, Reserves(t, c, amount, take)
      PROVE  Consistent'
  <2>1. \A g \in GrantIds : grants'[g].consumed = grants[g].consumed
    BY <1>0, <1>4, ReservedGrants
  <2>2. ConsumeRows' = ConsumeRows
    <3> DEFINE row == NewRow("reserve", t, c, -amount)
    <3>1. ledger' = ledger \cup {row} /\ row.kind # "consume"
      BY <1>4 DEF Reserves, NewRow
    <3> HIDE DEF row
    <3> QED BY <3>1 DEF ConsumeRows
  <2> QED BY <1>3, <2>1, <2>2
<1>5. ASSUME NEW t \in Tasks, NEW c, NEW held, NEW charged, NEW share,
             Settles(t, c, held, charged, share)
      PROVE  Consistent'
  <2> DEFINE rows == SettleRows(t, c, held, charged)
             new == KeyRows(rows, "consume", t, c)
  <2>1. /\ c \in Cycles /\ held \in Nat /\ charged \in Nat /\ charged <= held
        /\ c \notin SettledCycles(t)
    BY <1>0, <1>5, SettledRows
  <2>2. /\ rows \subseteq Row /\ IsFiniteSet(rows)
        /\ \A r \in rows : r.kind \in {"consume", "refund"} /\ r.ref = t /\ r.cycle = c
        /\ TotalRows(new) + charged = 0
    BY <2>1, SettleRowsPoints
  <2> HIDE DEF rows
  <2>3. new \subseteq Row /\ IsFiniteSet(new)
    <3>1. new \subseteq rows
      BY DEF KeyRows
    <3> QED BY <2>2, <3>1, FS_Subset
  <2>4. ConsumeRows \cap new = {}
    BY <2>1 DEF SettledCycles, HasRow, KeyRows, ConsumeRows
  <2>5. ConsumeRows' = ConsumeRows \cup new
    <3>1. \A r \in ExpireRows : r.kind = "expire"
      BY <1>0, ExpireRowsPoints
    <3>2. ledger' = ledger \cup ExpireRows \cup rows
      BY <1>5 DEF Settles, rows
    <3> QED BY <2>2, <3>1, <3>2 DEF ConsumeRows, KeyRows
  <2> HIDE DEF new
  <2>6. TotalRows(ConsumeRows \cup new) = TotalRows(ConsumeRows) + TotalRows(new)
    BY <1>2, <2>3, <2>4, RowsTotalUnion
  <2>7. AddsUp(ConsumedOf', ConsumedOf, share, GrantIds)
    <3> SUFFICES ASSUME NEW g \in GrantIds
                 PROVE  /\ ConsumedOf[g] \in Int /\ share[g] \in Int
                        /\ ConsumedOf'[g] = ConsumedOf[g] + share[g]
      BY DEF AddsUp
    <3>1. /\ grants[g] \in Grant /\ share[g] \in Nat
          /\ grants'[g].consumed = grants[g].consumed + share[g]
      BY <1>0, <1>5, SettledGrants
    <3> QED BY <3>1 DEF Grant, ConsumedOf
  <2>8. Total(ConsumedOf') = Total(ConsumedOf) + Total(share)
    BY <2>7, TotalPlus
  <2>9. Total(share) = charged
    BY <1>5 DEF Settles
  <2>10. TotalRows(new) \in Int
    BY <2>3, TotalRowsIsSum
  <2>11. TotalRows(ConsumeRows \cup new) + Total(ConsumedOf') = 0
    BY <1>1, <1>2, <2>1, <2>2, <2>6, <2>8, <2>9, <2>10 DEF Consistent
  <2> QED BY <2>5, <2>11 DEF Consistent, Total, TotalRows
<1>6. CASE Idles
  <2>1. ConsumeRows' = ConsumeRows
    <3>1. "consume" \in TaskRowKinds
      BY DEF TaskRowKinds
    <3> QED BY <1>0, <1>6, <3>1, IdlePoints DEF ConsumeRows
  <2> QED BY <1>0, <1>3, <1>6, <2>1, IdleConsumed
<1> QED BY <1>0, <1>4, <1>5, <1>6, LedgerStepKinds
-----------------------------------------------------------------------------
(* The reconciliation *)

(* An expire row names a grant that has expired, so a sweep never writes   *)
(* the row of an earlier sweep again.                                      *)
ExpireRowsAreOld ==
    \A r \in ledger : r.kind = "expire" => r.ref \in GrantIds /\ grants[r.ref].status = "expired"

(* What a settlement lost is never settled again. *)
ForfeitedAreSettled == \A a \in forfeited : a[2] \in SettledCycles(a[1])

(* The rows a sweep writes are new.                                        *)
LEMMA NewExpireRows ==
    ASSUME TypeOK, ExpireRowsAreOld PROVE ExpireRows \cap ledger = {}
<1> SUFFICES ASSUME NEW r \in ExpireRows, r \in ledger PROVE FALSE
  OBVIOUS
<1>1. r.kind = "expire" /\ r.ref \in GrantIds /\ DueToExpire(r.ref)
  BY ExpireRowsPoints
<1> QED BY <1>1 DEF ExpireRowsAreOld, DueToExpire

(* An expire row is only there for a grant that has expired.               *)
LEMMA ExpireRowsNext ==
    ASSUME TypeOK, ExpireRowsAreOld, [Next]_vars PROVE ExpireRowsAreOld'
<1> SUFFICES ASSUME NEW r \in ledger', r.kind = "expire"
             PROVE  r.ref \in GrantIds /\ grants'[r.ref].status = "expired"
  BY DEF ExpireRowsAreOld
<1>1. r \in ledger => r.ref \in GrantIds /\ grants[r.ref].status = "expired"
  BY DEF ExpireRowsAreOld
<1>2. r \in ExpireRows => r.ref \in GrantIds /\ DueToExpire(r.ref)
  BY ExpireRowsPoints
<1>3. ASSUME NEW t \in Tasks, NEW c, NEW amount, NEW take, Reserves(t, c, amount, take)
      PROVE  r.ref \in GrantIds /\ grants'[r.ref].status = "expired"
  <2> DEFINE row == NewRow("reserve", t, c, -amount)
  <2>0. ledger' = ledger \cup {row} /\ row.kind = "reserve"
    BY <1>3 DEF Reserves, NewRow
  <2> HIDE DEF row
  <2>1. r \in ledger
    BY <2>0
  <2> QED BY <1>1, <1>3, <2>1, ReservedGrants
<1>4. ASSUME r \in ledger \cup ExpireRows,
             \A g \in GrantIds : grants'[g].status = Swept(g).status
      PROVE  r.ref \in GrantIds /\ grants'[r.ref].status = "expired"
  <2>1. CASE r \in ledger
    <3>1. r.ref \in GrantIds /\ grants[r.ref].status = "expired"
      BY <1>1, <2>1
    <3>2. Swept(r.ref).status = "expired"
      BY <3>1, SweptGrant
    <3> QED BY <1>4, <3>1, <3>2
  <2>2. CASE r \in ExpireRows
    <3>1. r.ref \in GrantIds /\ Swept(r.ref).status = "expired"
      BY <1>2, <2>2, SweptGrant
    <3> QED BY <1>4, <3>1
  <2> QED BY <1>4, <2>1, <2>2
<1>5. ASSUME NEW t \in Tasks, NEW c, NEW held, NEW charged, NEW share,
             Settles(t, c, held, charged, share)
      PROVE  r.ref \in GrantIds /\ grants'[r.ref].status = "expired"
  <2>1. \A s \in SettleRows(t, c, held, charged) : s.kind \in {"consume", "refund"}
    BY <1>5, SettledRows, SettleRowsPoints
  <2>2. r \in ledger \cup ExpireRows
    BY <1>5, <2>1 DEF Settles
  <2> QED BY <1>4, <1>5, <2>2, SettledGrants
<1>6. CASE Sweeps
  BY <1>4, <1>6 DEF Sweeps
<1>7. ASSUME NEW slot, NEW grant, NEW row, Gains(slot, grant, row)
      PROVE  r.ref \in GrantIds /\ grants'[r.ref].status = "expired"
  <2>1. r \in ledger
    BY <1>7 DEF Gains, IsNewRow
  <2>2. r.ref \in GrantIds /\ grants[r.ref].status = "expired"
    BY <1>1, <2>1
  <2>3. grants[slot].status = "none"
    BY <1>7 DEF Gains
  <2>4. r.ref # slot
    BY <2>2, <2>3
  <2>5. grants'[r.ref] = grants[r.ref]
    BY <1>7, <2>2, <2>4, GainedGrants
  <2> QED BY <2>2, <2>5
<1>8. ASSUME NEW cut, NEW row, Cuts(cut, row)
      PROVE  r.ref \in GrantIds /\ grants'[r.ref].status = "expired"
  <2>1. r \in ledger
    BY <1>8 DEF Cuts, IsNewRow
  <2> QED BY <1>1, <1>8, <2>1, CutGrants
<1>9. CASE Still
  BY <1>1, <1>9 DEF Still
<1> QED BY <1>3, <1>5, <1>6, <1>7, <1>8, <1>9, LedgerSteps

(* What is forfeited belongs to a settled cycle.                           *)
LEMMA ForfeitedNext ==
    ASSUME CycleInv, ForfeitedAreSettled, [Next]_vars PROVE ForfeitedAreSettled'
<1>0. TypeOK /\ SettledWereReserved /\ forfeited \subseteq Tasks \X Cycles \X GrantIds
  BY DEF CycleInv, TypeOK
<1>1. ASSUME NEW a \in forfeited PROVE a[1] \in Tasks /\ a[2] \in SettledCycles(a[1])
  BY <1>0 DEF ForfeitedAreSettled
<1>2. ASSUME NEW t \in Tasks, NEW c, NEW amount, NEW take, Reserves(t, c, amount, take)
      PROVE  ForfeitedAreSettled'
  <2>1. \A u \in Tasks : SettledCycles(u)' = SettledCycles(u)
    BY <1>0, <1>2, ReservedRows
  <2>2. forfeited' = forfeited
    BY <1>2 DEF Reserves
  <2> QED BY <1>1, <2>1, <2>2 DEF ForfeitedAreSettled
<1>3. ASSUME NEW t \in Tasks, NEW c, NEW held, NEW charged, NEW share,
             Settles(t, c, held, charged, share)
      PROVE  ForfeitedAreSettled'
  <2>1. \A u \in Tasks : SettledCycles(u)' = IF u = t THEN SettledCycles(u) \cup {c}
                                             ELSE SettledCycles(u)
    BY <1>0, <1>3, SettledRows
  <2>2. \A a \in forfeited' : a \in forfeited \/ \E g : a = <<t, c, g>>
    BY <1>3 DEF Settles
  <2> SUFFICES ASSUME NEW a \in forfeited' PROVE a[2] \in SettledCycles(a[1])'
    BY DEF ForfeitedAreSettled
  <2>3. CASE a \in forfeited
    <3>1. a[1] \in Tasks /\ a[2] \in SettledCycles(a[1])
      BY <1>1, <2>3
    <3> QED BY <2>1, <3>1
  <2>4. CASE \E g : a = <<t, c, g>>
    <3>1. a[1] = t /\ a[2] = c
      BY <2>4
    <3>2. c \in SettledCycles(t)'
      BY <2>1
    <3> QED BY <3>1, <3>2
  <2> QED BY <2>2, <2>3, <2>4
<1>4. CASE Idles
  <2>1. forfeited' = forfeited /\ \A u \in Tasks : SettledCycles(u)' = SettledCycles(u)
    BY <1>0, <1>4, IdleRows, IdleCycles
  <2> QED BY <1>1, <2>1 DEF ForfeitedAreSettled
<1> QED BY <1>0, <1>2, <1>3, <1>4, LedgerStepKinds
Booked == {r \in ledger : r.kind # "consume"}
AvailableOf == [g \in GrantIds |-> grants[g].available]
LostOf == [a \in forfeited |-> allocs[a[1]][a[2]][a[3]].refunded]
Lost == Sum(LostOf, forfeited)

(* LedgerReconciles in the present state.                                  *)
LEMMA ReconcilesNow == LedgerReconciles <=> TotalRows(Booked) = Total(AvailableOf) + Lost
<1>1. SumFunction(LostOf) = Sum(LostOf, DOMAIN LostOf)
  BY SumFunctionIsSum
<1>2. DOMAIN LostOf = forfeited
  BY DEF LostOf
<1>3. SumFunction(LostOf) = Lost
  BY <1>1, <1>2 DEF Lost
<1> QED BY <1>3 DEF LedgerReconciles, LostOf, Booked, AvailableOf

(* LedgerReconciles in the next state.                                     *)
LEMMA ReconcilesAfter == (LedgerReconciles <=> TotalRows(Booked) = Total(AvailableOf) + Lost)'
BY ReconcilesNow, PTL

(* The booked rows have an integer total.                                  *)
LEMMA BookedInt ==
    ASSUME TypeOK, IsFiniteSet(ledger)
    PROVE  /\ Booked \subseteq Row /\ IsFiniteSet(Booked) /\ TotalRows(Booked) \in Int
           /\ Total(AvailableOf) \in Int
<1>1. Booked \subseteq ledger
  BY DEF Booked
<1>2. Booked \subseteq Row /\ IsFiniteSet(Booked)
  BY <1>1, FS_Subset DEF TypeOK
<1>3. \A g \in GrantIds : AvailableOf[g] \in Int
  BY DEF AvailableOf, TypeOK, Grant
<1> QED BY <1>2, <1>3, TotalRowsIsSum, TotalIsSum, GrantsFinite, SumInt

(* The forfeited points are natural numbers.                               *)
LEMMA LostType ==
    ASSUME TypeOK
    PROVE  /\ IsFiniteSet(forfeited) /\ Lost \in Int
           /\ \A a \in forfeited : LostOf[a] \in Nat
<1>1. IsFiniteSet(forfeited)
  <2>1. IsFiniteSet(Tasks \X (Cycles \X GrantIds))
    BY CyclesFinite, GrantsFinite, FS_Product, BoundsAssumption
  <2> DEFINE m == [a \in forfeited |-> <<a[1], <<a[2], a[3]>>>>]
  <2>2. \A a \in forfeited : a[1] \in Tasks /\ a[2] \in Cycles /\ a[3] \in GrantIds
                              /\ a = <<a[1], a[2], a[3]>>
    BY DEF TypeOK
  <2>3. m \in [forfeited -> Tasks \X (Cycles \X GrantIds)]
    BY <2>2
  <2>4. \A a, b \in forfeited : m[a] = m[b] => a = b
    BY <2>2
  <2>5. m \in Injection(forfeited, Tasks \X (Cycles \X GrantIds))
    BY <2>3, <2>4 DEF Injection, IsInjective
  <2> QED BY <2>1, <2>5, FS_Injection
<1>2. \A a \in forfeited : LostOf[a] \in Nat
  <2> SUFFICES ASSUME NEW a \in forfeited PROVE LostOf[a] \in Nat
    OBVIOUS
  <2>1. a[1] \in Tasks /\ a[2] \in Cycles /\ a[3] \in GrantIds
    BY DEF TypeOK
  <2>2. allocs[a[1]][a[2]][a[3]] \in Alloc
    BY <2>1 DEF TypeOK
  <2> QED BY <2>2 DEF LostOf, Alloc
<1> QED BY <1>1, <1>2, SumInt DEF Lost

(* The lost points of the old cycles stay what they were.                  *)
LEMMA LostSame ==
    ASSUME TypeOK, ForfeitedAreSettled, NEW t, NEW c, c \notin SettledCycles(t),
           \A u \in Tasks, d \in Cycles, g \in GrantIds :
                ~(u = t /\ d = c) => allocs'[u][d][g] = allocs[u][d][g]
    PROVE  \A a \in forfeited : allocs'[a[1]][a[2]][a[3]].refunded = LostOf[a]
<1> SUFFICES ASSUME NEW a \in forfeited
             PROVE  allocs'[a[1]][a[2]][a[3]].refunded = LostOf[a]
  OBVIOUS
<1>1. a[1] \in Tasks /\ a[2] \in Cycles /\ a[3] \in GrantIds
  BY DEF TypeOK
<1>2. a[2] \in SettledCycles(a[1])
  BY DEF ForfeitedAreSettled
<1>3. ~(a[1] = t /\ a[2] = c)
  BY <1>2
<1> QED BY <1>1, <1>3 DEF LostOf

(* Steps that are not settlements forfeit nothing.                         *)
LEMMA LostUnchanged ==
    ASSUME TypeOK, forfeited' = forfeited,
           \A a \in forfeited : allocs'[a[1]][a[2]][a[3]].refunded = LostOf[a]
    PROVE  Lost' = Lost
<1>1. LostOf' = LostOf
  BY DEF LostOf
<1> QED BY <1>1 DEF Lost, Sum

(* What a step without settlement books is what the grants gain.           *)
LEMMA ReconcilesAgain ==
    ASSUME TypeOK, IsFiniteSet(ledger), LedgerReconciles, Lost' = Lost,
           NEW new, new \subseteq Row, IsFiniteSet(new), new \cap ledger = {},
           \A r \in new : r.kind # "consume", ledger' = ledger \cup new,
           Total(AvailableOf') = Total(AvailableOf) + TotalRows(new)
    PROVE  LedgerReconciles'
<1>1. TotalRows(Booked) = Total(AvailableOf) + Lost
  BY ReconcilesNow
<1>2. Booked' = Booked \cup new
  BY DEF Booked
<1>3. Booked \cap new = {}
  BY DEF Booked
<1>4. TotalRows(Booked \cup new) = TotalRows(Booked) + TotalRows(new)
  BY <1>3, BookedInt, RowsTotalUnion
<1>5. Total(AvailableOf) \in Int /\ TotalRows(new) \in Int
  BY BookedInt, TotalRowsIsSum
<1>6. Lost \in Int
  BY LostType
<1>7. TotalRows(Booked \cup new) = Total(AvailableOf') + Lost
  BY <1>1, <1>4, <1>5, <1>6
<1>8. (TotalRows(Booked) = Total(AvailableOf) + Lost)'
  BY <1>2, <1>7 DEF TotalRows, Total
<1> QED BY <1>8, ReconcilesAfter
(* The steps that lose no points.                                          *)
LEMMA ReservesReconcile ==
    ASSUME CycleInv, IsFiniteSet(ledger), ForfeitedAreSettled, LedgerReconciles,
           NEW t \in Tasks, NEW c, NEW amount, NEW take, Reserves(t, c, amount, take)
    PROVE  LedgerReconciles'
<1> DEFINE row == NewRow("reserve", t, c, -amount)
<1>0. TypeOK /\ SettledWereReserved
  BY DEF CycleInv
<1>1. /\ row \in Row /\ row \notin ledger /\ amount \in Nat
      /\ c \notin SettledCycles(t)
  BY <1>0, ReservedRows
<1>2. row.kind # "consume" /\ row.points = -amount /\ ledger' = ledger \cup {row}
  BY DEF NewRow, Reserves
<1> HIDE DEF row
<1>3. TotalRows({row}) + amount = 0 /\ TotalRows({row}) \in Int
  <2>1. TotalRows({row}) = -amount
    BY <1>1, <1>2, OneRowTotal
  <2> QED BY <1>1, <2>1
<1>4. Lost' = Lost
  <2>1. forfeited' = forfeited
    BY DEF Reserves
  <2>2. \A u \in Tasks, d \in Cycles, g \in GrantIds :
            ~(u = t /\ d = c) => allocs'[u][d][g] = allocs[u][d][g]
    BY <1>0, ReservedAllocs
  <2>3. \A a \in forfeited : allocs'[a[1]][a[2]][a[3]].refunded = LostOf[a]
    BY <1>0, <1>1, <2>2, LostSame
  <2> QED BY <1>0, <2>1, <2>3, LostUnchanged
<1>5. AddsUp(AvailableOf, AvailableOf', take, GrantIds)
  <2> SUFFICES ASSUME NEW g \in GrantIds
               PROVE  /\ AvailableOf'[g] \in Int /\ take[g] \in Int
                      /\ AvailableOf[g] = AvailableOf'[g] + take[g]
    BY DEF AddsUp
  <2>1. /\ take[g] \in Nat /\ take[g] <= grants[g].available /\ grants[g] \in Grant
        /\ grants'[g].available = grants[g].available - take[g]
    BY <1>0, ReservedGrants
  <2>2. grants[g].available \in Nat
    BY <2>1 DEF Grant
  <2> QED BY <2>1, <2>2 DEF AvailableOf
<1>6. /\ Total(AvailableOf) = Total(AvailableOf') + Total(take)
      /\ Total(AvailableOf') \in Int /\ Total(take) = amount
  <2>1. Total(take) = amount
    BY DEF Reserves
  <2>2. /\ Total(AvailableOf) = Total(AvailableOf') + Total(take)
        /\ Total(AvailableOf') \in Int
    BY <1>5, TotalPlus
  <2> QED BY <2>1, <2>2
<1>7. Total(AvailableOf') = Total(AvailableOf) + TotalRows({row})
  BY <1>1, <1>3, <1>6
<1>8. /\ {row} \subseteq Row /\ IsFiniteSet({row}) /\ {row} \cap ledger = {}
      /\ \A r \in {row} : r.kind # "consume"
  BY <1>1, <1>2, FS_Singleton
<1> QED BY <1>0, <1>2, <1>4, <1>7, <1>8, ReconcilesAgain

(* The idle steps keep the ledger reconciled.                              *)
LEMMA IdlesReconcile ==
    ASSUME CycleInv, IsFiniteSet(ledger), FreeIsEmpty, ExpireRowsAreOld, LedgerReconciles, Idles
    PROVE  LedgerReconciles'
<1>0. TypeOK
  BY DEF CycleInv
<1>1. Lost' = Lost
  <2>1. allocs' = allocs /\ forfeited' = forfeited
    BY <1>0, IdleRows
  <2> QED BY <2>1 DEF Lost, LostOf, Sum
<1>2. CASE Sweeps
  <2>1. /\ ExpireRows \subseteq Row /\ IsFiniteSet(ExpireRows)
        /\ \A r \in ExpireRows : r.kind # "consume"
        /\ Total([g \in GrantIds |-> Swept(g).available]) =
                Total([g \in GrantIds |-> grants[g].available]) + TotalRows(ExpireRows)
        /\ ExpireRows \cap ledger = {}
    BY <1>0, ExpireRowsPoints, NewExpireRows
  <2>2. AvailableOf' = [g \in GrantIds |-> Swept(g).available]
    BY <1>2 DEF AvailableOf, Sweeps
  <2>3. Total(AvailableOf') = Total(AvailableOf) + TotalRows(ExpireRows)
    BY <2>1, <2>2 DEF AvailableOf
  <2>4. ledger' = ledger \cup ExpireRows
    BY <1>2 DEF Sweeps
  <2> QED BY <1>0, <1>1, <2>1, <2>3, <2>4, ReconcilesAgain
<1>3. ASSUME NEW row, IsNewRow(row), ledger' = ledger \cup {row},
             Total(AvailableOf') = Total(AvailableOf) + row.points
      PROVE  LedgerReconciles'
  <2>1. row \in Row /\ row \notin ledger /\ row.kind # "consume"
    BY <1>3 DEF IsNewRow, HasRow
  <2>2. TotalRows({row}) = row.points
    BY <2>1, OneRowTotal
  <2>3. /\ {row} \subseteq Row /\ IsFiniteSet({row}) /\ {row} \cap ledger = {}
        /\ \A r \in {row} : r.kind # "consume"
    BY <2>1, FS_Singleton
  <2>4. Total(AvailableOf') = Total(AvailableOf) + TotalRows({row})
    BY <1>3, <2>2
  <2> QED BY <1>0, <1>1, <1>3, <2>3, <2>4, ReconcilesAgain
<1>4. ASSUME NEW slot, NEW grant, NEW row, Gains(slot, grant, row) PROVE LedgerReconciles'
  <2>1. /\ slot \in GrantIds /\ IsNewRow(row) /\ ledger' = ledger \cup {row}
        /\ grant.available = row.points /\ row.points \in Int
    BY <1>4 DEF Gains, IsNewRow, Row
  <2>2. grants[slot].available = 0
    BY <1>4 DEF Gains, FreeIsEmpty
  <2>3. \A g \in GrantIds : AvailableOf[g] \in Int
    BY <1>0 DEF AvailableOf, TypeOK, Grant
  <2>4. /\ \A g \in GrantIds \ {slot} : AvailableOf'[g] = AvailableOf[g]
        /\ AvailableOf'[slot] = row.points /\ AvailableOf[slot] = 0
    BY <1>0, <1>4, <2>1, <2>2, GainedGrants DEF AvailableOf
  <2>5. AvailableOf'[slot] \in Int
    BY <2>1, <2>4
  <2>6. Sum(AvailableOf', GrantIds) = Sum(AvailableOf, GrantIds) - AvailableOf[slot] + AvailableOf'[slot]
    <3> DEFINE f == AvailableOf
               h == AvailableOf'
    <3>1. \A g \in GrantIds : f[g] \in Int
      BY <2>3
    <3>2. \A g \in GrantIds \ {slot} : h[g] = f[g]
      BY <2>4
    <3>3. h[slot] \in Int
      BY <2>5
    <3>4. IsFiniteSet(GrantIds) /\ slot \in GrantIds
      BY <2>1, GrantsFinite
    <3> HIDE DEF f, h
    <3>5. Sum(h, GrantIds) = Sum(f, GrantIds) - f[slot] + h[slot]
      BY ONLY <3>1, <3>2, <3>3, <3>4, SumChange
    <3> QED BY <3>5 DEF f, h
  <2>7. Total(AvailableOf) \in Int
    BY <1>0, BookedInt
  <2>8. Total(AvailableOf') = Total(AvailableOf) + row.points
    BY <2>1, <2>4, <2>6, <2>7, TotalIsSum
  <2> QED BY <1>3, <2>1, <2>8
<1>5. ASSUME NEW cut, NEW row, Cuts(cut, row) PROVE LedgerReconciles'
  <2>1. IsNewRow(row) /\ ledger' = ledger \cup {row} /\ row.points \in Int
    BY <1>5 DEF Cuts, IsNewRow, Row
  <2>2. AddsUp(AvailableOf, AvailableOf', cut, GrantIds)
    <3> SUFFICES ASSUME NEW g \in GrantIds
                 PROVE  /\ AvailableOf'[g] \in Int /\ cut[g] \in Int
                        /\ AvailableOf[g] = AvailableOf'[g] + cut[g]
      BY DEF AddsUp
    <3>1. /\ cut[g] \in Nat /\ cut[g] <= grants[g].available /\ grants[g] \in Grant
          /\ grants'[g].available = grants[g].available - cut[g]
      BY <1>0, <1>5, CutGrants
    <3>2. grants[g].available \in Nat
      BY <3>1 DEF Grant
    <3> QED BY <3>1, <3>2 DEF AvailableOf
  <2>3. /\ Total(AvailableOf) = Total(AvailableOf') + Total(cut)
        /\ Total(AvailableOf') \in Int /\ Total(cut) \in Int
        /\ row.points + Total(cut) = 0
    BY <1>5, <2>2, TotalPlus DEF Cuts
  <2>4. Total(AvailableOf') = Total(AvailableOf) + row.points
    BY <2>1, <2>3
  <2> QED BY <1>3, <2>1, <2>4
<1>6. CASE Still
  <2>1. Booked' = Booked /\ AvailableOf' = AvailableOf
    BY <1>6 DEF Still, Booked, AvailableOf
  <2>2. (TotalRows(Booked) = Total(AvailableOf) + Lost)'
    BY <1>1, <2>1, ReconcilesNow DEF TotalRows, Total
  <2> QED BY <2>2, ReconcilesAfter
<1> QED BY <1>2, <1>4, <1>5, <1>6 DEF Idles
(* What a settlement gives back of a grant: to the grant, or to nobody     *)
(* when the grant can no longer take it.                                   *)
Unspent(t, c, share) == [g \in GrantIds |-> Cover(t, c, g) - share[g]]
Credit(t, c, share) ==
    [g \in GrantIds |-> IF Creditable(Swept(g)) THEN Cover(t, c, g) - share[g] ELSE 0]
Gone(t, c, share) ==
    [g \in GrantIds |-> IF Creditable(Swept(g)) THEN 0 ELSE Cover(t, c, g) - share[g]]
GoneGrants(t, c, share) ==
    {h \in GrantIds : share[h] < Cover(t, c, h) /\ ~Creditable(Swept(h))}
SweptAvailable == [g \in GrantIds |-> Swept(g).available]

(* What a settlement adds to the available points.                         *)
LEMMA SettledAvailable ==
    ASSUME TypeOK, NEW t \in Tasks, NEW c, NEW held, NEW charged, NEW share,
           Settles(t, c, held, charged, share)
    PROVE  /\ Total(AvailableOf') \in Int /\ Total(SweptAvailable) \in Int
           /\ Total(Gone(t, c, share)) \in Int
           /\ Total(AvailableOf') + Total(Gone(t, c, share)) =
                    Total(SweptAvailable) + (held - charged)
<1> DEFINE after == AvailableOf'
           cover == [g \in GrantIds |-> Cover(t, c, g)]
           rest == Unspent(t, c, share)
           credit == Credit(t, c, share)
           gone == Gone(t, c, share)
<1>1. held \in Nat /\ charged \in Nat /\ held = Total(cover) /\ charged = Total(share)
  BY BoundsAssumption DEF Settles
<1>2. AddsUp(cover, rest, share, GrantIds)
  <2> SUFFICES ASSUME NEW g \in GrantIds
               PROVE  rest[g] \in Int /\ share[g] \in Int /\ cover[g] = rest[g] + share[g]
    BY DEF AddsUp
  <2>1. share[g] \in Nat /\ Cover(t, c, g) \in Nat
    BY SettledGrants
  <2> QED BY <2>1 DEF Unspent
<1>3. AddsUp(rest, credit, gone, GrantIds)
  <2> SUFFICES ASSUME NEW g \in GrantIds
               PROVE  credit[g] \in Int /\ gone[g] \in Int /\ rest[g] = credit[g] + gone[g]
    BY DEF AddsUp
  <2>1. share[g] \in Nat /\ Cover(t, c, g) \in Nat
    BY SettledGrants
  <2> QED BY <2>1 DEF Unspent, Credit, Gone
<1>4. AddsUp(after, SweptAvailable, credit, GrantIds)
  <2> SUFFICES ASSUME NEW g \in GrantIds
               PROVE  /\ SweptAvailable[g] \in Int /\ credit[g] \in Int
                      /\ after[g] = SweptAvailable[g] + credit[g]
    BY DEF AddsUp
  <2>1. /\ share[g] \in Nat /\ Cover(t, c, g) \in Nat /\ Swept(g) \in Grant
        /\ grants'[g].available = IF Creditable(Swept(g))
                                  THEN Swept(g).available + (Cover(t, c, g) - share[g])
                                  ELSE Swept(g).available
    BY SettledGrants
  <2>2. Swept(g).available \in Nat
    BY <2>1 DEF Grant
  <2>3. after[g] = grants'[g].available /\ SweptAvailable[g] = Swept(g).available
    BY DEF AvailableOf, SweptAvailable
  <2>4. credit[g] = IF Creditable(Swept(g)) THEN Cover(t, c, g) - share[g] ELSE 0
    BY DEF Credit
  <2> HIDE DEF after, credit
  <2> QED BY <2>1, <2>2, <2>3, <2>4
<1> HIDE DEF after, cover, rest, credit, gone
<1>5. /\ Total(rest) \in Int /\ Total(cover) = Total(rest) + Total(share)
  BY <1>2, TotalPlus
<1>6. /\ Total(credit) \in Int /\ Total(gone) \in Int
      /\ Total(rest) = Total(credit) + Total(gone)
  BY <1>3, TotalPlus
<1>7. /\ Total(SweptAvailable) \in Int
      /\ Total(after) = Total(SweptAvailable) + Total(credit)
  BY <1>4, TotalPlus
<1>8. /\ Total(after) \in Int
      /\ Total(after) + Total(gone) = Total(SweptAvailable) + (held - charged)
  BY <1>1, <1>5, <1>6, <1>7
<1>9. /\ Total(after) \in Int /\ Total(SweptAvailable) \in Int /\ Total(gone) \in Int
      /\ Total(after) + Total(gone) = Total(SweptAvailable) + (held - charged)
  BY <1>6, <1>7, <1>8
<1> QED BY <1>9 DEF after, gone

(* The forfeited points grow by what the settlement gives to nobody.       *)
LEMMA SettledLost ==
    ASSUME CycleInv, ForfeitedAreSettled, NEW t \in Tasks, NEW c, NEW held, NEW charged,
           NEW share, Settles(t, c, held, charged, share)
    PROVE  Lost' = Lost + Total(Gone(t, c, share))
<1> DEFINE H == GoneGrants(t, c, share)
           m == [g \in H |-> <<t, c, g>>]
           after == LostOf'
           gone == Gone(t, c, share)
<1>0. TypeOK
  BY DEF CycleInv
<1>1. c \in Cycles /\ c \notin SettledCycles(t)
  BY <1>0, SettledRows
<1>2. H \subseteq GrantIds /\ IsFiniteSet(H)
  <2>1. H \subseteq GrantIds
    BY DEF GoneGrants
  <2> QED BY <2>1, GrantsFinite, FS_Subset
<1>3. forfeited' = forfeited \cup Along(m, H)
  BY DEF Settles, GoneGrants, Along
<1>4. \A u \in Tasks, d \in Cycles, g \in GrantIds :
          ~(u = t /\ d = c) => allocs'[u][d][g] = allocs[u][d][g]
  BY <1>0, SettledAllocs
<1>5. \A a \in forfeited : after[a] = LostOf[a] /\ after[a] \in Int
  <2>1. \A a \in forfeited : allocs'[a[1]][a[2]][a[3]].refunded = LostOf[a]
    BY <1>0, <1>1, <1>4, LostSame
  <2>2. \A a \in forfeited : LostOf[a] \in Nat
    BY <1>0, LostType
  <2>3. \A a \in forfeited : after[a] = allocs'[a[1]][a[2]][a[3]].refunded
    BY <1>3 DEF LostOf
  <2> HIDE DEF after
  <2> QED BY <2>1, <2>2, <2>3
<1>6. ASSUME NEW g \in H PROVE after[m[g]] \in Int /\ gone[g] = after[m[g]]
  <2>1. /\ g \in GrantIds /\ share[g] < Cover(t, c, g) /\ ~Creditable(Swept(g))
        /\ share[g] \in Nat /\ Cover(t, c, g) \in Nat
    BY <1>0, <1>2, SettledGrants DEF GoneGrants
  <2>2. allocs[t][c][g].status = "reserved" /\ Cover(t, c, g) = allocs[t][c][g].reserved
    BY <2>1 DEF Cover
  <2>3. allocs[t][c][g] \in Alloc
    BY <1>0, <1>1, <2>1 DEF TypeOK
  <2>4. allocs'[t][c][g] = SettledAlloc(allocs[t][c][g], share[g])
    BY <1>0, <1>1, <2>1, SettledAllocs
  <2>5. allocs'[t][c][g].refunded = Cover(t, c, g) - share[g]
    BY <2>2, <2>3, <2>4 DEF SettledAlloc, Alloc
  <2>6. m[g] = <<t, c, g>> /\ m[g] \in forfeited'
    BY <1>3 DEF Along
  <2>7. after[m[g]] = allocs'[t][c][g].refunded
    BY <2>6 DEF LostOf
  <2>8. gone[g] = Cover(t, c, g) - share[g]
    BY <2>1 DEF Gone
  <2> HIDE DEF after, gone, m
  <2> QED BY <2>1, <2>5, <2>7, <2>8
<1>7. ZeroOutside(gone, gone, H, GrantIds)
  <2>1. \A g \in H : gone[g] \in Int
    BY <1>6
  <2>2. ASSUME NEW g \in GrantIds \ H PROVE gone[g] = 0
    <3>1. share[g] \in Nat /\ Cover(t, c, g) \in Nat /\ share[g] <= Cover(t, c, g)
      BY <1>0, SettledGrants
    <3>2. Creditable(Swept(g)) \/ share[g] = Cover(t, c, g)
      BY <3>1 DEF GoneGrants
    <3> QED BY <3>1, <3>2 DEF Gone
  <2> HIDE DEF gone, H
  <2> QED BY <1>2, <2>1, <2>2 DEF ZeroOutside
<1>8. \A g, h \in H : m[g] = m[h] => g = h
  OBVIOUS
<1>9. forfeited \cap Along(m, H) = {}
  <2> SUFFICES ASSUME NEW g \in H, <<t, c, g>> \in forfeited PROVE FALSE
    BY DEF Along
  <2>1. c \in SettledCycles(t)
    BY DEF ForfeitedAreSettled
  <2> QED BY <1>1, <2>1
<1>10. Lost' = Sum(after, forfeited')
  BY DEF Lost, Sum
<1>11. IsFiniteSet(forfeited) /\ Lost \in Int
  BY <1>0, LostType
<1> HIDE DEF H, m, after, gone
<1>12. IsFiniteSet(Along(m, H)) /\ Sum(after, Along(m, H)) = Sum(gone, H)
  BY <1>2, <1>6, <1>8, SumAlong
<1>13. Sum(gone, H) = Total(gone)
  BY <1>7, TotalPart
<1>14. \A a \in forfeited \cup Along(m, H) : after[a] \in Int
  BY <1>5, <1>6 DEF Along
<1>15. Sum(after, forfeited \cup Along(m, H)) = Sum(after, forfeited) + Sum(after, Along(m, H))
  BY <1>9, <1>11, <1>12, <1>14, SumUnion
<1>16. Sum(after, forfeited) = Lost
  BY <1>5, <1>11, SumSame DEF Lost
<1>17. Lost' = Lost + Total(gone)
  BY <1>3, <1>10, <1>12, <1>13, <1>15, <1>16
<1> QED BY <1>17 DEF gone

(* A settlement books what its sweep takes away and what it gives back.    *)
LEMMA SettlesReconcile ==
    ASSUME CycleInv, IsFiniteSet(ledger), ForfeitedAreSettled, ExpireRowsAreOld,
           LedgerReconciles, NEW t \in Tasks, NEW c, NEW held, NEW charged, NEW share,
           Settles(t, c, held, charged, share)
    PROVE  LedgerReconciles'
<1> DEFINE rows == SettleRows(t, c, held, charged)
           back == KeyRows(rows, "refund", t, c)
           new == ExpireRows \cup back
           gone == Gone(t, c, share)
           after == AvailableOf'
<1>0. TypeOK
  BY DEF CycleInv
<1>1. /\ c \in Cycles /\ held \in Nat /\ charged \in Nat /\ charged <= held
      /\ c \notin SettledCycles(t)
  BY <1>0, SettledRows
<1>2. /\ rows \subseteq Row /\ IsFiniteSet(rows)
      /\ \A r \in rows : r.kind \in {"consume", "refund"} /\ r.ref = t /\ r.cycle = c
      /\ TotalRows(back) = held - charged
  BY <1>1, SettleRowsPoints
<1>3. /\ ExpireRows \subseteq Row /\ IsFiniteSet(ExpireRows)
      /\ \A r \in ExpireRows : r.kind = "expire"
      /\ TotalRows(ExpireRows) \in Int
      /\ Total(SweptAvailable) = Total(AvailableOf) + TotalRows(ExpireRows)
      /\ ExpireRows \cap ledger = {}
  BY <1>0, ExpireRowsPoints, NewExpireRows DEF SweptAvailable, AvailableOf
<1>4. ledger' = ledger \cup ExpireRows \cup rows
  BY DEF Settles
<1> HIDE DEF rows
<1>5. back \subseteq Row /\ IsFiniteSet(back) /\ \A r \in back : r \in rows /\ r.kind = "refund"
  <2>1. back \subseteq rows
    BY DEF KeyRows
  <2> QED BY <1>2, <2>1, FS_Subset DEF KeyRows
<1>6. back \cap ledger = {}
  <2> SUFFICES ASSUME NEW r \in back, r \in ledger PROVE FALSE
    OBVIOUS
  <2>1. r.kind = "refund" /\ r.ref = t /\ r.cycle = c
    BY DEF KeyRows
  <2> QED BY <1>1, <2>1 DEF SettledCycles, HasRow
<1>7. ExpireRows \cap back = {}
  BY <1>3, <1>5
<1>8. Booked' = Booked \cup new
  BY <1>2, <1>3, <1>4 DEF Booked, KeyRows
<1>9. TotalRows(new) = TotalRows(ExpireRows) + (held - charged)
  BY <1>2, <1>3, <1>5, <1>7, RowsTotalUnion
<1>10. new \subseteq Row /\ IsFiniteSet(new) /\ Booked \cap new = {}
  BY <1>3, <1>5, <1>6, FS_Union DEF Booked
<1> HIDE DEF back, new
<1>11. TotalRows(Booked \cup new) = TotalRows(Booked) + TotalRows(new)
  BY <1>0, <1>10, BookedInt, RowsTotalUnion
<1>12. /\ Total(after) \in Int /\ Total(SweptAvailable) \in Int /\ Total(gone) \in Int
       /\ Total(after) + Total(gone) = Total(SweptAvailable) + (held - charged)
  BY <1>0, SettledAvailable
<1>13. Lost' = Lost + Total(gone)
  BY SettledLost
<1>14. TotalRows(Booked) = Total(AvailableOf) + Lost
  BY ReconcilesNow
<1>15. Lost \in Int /\ Total(AvailableOf) \in Int
  BY <1>0, LostType, BookedInt
<1> DEFINE lost == Lost'
<1>16. lost = Lost + Total(gone)
  BY <1>13
<1> HIDE DEF after, gone, lost
<1>17. TotalRows(Booked \cup new) = Total(after) + lost
  BY <1>1, <1>3, <1>9, <1>11, <1>12, <1>14, <1>15, <1>16
<1>18. (TotalRows(Booked) = Total(AvailableOf) + Lost)'
  BY <1>8, <1>17 DEF TotalRows, Total, after, lost
<1> QED BY <1>18, ReconcilesAfter

(* Every step keeps the ledger reconciled.                                 *)
LEMMA LedgerReconcilesNext ==
    ASSUME CycleInv, IsFiniteSet(ledger), FreeIsEmpty, ForfeitedAreSettled, ExpireRowsAreOld,
           LedgerReconciles, [Next]_vars
    PROVE  LedgerReconciles'
BY ReservesReconcile, SettlesReconcile, IdlesReconcile, LedgerStepKinds DEF CycleInv

-----------------------------------------------------------------------------
(* The initial states *)

Opened == {g \in GrantIds : Opening[g].status = "active"}
OpeningTotals == [g \in GrantIds |-> Opening[g].total]

(* The grants bought before the history starts are untouched.              *)
LEMMA OpeningGrants ==
    \A g \in GrantIds :
        /\ Opening[g].total \in Nat /\ Opening[g].available = Opening[g].total
        /\ Opening[g].consumed = 0
        /\ Opening[g].status # "active" => Opening[g].total = 0
        /\ Opening[g].status # "expired"
<1> SUFFICES ASSUME NEW g \in GrantIds
             PROVE  /\ Opening[g].total \in Nat /\ Opening[g].available = Opening[g].total
                    /\ Opening[g].consumed = 0
                    /\ Opening[g].status # "active" => Opening[g].total = 0
                    /\ Opening[g].status # "expired"
  OBVIOUS
<1>1. CASE Opening[g] = NoGrant
  BY <1>1 DEF NoGrant, NewGrant
<1>2. ASSUME NEW k \in Kinds, NEW p \in 1 .. MaxPoints, NEW e \in 0 .. Never,
             Opening[g] = NewGrant(k, p, e)
      PROVE  /\ Opening[g].total \in Nat /\ Opening[g].available = Opening[g].total
             /\ Opening[g].consumed = 0
             /\ Opening[g].status # "active" => Opening[g].total = 0
             /\ Opening[g].status # "expired"
  BY <1>2, BoundsAssumption DEF NewGrant
<1> QED BY <1>1, <1>2, OpeningAssumption

(* The ledger starts with the rows that paid those grants.                 *)
LEMMA InitRows ==
    ASSUME Init
    PROVE  /\ ledger \subseteq Row /\ IsFiniteSet(ledger)
           /\ TotalRows(ledger) = Sum(OpeningTotals, Opened)
           /\ \A r \in ledger : r.kind = "recharge"
<1>1. Opened \in SUBSET GrantIds /\ "recharge" \in RowKinds
  BY DEF Opened, RowKinds
<1>2. \A g \in Opened : OpeningTotals[g] \in Int /\ OpeningTotals[g] = Opening[g].total
  BY <1>1, OpeningGrants DEF OpeningTotals
<1>3. ledger = {NewRow("recharge", g, 0, OpeningTotals[g]) : g \in Opened}
  BY <1>1, <1>2 DEF Init, Opened
<1>4. \A r \in ledger : r.kind = "recharge"
  BY <1>3 DEF NewRow
<1> DEFINE rows == {NewRow("recharge", g, 0, OpeningTotals[g]) : g \in Opened}
<1>5. rows \subseteq Row /\ IsFiniteSet(rows) /\ TotalRows(rows) = Sum(OpeningTotals, Opened)
  <2>1. \A g \in Opened : OpeningTotals[g] \in Int
    BY <1>2
  <2>2. 0 \in Nat
    OBVIOUS
  <2> QED BY <1>1, <2>1, <2>2, RowsOfGrants
<1> QED BY <1>3, <1>4, <1>5

(* No allocation exists initially.                                         *)
LEMMA FreshAllocsInit == Init => FreshAllocs
BY DEF Init, FreshAllocs, NoAlloc

(* Nothing has expired or been forfeited initially.                        *)
LEMMA ExpireRowsInit == Init => ExpireRowsAreOld /\ ForfeitedAreSettled
<1> SUFFICES ASSUME Init PROVE ExpireRowsAreOld /\ ForfeitedAreSettled
  OBVIOUS
<1>1. \A r \in ledger : r.kind # "expire"
  BY InitRows
<1>2. forfeited = {}
  BY DEF Init
<1> QED BY <1>1, <1>2 DEF ExpireRowsAreOld, ForfeitedAreSettled

(* The empty cycles add up.                                                *)
LEMMA CycleAddsUpInit == Init => CycleAddsUp
<1> SUFFICES ASSUME Init PROVE CycleAddsUp
  OBVIOUS
<1>1. TypeOK /\ IsFiniteSet(ledger)
  BY TypeInit, InitRows
<1>2. ASSUME NEW t \in Tasks, NEW c \in Cycles PROVE Balanced(t, c)
  <2>1. \A kind \in {"reserve", "consume", "refund"} : RowPoints(kind, t, c) = 0
    <3> SUFFICES ASSUME NEW kind \in {"reserve", "consume", "refund"}
                 PROVE  RowPoints(kind, t, c) = 0
      OBVIOUS
    <3>1. {r \in ledger : r.kind = kind /\ r.ref = t /\ r.cycle = c} = {}
      BY InitRows
    <3> QED BY <3>1, NoRowsTotal DEF RowPoints
  <2>2. ASSUME NEW field \in {"reserved", "consumed", "refunded"}
        PROVE  Total(OfAllocs(field, t, c)) = 0
    <3>1. \A g \in GrantIds : OfAllocs(field, t, c)[g] = 0
      BY DEF OfAllocs, Init, NoAlloc
    <3> QED BY <3>1, GrantsFinite, SumZero, TotalIsSum
  <2> QED BY <2>1, <2>2 DEF Balanced
<1> QED BY <1>1, <1>2, AddsUpNow DEF AreBalanced

(* Nothing is consumed initially.                                          *)
LEMMA ConsumedInit == Init => ConsumedMatchesLedger
<1> SUFFICES ASSUME Init PROVE ConsumedMatchesLedger
  OBVIOUS
<1>1. TypeOK /\ IsFiniteSet(ledger)
  BY TypeInit, InitRows
<1>2. ConsumeRows = {}
  BY InitRows DEF ConsumeRows
<1>3. \A g \in GrantIds : ConsumedOf[g] = 0
  BY OpeningGrants DEF ConsumedOf, Init
<1>4. Total(ConsumedOf) = 0
  BY <1>3, GrantsFinite, SumZero, TotalIsSum
<1>5. Consistent
  BY <1>2, <1>4, NoRowsTotal DEF Consistent
<1> QED BY <1>1, <1>5, ConsumedNow

(* The opening rows are the opening grants.                                *)
LEMMA ReconcilesInit == Init => LedgerReconciles
<1> SUFFICES ASSUME Init PROVE LedgerReconciles
  OBVIOUS
<1>1. Booked = ledger
  BY InitRows DEF Booked
<1>2. ZeroOutside(AvailableOf, OpeningTotals, Opened, GrantIds)
  <2>1. Opened \subseteq GrantIds
    BY DEF Opened
  <2>2. \A g \in GrantIds : AvailableOf[g] = OpeningTotals[g] /\ OpeningTotals[g] \in Int
    BY OpeningGrants DEF AvailableOf, OpeningTotals, Init
  <2>3. \A g \in GrantIds \ Opened : OpeningTotals[g] = 0
    BY OpeningGrants DEF Opened, OpeningTotals
  <2> QED BY <2>1, <2>2, <2>3 DEF ZeroOutside
<1>3. Total(AvailableOf) = Sum(OpeningTotals, Opened)
  BY <1>2, TotalPart
<1>4. Lost = 0
  <2>1. forfeited = {}
    BY DEF Init
  <2> QED BY <2>1, SumEmpty DEF Lost
<1>5. TotalRows(ledger) = Sum(OpeningTotals, Opened) /\ TotalRows(Booked) \in Int
  BY <1>1, InitRows, BookedInt, TypeInit
<1> QED BY <1>1, <1>3, <1>4, <1>5, ReconcilesNow

-----------------------------------------------------------------------------
(* The ledger *)

LedgerInv ==
    /\ GrantInv
    /\ IsFiniteSet(ledger)
    /\ FreshAllocs
    /\ CycleAddsUp
    /\ ConsumedMatchesLedger
    /\ ExpireRowsAreOld
    /\ ForfeitedAreSettled
    /\ LedgerReconciles

(* The invariant of the ledger holds initially.                            *)
LEMMA LedgerInvInit == Init => LedgerInv
BY GrantInvInit, InitRows, FreshAllocsInit, CycleAddsUpInit, ConsumedInit, ExpireRowsInit,
   ReconcilesInit DEF LedgerInv

(* The invariant of the ledger is inductive.                               *)
LEMMA LedgerInvNext == LedgerInv /\ [Next]_vars => LedgerInv'
<1> SUFFICES ASSUME LedgerInv, [Next]_vars PROVE LedgerInv'
  OBVIOUS
<1>1. /\ GrantInv /\ IsFiniteSet(ledger) /\ FreshAllocs /\ CycleAddsUp
      /\ ConsumedMatchesLedger /\ ExpireRowsAreOld /\ ForfeitedAreSettled
      /\ LedgerReconciles
  BY DEF LedgerInv
<1>2. GrantInv'
  BY <1>1, GrantInvNext
<1>3. CycleInv /\ FreeIsEmpty /\ TypeOK /\ CycleInv'
  BY <1>1, <1>2 DEF GrantInv, CycleInv
<1>4. IsFiniteSet(ledger)'
  BY <1>1, <1>3, LedgerFinite
<1>5. FreshAllocs'
  BY <1>1, <1>3, FreshAllocsNext
<1>6. CycleAddsUp'
  BY <1>1, <1>3, CycleAddsUpNext
<1>7. ConsumedMatchesLedger'
  BY <1>1, <1>3, ConsumedNext
<1>8. ExpireRowsAreOld' /\ ForfeitedAreSettled'
  BY <1>1, <1>3, ExpireRowsNext, ForfeitedNext
<1>9. LedgerReconciles'
  BY <1>1, <1>3, LedgerReconcilesNext
<1> QED BY <1>2, <1>4, <1>5, <1>6, <1>7, <1>8, <1>9 DEF LedgerInv

(* The grants, the allocations and the ledger of billing_store.go agree in *)
(* every reachable state: the inductive invariant of the wallet.           *)
THEOREM LedgerCorrect == Spec => []LedgerInv
BY LedgerInvInit, LedgerInvNext, PTL DEF Spec

(* The reserve, consume and refund rows of a cycle always carry what its   *)
(* allocations reserved, consumed and gave back.                           *)
THEOREM CycleAddsUpHolds == Spec => []CycleAddsUp
<1>1. LedgerInv => CycleAddsUp
  BY DEF LedgerInv
<1> QED BY <1>1, LedgerCorrect, PTL

(* The consumed column of the grants and the consume rows of the ledger,   *)
(* which settleAllocations and FinalizeTask write apart, never drift.      *)
THEOREM ConsumedMatchesLedgerHolds == Spec => []ConsumedMatchesLedger
<1>1. LedgerInv => ConsumedMatchesLedger
  BY DEF LedgerInv
<1> QED BY <1>1, LedgerCorrect, PTL

(* The ledger always reconciles with the grants: its rows but the consume  *)
(* rows are the points available and those forfeited to an expired grant.  *)
THEOREM LedgerReconcilesHolds == Spec => []LedgerReconciles
<1>1. LedgerInv => LedgerReconciles
  BY DEF LedgerInv
<1> QED BY <1>1, LedgerCorrect, PTL

-----------------------------------------------------------------------------
(* The promise of TaskBilling *)

PointsIn(kind, t) == [c \in Cycles |-> RowPoints(kind, t, c)]

(* The points of a task's rows of a kind, cycle by cycle.                  *)
LEMMA PointsOfIs ==
    TypeOK /\ IsFiniteSet(ledger) =>
        \A t \in Tasks, kind \in TaskRowKinds :
            /\ \A c \in Cycles : PointsIn(kind, t)[c] \in Int
            /\ PointsOf(kind, t) = Sum(PointsIn(kind, t), Cycles)
            /\ PointsOf(kind, t) \in Int
<1> SUFFICES ASSUME TypeOK, IsFiniteSet(ledger), NEW t \in Tasks, NEW kind \in TaskRowKinds
             PROVE  /\ \A c \in Cycles : PointsIn(kind, t)[c] \in Int
                    /\ PointsOf(kind, t) = Sum(PointsIn(kind, t), Cycles)
                    /\ PointsOf(kind, t) \in Int
  OBVIOUS
<1>1. \A c \in Cycles : PointsIn(kind, t)[c] \in Int
  BY RowPointsInt DEF PointsIn
<1>2. DOMAIN PointsIn(kind, t) = Cycles /\ PointsOf(kind, t) = SumFunction(PointsIn(kind, t))
  BY DEF PointsIn, PointsOf
<1>3. PointsOf(kind, t) = Sum(PointsIn(kind, t), Cycles)
  BY <1>2, SumFunctionIsSum
<1> QED BY <1>1, <1>3, CyclesFinite, SumInt

(* The points of a cycle's rows are an integer.                            *)
LEMMA RowPointsType ==
    TypeOK /\ IsFiniteSet(ledger) => \A kind, t, c : RowPoints(kind, t, c) \in Int
BY RowPointsInt

(* They are one in the next state too.                                     *)
LEMMA RowPointsNext ==
    (TypeOK /\ IsFiniteSet(ledger) => \A kind, t, c : RowPoints(kind, t, c) \in Int)'
BY RowPointsType, PTL

(* The points of a task's rows in the next state.                          *)
LEMMA PointsOfNext ==
    (TypeOK /\ IsFiniteSet(ledger) =>
        \A t \in Tasks, kind \in TaskRowKinds :
            /\ \A c \in Cycles : PointsIn(kind, t)[c] \in Int
            /\ PointsOf(kind, t) = Sum(PointsIn(kind, t), Cycles)
            /\ PointsOf(kind, t) \in Int)'
BY PointsOfIs, PTL

(* What a task holds is what its open cycle reserved, never Nothing.       *)
LEMMA OpenAmountIs ==
    LedgerInv =>
        \A t \in Tasks :
            /\ OpenCycles(t) = {} => OpenAmount(t) = -1
            /\ \A c \in OpenCycles(t) :
                 /\ OpenAmount(t) \in Nat
                 /\ OpenAmount(t) + RowPoints("reserve", t, c) = 0
                 /\ OpenAmount(t) = Total([g \in GrantIds |-> Cover(t, c, g)])
<1> SUFFICES ASSUME LedgerInv, NEW t \in Tasks, NEW c \in OpenCycles(t)
             PROVE  /\ OpenAmount(t) \in Nat
                    /\ OpenAmount(t) + RowPoints("reserve", t, c) = 0
                    /\ OpenAmount(t) = Total([g \in GrantIds |-> Cover(t, c, g)])
  BY DEF OpenAmount
<1> DEFINE f == [d \in OpenCycles(t) |-> RowPoints("reserve", t, d)]
           cover == [g \in GrantIds |-> Cover(t, c, g)]
           reserved == OfAllocs("reserved", t, c)
<1>1. /\ TypeOK /\ IsFiniteSet(ledger) /\ FreshAllocs /\ OneOpenCycle /\ CycleAddsUp
      /\ c \in Cycles /\ c \notin SettledCycles(t)
  BY DEF LedgerInv, GrantInv, CycleInv, OpenCycles, ReservedCycles
<1>2. OpenCycles(t) = {c}
  BY <1>1 DEF OneOpenCycle, OpenCycles, ReservedCycles
<1>3. DOMAIN f = {c} /\ f[c] = RowPoints("reserve", t, c) /\ f[c] \in Int
  BY <1>1, <1>2, RowPointsInt
<1>4. OpenAmount(t) = -SumFunction(f)
  BY <1>2 DEF OpenAmount
<1>5. Balanced(t, c)
  BY <1>1, AddsUpNow DEF AreBalanced
<1>6. Total(reserved) = Total(cover) /\ Total(reserved) \in Nat
  <2>1. \A g \in GrantIds : reserved[g] = cover[g]
    BY <1>1, OpenAlloc DEF OfAllocs
  <2>2. Total(reserved) \in Nat
    BY <1>1, OfAllocsType
  <2> HIDE DEF reserved, cover
  <2> QED BY <2>1, <2>2, TotalSame
<1>7. RowPoints("reserve", t, c) + Total(reserved) = 0
  BY <1>5 DEF Balanced
<1> HIDE DEF f, cover, reserved
<1>8. SumFunction(f) = f[c]
  <2>1. SumFunction(f) = Sum(f, {c})
    BY <1>3, SumFunctionIsSum
  <2>2. Sum(f, {c}) = f[c] + Sum(f, {c} \ {c})
    <3>1. c \in {c} /\ IsFiniteSet({c}) /\ \A d \in {c} : f[d] \in Int
      BY <1>3, FS_Singleton
    <3> QED BY <3>1, SumRemove
  <2>3. {c} \ {c} = {}
    OBVIOUS
  <2> QED BY <1>3, <2>1, <2>2, <2>3, SumEmpty
<1>9. /\ OpenAmount(t) \in Nat
      /\ OpenAmount(t) + RowPoints("reserve", t, c) = 0
      /\ OpenAmount(t) = Total(cover)
  BY <1>3, <1>4, <1>6, <1>7, <1>8
<1> QED BY <1>9 DEF cover

(* What is open for a task in the next state.                              *)
LEMMA OpenAmountNext ==
    (LedgerInv =>
        \A t \in Tasks :
            /\ OpenCycles(t) = {} => OpenAmount(t) = -1
            /\ \A c \in OpenCycles(t) :
                 /\ OpenAmount(t) \in Nat
                 /\ OpenAmount(t) + RowPoints("reserve", t, c) = 0
                 /\ OpenAmount(t) = Total([g \in GrantIds |-> Cover(t, c, g)]))'
BY OpenAmountIs, PTL

(* A task whose rows stay is billed as before.                             *)
SameBill(t) ==
    /\ OpenAmount(t)' = OpenAmount(t)
    /\ PointsOf("consume", t)' = PointsOf("consume", t)
    /\ PointsOf("refund", t)' = PointsOf("refund", t)

(* Rows that do not change have the points they had.                       *)
LEMMA SamePoints ==
    ASSUME NEW kind, NEW t,
           \A c \in Cycles : RowPoints(kind, t, c)' = RowPoints(kind, t, c)
    PROVE  PointsOf(kind, t)' = PointsOf(kind, t)
<1>1. [c \in Cycles |-> RowPoints(kind, t, c)'] = [c \in Cycles |-> RowPoints(kind, t, c)]
  OBVIOUS
<1> QED BY <1>1 DEF PointsOf

(* A step that leaves a task's rows alone leaves its bill alone.           *)
LEMMA SameBilling ==
    ASSUME NEW t, OpenCycles(t)' = OpenCycles(t),
           \A kind \in TaskRowKinds, c \in Cycles :
                RowPoints(kind, t, c)' = RowPoints(kind, t, c)
    PROVE  SameBill(t)
<1>1. OpenCycles(t) \subseteq Cycles /\ TaskRowKinds = {"reserve", "consume", "refund"}
  BY DEF OpenCycles, ReservedCycles, TaskRowKinds
<1>2. [c \in OpenCycles(t)' |-> RowPoints("reserve", t, c)'] =
        [c \in OpenCycles(t) |-> RowPoints("reserve", t, c)]
  BY <1>1
<1>3. OpenAmount(t)' = OpenAmount(t)
  BY <1>2 DEF OpenAmount
<1>4. /\ PointsOf("consume", t)' = PointsOf("consume", t)
      /\ PointsOf("refund", t)' = PointsOf("refund", t)
  BY <1>1, SamePoints
<1> QED BY <1>3, <1>4 DEF SameBill

(* A reservation on the bill of its task.                                  *)
LEMMA HeldPoints ==
    ASSUME LedgerInv, LedgerInv', NEW t \in Tasks, NEW c, NEW amount, NEW take,
           Reserves(t, c, amount, take)
    PROVE  /\ OpenAmount(t) = -1 /\ OpenAmount(t)' = amount
           /\ PointsOf("consume", t)' = PointsOf("consume", t)
           /\ PointsOf("refund", t)' = PointsOf("refund", t)
           /\ \A u \in Tasks \ {t} : SameBill(u)
<1> DEFINE row == NewRow("reserve", t, c, -amount)
<1>0. /\ TypeOK /\ SettledWereReserved /\ OpenCycles(t) = {} /\ ledger' = ledger \cup {row}
      /\ row.kind = "reserve" /\ row.ref = t /\ row.cycle = c
  BY DEF LedgerInv, GrantInv, CycleInv, Reserves, MayReserve, NewRow
<1> HIDE DEF row
<1>1. /\ c \in Cycles /\ amount \in Nat
      /\ RowPoints("reserve", t, c)' + amount = 0
      /\ \A kind, u, d : ~(kind = "reserve" /\ u = t /\ d = c) =>
               RowPoints(kind, u, d)' = RowPoints(kind, u, d)
      /\ \A u \in Tasks : SettledCycles(u)' = SettledCycles(u)
      /\ c \notin SettledCycles(t)
  BY <1>0, ReservedRows
<1>2. OpenAmount(t) = -1
  BY <1>0, OpenAmountIs
<1>3. c \in OpenCycles(t)'
  BY <1>0, <1>1 DEF OpenCycles, ReservedCycles, HasRow
<1>4. OpenAmount(t)' \in Nat /\ OpenAmount(t)' + RowPoints("reserve", t, c)' = 0
  BY <1>3, OpenAmountNext
<1>5. OpenAmount(t)' = amount
  <2>1. RowPoints("reserve", t, c)' \in Int
    BY <1>0, <1>1, RowPointsNext DEF LedgerInv, GrantInv, CycleInv
  <2> QED BY <1>1, <1>4, <2>1
<1>6. /\ PointsOf("consume", t)' = PointsOf("consume", t)
      /\ PointsOf("refund", t)' = PointsOf("refund", t)
  BY <1>1, SamePoints
<1>7. ASSUME NEW u \in Tasks \ {t} PROVE SameBill(u)
  <2>1. OpenCycles(u)' = OpenCycles(u)
    BY <1>0, <1>1 DEF OpenCycles, ReservedCycles, HasRow
  <2>2. \A kind \in TaskRowKinds, d \in Cycles : RowPoints(kind, u, d)' = RowPoints(kind, u, d)
    BY <1>1
  <2> QED BY <2>1, <2>2, SameBilling
<1> QED BY <1>2, <1>5, <1>6, <1>7

(* A settlement on the bill of its task.                                   *)
LEMMA SettledPoints ==
    ASSUME LedgerInv, LedgerInv', NEW t \in Tasks, NEW c, NEW held, NEW charged, NEW share,
           Settles(t, c, held, charged, share)
    PROVE  /\ OpenAmount(t) = held /\ OpenAmount(t)' = -1
           /\ charged \in 0 .. MaxPoints /\ charged <= held /\ held \in Nat
           /\ PointsOf("consume", t) \in Int /\ PointsOf("consume", t)' \in Int
           /\ PointsOf("consume", t)' + charged = PointsOf("consume", t)
           /\ PointsOf("refund", t)' = PointsOf("refund", t) + (held - charged)
           /\ \A u \in Tasks \ {t} : SameBill(u)
<1>0. /\ TypeOK /\ IsFiniteSet(ledger) /\ TypeOK' /\ IsFiniteSet(ledger)'
      /\ OneOpenCycle /\ OneOpenCycle' /\ TaskRowKinds = {"reserve", "consume", "refund"}
  BY DEF LedgerInv, GrantInv, CycleInv, TaskRowKinds
<1>1. /\ c \in Cycles /\ held \in Nat /\ charged \in Nat /\ charged <= held
      /\ c \notin SettledCycles(t)
      /\ RowPoints("consume", t, c)' + charged = 0
      /\ RowPoints("refund", t, c)' = held - charged
      /\ \A kind \in TaskRowKinds : \A u, d : ~(kind \in {"consume", "refund"} /\ u = t /\ d = c) =>
               RowPoints(kind, u, d)' = RowPoints(kind, u, d)
      /\ \A u \in Tasks : SettledCycles(u)' = IF u = t THEN SettledCycles(u) \cup {c}
                                              ELSE SettledCycles(u)
  BY <1>0, SettledRows
<1>2. \A u \in Tasks : ReservedCycles(u)' = ReservedCycles(u)
  <2>1. ledger' = ledger \cup ExpireRows \cup SettleRows(t, c, held, charged)
    BY DEF Settles
  <2>2. \A r \in ExpireRows \cup SettleRows(t, c, held, charged) : r.kind # "reserve"
    BY DEF ExpireRows, SettleRows, NewRow
  <2> QED BY <2>1, <2>2 DEF ReservedCycles, HasRow
<1>3. c \in OpenCycles(t) /\ OpenCycles(t) = {c}
  <2>1. c \in OpenCycles(t)
    BY DEF Settles, IsActiveCycle
  <2> QED BY <1>0, <1>1, <2>1 DEF OneOpenCycle, OpenCycles, ReservedCycles
<1>4. OpenCycles(t)' = {}
  BY <1>1, <1>2, <1>3 DEF OpenCycles
<1>5. OpenAmount(t)' = -1
  BY <1>4, OpenAmountNext
<1>6. OpenAmount(t) = held
  <2>1. OpenAmount(t) = Total([g \in GrantIds |-> Cover(t, c, g)])
    BY <1>3, OpenAmountIs
  <2>2. held = Total([g \in GrantIds |-> Cover(t, c, g)])
    BY DEF Settles
  <2> QED BY <2>1, <2>2
<1>7. charged \in 0 .. MaxPoints
  <2>1. held \in 0 .. MaxPoints /\ MaxPoints \in Nat
    BY BoundsAssumption DEF Settles
  <2> QED BY <1>1, <2>1
<1>8. ASSUME NEW kind \in {"consume", "refund"}
      PROVE  /\ PointsOf(kind, t) \in Int /\ PointsOf(kind, t)' \in Int
             /\ PointsOf(kind, t)' = PointsOf(kind, t) + RowPoints(kind, t, c)'
  <2> DEFINE f == PointsIn(kind, t)
             h == PointsIn(kind, t)'
  <2>1. /\ \A d \in Cycles : f[d] \in Int
        /\ PointsOf(kind, t) = Sum(f, Cycles) /\ PointsOf(kind, t) \in Int
    BY <1>0, PointsOfIs
  <2>2. /\ \A d \in Cycles : h[d] \in Int
        /\ PointsOf(kind, t)' = Sum(h, Cycles) /\ PointsOf(kind, t)' \in Int
    <3>1. \A d \in Cycles : h[d] = PointsIn(kind, t)'[d]
      OBVIOUS
    <3> QED BY <1>0, <3>1, PointsOfNext DEF Sum
  <2>3. \A d \in Cycles \ {c} : h[d] = f[d]
    BY <1>0, <1>1 DEF PointsIn
  <2>4. h[c] = RowPoints(kind, t, c)'
    BY <1>1 DEF PointsIn
  <2>5. f[c] = 0
    <3>1. {r \in ledger : r.kind = kind /\ r.ref = t /\ r.cycle = c} = {}
      BY <1>1 DEF SettledCycles, HasRow
    <3>2. RowPoints(kind, t, c) = 0
      BY <3>1, NoRowsTotal DEF RowPoints
    <3> QED BY <1>1, <3>2 DEF PointsIn
  <2> HIDE DEF f, h
  <2>6. h[c] \in Int
    BY <1>1, <2>2
  <2>7. Sum(h, Cycles) = Sum(f, Cycles) - f[c] + h[c]
    BY ONLY <1>1, <2>1, <2>3, <2>6, CyclesFinite, SumChange
  <2> QED BY <2>1, <2>2, <2>4, <2>5, <2>6, <2>7
<1>9. /\ PointsOf("consume", t) \in Int /\ PointsOf("consume", t)' \in Int
      /\ PointsOf("consume", t)' + charged = PointsOf("consume", t)
  <2>1. RowPoints("consume", t, c)' \in Int
    BY <1>0, RowPointsNext
  <2> QED BY <1>1, <1>8, <2>1
<1>10. PointsOf("refund", t)' = PointsOf("refund", t) + (held - charged)
  BY <1>1, <1>8
<1>11. ASSUME NEW u \in Tasks \ {t} PROVE SameBill(u)
  <2>1. OpenCycles(u)' = OpenCycles(u)
    BY <1>1, <1>2 DEF OpenCycles
  <2>2. \A kind \in TaskRowKinds, d \in Cycles : RowPoints(kind, u, d)' = RowPoints(kind, u, d)
    BY <1>1
  <2> QED BY <2>1, <2>2, SameBilling
<1> QED BY <1>1, <1>5, <1>6, <1>7, <1>9, <1>10, <1>11

(* The idle steps leave every bill alone.                                  *)
LEMMA IdleBills == ASSUME TypeOK, Idles, NEW t \in Tasks PROVE SameBill(t)
<1>1. OpenCycles(t)' = OpenCycles(t)
  BY IdleCycles DEF OpenCycles
<1>2. \A kind \in TaskRowKinds, c \in Cycles : RowPoints(kind, t, c)' = RowPoints(kind, t, c)
  BY IdlePoints
<1> QED BY <1>1, <1>2, SameBilling

(* The wallet starts with empty bills.                                     *)
LEMMA BillingInit == Init => Billing!Init
<1> SUFFICES ASSUME Init PROVE Billing!Init
  OBVIOUS
<1>1. LedgerInv
  BY LedgerInvInit
<1>2. TypeOK /\ IsFiniteSet(ledger) /\ \A r \in ledger : r.kind = "recharge"
  BY <1>1, InitRows DEF LedgerInv, GrantInv, CycleInv
<1>3. ASSUME NEW t \in Tasks
      PROVE  /\ OpenAmount(t) = -1
             /\ PointsOf("consume", t) = 0 /\ PointsOf("refund", t) = 0
  <2>1. OpenCycles(t) = {}
    BY <1>2 DEF OpenCycles, ReservedCycles, HasRow
  <2>2. ASSUME NEW kind \in {"consume", "refund"} PROVE PointsOf(kind, t) = 0
    <3>1. ASSUME NEW c \in Cycles PROVE PointsIn(kind, t)[c] = 0
      <4>1. {r \in ledger : r.kind = kind /\ r.ref = t /\ r.cycle = c} = {}
        BY <1>2
      <4> QED BY <4>1, NoRowsTotal DEF RowPoints, PointsIn
    <3>2. PointsOf(kind, t) = Sum(PointsIn(kind, t), Cycles)
      BY <1>2, PointsOfIs DEF TaskRowKinds
    <3> QED BY <3>1, <3>2, CyclesFinite, SumZero
  <2> QED BY <1>1, <2>1, <2>2, OpenAmountIs
<1>4. \A t \in Tasks : -PointsOf("consume", t) = 0
  BY <1>3
<1> QED BY <1>3, <1>4 DEF Billing!Init, Billing!Nothing

(* Every step of the wallet is a step of TaskBilling, or none.             *)
LEMMA BillingNext ==
    LedgerInv /\ LedgerInv' /\ [Next]_vars => [Billing!Next]_(Billing!vars)
<1> SUFFICES ASSUME LedgerInv, LedgerInv', [Next]_vars PROVE [Billing!Next]_(Billing!vars)
  OBVIOUS
<1> DEFINE held == [u \in Tasks |-> OpenAmount(u)]
           charged == [u \in Tasks |-> -PointsOf("consume", u)]
           returned == [u \in Tasks |-> PointsOf("refund", u)]
<1>0. TypeOK
  BY DEF LedgerInv, GrantInv, CycleInv
<1>1. ASSUME NEW t \in Tasks, NEW c, NEW amount, NEW take, Reserves(t, c, amount, take)
      PROVE  Billing!Next
  <2>1. /\ OpenAmount(t) = -1 /\ OpenAmount(t)' = amount
        /\ PointsOf("consume", t)' = PointsOf("consume", t)
        /\ PointsOf("refund", t)' = PointsOf("refund", t)
        /\ \A u \in Tasks \ {t} : SameBill(u)
    BY <1>1, HeldPoints
  <2>2. amount \in 0 .. MaxPoints
    BY <1>1 DEF Reserves
  <2>3. \A u \in Tasks :
            /\ OpenAmount(u)' = IF u = t THEN amount ELSE OpenAmount(u)
            /\ PointsOf("consume", u)' = PointsOf("consume", u)
            /\ PointsOf("refund", u)' = PointsOf("refund", u)
    BY <2>1 DEF SameBill
  <2>4. /\ held' = [held EXCEPT ![t] = amount]
        /\ charged' = charged /\ returned' = returned
    BY <2>3
  <2>5. held[t] = -1
    BY <2>1
  <2>6. Billing!Hold(t, amount)
    BY <2>4, <2>5 DEF Billing!Hold, Billing!Nothing
  <2> QED BY <2>2, <2>6 DEF Billing!Next
<1>2. ASSUME NEW t \in Tasks, NEW c, NEW hold, NEW charge, NEW share,
             Settles(t, c, hold, charge, share)
      PROVE  Billing!Next
  <2>1. /\ OpenAmount(t) = hold /\ OpenAmount(t)' = -1
        /\ charge \in 0 .. MaxPoints /\ charge <= hold /\ hold \in Nat
        /\ PointsOf("consume", t) \in Int /\ PointsOf("consume", t)' \in Int
        /\ PointsOf("consume", t)' + charge = PointsOf("consume", t)
        /\ PointsOf("refund", t)' = PointsOf("refund", t) + (hold - charge)
        /\ \A u \in Tasks \ {t} : SameBill(u)
    BY <1>2, SettledPoints
  <2>2. charge \in Int
    BY <2>1
  <2>3. -(PointsOf("consume", t)') = -PointsOf("consume", t) + charge
    <3>1. \A x, y, z \in Int : x + z = y => -x = -y + z
      OBVIOUS
    <3> QED BY <2>1, <2>2, <3>1
  <2>4. \A u \in Tasks :
            /\ OpenAmount(u)' = IF u = t THEN -1 ELSE OpenAmount(u)
            /\ -(PointsOf("consume", u)') =
                    IF u = t THEN -PointsOf("consume", u) + charge ELSE -PointsOf("consume", u)
            /\ PointsOf("refund", u)' =
                    IF u = t THEN PointsOf("refund", u) + (hold - charge)
                    ELSE PointsOf("refund", u)
    BY <2>1, <2>3 DEF SameBill
  <2>5. /\ held' = [held EXCEPT ![t] = -1]
        /\ charged' = [charged EXCEPT ![t] = @ + charge]
        /\ returned' = [returned EXCEPT ![t] = @ + (hold - charge)]
    BY <2>4
  <2>6. held[t] = hold /\ hold # -1 /\ charge <= hold
    BY <2>1
  <2>7. Billing!Settle(t, charge)
    BY <2>5, <2>6 DEF Billing!Settle, Billing!Nothing
  <2> QED BY <2>1, <2>7 DEF Billing!Next
<1>3. CASE Idles
  <2>1. \A u \in Tasks : SameBill(u)
    BY <1>0, <1>3, IdleBills
  <2>2. held' = held /\ charged' = charged /\ returned' = returned
    BY <2>1 DEF SameBill
  <2> QED BY <2>2 DEF Billing!vars
<1> QED BY <1>0, <1>1, <1>2, <1>3, LedgerStepKinds

(* The wallet implements TaskBilling: to a task, the reservations and the  *)
(* settlements of billing_store.go are a bill that is opened and paid once.*)
THEOREM ImplementsTaskBillingHolds == Spec => ImplementsTaskBilling
BY LedgerCorrect, BillingInit, BillingNext, PTL DEF Spec, ImplementsTaskBilling, Billing!Spec

-----------------------------------------------------------------------------
(* The wallet under refunds *)

(* A step of the wallet keeps what a grant holds for a refund, and leaves  *)
(* the grants of an order active or expired.                               *)
LEMMA HoldNext ==
    ASSUME TypeOK, FreeIsEmpty, [Next]_vars, NEW g \in GrantIds
    PROVE  /\ grants'[g].hold = grants[g].hold
           /\ grants[g].status \in {"active", "expired"} =>
                    grants'[g].status \in {"active", "expired"}
           /\ grants[g].status # "none" => grants'[g].status # "none"
<1>1. ASSUME NEW t \in Tasks, NEW c, NEW amount, NEW take, Reserves(t, c, amount, take)
      PROVE  grants'[g].hold = grants[g].hold /\ grants'[g].status = grants[g].status
  BY <1>1, ReservedGrants
<1>2. ASSUME NEW t \in Tasks, NEW c, NEW held, NEW charged, NEW share,
             Settles(t, c, held, charged, share)
      PROVE  grants'[g].hold = grants[g].hold /\ grants'[g].status = Swept(g).status
  BY <1>2, SettledGrants
<1>3. CASE Sweeps
  <2>1. grants'[g] = Swept(g)
    BY <1>3 DEF Sweeps
  <2> QED BY <2>1, SweptGrant DEF DueToExpire
<1>4. ASSUME NEW slot, NEW grant, NEW row, Gains(slot, grant, row)
      PROVE  \/ grants'[g] = grants[g]
             \/ /\ grants[g].status = "none" /\ grants'[g].status = "active"
                /\ grants'[g].hold = 0
  BY <1>4, GainedGrants DEF Gains
<1>5. ASSUME NEW cut, NEW row, Cuts(cut, row)
      PROVE  grants'[g].hold = grants[g].hold /\ grants'[g].status = grants[g].status
  BY <1>5, CutGrants
<1>6. CASE Still
  BY <1>6 DEF Still
<1>7. grants[g].status = "none" => grants[g].hold = 0
  BY DEF FreeIsEmpty
<1>8. /\ grants[g].status \in {"active", "expired"} => Swept(g).status \in {"active", "expired"}
      /\ grants[g].status # "none" => Swept(g).status # "none"
  BY SweptGrant
<1> QED BY <1>1, <1>2, <1>3, <1>4, <1>5, <1>6, <1>7, <1>8, LedgerSteps

(* The rows that refunds write, and those of them about one trade.         *)
RefundRows == {w \in ledger : w.kind = "payment_refund"}

(* The wallet writes no refund row.                                        *)
LEMMA RefundRowsNext ==
    ASSUME TypeOK, [Next]_vars
    PROVE  RefundRows' = RefundRows
<1>1. ASSUME NEW t \in Tasks, NEW c, NEW amount, NEW take, Reserves(t, c, amount, take)
      PROVE  RefundRows' = RefundRows
  <2> DEFINE row == NewRow("reserve", t, c, -amount)
  <2>1. row.kind = "reserve" /\ ledger' = ledger \cup {row}
    BY <1>1 DEF Reserves, NewRow
  <2> HIDE DEF row
  <2> QED BY <2>1 DEF RefundRows
<1>2. ASSUME NEW t \in Tasks, NEW c, NEW held, NEW charged, NEW share,
             Settles(t, c, held, charged, share)
      PROVE  RefundRows' = RefundRows
  <2>1. ledger' = ledger \cup ExpireRows \cup SettleRows(t, c, held, charged)
    BY <1>2 DEF Settles
  <2>2. \A r \in ExpireRows \cup SettleRows(t, c, held, charged) : r.kind # "payment_refund"
    BY DEF ExpireRows, SettleRows, NewRow
  <2> QED BY <2>1, <2>2 DEF RefundRows
<1>3. CASE Sweeps
  <2>1. ledger' = ledger \cup ExpireRows
    BY <1>3 DEF Sweeps
  <2>2. \A r \in ExpireRows : r.kind # "payment_refund"
    BY DEF ExpireRows, NewRow
  <2> QED BY <2>1, <2>2 DEF RefundRows
<1>4. ASSUME NEW slot, NEW grant, NEW row, Gains(slot, grant, row)
      PROVE  RefundRows' = RefundRows
  BY <1>4 DEF Gains, IsNewRow, RefundRows
<1>5. ASSUME NEW cut, NEW row, Cuts(cut, row) PROVE RefundRows' = RefundRows
  BY <1>5 DEF Cuts, IsNewRow, RefundRows
<1>6. CASE Still
  BY <1>6 DEF Still, RefundRows
<1> QED BY <1>1, <1>2, <1>3, <1>4, <1>5, <1>6, LedgerSteps

(* A step of the wallet beside the refunds is a step of Wallet.            *)
LEMMA WalletStepIsNext == WalletStep => Next /\ UNCHANGED refundVars
BY DEF WalletStep, Next

-----------------------------------------------------------------------------
(* Points and grants of a refund *)

(* The grants of the order are finitely many.                              *)
LEMMA OrderGrantsFinite ==
    /\ IsFiniteSet(OrderGrants) /\ OrderGrants \subseteq GrantIds
    /\ \A r : IsFiniteSet(RefundableGrants(r)) /\ RefundableGrants(r) \subseteq OrderGrants
<1>1. IsFiniteSet(OrderGrants) /\ OrderGrants \subseteq GrantIds
  BY GrantsFinite, FS_Subset, RefundAssumption
<1>2. \A r : RefundableGrants(r) \subseteq OrderGrants
  BY DEF RefundableGrants
<1> QED BY <1>1, <1>2, FS_Subset

(* The points of the order are a natural number.                           *)
LEMMA OrderPointsNat == OrderPoints \in Nat
<1> DEFINE f == [g \in OrderGrants |-> Opening[g].total]
<1>1. \A g \in OrderGrants : f[g] \in Nat
  BY OpeningGrants, OrderGrantsFinite
<1>2. OrderPoints = SumFunction(f) /\ DOMAIN f = OrderGrants
  BY DEF OrderPoints
<1> HIDE DEF f
<1> QED BY <1>1, <1>2, SumFunctionIsSum, OrderGrantsFinite, SumNat

(* What a grant holds for a refund is a natural number.                    *)
LEMMA HeldForType ==
    ASSUME TypeOK, NEW r, NEW g \in GrantIds
    PROVE  HeldFor(g, r) \in Nat
BY DEF HeldFor, TypeOK, Grant

HeldOn(r) == [g \in RefundableGrants(r) |-> HeldFor(g, r)]

(* What the order holds for a refund, as a sum over its grants.            *)
LEMMA HeldIs ==
    ASSUME TypeOK, NEW r
    PROVE  /\ Held(r) = Sum(HeldOn(r), RefundableGrants(r)) /\ Held(r) \in Nat
           /\ \A g \in RefundableGrants(r) : /\ HeldOn(r)[g] = HeldFor(g, r)
                                             /\ HeldOn(r)[g] \in Nat
<1>1. \A g \in RefundableGrants(r) : HeldOn(r)[g] = HeldFor(g, r) /\ HeldOn(r)[g] \in Nat
  BY HeldForType, OrderGrantsFinite DEF HeldOn
<1>2. Held(r) = SumFunction(HeldOn(r)) /\ DOMAIN HeldOn(r) = RefundableGrants(r)
  BY DEF Held, HeldOn
<1>3. Held(r) = Sum(HeldOn(r), RefundableGrants(r))
  BY <1>2, SumFunctionIsSum
<1> QED BY <1>1, <1>3, SumNat, OrderGrantsFinite

(* No freeze of the trade: no grant holds points for it.                   *)
LEMMA NothingHeld ==
    ASSUME TypeOK, NEW r, Held(r) = 0, NEW g \in RefundableGrants(r)
    PROVE  HeldFor(g, r) = 0
<1>1. HeldOn(r)[g] <= Held(r) /\ HeldOn(r)[g] = HeldFor(g, r) /\ HeldOn(r)[g] \in Nat
  BY HeldIs, SumBound, OrderGrantsFinite
<1> QED BY <1>1

(* Nothing frozen on the grants of the order.                              *)
LEMMA NothingFrozen ==
    ASSUME TypeOK, NEW r, Frozen(r) = 0, NEW g \in RefundableGrants(r)
    PROVE  grants[g].frozen = 0
<1> DEFINE f == [h \in RefundableGrants(r) |-> grants[h].frozen]
<1>1. \A h \in RefundableGrants(r) : f[h] \in Nat
  BY OrderGrantsFinite DEF TypeOK, Grant
<1>2. Frozen(r) = SumFunction(f) /\ DOMAIN f = RefundableGrants(r) /\ f[g] = grants[g].frozen
  BY DEF Frozen
<1> HIDE DEF f
<1>3. Frozen(r) = Sum(f, RefundableGrants(r))
  BY <1>2, SumFunctionIsSum
<1>4. f[g] <= Sum(f, RefundableGrants(r))
  BY <1>1, SumBound, OrderGrantsFinite
<1> QED BY <1>1, <1>2, <1>3, <1>4

(* Parts within what is offered that add up to all of it are all of it.    *)
LEMMA WholeParts ==
    ASSUME NEW offer, NEW part, \A g \in GrantIds : part[g] \in Nat /\ offer[g] \in Nat
                                                    /\ part[g] <= offer[g],
           Total(part) = Total(offer), NEW g \in GrantIds
    PROVE  part[g] = offer[g]
<1> DEFINE left == [h \in GrantIds |-> offer[h] - part[h]]
<1>1. AddsUp(offer, part, left, GrantIds)
  BY DEF AddsUp
<1>2. \A h \in GrantIds : left[h] \in Nat
  OBVIOUS
<1>3. left[g] = offer[g] - part[g]
  OBVIOUS
<1> HIDE DEF left
<1>4. Total(offer) = Total(part) + Total(left) /\ Total(part) \in Int /\ Total(left) \in Int
  BY <1>1, TotalPlus
<1>5. Total(left) = 0
  BY <1>4
<1>6. left[g] <= Total(left)
  BY <1>2, SumBound, GrantsFinite, TotalIsSum
<1> QED BY <1>2, <1>3, <1>5, <1>6

-----------------------------------------------------------------------------
(* What the transactions of a refund write *)

(* The points a grant holds for a refund belong to an order's grant that   *)
(* is not refunded yet, and to a refund that is not booked yet.            *)
HoldsAreRefunds ==
    \A g \in GrantIds :
        /\ grants[g].hold > 0 <=> freeze[g].trade # NoTrade
        /\ grants[g].hold > 0 => /\ g \in OrderGrants
                                 /\ grants[g].status \in {"active", "expired"}
                                 /\ ~IsRecorded(freeze[g].trade)

OrderGrantsStay == \A g \in OrderGrants : grants[g].status # "none"

(* The frozen points cover what is held for a refund.                      *)
LEMMA HoldIsFrozen ==
    ASSUME TypeOK, FrozenIsBacked, NEW g \in GrantIds
    PROVE  /\ grants[g].hold \in Nat /\ grants[g].frozen \in Nat
           /\ grants[g].hold <= grants[g].frozen
<1>1. /\ grants[g].frozen = grants[g].hold + Covered(g) /\ Covered(g) \in Nat
  BY FrozenIsCovered, CoveredType
<1>2. grants[g].hold \in Nat /\ grants[g].frozen \in Nat
  BY DEF TypeOK, Grant
<1> QED BY <1>1, <1>2

(* What the writes of a refund leave of a grant's columns.                 *)
GrantWith(new, grant, available, frozen, hold, status) ==
    /\ new \in Grant
    /\ new.available = available /\ new.frozen = frozen
    /\ new.hold = hold /\ new.status = status
    /\ new.total = grant.total /\ new.consumed = grant.consumed

(* A grant that freezes points for a refund.                               *)
LEMMA GrantHeld ==
    ASSUME NEW grant \in Grant, NEW a \in Nat, NEW f \in Nat, NEW h \in Nat
    PROVE  GrantWith([grant EXCEPT !.available = a, !.frozen = f, !.hold = h],
                     grant, a, f, h, grant.status)
BY DEF Grant, GrantWith

(* A grant whose freeze is released.                                       *)
LEMMA GrantFreed ==
    ASSUME NEW grant \in Grant, NEW a \in Nat, NEW f \in Nat, NEW h \in Nat,
           NEW s \in GrantStatuses
    PROVE  GrantWith([grant EXCEPT !.available = a, !.frozen = f, !.status = s, !.hold = h],
                     grant, a, f, h, s)
BY DEF Grant, GrantWith

(* A grant that gives up points to a refund.                               *)
LEMMA GrantTaken ==
    ASSUME NEW grant \in Grant, NEW a \in Nat, NEW f \in Nat, NEW h \in Nat,
           NEW s \in GrantStatuses
    PROVE  GrantWith([grant EXCEPT !.available = a, !.frozen = f, !.hold = h, !.status = s],
                     grant, a, f, h, s)
BY DEF Grant, GrantWith

(* A refund that freezes part of each grant.                               *)
Freezes(r, request, part) ==
    /\ r \in RefundTrades /\ ~IsBooked(r) /\ HasPlan(request)
    /\ part \in [GrantIds -> Nat]
    /\ \A g \in GrantIds : part[g] > 0 =>
            /\ g \in OrderGrants /\ grants[g].status = "active"
            /\ part[g] <= grants[g].available
            /\ grants[g].frozen = 0 /\ grants[g].hold = 0
    /\ grants' = [g \in GrantIds |->
                    IF part[g] = 0 THEN grants[g]
                    ELSE [grants[g] EXCEPT !.available = @ - part[g],
                                           !.frozen = @ + part[g],
                                           !.hold = part[g]]]
    /\ freeze' = [g \in GrantIds |->
                    IF part[g] = 0 THEN freeze[g]
                    ELSE [trade |-> r, amount |-> AmountAsked(request)]]

(* FreezeRefundPaymentOrder writes nothing or freezes untouched grants.    *)
LEMMA FreezeRefundIs ==
    ASSUME TypeOK, FrozenIsBacked, NEW r \in RefundTrades, NEW request, FreezeRefund(r, request)
    PROVE  \/ UNCHANGED <<grants, freeze>>
           \/ \E part : Freezes(r, request, part)
<1> DEFINE after(part) == [g \in GrantIds |->
                    IF part[g] = 0 THEN grants[g]
                    ELSE [grants[g] EXCEPT !.available = @ - part[g],
                                           !.frozen = @ + part[g],
                                           !.hold = part[g]]]
           mark(part) == [g \in GrantIds |->
                    IF part[g] = 0 THEN freeze[g]
                    ELSE [trade |-> r, amount |-> AmountAsked(request)]]
           offer == [g \in GrantIds |-> IF g \in RefundableGrants(r)
                                        THEN [h \in GrantIds |-> grants[h].available][g] ELSE 0]
<1> SUFFICES ASSUME ~UNCHANGED <<grants, freeze>> PROVE \E part : Freezes(r, request, part)
  OBVIOUS
<1>1. /\ ~FreezeIsDone(r) /\ HasPlan(request) /\ Held(r) = 0 /\ NothingSpent(r, request)
      /\ \E part \in Shares([g \in GrantIds |-> grants[g].available], r, PointsAsked(request)) :
            grants' = after(part) /\ freeze' = mark(part)
  BY DEF FreezeRefund
<1>2. PICK part \in Spreads(offer, GrantOrder, PointsAsked(request)) :
            grants' = after(part) /\ freeze' = mark(part)
  BY <1>1 DEF Shares
<1>3. \A g \in GrantIds : part[g] \in Nat /\ part[g] <= offer[g]
  <2> HIDE DEF offer
  <2> QED BY <1>2, SpreadBounds
<1>4. part \in [GrantIds -> Nat]
  BY <1>2, <1>3 DEF Spreads
<1>5. Frozen(r) = 0
  BY <1>1 DEF NothingSpent
<1>6. ASSUME NEW g \in GrantIds, part[g] > 0
      PROVE  /\ g \in OrderGrants /\ grants[g].status = "active"
             /\ part[g] <= grants[g].available
             /\ grants[g].frozen = 0 /\ grants[g].hold = 0
  <2>1. part[g] \in Nat /\ part[g] <= offer[g]
    BY <1>3
  <2>2. g \in RefundableGrants(r) /\ part[g] <= grants[g].available
    BY <1>6, <2>1
  <2>3. HeldFor(g, r) = 0
    BY <1>1, <2>2, NothingHeld
  <2>4. g \in OrderGrants /\ grants[g].status = "active"
    BY <2>2, <2>3 DEF RefundableGrants
  <2>5. grants[g].frozen = 0
    BY <1>5, <2>2, NothingFrozen
  <2>6. grants[g].hold = 0
    BY <2>5, HoldIsFrozen
  <2> QED BY <2>2, <2>4, <2>5, <2>6
<1>7. ~IsBooked(r)
  BY <1>1 DEF FreezeIsDone, IsBooked
<1>8. Freezes(r, request, part)
  BY <1>1, <1>2, <1>4, <1>6, <1>7 DEF Freezes
<1> QED BY <1>8

(* What a freeze writes on each grant.                                     *)
LEMMA FrozenGrants ==
    ASSUME TypeOK, NEW r, NEW request, NEW part, Freezes(r, request, part), NEW g \in GrantIds
    PROVE  /\ part[g] \in Nat /\ grants[g] \in Grant
           /\ grants'[g] \in Grant
           /\ grants'[g].available = grants[g].available - part[g]
           /\ grants'[g].frozen = grants[g].frozen + part[g]
           /\ grants'[g].consumed = grants[g].consumed
           /\ grants'[g].hold = grants[g].hold + part[g]
           /\ grants'[g].status = grants[g].status
           /\ grants'[g].total = grants[g].total
<1>1. grants[g] \in Grant /\ part[g] \in Nat
  BY DEF TypeOK, Freezes
<1>2. CASE part[g] = 0
  <2>1. grants'[g] = grants[g]
    BY <1>2 DEF Freezes
  <2> QED BY <1>1, <1>2, <2>1 DEF Grant
<1>3. CASE part[g] # 0
  <2>1. grants'[g] = [grants[g] EXCEPT !.available = @ - part[g], !.frozen = @ + part[g],
                                       !.hold = part[g]]
    BY <1>3 DEF Freezes
  <2>2. part[g] <= grants[g].available /\ grants[g].hold = 0
    <3>1. part[g] > 0
      BY <1>1, <1>3
    <3> QED BY <3>1 DEF Freezes
  <2>3. grants[g].available \in Nat /\ grants[g].frozen \in Nat
    BY <1>1 DEF Grant
  <2> DEFINE a == grants[g].available - part[g]
             f == grants[g].frozen + part[g]
  <2>4. a \in Nat /\ f \in Nat
    BY <1>1, <2>2, <2>3
  <2>5. GrantWith(grants'[g], grants[g], a, f, part[g], grants[g].status)
    <3> HIDE DEF a, f
    <3>1. GrantWith([grants[g] EXCEPT !.available = a, !.frozen = f, !.hold = part[g]],
                    grants[g], a, f, part[g], grants[g].status)
      BY <1>1, <2>4, GrantHeld
    <3>2. grants'[g] = [grants[g] EXCEPT !.available = a, !.frozen = f, !.hold = part[g]]
      BY <2>1 DEF a, f
    <3> QED BY <3>1, <3>2
  <2> QED BY <1>1, <2>2, <2>5 DEF GrantWith
<1> QED BY <1>2, <1>3

(* A refund whose freeze is released.                                      *)
Freed(r) ==
    IF order.status = "refunded" THEN {} ELSE {g \in RefundableGrants(r) : HeldFor(g, r) > 0}

(* What a release writes on each grant.                                    *)
LEMMA ReleasedGrants ==
    ASSUME TypeOK, FrozenIsBacked, NEW r, ReleaseRefund(r), NEW g \in GrantIds
    PROVE  /\ grants'[g] \in Grant /\ grants[g] \in Grant
           /\ g \notin Freed(r) => grants'[g] = grants[g] /\ freeze'[g] = freeze[g]
           /\ g \in Freed(r) =>
                /\ g \in OrderGrants /\ freeze[g].trade = r /\ grants[g].hold > 0
                /\ order.status # "refunded"
                /\ freeze'[g] = NoFreeze
                /\ grants'[g].hold = 0
                /\ grants'[g].frozen = grants[g].frozen - grants[g].hold
                /\ grants'[g].available <= grants[g].available + grants[g].hold
                /\ grants'[g].consumed = grants[g].consumed
                /\ grants'[g].total = grants[g].total
                /\ grants'[g].status \in {grants[g].status, "expired"}
<1>1. grants[g] \in Grant
  BY DEF TypeOK
<1>2. /\ grants[g].hold \in Nat /\ grants[g].frozen \in Nat /\ grants[g].available \in Nat
      /\ grants[g].hold <= grants[g].frozen
  BY <1>1, HoldIsFrozen DEF Grant
<1>3. /\ grants'[g] = IF g \in Freed(r) THEN ReleasedGrant(grants[g]) ELSE grants[g]
      /\ freeze'[g] = IF g \in Freed(r) THEN NoFreeze ELSE freeze[g]
  BY DEF ReleaseRefund, Freed
<1>4. CASE g \in Freed(r)
  <2>1. /\ g \in OrderGrants /\ HeldFor(g, r) > 0 /\ order.status # "refunded"
    BY <1>4, OrderGrantsFinite DEF Freed
  <2>2. freeze[g].trade = r /\ grants[g].hold > 0
    BY <2>1 DEF HeldFor
  <2>3. /\ grants'[g] \in Grant
        /\ grants'[g].hold = 0
        /\ grants'[g].frozen = grants[g].frozen - grants[g].hold
        /\ grants'[g].available <= grants[g].available + grants[g].hold
        /\ grants'[g].consumed = grants[g].consumed
        /\ grants'[g].total = grants[g].total
        /\ grants'[g].status \in {grants[g].status, "expired"}
    <3> DEFINE back == IF grants[g].frozen < grants[g].hold
                       THEN grants[g].frozen ELSE grants[g].hold
               lapsed == grants[g].status = "expired" \/ grants[g].expires <= now
               left == IF lapsed THEN 0 ELSE grants[g].available + back
               state == IF lapsed THEN "expired" ELSE grants[g].status
    <3>1. grants'[g] = [grants[g] EXCEPT !.available = left, !.frozen = grants[g].frozen - back,
                                         !.status = state, !.hold = 0]
      BY <1>3, <1>4 DEF ReleasedGrant
    <3>2. back = grants[g].hold
      BY <1>2
    <3>3. /\ left \in Nat /\ left <= grants[g].available + grants[g].hold
          /\ state \in GrantStatuses /\ state \in {grants[g].status, "expired"}
      BY <1>1, <1>2, <3>2 DEF Grant, GrantStatuses
    <3>4. grants[g].frozen - back \in Nat
      BY <1>2, <3>2
    <3> DEFINE kept == grants[g].frozen - back
    <3> HIDE DEF back, lapsed, left, state, kept
    <3>5. grants'[g] = [grants[g] EXCEPT !.available = left, !.frozen = kept,
                                         !.status = state, !.hold = 0]
      BY <3>1 DEF kept
    <3>6. kept \in Nat /\ 0 \in Nat
      BY <3>4 DEF kept
    <3>7. GrantWith(grants'[g], grants[g], left, kept, 0, state)
      <4>1. GrantWith([grants[g] EXCEPT !.available = left, !.frozen = kept, !.status = state,
                                        !.hold = 0], grants[g], left, kept, 0, state)
        BY <1>1, <3>3, <3>6, GrantFreed
      <4> QED BY <3>5, <4>1
    <3> QED BY <3>2, <3>3, <3>7 DEF GrantWith, kept
  <2> QED BY <1>1, <1>3, <1>4, <2>1, <2>2, <2>3
<1>5. CASE g \notin Freed(r)
  BY <1>1, <1>3, <1>5
<1> QED BY <1>4, <1>5

(* A refund booked: it takes part of each grant, out of its own freeze if  *)
(* it has one, and no freeze of it is left.                                *)
Takes(r, request, part) ==
    /\ r \in RefundTrades /\ ~IsBooked(r) /\ HasPlan(request)
    /\ part \in [GrantIds -> Nat] /\ Total(part) = PointsAsked(request)
    /\ \A g \in GrantIds : part[g] > 0 =>
            /\ g \in OrderGrants /\ grants[g].status \in {"active", "expired"}
            /\ IF Held(r) > 0 THEN part[g] = grants[g].hold /\ freeze[g].trade = r
               ELSE part[g] <= grants[g].available /\ grants[g].hold = 0
    /\ \A g \in GrantIds : freeze[g].trade = r => part[g] > 0
    /\ grants' = [g \in GrantIds |->
                    IF part[g] = 0 THEN grants[g]
                    ELSE RefundedGrant(grants[g], part[g], Held(r) > 0, EndsOrder(request))]
    /\ freeze' = [g \in GrantIds |-> IF part[g] = 0 THEN freeze[g] ELSE NoFreeze]
    /\ ledger' = ledger \cup {NewRow("payment_refund", g, r, -part[g]) :
                                g \in {h \in GrantIds : part[h] > 0}}
    /\ order' = [status |-> IF EndsOrder(request) THEN "refunded" ELSE "partially_refunded",
                 amount |-> order.amount + AmountAsked(request),
                 points |-> order.points + PointsAsked(request),
                 last |-> r,
                 records |-> order.records \cup
                    {[trade |-> r, amount |-> AmountAsked(request),
                      points |-> PointsAsked(request)]}]

(* What a refund may take of each grant.                                   *)
TakeOffer(r) ==
    [g \in GrantIds |->
        IF g \in RefundableGrants(r)
        THEN [h \in GrantIds |-> IF Held(r) > 0 THEN HeldFor(h, r) ELSE grants[h].available][g]
        ELSE 0]

(* A refund with a freeze takes all that is held for it.                   *)
LEMMA TakesItsHold ==
    ASSUME TypeOK, NEW r, NEW request, NEW part, Held(r) > 0, FreezeMatches(r, request),
           \A g \in GrantIds : part[g] \in Nat /\ part[g] <= TakeOffer(r)[g],
           Total(part) = PointsAsked(request), NEW g \in GrantIds
    PROVE  part[g] = IF g \in RefundableGrants(r) THEN HeldFor(g, r) ELSE 0
<1> DEFINE offer == TakeOffer(r)
<1>1. \A h \in GrantIds : /\ offer[h] = IF h \in RefundableGrants(r) THEN HeldFor(h, r) ELSE 0
                          /\ offer[h] \in Nat
  BY HeldForType DEF TakeOffer
<1>2. Total(offer) = Held(r)
  <2>1. ZeroOutside(offer, HeldOn(r), RefundableGrants(r), GrantIds)
    BY <1>1, HeldIs, OrderGrantsFinite DEF ZeroOutside
  <2>2. Total(offer) = Sum(HeldOn(r), RefundableGrants(r))
    BY <2>1, TotalPart
  <2> QED BY <2>2, HeldIs
<1>3. Total(part) = Total(offer)
  BY <1>2 DEF FreezeMatches
<1>4. \A h \in GrantIds : part[h] \in Nat /\ offer[h] \in Nat /\ part[h] <= offer[h]
  BY <1>1
<1> HIDE DEF offer
<1>5. part[g] = offer[g]
  BY <1>3, <1>4, WholeParts
<1> QED BY <1>1, <1>5

(* RefundPaymentOrder writes nothing or takes its points, freeze included. *)
LEMMA RefundOrderIs ==
    ASSUME TypeOK, FrozenIsBacked, HoldsAreRefunds, NEW r \in RefundTrades, NEW request,
           RefundOrder(r, request)
    PROVE  \/ UNCHANGED <<grants, freeze, order, ledger>>
           \/ \E part : Takes(r, request, part)
<1> DEFINE after(part) == [g \in GrantIds |->
                    IF part[g] = 0 THEN grants[g]
                    ELSE RefundedGrant(grants[g], part[g], Held(r) > 0, EndsOrder(request))]
           mark(part) == [g \in GrantIds |-> IF part[g] = 0 THEN freeze[g] ELSE NoFreeze]
           rows(part) == ledger \cup {NewRow("payment_refund", g, r, -part[g]) :
                                g \in {h \in GrantIds : part[h] > 0}}
           offer == TakeOffer(r)
<1> SUFFICES ASSUME ~UNCHANGED <<grants, freeze, order, ledger>>
             PROVE  \E part : Takes(r, request, part)
  OBVIOUS
<1>1. /\ ~IsBooked(r) /\ CanRefund(r, request)
      /\ \E part \in Spreads(offer, GrantOrder, PointsAsked(request)) :
            grants' = after(part) /\ freeze' = mark(part) /\ ledger' = rows(part)
      /\ order' = [status |-> IF EndsOrder(request) THEN "refunded" ELSE "partially_refunded",
                   amount |-> order.amount + AmountAsked(request),
                   points |-> order.points + PointsAsked(request),
                   last |-> r,
                   records |-> order.records \cup
                      {[trade |-> r, amount |-> AmountAsked(request),
                        points |-> PointsAsked(request)]}]
  BY DEF RefundOrder, Shares, TakeOffer
<1>2. PICK part \in Spreads(offer, GrantOrder, PointsAsked(request)) :
            grants' = after(part) /\ freeze' = mark(part) /\ ledger' = rows(part)
  BY <1>1
<1>3. \A g \in GrantIds : part[g] \in Nat /\ part[g] <= offer[g]
  <2> HIDE DEF offer
  <2> QED BY <1>2, SpreadBounds
<1>4. part \in [GrantIds -> Nat] /\ Total(part) = PointsAsked(request)
  BY <1>2, <1>3 DEF Spreads
<1>5. HasPlan(request) /\ (Held(r) > 0 => FreezeMatches(r, request)) /\ NothingSpent(r, request)
  BY <1>1 DEF CanRefund
<1>6. Held(r) \in Nat
  BY HeldIs
<1>7. ASSUME NEW g \in GrantIds, part[g] > 0
      PROVE  /\ g \in OrderGrants /\ grants[g].status \in {"active", "expired"}
             /\ IF Held(r) > 0 THEN part[g] = grants[g].hold /\ freeze[g].trade = r
                ELSE part[g] <= grants[g].available /\ grants[g].hold = 0
  <2>1. part[g] \in Nat /\ part[g] <= offer[g]
    BY <1>3
  <2>2. g \in RefundableGrants(r)
    <3>1. g \notin RefundableGrants(r) => offer[g] = 0
      BY DEF TakeOffer
    <3> QED BY <1>7, <2>1, <3>1
  <2>3. g \in OrderGrants /\ grants[g].status \in {"active", "expired"}
    BY <2>2 DEF RefundableGrants
  <2>4. CASE Held(r) > 0
    <3>1. part[g] = HeldFor(g, r)
      BY <1>3, <1>4, <1>5, <2>2, <2>4, TakesItsHold
    <3> QED BY <1>7, <2>3, <2>4, <3>1 DEF HeldFor
  <2>5. CASE ~(Held(r) > 0)
    <3>1. part[g] <= grants[g].available
      BY <2>1, <2>2, <2>5 DEF TakeOffer
    <3>2. grants[g].frozen = 0
      BY <1>5, <2>2, <2>5, NothingFrozen DEF NothingSpent
    <3>3. grants[g].hold = 0
      BY <3>2, HoldIsFrozen
    <3> QED BY <2>3, <2>5, <3>1, <3>3
  <2> QED BY <2>4, <2>5
<1>8. ASSUME NEW g \in GrantIds, freeze[g].trade = r PROVE part[g] > 0
  <2>1. grants[g].hold > 0 /\ g \in OrderGrants /\ grants[g].status \in {"active", "expired"}
    BY <1>8, RefundAssumption DEF HoldsAreRefunds
  <2>2. HeldFor(g, r) > 0 /\ g \in RefundableGrants(r)
    BY <1>8, <2>1 DEF HeldFor, RefundableGrants
  <2>3. Held(r) > 0
    BY <1>6, <2>2, NothingHeld
  <2>4. part[g] = HeldFor(g, r)
    BY <1>3, <1>4, <1>5, <2>2, <2>3, TakesItsHold
  <2> QED BY <2>2, <2>4
<1>9. Takes(r, request, part)
  <2> HIDE DEF offer
  <2> QED BY <1>1, <1>2, <1>4, <1>5, <1>7, <1>8 DEF Takes
<1> QED BY <1>9

(* What a refund writes on each grant.                                     *)
LEMMA TakenGrants ==
    ASSUME TypeOK, FrozenIsBacked, NEW r, NEW request, NEW part, Takes(r, request, part),
           NEW g \in GrantIds
    PROVE  /\ part[g] \in Nat /\ grants[g] \in Grant /\ grants'[g] \in Grant
           /\ part[g] = 0 => grants'[g] = grants[g] /\ freeze'[g] = freeze[g]
           /\ part[g] > 0 =>
                /\ g \in OrderGrants /\ grants[g].status \in {"active", "expired"}
                /\ grants'[g].hold = 0 /\ freeze'[g] = NoFreeze
                /\ freeze[g].trade = r \/ grants[g].hold = 0
                /\ grants'[g].status \in {grants[g].status, "refunded"}
           /\ grants'[g].frozen + grants[g].hold = grants[g].frozen + grants'[g].hold
           /\ grants'[g].available + grants'[g].frozen + part[g] =
                    grants[g].available + grants[g].frozen
           /\ grants'[g].consumed = grants[g].consumed
           /\ grants'[g].total = grants[g].total
<1>1. grants[g] \in Grant /\ part[g] \in Nat
  BY DEF TypeOK, Takes
<1>2. /\ grants[g].hold \in Nat /\ grants[g].frozen \in Nat /\ grants[g].available \in Nat
      /\ grants[g].hold <= grants[g].frozen
  BY <1>1, HoldIsFrozen DEF Grant
<1>3. CASE part[g] = 0
  <2>1. grants'[g] = grants[g] /\ freeze'[g] = freeze[g]
    BY <1>3 DEF Takes
  <2> QED BY <1>1, <1>2, <1>3, <2>1
<1>4. CASE part[g] # 0
  <2> DEFINE uses == Held(r) > 0
             a == IF uses THEN grants[g].available ELSE grants[g].available - part[g]
             f == IF uses THEN grants[g].frozen - part[g] ELSE grants[g].frozen
             closed == grants[g].status # "expired" /\ (EndsOrder(request) \/ (a = 0 /\ f = 0))
             state == IF closed THEN "refunded" ELSE grants[g].status
  <2>0. part[g] > 0
    BY <1>1, <1>4
  <2>1. /\ g \in OrderGrants /\ grants[g].status \in {"active", "expired"}
        /\ IF uses THEN part[g] = grants[g].hold /\ freeze[g].trade = r
           ELSE part[g] <= grants[g].available /\ grants[g].hold = 0
    BY <2>0 DEF Takes
  <2>2. grants'[g] = [grants[g] EXCEPT !.available = a, !.frozen = f, !.hold = 0,
                                       !.status = state]
    BY <1>4 DEF Takes, RefundedGrant
  <2>3. freeze'[g] = NoFreeze
    BY <1>4 DEF Takes
  <2>4. /\ a \in Nat /\ f \in Nat
        /\ f + grants[g].hold = grants[g].frozen
        /\ a + f + part[g] = grants[g].available + grants[g].frozen
        /\ freeze[g].trade = r \/ grants[g].hold = 0
    BY <1>1, <1>2, <2>1
  <2>5. state \in GrantStatuses /\ state \in {grants[g].status, "refunded"}
    BY <2>1 DEF GrantStatuses
  <2>6. GrantWith(grants'[g], grants[g], a, f, 0, state)
    <3> HIDE DEF a, f, state
    <3>1. 0 \in Nat
      OBVIOUS
    <3>2. GrantWith([grants[g] EXCEPT !.available = a, !.frozen = f, !.hold = 0,
                                      !.status = state], grants[g], a, f, 0, state)
      BY <1>1, <2>4, <2>5, <3>1, GrantTaken
    <3> QED BY <2>2, <3>2
  <2> HIDE DEF a, f, state, uses, closed
  <2>7. /\ grants'[g] \in Grant /\ grants'[g].available = a /\ grants'[g].frozen = f
        /\ grants'[g].hold = 0 /\ grants'[g].status = state
        /\ grants'[g].total = grants[g].total /\ grants'[g].consumed = grants[g].consumed
    BY <2>6 DEF GrantWith
  <2> QED BY <1>1, <1>2, <2>0, <2>1, <2>3, <2>4, <2>5, <2>7
<1> QED BY <1>3, <1>4

-----------------------------------------------------------------------------
(* The steps of a refund *)

Request == [step: Steps, trade: {NoTrade} \cup RefundTrades, request: {Rest} \cup Requests,
            status: OrderStatuses, refunded: 0 .. OrderAmount]

(* A request in progress is about a refund, and what it read of the order  *)
(* was refunded before.                                                    *)
RequestsAreReal ==
    \A a \in Admins : /\ admin[a] \in Request
                      /\ admin[a].step # "idle" => admin[a].trade \in RefundTrades
                      /\ admin[a].refunded <= order.amount

(* A step that writes at most the note of the order's last refund.         *)
Notes ==
    /\ UNCHANGED <<vars, freeze>>
    /\ order' = order \/ \E r \in RefundTrades : order' = [order EXCEPT !.last = r]

FreezeStep(r, request, part) ==
    /\ Freezes(r, request, part)
    /\ UNCHANGED <<allocs, ledger, redeemed, now, forfeited, order>>
ReleaseStep(r) ==
    /\ \E a \in Admins : admin[a].step \in {"release", "withdraw"} /\ admin[a].trade = r
    /\ ReleaseRefund(r)
    /\ UNCHANGED <<allocs, ledger, redeemed, now, forfeited, order>>
TakeStep(r, request, part) ==
    /\ Takes(r, request, part)
    /\ UNCHANGED <<allocs, redeemed, now, forfeited>>
WalletOnly == [Next]_vars /\ UNCHANGED refundVars

Asked == Requests \cup {Rest}

RefundEffects ==
    \/ WalletOnly
    \/ Notes
    \/ \E r \in RefundTrades, request \in Asked : \E part : FreezeStep(r, request, part)
    \/ \E r \in RefundTrades : ReleaseStep(r)
    \/ \E r \in RefundTrades, request \in Asked : \E part : TakeStep(r, request, part)

(* A booking is one of the effects of a refund.                            *)
LEMMA BookEffects ==
    ASSUME TypeOK, FrozenIsBacked, HoldsAreRefunds, NEW r \in RefundTrades, NEW request \in Asked,
           \/ RefundOrder(r, request)
           \/ UNCHANGED <<grants, freeze, order, ledger>>,
           UNCHANGED <<allocs, redeemed, now, forfeited>>
    PROVE  RefundEffects
<1>1. CASE UNCHANGED <<grants, freeze, order, ledger>>
  BY <1>1 DEF RefundEffects, Notes, vars
<1>2. ASSUME NEW part, Takes(r, request, part) PROVE RefundEffects
  BY <1>2 DEF RefundEffects, TakeStep
<1> QED BY <1>1, <1>2, RefundOrderIs

(* Every step has one of the effects of a refund.                          *)
LEMMA RefundSteps ==
    ASSUME TypeOK, FrozenIsBacked, HoldsAreRefunds, RequestsAreReal, [RefundNext]_allVars
    PROVE  RefundEffects
<1>1. CASE WalletStep
  BY <1>1, WalletStepIsNext DEF RefundEffects, WalletOnly
<1>2. CASE UNCHANGED allVars
  BY <1>2 DEF RefundEffects, Notes, allVars, vars
<1>3. ASSUME NEW a \in Admins, admin[a].step # "idle"
      PROVE  admin[a].trade \in RefundTrades /\ admin[a].request \in Asked
  BY <1>3 DEF RequestsAreReal, Request, Asked
<1>4. ASSUME NEW a \in Admins, NEW r \in RefundTrades, NEW request \in Requests,
             Start(a, r, request)
      PROVE  RefundEffects
  BY <1>4 DEF Start, RefundEffects, Notes, vars
<1>5. ASSUME NEW a \in Admins,
             Check(a) \/ Record(a) \/ Abandon(a)
      PROVE  RefundEffects
  BY <1>5 DEF Check, Record, Abandon, RefundEffects, Notes, vars
<1>6. ASSUME NEW a \in Admins, Settle(a) PROVE RefundEffects
  <2>1. admin[a].trade \in RefundTrades /\ admin[a].request \in Asked
    BY <1>3, <1>6 DEF Settle, At
  <2>2. /\ \/ RefundOrder(admin[a].trade, admin[a].request)
           \/ UNCHANGED <<grants, freeze, order, ledger>>
        /\ UNCHANGED <<allocs, redeemed, now, forfeited>>
    BY <1>6 DEF Settle
  <2> QED BY <2>1, <2>2, BookEffects
<1>7. ASSUME NEW a \in Admins, Freeze(a) PROVE RefundEffects
  <2>1. admin[a].trade \in RefundTrades /\ admin[a].request \in Asked
    BY <1>3, <1>7 DEF Freeze, At
  <2>2. /\ FreezeRefund(admin[a].trade, admin[a].request) \/ UNCHANGED <<grants, freeze>>
        /\ UNCHANGED <<allocs, ledger, redeemed, now, forfeited, order>>
    BY <1>7 DEF Freeze
  <2>3. CASE UNCHANGED <<grants, freeze>>
    BY <2>2, <2>3 DEF RefundEffects, Notes, vars
  <2>4. ASSUME NEW part, Freezes(admin[a].trade, admin[a].request, part) PROVE RefundEffects
    <3>1. FreezeStep(admin[a].trade, admin[a].request, part)
      BY <2>2, <2>4 DEF FreezeStep
    <3> QED BY <2>1, <3>1 DEF RefundEffects
  <2> QED BY <2>1, <2>2, <2>3, <2>4, FreezeRefundIs
<1>8. ASSUME NEW a \in Admins, Call(a) PROVE RefundEffects
  <2>1. admin[a].trade \in RefundTrades
    BY <1>3, <1>8 DEF Call, At
  <2>2. order' = order \/ order' = [order EXCEPT !.last = admin[a].trade]
    BY <1>8 DEF Call, Answered, Noted, NotAsked
  <2>3. UNCHANGED <<vars, freeze>>
    BY <1>8 DEF Call, vars
  <2> QED BY <2>1, <2>2, <2>3 DEF RefundEffects, Notes
<1>9. ASSUME NEW a \in Admins, Release(a) PROVE RefundEffects
  <2>1. admin[a].trade \in RefundTrades
    BY <1>3, <1>9 DEF Release, At
  <2>2. ReleaseStep(admin[a].trade)
    BY <1>9 DEF Release, ReleaseStep, At
  <2> QED BY <2>1, <2>2 DEF RefundEffects
<1>10. ASSUME NEW a \in Admins, Finish(a) PROVE RefundEffects
  <2>1. admin[a].trade \in RefundTrades /\ admin[a].request \in Asked
    BY <1>3, <1>10 DEF Finish, At
  <2>2. /\ \/ RefundOrder(admin[a].trade, admin[a].request)
           \/ UNCHANGED <<grants, freeze, order, ledger>>
        /\ UNCHANGED <<allocs, redeemed, now, forfeited>>
    BY <1>10 DEF Finish
  <2> QED BY <2>1, <2>2, BookEffects
<1>11. ASSUME NEW r \in RefundTrades, ChannelSettles(r) PROVE RefundEffects
  BY <1>11 DEF ChannelSettles, RefundEffects, Notes, vars
<1>12. ASSUME NEW r \in RefundTrades, Retry(r) PROVE RefundEffects
  <2>1. /\ RefundOrder(r, Rest) /\ UNCHANGED <<allocs, redeemed, now, forfeited>>
    BY <1>12 DEF Retry, RetryRequest
  <2>2. Rest \in Asked
    BY DEF Asked
  <2> QED BY <2>1, <2>2, BookEffects
<1> QED
  BY <1>1, <1>2, <1>4, <1>5, <1>6, <1>7, <1>8, <1>9, <1>10, <1>11, <1>12
  DEF RefundNext, RefundStep

-----------------------------------------------------------------------------
(* The wallet stays backed *)

(* Steps that write no row of a task leave its cycles as they are.         *)
LEMMA QuietKeepsCycles ==
    ASSUME CycleInv, TypeOK', allocs' = allocs, ledger \subseteq ledger', OldTaskRows
    PROVE  CycleInv'
<1>1. Quiet
  BY OtherRows DEF Quiet
<1>2. \A t \in Tasks : OpenCycles(t)' = OpenCycles(t)
  BY <1>1 DEF Quiet, OpenCycles
<1> QED
  BY <1>1, <1>2
  DEF Quiet, CycleInv, SettledWereReserved, OneOpenCycle, AllocationsFollowCycles

(* What the steps of a refund do to each grant.                            *)
RefundedGrantStep(g) ==
    /\ grants'[g] \in Grant
    /\ grants'[g].frozen + grants[g].hold = grants[g].frozen + grants'[g].hold
    /\ g \in OrderGrants \/ grants'[g] = grants[g]
    /\ grants'[g].status \in {grants[g].status, "expired", "refunded"}

(* Steps of a refund keep the invariants of the grants.                    *)
LEMMA RefundedGrantsKept ==
    ASSUME CycleInv, FreeIsEmpty, FrozenIsBacked, OrderGrantsStay, TypeOK', allocs' = allocs,
           ledger \subseteq ledger', OldTaskRows,
           \A g \in GrantIds : RefundedGrantStep(g)
    PROVE  CycleInv' /\ FreeIsEmpty' /\ FrozenIsBacked' /\ OrderGrantsStay'
<1>0. TypeOK
  BY DEF CycleInv
<1>1. FrozenIsBacked'
  <2> SUFFICES ASSUME NEW g \in GrantIds
               PROVE  grants'[g].frozen = grants'[g].hold + Covered(g)'
    BY FrozenIsCoveredNext
  <2>1. Covered(g)' = Covered(g)
    BY DEF Covered, Covers, Cover, Sum
  <2>2. /\ grants[g].frozen = grants[g].hold + Covered(g) /\ Covered(g) \in Nat
        /\ grants[g].frozen \in Nat /\ grants[g].hold \in Nat
    BY <1>0, FrozenIsCovered, CoveredType DEF TypeOK, Grant
  <2>3. /\ grants'[g].frozen \in Nat /\ grants'[g].hold \in Nat
        /\ grants'[g].frozen + grants[g].hold = grants[g].frozen + grants'[g].hold
    BY DEF RefundedGrantStep, Grant
  <2> QED BY <2>1, <2>2, <2>3
<1>2. FreeIsEmpty'
  <2> SUFFICES ASSUME NEW g \in GrantIds, grants'[g].status = "none"
               PROVE  /\ grants'[g].available = 0 /\ grants'[g].frozen = 0
                      /\ grants'[g].consumed = 0 /\ grants'[g].hold = 0
    BY DEF FreeIsEmpty
  <2>1. grants[g].status = "none" /\ g \notin OrderGrants
    BY DEF RefundedGrantStep, OrderGrantsStay
  <2>2. grants'[g] = grants[g]
    BY <2>1 DEF RefundedGrantStep
  <2> QED BY <2>1, <2>2 DEF FreeIsEmpty
<1>3. OrderGrantsStay'
  <2> SUFFICES ASSUME NEW g \in OrderGrants PROVE grants'[g].status # "none"
    BY DEF OrderGrantsStay
  <2>1. g \in GrantIds
    BY OrderGrantsFinite
  <2> QED BY <2>1 DEF OrderGrantsStay, RefundedGrantStep
<1> QED BY <1>1, <1>2, <1>3, QuietKeepsCycles

(* The rows of a refund: one for each grant it takes from.                 *)
TakenFrom(part) == {g \in GrantIds : part[g] > 0}
TakenRows(r, part) == {NewRow("payment_refund", g, r, -part[g]) : g \in TakenFrom(part)}
RowsAbout(rows, g) == {w \in rows : w.kind = "payment_refund" /\ w.ref = g}

(* The rows of a refund carry the points it takes.                         *)
LEMMA TakenRowsAre ==
    ASSUME NEW r \in Nat, NEW part \in [GrantIds -> Nat]
    PROVE  /\ TakenRows(r, part) \subseteq Row /\ IsFiniteSet(TakenRows(r, part))
           /\ TotalRows(TakenRows(r, part)) + Total(part) = 0
           /\ TotalRows(TakenRows(r, part)) \in Int
           /\ \A w \in TakenRows(r, part) : w.kind = "payment_refund" /\ w.cycle = r
           /\ \A g \in GrantIds : /\ TotalRows(RowsAbout(TakenRows(r, part), g)) + part[g] = 0
                                  /\ TotalRows(RowsAbout(TakenRows(r, part), g)) \in Int
<1> DEFINE G == TakenFrom(part)
           p == [g \in GrantIds |-> -part[g]]
           q == [g \in GrantIds |-> IF g \in G THEN p[g] ELSE 0]
           zero == [g \in GrantIds |-> 0]
           Of(g) == NewRow("payment_refund", g, r, p[g])
           rows == TakenRows(r, part)
<1>1. G \in SUBSET GrantIds /\ "payment_refund" \in RowKinds
  BY DEF RowKinds, TakenFrom
<1>2. \A g \in GrantIds : part[g] \in Nat /\ p[g] \in Int /\ p[g] + part[g] = 0
  OBVIOUS
<1>3. \A g \in GrantIds : g \notin G => part[g] = 0
  BY DEF TakenFrom
<1>4. rows = {Of(g) : g \in G}
  BY <1>1 DEF TakenRows
<1>5. AddsUp(zero, q, part, GrantIds)
  BY <1>1, <1>2, <1>3 DEF AddsUp
<1>6. ZeroOutside(q, p, G, GrantIds)
  BY <1>1, <1>2 DEF ZeroOutside
<1>7. \A g \in GrantIds : zero[g] = 0
  OBVIOUS
<1>8. \A g \in GrantIds : /\ Of(g).kind = "payment_refund" /\ Of(g).ref = g
                         /\ Of(g).cycle = r /\ Of(g).points = p[g]
  BY DEF NewRow
<1>9. {Of(g) : g \in G} \subseteq Row /\ IsFiniteSet({Of(g) : g \in G})
      /\ TotalRows({Of(g) : g \in G}) = Sum(p, G)
  <2> HIDE DEF p, G
  <2>1. \A g \in G : p[g] \in Int
    BY <1>1, <1>2
  <2> QED BY <1>1, <2>1, RowsOfGrants
<1> HIDE DEF G, p, q, zero, rows, Of
<1>10. rows \subseteq Row /\ IsFiniteSet(rows) /\ TotalRows(rows) = Sum(p, G)
  BY <1>4, <1>9
<1>11. \A w \in rows : w.kind = "payment_refund" /\ w.cycle = r
  BY <1>1, <1>4, <1>8
<1>12. /\ Total(q) \in Int /\ Total(part) \in Int /\ Total(zero) = Total(q) + Total(part)
       /\ Total(q) = Sum(p, G)
  BY <1>5, <1>6, TotalPlus, TotalPart
<1>13. Total(zero) = 0
  BY <1>7, SumZero, GrantsFinite, TotalIsSum
<1>14. TotalRows(rows) + Total(part) = 0 /\ TotalRows(rows) \in Int
  BY <1>10, <1>12, <1>13
<1>15. ASSUME NEW g \in GrantIds
       PROVE  /\ TotalRows(RowsAbout(rows, g)) + part[g] = 0
              /\ TotalRows(RowsAbout(rows, g)) \in Int
  <2>1. CASE g \in G
    <3>1. RowsAbout(rows, g) = {Of(g)}
      BY <1>1, <1>4, <1>8, <2>1 DEF RowsAbout
    <3>2. Of(g) \in Row /\ Of(g).points = p[g]
      BY <1>8, <1>9, <2>1
    <3>3. TotalRows({Of(g)}) = p[g]
      BY <3>2, OneRowTotal
    <3> QED BY <1>2, <3>1, <3>3
  <2>2. CASE g \notin G
    <3>1. RowsAbout(rows, g) = {}
      BY <1>1, <1>4, <1>8, <2>2 DEF RowsAbout
    <3>2. part[g] = 0
      BY <1>3, <2>2
    <3> QED BY <3>1, <3>2, NoRowsTotal
  <2> QED BY <2>1, <2>2
<1> QED BY <1>10, <1>11, <1>14, <1>15 DEF rows

(* A refund adds its rows to the ledger.                                   *)
LEMMA TakenLedger ==
    ASSUME NEW r, NEW request, NEW part, Takes(r, request, part)
    PROVE  /\ r \in RefundTrades /\ r \in Nat /\ part \in [GrantIds -> Nat]
           /\ ledger' = ledger \cup TakenRows(r, part)
BY RefundAssumption DEF Takes, TakenRows, TakenFrom

(* The wallet's invariants, kept while refunds are made.                   *)
BackedInv ==
    /\ CycleInv /\ FreeIsEmpty /\ FrozenIsBacked /\ IsFiniteSet(ledger)
    /\ OrderGrantsStay

(* Every step keeps the wallet's invariants while refunds are made.        *)
LEMMA BackedNext ==
    ASSUME BackedInv, HoldsAreRefunds, RefundEffects
    PROVE  BackedInv'
<1>0. /\ TypeOK /\ CycleInv /\ FreeIsEmpty /\ FrozenIsBacked /\ IsFiniteSet(ledger)
      /\ OrderGrantsStay /\ AllocationsFollowCycles
  BY DEF BackedInv, CycleInv
<1>1. CASE WalletOnly
  <2>1. [Next]_vars
    BY <1>1 DEF WalletOnly
  <2>2. CycleInv' /\ FreeIsEmpty' /\ FrozenIsBacked' /\ IsFiniteSet(ledger)'
    BY <1>0, <2>1, CycleInvNext, FreeIsEmptyNext, FrozenNext, LedgerFinite
  <2>3. OrderGrantsStay'
    <3> SUFFICES ASSUME NEW g \in OrderGrants PROVE grants'[g].status # "none"
      BY DEF OrderGrantsStay
    <3>1. g \in GrantIds
      BY OrderGrantsFinite
    <3> QED BY <1>0, <2>1, <3>1, HoldNext DEF OrderGrantsStay
  <2> QED BY <2>2, <2>3 DEF BackedInv
<1>2. CASE Notes
  <2>1. [Next]_vars /\ UNCHANGED vars
    BY <1>2 DEF Notes
  <2>2. CycleInv' /\ FreeIsEmpty' /\ FrozenIsBacked' /\ IsFiniteSet(ledger)'
    BY <1>0, <2>1, CycleInvNext, FreeIsEmptyNext, FrozenNext, LedgerFinite
  <2> QED BY <1>0, <2>1, <2>2 DEF BackedInv, OrderGrantsStay, vars
<1>3. ASSUME NEW r \in RefundTrades, NEW request \in Asked, NEW part, FreezeStep(r, request, part)
      PROVE  BackedInv'
  <2>1. Freezes(r, request, part) /\ UNCHANGED <<allocs, ledger, redeemed, now, forfeited, order>>
    BY <1>3 DEF FreezeStep
  <2>2. ASSUME NEW g \in GrantIds PROVE RefundedGrantStep(g)
    <3>1. /\ part[g] \in Nat /\ grants[g] \in Grant /\ grants'[g] \in Grant
          /\ grants'[g].frozen = grants[g].frozen + part[g]
          /\ grants'[g].hold = grants[g].hold + part[g]
          /\ grants'[g].status = grants[g].status
      BY <1>0, <2>1, FrozenGrants
    <3>2. grants[g].frozen \in Nat /\ grants[g].hold \in Nat
      BY <3>1 DEF Grant
    <3>3. CASE part[g] = 0
      <4>1. grants'[g] = grants[g]
        BY <2>1, <3>3 DEF Freezes
      <4> QED BY <3>1, <3>2, <3>3, <4>1 DEF RefundedGrantStep
    <3>4. CASE part[g] # 0
      <4>1. part[g] > 0
        BY <3>1, <3>4
      <4>2. g \in OrderGrants
        BY <2>1, <4>1 DEF Freezes
      <4> QED BY <3>1, <3>2, <4>2 DEF RefundedGrantStep
    <3> QED BY <3>3, <3>4
  <2>3. grants' \in [GrantIds -> Grant]
    BY <2>1, <2>2 DEF Freezes, RefundedGrantStep
  <2>4. TypeOK' /\ OldTaskRows /\ ledger \subseteq ledger'
    BY <1>0, <2>1, <2>3 DEF TypeOK, OldTaskRows
  <2> QED BY <1>0, <2>1, <2>2, <2>4, RefundedGrantsKept DEF BackedInv
<1>4. ASSUME NEW r \in RefundTrades, ReleaseStep(r) PROVE BackedInv'
  <2>1. ReleaseRefund(r) /\ UNCHANGED <<allocs, ledger, redeemed, now, forfeited, order>>
    BY <1>4 DEF ReleaseStep
  <2>2. ASSUME NEW g \in GrantIds PROVE RefundedGrantStep(g)
    <3>1. /\ grants'[g] \in Grant /\ grants[g] \in Grant
          /\ g \notin Freed(r) => grants'[g] = grants[g]
          /\ g \in Freed(r) => /\ g \in OrderGrants /\ grants'[g].hold = 0
                               /\ grants'[g].frozen = grants[g].frozen - grants[g].hold
                               /\ grants'[g].status \in {grants[g].status, "expired"}
      BY <1>0, <2>1, ReleasedGrants
    <3>2. grants[g].frozen \in Nat /\ grants[g].hold \in Nat
      BY <3>1 DEF Grant
    <3> QED BY <3>1, <3>2 DEF RefundedGrantStep
  <2>3. grants' \in [GrantIds -> Grant]
    BY <2>1, <2>2 DEF ReleaseRefund, RefundedGrantStep
  <2>4. TypeOK' /\ OldTaskRows /\ ledger \subseteq ledger'
    BY <1>0, <2>1, <2>3 DEF TypeOK, OldTaskRows
  <2> QED BY <1>0, <2>1, <2>2, <2>4, RefundedGrantsKept DEF BackedInv
<1>5. ASSUME NEW r \in RefundTrades, NEW request \in Asked, NEW part, TakeStep(r, request, part)
      PROVE  BackedInv'
  <2>1. Takes(r, request, part) /\ UNCHANGED <<allocs, redeemed, now, forfeited>>
    BY <1>5 DEF TakeStep
  <2>2. ASSUME NEW g \in GrantIds PROVE RefundedGrantStep(g)
    <3>1. /\ part[g] \in Nat /\ grants'[g] \in Grant
          /\ grants'[g].frozen + grants[g].hold = grants[g].frozen + grants'[g].hold
          /\ part[g] = 0 => grants'[g] = grants[g]
          /\ part[g] > 0 => /\ g \in OrderGrants
                            /\ grants'[g].status \in {grants[g].status, "refunded"}
      BY <1>0, <2>1, TakenGrants
    <3> QED BY <3>1 DEF RefundedGrantStep
  <2>3. grants' \in [GrantIds -> Grant]
    BY <2>1, <2>2 DEF Takes, RefundedGrantStep
  <2>4. /\ ledger' = ledger \cup TakenRows(r, part)
        /\ TakenRows(r, part) \subseteq Row /\ IsFiniteSet(TakenRows(r, part))
        /\ \A w \in TakenRows(r, part) : w.kind = "payment_refund"
    BY <2>1, TakenLedger, TakenRowsAre
  <2>5. TypeOK' /\ OldTaskRows /\ ledger \subseteq ledger'
    BY <1>0, <2>1, <2>3, <2>4 DEF TypeOK, OldTaskRows, TaskRowKinds
  <2>6. IsFiniteSet(ledger')
    BY <1>0, <2>4, FS_Union
  <2> QED BY <1>0, <2>1, <2>2, <2>5, <2>6, RefundedGrantsKept DEF BackedInv
<1> QED BY <1>1, <1>2, <1>3, <1>4, <1>5 DEF RefundEffects

(* The order's row, and the refunds it records.                            *)
RecordType == [trade: RefundTrades, amount: 1 .. OrderAmount, points: 1 .. OrderPoints]
OrderType == [status: OrderStatuses, amount: 0 .. OrderAmount, points: 0 .. OrderPoints,
              last: {NoTrade} \cup RefundTrades, records: SUBSET RecordType]

(* A step keeps every hold with its freeze, for a refund not booked yet.   *)
HeldWell(g) ==
    /\ grants[g].hold > 0 <=> freeze[g].trade # NoTrade
    /\ grants[g].hold > 0 => /\ g \in OrderGrants
                             /\ grants[g].status \in {"active", "expired"}
                             /\ ~IsRecorded(freeze[g].trade)

(* Every step keeps HoldsAreRefunds.                                       *)
LEMMA HoldsNext ==
    ASSUME BackedInv, order \in OrderType, HoldsAreRefunds, RefundEffects
    PROVE  HoldsAreRefunds'
<1>0. TypeOK /\ FreeIsEmpty /\ FrozenIsBacked
  BY DEF BackedInv, CycleInv
<1> SUFFICES ASSUME NEW g \in GrantIds PROVE HeldWell(g)'
  BY DEF HoldsAreRefunds, HeldWell
<1>1. HeldWell(g)
  BY DEF HoldsAreRefunds, HeldWell
<1>2. grants[g].hold \in Nat
  BY <1>0 DEF TypeOK, Grant
<1>3. CASE WalletOnly
  <2>1. [Next]_vars /\ UNCHANGED <<freeze, order>>
    BY <1>3 DEF WalletOnly, refundVars
  <2>2. /\ grants'[g].hold = grants[g].hold
        /\ grants[g].status \in {"active", "expired"} =>
                    grants'[g].status \in {"active", "expired"}
    BY <1>0, <2>1, HoldNext
  <2> QED BY <1>1, <2>1, <2>2 DEF HeldWell, IsRecorded
<1>4. CASE Notes
  <2>1. UNCHANGED <<grants, freeze>>
    BY <1>4 DEF Notes, vars
  <2>2. order'.records = order.records
    BY <1>4 DEF Notes, OrderType
  <2> QED BY <1>1, <2>1, <2>2 DEF HeldWell, IsRecorded
<1>5. ASSUME NEW r \in RefundTrades, NEW request \in Asked, NEW part, FreezeStep(r, request, part)
      PROVE  HeldWell(g)'
  <2>1. Freezes(r, request, part) /\ UNCHANGED order
    BY <1>5 DEF FreezeStep
  <2>2. part[g] \in Nat
    BY <2>1 DEF Freezes
  <2>3. CASE part[g] = 0
    <3>1. grants'[g] = grants[g] /\ freeze'[g] = freeze[g]
      BY <2>1, <2>3 DEF Freezes
    <3> QED BY <1>1, <2>1, <3>1 DEF HeldWell, IsRecorded
  <2>4. CASE part[g] # 0
    <3>0. part[g] > 0
      BY <2>2, <2>4
    <3>1. g \in OrderGrants /\ grants[g].status = "active" /\ grants[g].hold = 0
      BY <2>1, <3>0 DEF Freezes
    <3>2. grants'[g].hold = grants[g].hold + part[g] /\ grants'[g].status = grants[g].status
      BY <1>0, <2>1, FrozenGrants
    <3>3. freeze'[g].trade = r /\ r # NoTrade
      BY <2>1, <2>4, RefundAssumption DEF Freezes
    <3>4. ~IsRecorded(r)
      BY <2>1 DEF Freezes, IsBooked
    <3>5. grants'[g].hold > 0
      BY <2>2, <3>0, <3>1, <3>2
    <3> QED BY <2>1, <3>1, <3>2, <3>3, <3>4, <3>5 DEF HeldWell, IsRecorded
  <2> QED BY <2>3, <2>4
<1>6. ASSUME NEW r \in RefundTrades, ReleaseStep(r) PROVE HeldWell(g)'
  <2>1. ReleaseRefund(r) /\ UNCHANGED order
    BY <1>6 DEF ReleaseStep
  <2>2. /\ g \notin Freed(r) => grants'[g] = grants[g] /\ freeze'[g] = freeze[g]
        /\ g \in Freed(r) => freeze'[g] = NoFreeze /\ grants'[g].hold = 0
    BY <1>0, <2>1, ReleasedGrants
  <2>3. NoFreeze.trade = NoTrade
    BY DEF NoFreeze
  <2> QED BY <1>1, <2>1, <2>2, <2>3 DEF HeldWell, IsRecorded
<1>7. ASSUME NEW r \in RefundTrades, NEW request \in Asked, NEW part, TakeStep(r, request, part)
      PROVE  HeldWell(g)'
  <2>1. Takes(r, request, part)
    BY <1>7 DEF TakeStep
  <2>2. /\ part[g] \in Nat
        /\ part[g] = 0 => grants'[g] = grants[g] /\ freeze'[g] = freeze[g]
        /\ part[g] > 0 => grants'[g].hold = 0 /\ freeze'[g] = NoFreeze
    BY <1>0, <2>1, TakenGrants
  <2>3. CASE part[g] = 0
    <3>1. freeze[g].trade # r
      BY <2>1, <2>3 DEF Takes
    <3>2. \A s : s # r => (IsRecorded(s)' <=> IsRecorded(s))
      BY <2>1 DEF Takes, IsRecorded
    <3> QED BY <1>1, <2>2, <2>3, <3>1, <3>2 DEF HeldWell
  <2>4. CASE part[g] > 0
    BY <2>2, <2>4 DEF HeldWell, NoFreeze
  <2> QED BY <2>2, <2>3, <2>4
<1> QED BY <1>3, <1>4, <1>5, <1>6, <1>7 DEF RefundEffects

-----------------------------------------------------------------------------
(* The points of the order *)

(* The refund rows about a grant are finitely many, with integer points.   *)
LEMMA RowsAboutType ==
    ASSUME TypeOK, IsFiniteSet(ledger), NEW g
    PROVE  /\ RowsAbout(ledger, g) \subseteq Row /\ IsFiniteSet(RowsAbout(ledger, g))
           /\ TotalRows(RowsAbout(ledger, g)) \in Int
<1>1. RowsAbout(ledger, g) \subseteq ledger
  BY DEF RowsAbout
<1>2. RowsAbout(ledger, g) \subseteq Row /\ IsFiniteSet(RowsAbout(ledger, g))
  BY <1>1, FS_Subset DEF TypeOK
<1> QED BY <1>2, TotalRowsIsSum

(* The same, as a formula that can be primed.                              *)
LEMMA RowsAboutTypeFact ==
    TypeOK /\ IsFiniteSet(ledger) => \A g : TotalRows(RowsAbout(ledger, g)) \in Int
BY RowsAboutType

(* The same in the next state.                                             *)
LEMMA RowsAboutTypeNext ==
    (TypeOK /\ IsFiniteSet(ledger) => \A g : TotalRows(RowsAbout(ledger, g)) \in Int)'
BY RowsAboutTypeFact, PTL

NoPointTwiceOf(g) ==
    grants[g].available + grants[g].frozen + grants[g].consumed
        - TotalRows(RowsAbout(ledger, g)) <= Opening[g].total

(* NoPointTwice, grant by grant.                                           *)
LEMMA NoPointTwiceIs ==
    /\ NoPointTwice <=> \A g \in OrderGrants : NoPointTwiceOf(g)
    /\ NoPointTwice' <=> \A g \in OrderGrants : NoPointTwiceOf(g)'
<1> DEFINE Stated(g) ==
        grants[g].available + grants[g].frozen + grants[g].consumed
            - TotalRows({w \in ledger : w.kind = "payment_refund" /\ w.ref = g})
        <= Opening[g].total
<1>1. \A g \in OrderGrants : Stated(g) <=> NoPointTwiceOf(g)
  BY Zenon DEF NoPointTwiceOf, RowsAbout
<1>2. \A g \in OrderGrants : Stated(g)' <=> NoPointTwiceOf(g)'
  BY Zenon DEF NoPointTwiceOf, RowsAbout
<1>3. NoPointTwice <=> \A g \in OrderGrants : Stated(g)
  BY Zenon DEF NoPointTwice
<1>4. NoPointTwice' <=> \A g \in OrderGrants : Stated(g)'
  BY Zenon DEF NoPointTwice
<1> HIDE DEF Stated
<1> QED BY <1>1, <1>2, <1>3, <1>4

(* The books of the order: what a refund records is what it writes.        *)
RefundRowsRecorded ==
    \A w \in ledger : w.kind = "payment_refund" => IsRecorded(w.cycle)

(* A refund writes its rows once: none of them is there before.            *)
LEMMA TakenRowsAreNew ==
    ASSUME RefundRowsRecorded, NEW r, NEW request, NEW part, Takes(r, request, part)
    PROVE  TakenRows(r, part) \cap ledger = {}
<1>1. ~IsRecorded(r)
  BY DEF Takes, IsBooked
<1>2. r \in Nat /\ part \in [GrantIds -> Nat]
  BY TakenLedger
<1>3. \A w \in TakenRows(r, part) : w.kind = "payment_refund" /\ w.cycle = r
  BY <1>2, TakenRowsAre
<1> QED BY <1>1, <1>3 DEF RefundRowsRecorded

(* Every step keeps NoPointTwice.                                          *)
LEMMA NoPointTwiceNext ==
    ASSUME BackedInv, HoldsAreRefunds, RefundRowsRecorded, NoPointTwice, RefundEffects,
           TypeOK', IsFiniteSet(ledger')
    PROVE  NoPointTwice'
<1>0. TypeOK /\ FreeIsEmpty /\ FrozenIsBacked /\ IsFiniteSet(ledger) /\ OrderGrantsStay
  BY DEF BackedInv, CycleInv
<1> SUFFICES ASSUME NEW g \in OrderGrants PROVE NoPointTwiceOf(g)'
  BY NoPointTwiceIs
<1>1. g \in GrantIds /\ Opening[g].total \in Nat
  BY OpeningGrants, OrderGrantsFinite
<1>3. TotalRows(RowsAbout(ledger, g)) \in Int /\ TotalRows(RowsAbout(ledger', g)) \in Int
  BY <1>0, RowsAboutType, RowsAboutTypeNext
<1>4. grants[g] \in Grant /\ grants'[g] \in Grant
  BY <1>1, <1>0 DEF TypeOK
<1>5. Holding(g) \in Nat /\ Holding(g)' \in Nat
  BY <1>4 DEF Grant, Holding
<1>2. /\ Holding(g) - TotalRows(RowsAbout(ledger, g)) <= Opening[g].total
      /\ Holding(g)' - TotalRows(RowsAbout(ledger', g)) <= Opening[g].total
            => NoPointTwiceOf(g)'
  <2>1. NoPointTwiceOf(g)
    BY NoPointTwiceIs
  <2>2. /\ grants[g].available \in Nat /\ grants[g].frozen \in Nat
        /\ grants[g].consumed \in Nat
        /\ grants'[g].available \in Nat /\ grants'[g].frozen \in Nat
        /\ grants'[g].consumed \in Nat
    BY <1>4 DEF Grant
  <2> QED BY <1>1, <1>3, <2>1, <2>2 DEF NoPointTwiceOf, Holding
<1>6. ASSUME Holding(g)' <= Holding(g), RowsAbout(ledger', g) = RowsAbout(ledger, g)
      PROVE  NoPointTwiceOf(g)'
  BY <1>1, <1>2, <1>3, <1>5, <1>6
<1>7. CASE WalletOnly
  <2>1. [Next]_vars
    BY <1>7 DEF WalletOnly
  <2>2. RowsAbout(ledger', g) = RowsAbout(ledger, g)
    BY <1>0, <2>1, RefundRowsNext DEF RefundRows, RowsAbout
  <2>3. grants[g].status # "none"
    BY <1>0 DEF OrderGrantsStay
  <2>4. Holding(g)' <= Holding(g)
    BY <1>0, <1>1, <2>1, <2>3, HoldingNext
  <2> QED BY <1>6, <2>2, <2>4
<1>8. CASE Notes
  <2>1. grants' = grants /\ ledger' = ledger
    BY <1>8 DEF Notes, vars
  <2>2. Holding(g)' = Holding(g)
    BY <2>1 DEF Holding
  <2> QED BY <1>5, <1>6, <2>1, <2>2
<1>9. ASSUME NEW r \in RefundTrades, NEW request \in Asked, NEW part, FreezeStep(r, request, part)
      PROVE  NoPointTwiceOf(g)'
  <2>1. Freezes(r, request, part) /\ ledger' = ledger
    BY <1>9 DEF FreezeStep
  <2>2. /\ part[g] \in Nat
        /\ grants'[g].available = grants[g].available - part[g]
        /\ grants'[g].frozen = grants[g].frozen + part[g]
        /\ grants'[g].consumed = grants[g].consumed
    BY <1>0, <1>1, <2>1, FrozenGrants
  <2>3. Holding(g)' = Holding(g)
    BY <1>4, <2>2 DEF Holding, Grant
  <2> QED BY <1>5, <1>6, <2>1, <2>3
<1>10. ASSUME NEW r \in RefundTrades, ReleaseStep(r) PROVE NoPointTwiceOf(g)'
  <2>1. ReleaseRefund(r) /\ ledger' = ledger
    BY <1>10 DEF ReleaseStep
  <2>2. /\ g \notin Freed(r) => grants'[g] = grants[g]
        /\ g \in Freed(r) =>
                /\ grants'[g].frozen = grants[g].frozen - grants[g].hold
                /\ grants'[g].available <= grants[g].available + grants[g].hold
                /\ grants'[g].consumed = grants[g].consumed
    BY <1>0, <1>1, <2>1, ReleasedGrants
  <2>3. CASE g \in Freed(r)
    <3>1. Holding(g)' <= Holding(g)
      BY <1>4, <2>2, <2>3 DEF Holding, Grant
    <3> QED BY <1>6, <2>1, <3>1
  <2>4. CASE g \notin Freed(r)
    <3>1. Holding(g)' = Holding(g)
      BY <2>2, <2>4 DEF Holding
    <3> QED BY <1>5, <1>6, <2>1, <3>1
  <2> QED BY <2>3, <2>4
<1>11. ASSUME NEW r \in RefundTrades, NEW request \in Asked, NEW part, TakeStep(r, request, part)
       PROVE  NoPointTwiceOf(g)'
  <2>1. Takes(r, request, part)
    BY <1>11 DEF TakeStep
  <2>2. /\ r \in Nat /\ part \in [GrantIds -> Nat]
        /\ ledger' = ledger \cup TakenRows(r, part)
    BY <2>1, TakenLedger
  <2>3. /\ part[g] \in Nat
        /\ grants'[g].available + grants'[g].frozen + part[g] =
                    grants[g].available + grants[g].frozen
        /\ grants'[g].consumed = grants[g].consumed
    BY <1>0, <1>1, <2>1, TakenGrants
  <2>4. Holding(g)' + part[g] = Holding(g)
    BY <1>4, <2>3 DEF Holding, Grant
  <2> DEFINE old == RowsAbout(ledger, g)
             new == RowsAbout(TakenRows(r, part), g)
  <2>5. /\ TakenRows(r, part) \subseteq Row /\ IsFiniteSet(TakenRows(r, part))
        /\ TotalRows(new) + part[g] = 0 /\ TotalRows(new) \in Int
    BY <1>1, <2>2, TakenRowsAre
  <2>6. new \subseteq TakenRows(r, part) /\ old \subseteq ledger
    BY DEF RowsAbout
  <2>7. new \subseteq Row /\ IsFiniteSet(new) /\ old \subseteq Row /\ IsFiniteSet(old)
    BY <1>0, <2>5, <2>6, FS_Subset, RowsAboutType
  <2>8. old \cap new = {}
    BY <2>1, <2>6, TakenRowsAreNew
  <2>9. RowsAbout(ledger', g) = old \cup new
    BY <2>2 DEF RowsAbout
  <2> HIDE DEF old, new
  <2>10. TotalRows(old \cup new) = TotalRows(old) + TotalRows(new)
    BY <2>7, <2>8, RowsTotalUnion
  <2>11. TotalRows(RowsAbout(ledger', g)) = TotalRows(RowsAbout(ledger, g)) - part[g]
    BY <1>3, <2>3, <2>5, <2>9, <2>10 DEF old
  <2> QED BY <1>1, <1>2, <1>3, <1>5, <2>3, <2>4, <2>11
<1> QED BY <1>7, <1>8, <1>9, <1>10, <1>11 DEF RefundEffects

-----------------------------------------------------------------------------
(* The books of the order *)

(* What a refund asks for, once it has a plan, is part of what is left.    *)
LEMMA PlanIs ==
    ASSUME order \in OrderType, NEW request \in Asked, HasPlan(request)
    PROVE  /\ AmountAsked(request) \in 1 .. OrderAmount
           /\ order.amount + AmountAsked(request) \in 0 .. OrderAmount
           /\ PointsAsked(request) \in 1 .. OrderPoints
           /\ order.points + PointsAsked(request) \in 0 .. OrderPoints
<1>1. /\ order.amount \in 0 .. OrderAmount /\ order.points \in 0 .. OrderPoints
      /\ OrderAmount \in Nat /\ OrderPoints \in Nat
  BY RefundAssumption, OrderPointsNat DEF OrderType
<1>2. /\ AmountLeft > 0 /\ AmountAsked(request) <= AmountLeft
      /\ PointsAsked(request) \in 1 .. PointsLeft
      /\ AmountLeft = OrderAmount - order.amount /\ PointsLeft = OrderPoints - order.points
  BY DEF HasPlan, AmountLeft, PointsLeft
<1>3. request \in Nat
  BY RefundAssumption DEF Asked, Rest
<1>4. AmountAsked(request) \in Nat /\ AmountAsked(request) > 0
  BY <1>1, <1>2, <1>3 DEF AmountAsked, Rest
<1> HIDE DEF HasPlan
<1> QED BY <1>1, <1>2, <1>4

RecordAmount == [x \in RecordType |-> x.amount]
RecordPoints == [x \in RecordType |-> x.points]
AmountsIn(R) == [x \in R |-> x.amount]
RefundedIn(R) == [x \in R |-> x.points]

(* The sums of the recorded refunds.                                       *)
LEMMA RecordSums ==
    ASSUME NEW R, R \subseteq RecordType, IsFiniteSet(R)
    PROVE  /\ SumFunction(AmountsIn(R)) = Sum(RecordAmount, R)
           /\ SumFunction(RefundedIn(R)) = Sum(RecordPoints, R)
<1>1. /\ SumFunction(AmountsIn(R)) = Sum(AmountsIn(R), DOMAIN AmountsIn(R))
      /\ SumFunction(RefundedIn(R)) = Sum(RefundedIn(R), DOMAIN RefundedIn(R))
  BY SumFunctionIsSum
<1>2. DOMAIN AmountsIn(R) = R /\ DOMAIN RefundedIn(R) = R
  BY DEF AmountsIn, RefundedIn
<1>3. \A x \in R : AmountsIn(R)[x] = RecordAmount[x] /\ RefundedIn(R)[x] = RecordPoints[x]
  BY DEF AmountsIn, RefundedIn, RecordAmount, RecordPoints
<1>4. /\ Sum(AmountsIn(R), R) = Sum(RecordAmount, R)
      /\ Sum(RefundedIn(R), R) = Sum(RecordPoints, R)
  BY <1>3, SumSame
<1> QED BY <1>1, <1>2, <1>4

(* One more record adds its amount and its points.                         *)
LEMMA RecordAdded ==
    ASSUME NEW R, R \subseteq RecordType, IsFiniteSet(R), NEW x \in RecordType, x \notin R
    PROVE  /\ SumFunction(AmountsIn(R \cup {x})) = x.amount + SumFunction(AmountsIn(R))
           /\ SumFunction(RefundedIn(R \cup {x})) = x.points + SumFunction(RefundedIn(R))
<1>1. R \cup {x} \subseteq RecordType /\ IsFiniteSet(R \cup {x})
  BY FS_AddElement
<1>2. \A y \in R \cup {x} : RecordAmount[y] \in Int /\ RecordPoints[y] \in Int
  BY RefundAssumption, OrderPointsNat DEF RecordType, RecordAmount, RecordPoints
<1>3. RecordAmount[x] = x.amount /\ RecordPoints[x] = x.points
  BY DEF RecordAmount, RecordPoints
<1>4. /\ Sum(RecordAmount, R \cup {x}) = RecordAmount[x] + Sum(RecordAmount, R)
      /\ Sum(RecordPoints, R \cup {x}) = RecordPoints[x] + Sum(RecordPoints, R)
  BY <1>2, SumInsert
<1> QED BY <1>1, <1>3, <1>4, RecordSums

(* The rows that a refund of a trade wrote.                                *)
RowsFor(rows, s) == {w \in rows : w.kind = "payment_refund" /\ w.cycle = s}

(* RefundsAddUp in the names of this module.                               *)
LEMMA RefundsAddUpIs ==
    RefundsAddUp <=>
        /\ order.amount = SumFunction(AmountsIn(order.records))
        /\ order.points = SumFunction(RefundedIn(order.records))
        /\ \A x, y \in order.records : x.trade = y.trade => x = y
        /\ \A x \in order.records : x.points = -TotalRows(RowsFor(ledger, x.trade))
BY Zenon DEF RefundsAddUp, AmountsIn, RefundedIn, RowsFor

(* The same in the next state.                                             *)
LEMMA RefundsAddUpIsNext ==
    (RefundsAddUp <=>
        /\ order.amount = SumFunction(AmountsIn(order.records))
        /\ order.points = SumFunction(RefundedIn(order.records))
        /\ \A x, y \in order.records : x.trade = y.trade => x = y
        /\ \A x \in order.records : x.points = -TotalRows(RowsFor(ledger, x.trade)))'
BY RefundsAddUpIs, PTL

BooksInv ==
    order \in OrderType /\ IsFiniteSet(order.records) /\ RefundRowsRecorded /\ RefundsAddUp

(* A step that touches neither the totals nor the rows keeps the books.    *)
LEMMA BooksKept ==
    ASSUME BooksInv, order' \in OrderType, RefundRows' = RefundRows,
           order'.amount = order.amount, order'.points = order.points,
           order'.records = order.records
    PROVE  BooksInv'
<1>1. \A s : RowsFor(ledger', s) = RowsFor(ledger, s)
  BY DEF RowsFor, RefundRows
<1>2. RefundsAddUp'
  BY <1>1, RefundsAddUpIs, RefundsAddUpIsNext DEF BooksInv
<1>3. RefundRowsRecorded'
  BY DEF BooksInv, RefundRowsRecorded, RefundRows, IsRecorded
<1> QED BY <1>2, <1>3 DEF BooksInv

(* Every step keeps the books of the order.                                *)
LEMMA BooksNext ==
    ASSUME BackedInv, BooksInv, RefundEffects PROVE BooksInv'
<1>0. /\ TypeOK /\ FreeIsEmpty /\ FrozenIsBacked
      /\ order \in OrderType /\ IsFiniteSet(order.records) /\ RefundRowsRecorded /\ RefundsAddUp
  BY DEF BackedInv, CycleInv, BooksInv
<1>1. CASE WalletOnly
  <2>1. [Next]_vars /\ order' = order
    BY <1>1 DEF WalletOnly, refundVars
  <2> QED BY <1>0, <2>1, RefundRowsNext, BooksKept
<1>2. CASE Notes
  <2>1. ledger' = ledger
    BY <1>2 DEF Notes, vars
  <2>2. /\ order' \in OrderType /\ order'.amount = order.amount
        /\ order'.points = order.points /\ order'.records = order.records
    BY <1>0, <1>2 DEF Notes, OrderType
  <2> QED BY <2>1, <2>2, BooksKept DEF RefundRows
<1>3. ASSUME UNCHANGED <<order, ledger>> PROVE BooksInv'
  BY <1>0, <1>3, BooksKept DEF RefundRows
<1>4. ASSUME NEW r \in RefundTrades, NEW request \in Asked, NEW part, TakeStep(r, request, part)
      PROVE  BooksInv'
  <2> DEFINE new == [trade |-> r, amount |-> AmountAsked(request), points |-> PointsAsked(request)]
  <2>1. Takes(r, request, part)
    BY <1>4 DEF TakeStep
  <2>2. /\ r \in Nat /\ part \in [GrantIds -> Nat]
        /\ ledger' = ledger \cup TakenRows(r, part)
    BY <2>1, TakenLedger
  <2>3. HasPlan(request) /\ ~IsRecorded(r) /\ Total(part) = PointsAsked(request)
    BY <2>1 DEF Takes, IsBooked
  <2>4. /\ AmountAsked(request) \in 1 .. OrderAmount
        /\ order.amount + AmountAsked(request) \in 0 .. OrderAmount
        /\ PointsAsked(request) \in 1 .. OrderPoints
        /\ order.points + PointsAsked(request) \in 0 .. OrderPoints
    BY <1>0, <2>3, PlanIs
  <2>5. /\ order' = [status |-> IF EndsOrder(request) THEN "refunded" ELSE "partially_refunded",
                     amount |-> order.amount + AmountAsked(request),
                     points |-> order.points + PointsAsked(request),
                     last |-> r, records |-> order.records \cup {new}]
    BY <2>1 DEF Takes
  <2>6. new \in RecordType
    BY <2>4 DEF RecordType
  <2>7. order.records \subseteq RecordType
    BY <1>0 DEF OrderType
  <2>8. order' \in OrderType
    <3> HIDE DEF new
    <3> QED BY <2>4, <2>5, <2>6, <2>7 DEF OrderType, OrderStatuses
  <2>9. /\ order'.records = order.records \cup {new}
        /\ order'.amount = order.amount + new.amount
        /\ order'.points = order.points + new.points
        /\ new.trade = r /\ new.points = PointsAsked(request)
    BY <2>5
  <2>10. new \notin order.records
    BY <2>3 DEF IsRecorded
  <2> HIDE DEF new
  <2>11. IsFiniteSet(order'.records)
    BY <1>0, <2>9, FS_AddElement
  <2>12. \A w \in TakenRows(r, part) : w.kind = "payment_refund" /\ w.cycle = r
    BY <2>2, TakenRowsAre
  <2>13. RefundRowsRecorded'
    BY <1>0, <2>2, <2>9, <2>12 DEF RefundRowsRecorded, IsRecorded
  <2>14. /\ order.amount = SumFunction(AmountsIn(order.records))
         /\ order.points = SumFunction(RefundedIn(order.records))
         /\ \A x, y \in order.records : x.trade = y.trade => x = y
         /\ \A x \in order.records : x.points = -TotalRows(RowsFor(ledger, x.trade))
    BY <1>0, RefundsAddUpIs
  <2>15. /\ order.amount \in Int /\ order.points \in Int /\ new.amount \in Int /\ new.points \in Int
    BY <1>0, <2>6, RefundAssumption, OrderPointsNat DEF OrderType, RecordType
  <2>16. /\ SumFunction(AmountsIn(order.records \cup {new})) =
                new.amount + SumFunction(AmountsIn(order.records))
         /\ SumFunction(RefundedIn(order.records \cup {new})) =
                new.points + SumFunction(RefundedIn(order.records))
    BY <1>0, <2>6, <2>7, <2>10, RecordAdded
  <2>17. /\ order'.amount = SumFunction(AmountsIn(order'.records))
         /\ order'.points = SumFunction(RefundedIn(order'.records))
    BY <2>9, <2>14, <2>15, <2>16
  <2>18. \A x, y \in order'.records : x.trade = y.trade => x = y
    BY <2>3, <2>9, <2>14 DEF IsRecorded
  <2>19. ASSUME NEW x \in order'.records
         PROVE  x.points = -TotalRows(RowsFor(ledger', x.trade))
    <3>1. CASE x = new
      <4>1. RowsFor(ledger', r) = TakenRows(r, part)
        BY <1>0, <2>2, <2>3, <2>12 DEF RowsFor, RefundRowsRecorded
      <4>2. TotalRows(TakenRows(r, part)) + Total(part) = 0
            /\ TotalRows(TakenRows(r, part)) \in Int
        BY <2>2, TakenRowsAre
      <4> QED BY <2>3, <2>9, <2>15, <3>1, <4>1, <4>2
    <3>2. CASE x # new
      <4>1. x \in order.records /\ x.trade # r
        BY <2>3, <2>9, <3>2 DEF IsRecorded
      <4>2. RowsFor(ledger', x.trade) = RowsFor(ledger, x.trade)
        BY <2>2, <2>12, <4>1 DEF RowsFor
      <4> QED BY <2>14, <4>1, <4>2
    <3> QED BY <3>1, <3>2
  <2>20. RefundsAddUp'
    BY <2>17, <2>18, <2>19, RefundsAddUpIsNext
  <2> QED BY <2>8, <2>11, <2>13, <2>20 DEF BooksInv
<1> QED BY <1>1, <1>2, <1>3, <1>4 DEF RefundEffects, FreezeStep, ReleaseStep

-----------------------------------------------------------------------------
(* The requests in progress *)

(* A request that goes on keeps what it read.                              *)
LEMMA GotoIs ==
    ASSUME admin \in [Admins -> Request], NEW a \in Admins, NEW step \in Steps, Goto(a, step)
    PROVE  /\ admin' \in [Admins -> Request]
           /\ \A b \in Admins : b # a => admin'[b] = admin[b]
           /\ admin'[a].step = step /\ admin'[a].trade = admin[a].trade
           /\ admin'[a].request = admin[a].request
           /\ admin'[a].refunded = admin[a].refunded /\ admin'[a].status = admin[a].status
<1>1. admin' = [admin EXCEPT ![a] = [admin[a] EXCEPT !.step = step]]
  BY DEF Goto
<1>2. /\ [admin[a] EXCEPT !.step = step] \in Request
      /\ [admin[a] EXCEPT !.step = step].step = step
      /\ [admin[a] EXCEPT !.step = step].trade = admin[a].trade
      /\ [admin[a] EXCEPT !.step = step].request = admin[a].request
      /\ [admin[a] EXCEPT !.step = step].refunded = admin[a].refunded
      /\ [admin[a] EXCEPT !.step = step].status = admin[a].status
  BY DEF Request
<1>3. admin' \in [Admins -> Request]
  BY <1>1, <1>2
<1>4. admin'[a] = [admin[a] EXCEPT !.step = step]
  BY <1>1
<1> QED BY <1>1, <1>2, <1>3, <1>4

(* A request that ends is forgotten.                                       *)
LEMMA LeaveIs ==
    ASSUME admin \in [Admins -> Request], NEW a \in Admins, Leave(a)
    PROVE  /\ admin' \in [Admins -> Request]
           /\ \A b \in Admins : b # a => admin'[b] = admin[b]
           /\ admin'[a] = Idle
<1>1. Idle \in Request
  BY RefundAssumption DEF Idle, Request, Steps, OrderStatuses, Rest, NoTrade
<1> QED BY <1>1 DEF Leave

(* A request that starts keeps the row it read.                            *)
LEMMA StartIs ==
    ASSUME admin \in [Admins -> Request], order \in OrderType, NEW a \in Admins,
           NEW r \in RefundTrades, NEW request \in Requests, Start(a, r, request)
    PROVE  /\ admin' \in [Admins -> Request]
           /\ \A b \in Admins : b # a => admin'[b] = admin[b]
           /\ admin'[a].step = "check" /\ admin'[a].trade = r /\ admin'[a].refunded = order.amount
<1> DEFINE new == [step |-> "check", trade |-> r, request |-> request,
                   status |-> order.status, refunded |-> order.amount]
<1>1. new \in Request
  BY DEF Request, OrderType, Steps
<1>2. admin' = [admin EXCEPT ![a] = new]
  BY DEF Start
<1>3. new.step = "check" /\ new.trade = r /\ new.refunded = order.amount
  OBVIOUS
<1> HIDE DEF new
<1> QED BY <1>1, <1>2, <1>3

(* A booking never lowers what the order returned.                         *)
LEMMA AmountGrows ==
    ASSUME BooksInv, BooksInv', RefundEffects PROVE order.amount <= order'.amount
<1>1. order \in OrderType /\ order' \in OrderType
  BY DEF BooksInv
<1>2. order.amount \in Nat /\ order'.amount \in Nat
  BY <1>1, RefundAssumption DEF OrderType
<1>3. ASSUME NEW r \in RefundTrades, NEW request \in Asked, NEW part, TakeStep(r, request, part)
      PROVE  order.amount <= order'.amount
  <2>1. HasPlan(request) /\ order'.amount = order.amount + AmountAsked(request)
    BY <1>3 DEF TakeStep, Takes
  <2>2. AmountAsked(request) \in 1 .. OrderAmount
    BY <1>1, <2>1, PlanIs
  <2> QED BY <1>2, <2>1, <2>2, RefundAssumption
<1>4. CASE Notes
  BY <1>1, <1>2, <1>4 DEF Notes, OrderType
<1> QED
  BY <1>2, <1>3, <1>4 DEF RefundEffects, WalletOnly, FreezeStep, ReleaseStep, refundVars

(* What the channel made of each refund.                                   *)
ChannelType == [state: {"none", "pending", "succeeded", "failed"}, amount: 0 .. OrderAmount]

(* An answer of the channel says what became of the refund.                *)
LEMMA OutcomeIs ==
    ASSUME channel \in [RefundTrades -> ChannelType], NEW r \in RefundTrades, NEW amount,
           NEW outcome \in ChannelOutcomes(r, amount)
    PROVE  /\ outcome.state \in {"pending", "succeeded", "failed"}
           /\ IsRepeat(r) => outcome = channel[r]
           /\ ~IsRepeat(r) => /\ ~(Returned + amount > OrderAmount)
                              /\ outcome.amount = amount + (IF Channel = "easypay"
                                                            THEN channel[r].amount ELSE 0)
                              /\ Channel # "stripe" => outcome.state = "succeeded"
                              /\ outcome = [state |-> outcome.state, amount |-> outcome.amount]
<1>1. CASE IsRepeat(r)
  <2>1. outcome = channel[r] /\ channel[r].state # "none"
    BY <1>1 DEF ChannelOutcomes, IsRepeat
  <2>2. channel[r].state \in {"none", "pending", "succeeded", "failed"}
    BY DEF ChannelType
  <2> QED BY <1>1, <2>1, <2>2
<1>2. CASE ~IsRepeat(r)
  <2> DEFINE sum == amount + (IF Channel = "easypay" THEN channel[r].amount ELSE 0)
             states == IF Channel = "stripe" THEN {"pending", "succeeded", "failed"}
                       ELSE {"succeeded"}
  <2>1. /\ ~(Returned + amount > OrderAmount)
        /\ outcome \in {[state |-> s, amount |-> sum] : s \in states}
    BY <1>2 DEF ChannelOutcomes
  <2>2. states \subseteq {"pending", "succeeded", "failed"}
        /\ (Channel # "stripe" => states = {"succeeded"})
    OBVIOUS
  <2>3. PICK s \in states : outcome = [state |-> s, amount |-> sum]
    BY <2>1
  <2>4. outcome.state = s /\ outcome.amount = sum
    BY <2>3
  <2> HIDE DEF states
  <2>5. outcome.amount = amount + (IF Channel = "easypay" THEN channel[r].amount ELSE 0)
    BY <2>4
  <2> QED BY <1>2, <2>1, <2>2, <2>3, <2>4, <2>5
<1> QED BY <1>1, <1>2

Handler(a) ==
    \/ Check(a) \/ Settle(a) \/ Freeze(a) \/ Call(a) \/ Release(a)
    \/ Finish(a) \/ Record(a) \/ Abandon(a)

(* A call of the handler ends the request or takes it one step on.         *)
LEMMA HandlerMoves ==
    ASSUME RequestsAreReal, channel \in [RefundTrades -> ChannelType],
           NEW a \in Admins, Handler(a)
    PROVE  \/ Leave(a)
           \/ admin[a].step # "idle" /\ \E step \in Steps : Goto(a, step)
<1>1. CASE Check(a)
  BY <1>1 DEF Check, At, Steps
<1>2. CASE Freeze(a)
  BY <1>2 DEF Freeze, At, Steps
<1>3. CASE Call(a)
  <2>1. admin[a].step = "call" /\ {"finish", "release", "withdraw"} \subseteq Steps
    BY <1>3 DEF Call, At, Steps
  <2>2. admin[a].trade \in RefundTrades
    BY <2>1 DEF RequestsAreReal
  <2>3. /\ Unanswered(a) => Leave(a) \/ Goto(a, "release")
        /\ NotAsked(a) => Goto(a, "withdraw")
    BY DEF Unanswered, NotAsked
  <2>4. ASSUME NEW outcome \in ChannelOutcomes(admin[a].trade, AmountForChannel(a)),
               Answered(a, outcome)
        PROVE  Leave(a) \/ Goto(a, "release") \/ Goto(a, "withdraw") \/ Goto(a, "finish")
    <3>1. outcome.state \in {"pending", "succeeded", "failed"}
      BY <2>2, OutcomeIs
    <3> QED BY <2>4, <3>1 DEF Answered
  <2>5. Leave(a) \/ Goto(a, "release") \/ Goto(a, "withdraw") \/ Goto(a, "finish")
    BY <1>3, <2>3, <2>4 DEF Call
  <2> QED BY <2>1, <2>5
<1>4. CASE Finish(a)
  BY <1>4 DEF Finish, At, Steps
<1> QED BY <1>1, <1>2, <1>3, <1>4 DEF Handler, Settle, Release, Record, Abandon

(* Every step keeps RequestsAreReal.                                       *)
LEMMA RequestsNext ==
    ASSUME admin \in [Admins -> Request], RequestsAreReal,
           channel \in [RefundTrades -> ChannelType], BooksInv, BooksInv',
           RefundEffects, [RefundNext]_allVars
    PROVE  admin' \in [Admins -> Request] /\ RequestsAreReal'
<1>0. order \in OrderType /\ order' \in OrderType
  BY DEF BooksInv
<1>1. /\ order.amount <= order'.amount /\ order.amount \in 0 .. OrderAmount
      /\ order'.amount \in 0 .. OrderAmount /\ OrderAmount \in Nat
  BY <1>0, AmountGrows, RefundAssumption DEF OrderType
<1>2. CASE admin' = admin
  BY <1>1, <1>2 DEF RequestsAreReal, Request
<1>3. ASSUME NEW a \in Admins, NEW step \in Steps, admin[a].step # "idle", Goto(a, step)
      PROVE  admin' \in [Admins -> Request] /\ RequestsAreReal'
  <2>1. /\ admin' \in [Admins -> Request]
        /\ \A b \in Admins : b # a => admin'[b] = admin[b]
        /\ admin'[a].trade = admin[a].trade
        /\ admin'[a].refunded = admin[a].refunded
    BY <1>3, GotoIs
  <2> QED BY <1>1, <1>3, <2>1 DEF RequestsAreReal, Request
<1>4. ASSUME NEW a \in Admins, Leave(a)
      PROVE  admin' \in [Admins -> Request] /\ RequestsAreReal'
  <2>1. /\ admin' \in [Admins -> Request]
        /\ \A b \in Admins : b # a => admin'[b] = admin[b]
        /\ admin'[a] = Idle
    BY <1>4, LeaveIs
  <2>2. Idle.step = "idle" /\ Idle.refunded = 0
    BY DEF Idle
  <2> QED BY <1>1, <2>1, <2>2 DEF RequestsAreReal, Request
<1>5. ASSUME NEW a \in Admins, NEW r \in RefundTrades, NEW request \in Requests,
             Start(a, r, request)
      PROVE  admin' \in [Admins -> Request] /\ RequestsAreReal'
  <2>1. /\ admin' \in [Admins -> Request]
        /\ \A b \in Admins : b # a => admin'[b] = admin[b]
        /\ admin'[a].trade = r /\ admin'[a].refunded = order.amount
    BY <1>0, <1>5, StartIs
  <2> QED BY <1>1, <2>1 DEF RequestsAreReal, Request
<1>6. ASSUME NEW a \in Admins, Handler(a)
      PROVE  \/ Leave(a)
             \/ admin[a].step # "idle" /\ \E step \in Steps : Goto(a, step)
  BY <1>6, HandlerMoves
<1>7. ASSUME NEW r \in RefundTrades, ChannelSettles(r) \/ Retry(r) PROVE admin' = admin
  BY <1>7 DEF ChannelSettles, Retry
<1>8. CASE WalletStep \/ UNCHANGED allVars
  BY <1>2, <1>8 DEF WalletStep, refundVars, allVars
<1> QED BY <1>2, <1>3, <1>4, <1>5, <1>6, <1>7, <1>8 DEF RefundNext, RefundStep, Handler

-----------------------------------------------------------------------------
(* The payment channel *)

(* A refund the channel never saw has no amount, and easypay knows its     *)
(* outcome at once.                                                        *)
ChannelKeepsAmounts ==
    \A r \in RefundTrades :
        /\ channel[r].state = "none" => channel[r].amount = 0
        /\ Channel = "easypay" => channel[r].state \in {"none", "succeeded"}

ReturnedOf ==
    [r \in RefundTrades |->
        IF channel[r].state \in {"pending", "succeeded"} THEN channel[r].amount ELSE 0]

(* On easypay no refund has returned more than all of them.                *)
LEMMA ReturnedBound ==
    ASSUME channel \in [RefundTrades -> ChannelType], ChannelKeepsAmounts, NEW r \in RefundTrades
    PROVE  /\ Returned \in Nat
           /\ Channel = "easypay" => channel[r].amount <= Returned
<1>1. \A s \in RefundTrades : ReturnedOf[s] \in Nat
  BY RefundAssumption DEF ReturnedOf, ChannelType
<1>2. Returned = SumFunction(ReturnedOf) /\ DOMAIN ReturnedOf = RefundTrades
  BY DEF Returned, ReturnedOf
<1>3. Returned = Sum(ReturnedOf, RefundTrades)
  BY <1>2, SumFunctionIsSum
<1>4. IsFiniteSet(RefundTrades)
  BY RefundAssumption
<1>5. Returned \in Nat /\ ReturnedOf[r] <= Returned
  BY <1>1, <1>3, <1>4, SumNat, SumBound
<1>6. Channel = "easypay" => ReturnedOf[r] = channel[r].amount
  BY DEF ReturnedOf, ChannelKeepsAmounts
<1> QED BY <1>5, <1>6

(* The channel is asked for a natural amount.                              *)
LEMMA AmountForChannelType ==
    ASSUME admin \in [Admins -> Request], NEW a \in Admins PROVE AmountForChannel(a) \in Nat
<1>1. /\ admin[a].refunded \in 0 .. OrderAmount /\ admin[a].request \in Asked
      /\ OrderAmount \in Nat
  BY RefundAssumption DEF Request, Asked
<1>2. Asked \subseteq 0 .. OrderAmount
  BY <1>1, RefundAssumption DEF Asked, Rest
<1>3. admin[a].request \in 0 .. OrderAmount
  BY <1>1, <1>2
<1> QED BY <1>1, <1>3 DEF AmountForChannel, LeftAtStart

(* The answer of the channel is within what was paid.                      *)
LEMMA OutcomeType ==
    ASSUME channel \in [RefundTrades -> ChannelType], ChannelKeepsAmounts,
           NEW r \in RefundTrades, NEW amount \in Nat, NEW outcome \in ChannelOutcomes(r, amount)
    PROVE  /\ outcome \in ChannelType
           /\ Channel = "easypay" => outcome.state = "succeeded"
<1>1. /\ outcome.state \in {"pending", "succeeded", "failed"}
      /\ IsRepeat(r) => outcome = channel[r]
      /\ ~IsRepeat(r) => /\ ~(Returned + amount > OrderAmount)
                         /\ outcome.amount = amount + (IF Channel = "easypay"
                                                       THEN channel[r].amount ELSE 0)
                         /\ Channel # "stripe" => outcome.state = "succeeded"
                         /\ outcome = [state |-> outcome.state, amount |-> outcome.amount]
  BY OutcomeIs
<1>2. Returned \in Nat /\ (Channel = "easypay" => channel[r].amount <= Returned)
      /\ OrderAmount \in Nat
  BY ReturnedBound, RefundAssumption
<1>3. channel[r] \in ChannelType /\ channel[r].amount \in Nat
  BY RefundAssumption DEF ChannelType
<1>4. CASE IsRepeat(r)
  BY <1>1, <1>3, <1>4 DEF IsRepeat
<1>5. CASE ~IsRepeat(r)
  <2>1. outcome.amount \in 0 .. OrderAmount
    BY <1>1, <1>2, <1>3, <1>5
  <2> QED BY <1>1, <1>5, <2>1 DEF ChannelType
<1> QED BY <1>4, <1>5

(* What a step does to what the channel made of the refunds.               *)
ChannelSteps ==
    \/ channel' = channel
    \/ \E a \in Admins :
          /\ admin[a].step = "call" /\ admin[a].trade \in RefundTrades
          /\ \E outcome \in ChannelOutcomes(admin[a].trade, AmountForChannel(a)) :
                channel' = [channel EXCEPT ![admin[a].trade] = outcome]
    \/ \E r \in RefundTrades, s \in {"succeeded", "failed"} :
          channel[r].state = "pending" /\ channel' = [channel EXCEPT ![r].state = s]

(* Every step changes one refund of the channel at most.                   *)
LEMMA ChannelStepsAre ==
    ASSUME RequestsAreReal, [RefundNext]_allVars PROVE ChannelSteps
<1>1. CASE WalletStep \/ UNCHANGED allVars
  BY <1>1 DEF WalletStep, refundVars, allVars, ChannelSteps
<1>2. ASSUME NEW a \in Admins, NEW r \in RefundTrades, NEW request \in Requests,
             Start(a, r, request)
      PROVE  ChannelSteps
  BY <1>2 DEF Start, ChannelSteps
<1>3. ASSUME NEW a \in Admins,
             Check(a) \/ Settle(a) \/ Freeze(a) \/ Release(a)
                \/ Finish(a) \/ Record(a) \/ Abandon(a)
      PROVE  ChannelSteps
  BY <1>3 DEF Check, Settle, Freeze, Release, Finish, Record, Abandon, ChannelSteps
<1>4. ASSUME NEW a \in Admins, Call(a) PROVE ChannelSteps
  <2>1. admin[a].step = "call" /\ admin[a].trade \in RefundTrades
    BY <1>4 DEF Call, At, RequestsAreReal
  <2>2. \/ \E outcome \in ChannelOutcomes(admin[a].trade, AmountForChannel(a)) :
              channel' = [channel EXCEPT ![admin[a].trade] = outcome]
        \/ channel' = channel
    BY <1>4 DEF Call, NotAsked
  <2> QED BY <2>1, <2>2 DEF ChannelSteps
<1>5. ASSUME NEW r \in RefundTrades, ChannelSettles(r) PROVE ChannelSteps
  BY <1>5 DEF ChannelSettles, ChannelSteps
<1>6. ASSUME NEW r \in RefundTrades, Retry(r) PROVE ChannelSteps
  BY <1>6 DEF Retry, ChannelSteps
<1> QED BY <1>1, <1>2, <1>3, <1>4, <1>5, <1>6 DEF RefundNext, RefundStep

ChannelInv == channel \in [RefundTrades -> ChannelType] /\ ChannelKeepsAmounts

(* Every step keeps the channel's amounts.                                 *)
LEMMA ChannelNext ==
    ASSUME admin \in [Admins -> Request], ChannelInv, ChannelSteps PROVE ChannelInv'
<1>0. channel \in [RefundTrades -> ChannelType] /\ ChannelKeepsAmounts
  BY DEF ChannelInv
<1>1. CASE channel' = channel
  BY <1>0, <1>1 DEF ChannelInv, ChannelKeepsAmounts
<1>2. ASSUME NEW a \in Admins, admin[a].trade \in RefundTrades,
             NEW outcome \in ChannelOutcomes(admin[a].trade, AmountForChannel(a)),
             channel' = [channel EXCEPT ![admin[a].trade] = outcome]
      PROVE  ChannelInv'
  <2>1. /\ outcome \in ChannelType /\ outcome.state \in {"pending", "succeeded", "failed"}
        /\ Channel = "easypay" => outcome.state = "succeeded"
    BY <1>0, <1>2, AmountForChannelType, OutcomeType, OutcomeIs
  <2> QED BY <1>0, <1>2, <2>1 DEF ChannelInv, ChannelKeepsAmounts
<1>3. ASSUME NEW r \in RefundTrades, NEW s \in {"succeeded", "failed"},
             channel[r].state = "pending", channel' = [channel EXCEPT ![r].state = s]
      PROVE  ChannelInv'
  <2>1. [channel[r] EXCEPT !.state = s] \in ChannelType /\ [channel[r] EXCEPT !.state = s].state = s
    BY <1>0 DEF ChannelType
  <2>2. channel' = [channel EXCEPT ![r] = [channel[r] EXCEPT !.state = s]]
    BY <1>3
  <2>3. Channel # "easypay"
    BY <1>0, <1>3 DEF ChannelKeepsAmounts
  <2> QED BY <1>0, <2>1, <2>2, <2>3 DEF ChannelInv, ChannelKeepsAmounts
<1> QED BY <1>1, <1>2, <1>3 DEF ChannelSteps

-----------------------------------------------------------------------------
(* The marks of the freezes and the events of the failed bookings *)

FreezeType == [trade: {NoTrade} \cup RefundTrades, amount: 0 .. OrderAmount]

(* Every step keeps the type of the freezes.                               *)
LEMMA FreezeNext ==
    ASSUME freeze \in [GrantIds -> FreezeType], BackedInv, BooksInv, RefundEffects
    PROVE  freeze' \in [GrantIds -> FreezeType]
<1>0. TypeOK /\ FrozenIsBacked /\ order \in OrderType
  BY DEF BackedInv, CycleInv, BooksInv
<1>1. NoFreeze \in FreezeType
  BY RefundAssumption DEF NoFreeze, FreezeType
<1>2. CASE WalletOnly \/ Notes
  BY <1>2 DEF WalletOnly, Notes, refundVars
<1>3. ASSUME NEW r \in RefundTrades, NEW request \in Asked, NEW part, FreezeStep(r, request, part)
      PROVE  freeze' \in [GrantIds -> FreezeType]
  <2>1. HasPlan(request)
        /\ freeze' = [g \in GrantIds |->
                    IF part[g] = 0 THEN freeze[g]
                    ELSE [trade |-> r, amount |-> AmountAsked(request)]]
    BY <1>3 DEF FreezeStep, Freezes
  <2>2. AmountAsked(request) \in 1 .. OrderAmount
    BY <1>0, <2>1, PlanIs
  <2>3. [trade |-> r, amount |-> AmountAsked(request)] \in FreezeType
    BY <2>2, RefundAssumption DEF FreezeType
  <2> QED BY <2>1, <2>3
<1>4. ASSUME NEW r \in RefundTrades, ReleaseStep(r) PROVE freeze' \in [GrantIds -> FreezeType]
  BY <1>1, <1>4 DEF ReleaseStep, ReleaseRefund
<1>5. ASSUME NEW r \in RefundTrades, NEW request \in Asked, NEW part, TakeStep(r, request, part)
      PROVE  freeze' \in [GrantIds -> FreezeType]
  BY <1>1, <1>5 DEF TakeStep, Takes
<1> QED BY <1>2, <1>3, <1>4, <1>5 DEF RefundEffects

(* Every step keeps the type of the events.                                *)
LEMMA EventsNext ==
    ASSUME compensation \in [RefundTrades -> {"none", "failed", "processed"}],
           RequestsAreReal, [RefundNext]_allVars
    PROVE  compensation' \in [RefundTrades -> {"none", "failed", "processed"}]
<1>1. CASE WalletStep \/ UNCHANGED allVars
  BY <1>1 DEF WalletStep, refundVars, allVars
<1>2. ASSUME NEW a \in Admins, NEW r \in RefundTrades, NEW request \in Requests,
             Start(a, r, request)
      PROVE  compensation' = compensation
  BY <1>2 DEF Start
<1>3. ASSUME NEW a \in Admins,
             Check(a) \/ Settle(a) \/ Freeze(a) \/ Call(a) \/ Release(a) \/ Finish(a) \/ Abandon(a)
      PROVE  compensation' = compensation
  BY <1>3 DEF Check, Settle, Freeze, Call, Release, Finish, Abandon
<1>4. ASSUME NEW a \in Admins, Record(a)
      PROVE  compensation' \in [RefundTrades -> {"none", "failed", "processed"}]
  BY <1>4 DEF Record
<1>5. ASSUME NEW r \in RefundTrades, ChannelSettles(r) \/ Retry(r)
      PROVE  compensation' \in [RefundTrades -> {"none", "failed", "processed"}]
  BY <1>5 DEF ChannelSettles, Retry
<1> QED BY <1>1, <1>2, <1>3, <1>4, <1>5 DEF RefundNext, RefundStep

-----------------------------------------------------------------------------
(* Who releases a freeze *)

(* What is booked stays booked.                                            *)
LEMMA BookedStays ==
    ASSUME order \in OrderType, RefundEffects, NEW r, IsBooked(r) PROVE IsBooked(r)'
<1>1. CASE WalletOnly
  BY <1>1 DEF WalletOnly, refundVars, IsBooked, IsRecorded
<1>2. CASE Notes
  BY <1>2 DEF Notes, OrderType, IsBooked, IsRecorded
<1>3. ASSUME NEW s \in RefundTrades, NEW request \in Asked, NEW part, TakeStep(s, request, part)
      PROVE  IsBooked(r)'
  <2>1. order.records \subseteq order'.records
    BY <1>3 DEF TakeStep, Takes
  <2>2. order.status # "refunded"
    BY <1>3 DEF TakeStep, Takes, IsBooked
  <2> QED BY <2>1, <2>2 DEF IsBooked, IsRecorded
<1> QED
  BY <1>1, <1>2, <1>3 DEF RefundEffects, FreezeStep, ReleaseStep, IsBooked, IsRecorded

(* A refund that the channel refused stays refused.                        *)
LEMMA RefusedStays ==
    ASSUME Channel # "easypay", channel \in [RefundTrades -> ChannelType], ChannelSteps,
           NEW r \in RefundTrades, channel[r].state = "failed"
    PROVE  channel'[r].state = "failed"
<1>1. ASSUME NEW a \in Admins, admin[a].trade \in RefundTrades,
             NEW outcome \in ChannelOutcomes(admin[a].trade, AmountForChannel(a)),
             channel' = [channel EXCEPT ![admin[a].trade] = outcome]
      PROVE  channel'[r].state = "failed"
  <2>1. CASE admin[a].trade = r
    <3>1. IsRepeat(r)
      BY DEF IsRepeat
    <3> QED BY <1>1, <2>1, <3>1, OutcomeIs
  <2>2. CASE admin[a].trade # r
    BY <1>1, <2>2
  <2> QED BY <2>1, <2>2
<1>2. ASSUME NEW s \in RefundTrades, NEW state \in {"succeeded", "failed"},
             channel[s].state = "pending", channel' = [channel EXCEPT ![s].state = state]
      PROVE  channel'[r].state = "failed"
  BY <1>2
<1> QED BY <1>1, <1>2 DEF ChannelSteps

(* A freeze that succeeds without a valid amount is of a booked refund.    *)
LEMMA InvalidIsBooked ==
    ASSUME order \in OrderType, RequestsAreReal, NEW a \in Admins, admin[a].step # "idle",
           FreezeRefund(admin[a].trade, admin[a].request), ~AmountIsValid(a)
    PROVE  IsBooked(admin[a].trade)
<1>1. /\ admin[a].refunded \in 0 .. OrderAmount /\ admin[a].refunded <= order.amount
      /\ order.amount \in 0 .. OrderAmount /\ OrderAmount \in Nat
      /\ admin[a].request \in Asked
  BY RefundAssumption DEF RequestsAreReal, Request, OrderType, Asked
<1>2. Asked \subseteq 0 .. OrderAmount
  BY <1>1, RefundAssumption DEF Asked, Rest
<1>3. admin[a].request \in 0 .. OrderAmount
  BY <1>1, <1>2
<1>4. ASSUME HasPlan(admin[a].request) PROVE AmountIsValid(a)
  <2>1. AmountLeft > 0 /\ AmountAsked(admin[a].request) <= AmountLeft
    BY <1>4 DEF HasPlan
  <2>2. AmountLeft = OrderAmount - order.amount
        /\ LeftAtStart(a) = OrderAmount - admin[a].refunded
    BY DEF AmountLeft, LeftAtStart
  <2>3. LeftAtStart(a) > 0 /\ AmountLeft <= LeftAtStart(a)
        /\ LeftAtStart(a) \in Int /\ AmountLeft \in Int
    BY <1>1, <2>1, <2>2
  <2>4. CASE admin[a].request = Rest
    BY <2>3, <2>4 DEF AmountIsValid, AmountForChannel
  <2>5. CASE admin[a].request # Rest
    <3>1. AmountAsked(admin[a].request) = admin[a].request
          /\ AmountForChannel(a) = admin[a].request
      BY <2>5 DEF AmountAsked, AmountForChannel
    <3> QED BY <1>3, <2>1, <2>3, <3>1 DEF AmountIsValid
  <2> QED BY <2>4, <2>5
<1> QED BY <1>4 DEF FreezeRefund, FreezeIsDone, IsBooked

(* A request that is about to release the freeze of its refund was refused *)
(* by the channel, or its refund is booked and nothing is frozen for it.   *)
ReleasersRefused ==
    \A a \in Admins : admin[a].step = "release" =>
        channel[admin[a].trade].state = "failed" \/ IsBooked(admin[a].trade)

NobodyCallsManual == Channel = "manual" => \A a \in Admins : admin[a].step # "call"

(* How a request comes to release a freeze.                                *)
LEMMA ReleasersAre ==
    ASSUME admin \in [Admins -> Request], RequestsAreReal, order \in OrderType,
           channel \in [RefundTrades -> ChannelType],
           [RefundNext]_allVars, NEW a \in Admins, admin'[a].step \in {"release", "call"}
    PROVE  \/ admin'[a] = admin[a]
           \/ /\ admin[a].step # "idle" /\ admin'[a].trade = admin[a].trade
              /\ \/ /\ Freeze(a) /\ FreezeRefund(admin[a].trade, admin[a].request)
                    /\ IF ~AmountIsValid(a) THEN admin'[a].step = "release"
                       ELSE NeedsChannel(a)
                 \/ Call(a) /\ admin'[a].step = "release"
<1>1. ASSUME NEW b \in Admins, b # a, Handler(b) PROVE admin'[a] = admin[a]
  BY <1>1, HandlerMoves, GotoIs, LeaveIs
<1>2. ASSUME NEW b \in Admins, NEW r \in RefundTrades, NEW request \in Requests,
             Start(b, r, request)
      PROVE  admin'[a] = admin[a]
  <2>1. /\ b # a => admin'[a] = admin[a]
        /\ admin'[b].step = "check"
    BY <1>2, StartIs
  <2> QED BY <2>1
<1>3. ~Leave(a)
  BY LeaveIs DEF Idle
<1>4. \A step \in Steps : Goto(a, step) => admin'[a].step = step /\ admin'[a].trade = admin[a].trade
  BY GotoIs
<1>5. "settle" \in Steps /\ "freeze" \in Steps /\ "record" \in Steps /\ "release" \in Steps
      /\ "call" \in Steps /\ "finish" \in Steps /\ "withdraw" \in Steps
  BY DEF Steps
<1>6. CASE Check(a)
  <2>1. Goto(a, "settle") \/ Goto(a, "freeze")
    BY <1>3, <1>6 DEF Check
  <2> QED BY <1>4, <1>5, <2>1
<1>7. CASE Finish(a)
  <2>1. Goto(a, "record")
    BY <1>3, <1>7 DEF Finish
  <2> QED BY <1>4, <1>5, <2>1
<1>8. CASE Freeze(a)
  <2>1. /\ admin[a].step = "freeze"
        /\ FreezeRefund(admin[a].trade, admin[a].request)
        /\ Goto(a, IF ~AmountIsValid(a) THEN "release"
                   ELSE IF NeedsChannel(a) THEN "call" ELSE "finish")
    BY <1>3, <1>8 DEF Freeze, At
  <2>2. CASE ~AmountIsValid(a)
    <3>1. Goto(a, "release")
      BY <2>1, <2>2
    <3> QED BY <1>4, <1>5, <1>8, <2>1, <2>2, <3>1
  <2>3. CASE AmountIsValid(a) /\ NeedsChannel(a)
    <3>1. Goto(a, "call")
      BY <2>1, <2>3
    <3> QED BY <1>4, <1>5, <1>8, <2>1, <2>3, <3>1
  <2>4. CASE AmountIsValid(a) /\ ~NeedsChannel(a)
    <3>1. Goto(a, "finish")
      BY <2>1, <2>4
    <3> QED BY <1>4, <1>5, <3>1
  <2> QED BY <2>2, <2>3, <2>4
<1>9. CASE Call(a)
  <2>1. admin[a].step = "call" /\ admin[a].trade \in RefundTrades
    BY <1>9 DEF Call, At, RequestsAreReal
  <2>2. /\ Unanswered(a) => Goto(a, "release")
        /\ NotAsked(a) => Goto(a, "withdraw")
    BY <1>3 DEF Unanswered, NotAsked
  <2>3. ASSUME NEW outcome \in ChannelOutcomes(admin[a].trade, AmountForChannel(a)),
               Answered(a, outcome)
        PROVE  Goto(a, "release") \/ Goto(a, "withdraw") \/ Goto(a, "finish")
    <3>1. outcome.state \in {"pending", "succeeded", "failed"}
      BY <2>1, OutcomeIs
    <3> QED BY <1>3, <2>3, <3>1 DEF Answered
  <2>4. Goto(a, "release") \/ Goto(a, "withdraw") \/ Goto(a, "finish")
    BY <1>9, <2>2, <2>3 DEF Call
  <2> QED BY <1>4, <1>5, <1>9, <2>1, <2>4
<1>10. ASSUME NEW r \in RefundTrades, ChannelSettles(r) \/ Retry(r) PROVE admin'[a] = admin[a]
  BY <1>10 DEF ChannelSettles, Retry
<1>11. CASE WalletStep \/ UNCHANGED allVars
  BY <1>11 DEF WalletStep, refundVars, allVars
<1>12. ~(Settle(a) \/ Release(a) \/ Record(a) \/ Abandon(a))
  BY <1>3 DEF Settle, Release, Record, Abandon
<1> QED
  BY <1>1, <1>2, <1>6, <1>7, <1>8, <1>9, <1>10, <1>11, <1>12 DEF RefundNext, RefundStep, Handler

(* An answered refusal: stripe tells a refusal from a lost answer.         *)
LEMMA CallRefused ==
    ASSUME Channel = "stripe", admin \in [Admins -> Request], RequestsAreReal,
           channel \in [RefundTrades -> ChannelType],
           NEW a \in Admins, Call(a), admin'[a].step = "release"
    PROVE  channel'[admin[a].trade].state = "failed"
<1>1. ~Leave(a) /\ ~Goto(a, "finish") /\ ~Goto(a, "withdraw")
  <2>1. /\ Goto(a, "finish") => admin'[a].step = "finish"
        /\ Goto(a, "withdraw") => admin'[a].step = "withdraw"
    BY GotoIs DEF Steps
  <2> QED BY <2>1, LeaveIs DEF Idle
<1>2. ~Unanswered(a) /\ ~NotAsked(a)
  BY <1>1 DEF Unanswered, NotAsked
<1>3. admin[a].trade \in RefundTrades
  BY DEF Call, At, RequestsAreReal
<1>4. PICK outcome \in ChannelOutcomes(admin[a].trade, AmountForChannel(a)) :
          channel' = [channel EXCEPT ![admin[a].trade] = outcome] /\ Answered(a, outcome)
  BY <1>2 DEF Call
<1>5. outcome.state \in {"pending", "succeeded", "failed"}
  BY <1>3, OutcomeIs
<1>6. outcome.state = "failed"
  BY <1>1, <1>4, <1>5 DEF Answered
<1> QED BY <1>3, <1>4, <1>6

(* Every step keeps ReleasersRefused, on stripe and without a channel.     *)
LEMMA ReleasersNext ==
    ASSUME Channel \in {"stripe", "manual"},
           admin \in [Admins -> Request], RequestsAreReal, order \in OrderType,
           channel \in [RefundTrades -> ChannelType], ChannelSteps, RefundEffects,
           [RefundNext]_allVars, ReleasersRefused, NobodyCallsManual
    PROVE  ReleasersRefused' /\ NobodyCallsManual'
<1>1. ASSUME NEW a \in Admins, admin'[a].step = "release"
      PROVE  channel'[admin'[a].trade].state = "failed" \/ IsBooked(admin[a].trade)'
  <2>1. ASSUME NEW r \in RefundTrades, admin[a].trade = r, admin'[a].trade = r,
               channel[r].state = "failed" \/ IsBooked(r)
        PROVE  channel'[admin'[a].trade].state = "failed" \/ IsBooked(admin[a].trade)'
    <3>1. Channel # "easypay"
      OBVIOUS
    <3>2. channel[r].state = "failed" => channel'[r].state = "failed"
      BY <3>1, RefusedStays
    <3>3. IsBooked(r) => IsBooked(r)'
      BY BookedStays
    <3>4. IsBooked(r)' => IsBooked(admin[a].trade)'
      BY <2>1 DEF IsBooked, IsRecorded
    <3> QED BY <2>1, <3>2, <3>3, <3>4
  <2>2. CASE admin'[a] = admin[a]
    <3>1. admin[a].trade \in RefundTrades
      BY <1>1, <2>2 DEF RequestsAreReal
    <3> QED BY <1>1, <2>1, <2>2, <3>1 DEF ReleasersRefused
  <2>3. CASE /\ admin[a].step # "idle" /\ admin'[a].trade = admin[a].trade
             /\ Freeze(a) /\ FreezeRefund(admin[a].trade, admin[a].request)
             /\ ~AmountIsValid(a)
    <3>1. IsBooked(admin[a].trade)
      BY <2>3, InvalidIsBooked
    <3>2. admin[a].trade \in RefundTrades
      BY <2>3 DEF RequestsAreReal
    <3> QED BY <2>1, <2>3, <3>1, <3>2
  <2>4. CASE admin'[a].trade = admin[a].trade /\ Call(a)
    <3>1. Channel = "stripe"
      BY <2>4 DEF NobodyCallsManual, Call, At
    <3> QED BY <1>1, <2>4, <3>1, CallRefused
  <2>5. CASE /\ admin[a].step # "idle" /\ admin'[a].trade = admin[a].trade
             /\ Freeze(a) /\ AmountIsValid(a)
    <3>1. Goto(a, IF NeedsChannel(a) THEN "call" ELSE "finish")
      <4>1. ~Leave(a)
        BY <1>1, LeaveIs DEF Idle
      <4> QED BY <2>5, <4>1 DEF Freeze
    <3>2. admin'[a].step \in {"call", "finish"}
      BY <3>1, GotoIs DEF Steps
    <3> QED BY <1>1, <3>2
  <2> QED BY <1>1, <2>2, <2>3, <2>4, <2>5, ReleasersAre
<1>2. ASSUME NEW a \in Admins, Channel = "manual", admin'[a].step = "call" PROVE FALSE
  <2>1. CASE admin'[a] = admin[a]
    BY <1>2, <2>1 DEF NobodyCallsManual
  <2>2. ~NeedsChannel(a)
    BY <1>2 DEF NeedsChannel
  <2> QED BY <1>2, <2>1, <2>2, ReleasersAre
<1> QED BY <1>1, <1>2 DEF ReleasersRefused, NobodyCallsManual

-----------------------------------------------------------------------------
(* A refunded order is empty *)

(* What the refunds took back of each grant, by the rows they wrote.       *)
BackOf == [g \in GrantIds |-> -TotalRows(RowsAbout(ledger, g))]

(* The rows of the refunds add up to the points the order gave back, and   *)
(* none is about another grant than the order's.                           *)
BackAddsUp ==
    /\ Total(BackOf) = order.points
    /\ \A g \in GrantIds \ OrderGrants : TotalRows(RowsAbout(ledger, g)) = 0

(* What was taken back of a grant is an integer.                           *)
LEMMA BackType ==
    ASSUME TypeOK, IsFiniteSet(ledger)
    PROVE  \A g \in GrantIds : BackOf[g] \in Int /\ BackOf[g] + TotalRows(RowsAbout(ledger, g)) = 0
<1>1. \A g \in GrantIds : TotalRows(RowsAbout(ledger, g)) \in Int
  BY RowsAboutType
<1> QED BY <1>1 DEF BackOf

(* The same, as a formula that can be primed.                              *)
LEMMA BackTypeFact ==
    TypeOK /\ IsFiniteSet(ledger) =>
        \A g \in GrantIds : BackOf[g] \in Int /\ BackOf[g] + TotalRows(RowsAbout(ledger, g)) = 0
BY BackType

(* The same in the next state.                                             *)
LEMMA BackTypeNext ==
    (TypeOK /\ IsFiniteSet(ledger) =>
        \A g \in GrantIds : BackOf[g] \in Int /\ BackOf[g] + TotalRows(RowsAbout(ledger, g)) = 0)'
BY BackTypeFact, PTL

(* A refund adds its row to what was taken back of each grant.             *)
LEMMA RowsAboutTaken ==
    ASSUME TypeOK, IsFiniteSet(ledger), RefundRowsRecorded, NEW r, NEW request, NEW part,
           Takes(r, request, part), NEW g \in GrantIds
    PROVE  TotalRows(RowsAbout(ledger', g)) + part[g] = TotalRows(RowsAbout(ledger, g))
<1>1. /\ r \in Nat /\ part \in [GrantIds -> Nat]
      /\ ledger' = ledger \cup TakenRows(r, part)
  BY TakenLedger
<1> DEFINE old == RowsAbout(ledger, g)
           new == RowsAbout(TakenRows(r, part), g)
<1>2. /\ TakenRows(r, part) \subseteq Row /\ IsFiniteSet(TakenRows(r, part))
      /\ TotalRows(new) + part[g] = 0 /\ TotalRows(new) \in Int
  BY <1>1, TakenRowsAre
<1>3. new \subseteq TakenRows(r, part) /\ old \subseteq ledger
  BY DEF RowsAbout
<1>4. new \subseteq Row /\ IsFiniteSet(new) /\ old \subseteq Row /\ IsFiniteSet(old)
      /\ TotalRows(old) \in Int
  BY <1>2, <1>3, FS_Subset, RowsAboutType
<1>5. old \cap new = {}
  BY <1>3, TakenRowsAreNew
<1>6. RowsAbout(ledger', g) = old \cup new
  BY <1>1 DEF RowsAbout
<1>7. part[g] \in Nat
  BY <1>1
<1> HIDE DEF old, new
<1>8. TotalRows(old \cup new) = TotalRows(old) + TotalRows(new)
  BY <1>4, <1>5, RowsTotalUnion
<1>9. TotalRows(RowsAbout(ledger', g)) + part[g] = TotalRows(old)
  BY <1>2, <1>4, <1>6, <1>7, <1>8
<1> QED BY <1>9 DEF old

(* Every step keeps the rows of the refunds equal to the order's points.   *)
LEMMA BackNext ==
    ASSUME BackedInv, BooksInv, BackAddsUp, RefundEffects, TypeOK', IsFiniteSet(ledger')
    PROVE  BackAddsUp'
<1>0. /\ TypeOK /\ IsFiniteSet(ledger) /\ RefundRowsRecorded /\ order \in OrderType
  BY DEF BackedInv, CycleInv, BooksInv
<1>1. ASSUME RefundRows' = RefundRows, order'.points = order.points PROVE BackAddsUp'
  <2>1. \A g : RowsAbout(ledger', g) = RowsAbout(ledger, g)
    BY <1>1 DEF RefundRows, RowsAbout
  <2>2. BackOf' = BackOf
    BY <2>1 DEF BackOf
  <2>3. Total(BackOf') = Total(BackOf)
    BY <2>2
  <2> QED BY <1>1, <2>1, <2>3 DEF BackAddsUp, Total
<1>2. CASE WalletOnly
  <2>1. [Next]_vars /\ order' = order
    BY <1>2 DEF WalletOnly, refundVars
  <2> QED BY <1>0, <1>1, <2>1, RefundRowsNext
<1>3. CASE Notes
  BY <1>0, <1>1, <1>3 DEF Notes, vars, OrderType, RefundRows
<1>4. ASSUME NEW r \in RefundTrades, NEW request \in Asked, NEW part, TakeStep(r, request, part)
      PROVE  BackAddsUp'
  <2>1. Takes(r, request, part)
    BY <1>4 DEF TakeStep
  <2>2. \A g \in GrantIds :
            TotalRows(RowsAbout(ledger', g)) + part[g] = TotalRows(RowsAbout(ledger, g))
    BY <1>0, <2>1, RowsAboutTaken
  <2>3. \A g \in GrantIds : /\ BackOf[g] \in Int /\ BackOf'[g] \in Int
                           /\ BackOf[g] + TotalRows(RowsAbout(ledger, g)) = 0
                           /\ BackOf'[g] + TotalRows(RowsAbout(ledger', g)) = 0
    BY <1>0, BackType, BackTypeNext
  <2>4. /\ part \in [GrantIds -> Nat] /\ Total(part) = PointsAsked(request)
        /\ \A g \in GrantIds : part[g] > 0 => g \in OrderGrants
        /\ order'.points = order.points + PointsAsked(request)
    BY <2>1 DEF Takes
  <2>5. \A g \in GrantIds : /\ TotalRows(RowsAbout(ledger', g)) \in Int
                           /\ TotalRows(RowsAbout(ledger, g)) \in Int
    BY <1>0, RowsAboutType, RowsAboutTypeNext
  <2>6. AddsUp(BackOf', BackOf, part, GrantIds)
    <3> SUFFICES ASSUME NEW g \in GrantIds
                 PROVE  BackOf[g] \in Int /\ part[g] \in Int /\ BackOf'[g] = BackOf[g] + part[g]
      BY Zenon DEF AddsUp
    <3> DEFINE a == BackOf[g]
               b == BackOf'[g]
               x == TotalRows(RowsAbout(ledger, g))
               y == TotalRows(RowsAbout(ledger', g))
    <3>1. part[g] \in Nat /\ y + part[g] = x /\ x \in Int /\ y \in Int
      BY <2>2, <2>4, <2>5
    <3>2. a \in Int /\ b \in Int /\ a + x = 0 /\ b + y = 0
      BY <2>3
    <3> HIDE DEF a, b, x, y
    <3>3. a \in Int /\ part[g] \in Int /\ b = a + part[g]
      BY <3>1, <3>2
    <3> QED BY <3>3 DEF a, b
  <2> DEFINE new == BackOf'
  <2>7. Total(new) = Total(BackOf) + Total(part)
    <3>1. AddsUp(new, BackOf, part, GrantIds)
      BY <2>6
    <3> HIDE DEF new
    <3> QED BY <3>1, TotalPlus
  <2>8. Total(BackOf)' = order'.points
    BY <2>4, <2>7 DEF BackAddsUp, Total
  <2>9. ASSUME NEW g \in GrantIds \ OrderGrants PROVE TotalRows(RowsAbout(ledger', g)) = 0
    <3>1. part[g] = 0 /\ TotalRows(RowsAbout(ledger, g)) = 0
      <4>1. part[g] \in Nat /\ ~(part[g] > 0)
        BY <2>4
      <4> QED BY <4>1 DEF BackAddsUp
    <3> QED BY <2>2, <2>5, <3>1
  <2> QED BY <2>8, <2>9 DEF BackAddsUp
<1> QED BY <1>1, <1>2, <1>3, <1>4 DEF RefundEffects, FreezeStep, ReleaseStep, RefundRows

(* The refund that ends the order takes all the points that are left.      *)
LEMMA LastRefund ==
    ASSUME order \in OrderType, NEW request \in Asked, HasPlan(request), EndsOrder(request)
    PROVE  order.points + PointsAsked(request) = OrderPoints
<1>1. /\ order.amount \in 0 .. OrderAmount /\ order.points \in 0 .. OrderPoints
      /\ OrderAmount \in Nat /\ OrderPoints \in Nat
  BY RefundAssumption, OrderPointsNat DEF OrderType
<1>2. /\ AmountAsked(request) <= AmountLeft /\ PointsAsked(request) \in 1 .. PointsLeft
      /\ AmountLeft = OrderAmount - order.amount /\ PointsLeft = OrderPoints - order.points
      /\ AmountAsked(request) \in 1 .. OrderAmount
  BY PlanIs DEF HasPlan, AmountLeft, PointsLeft
<1>3. CASE order.amount + AmountAsked(request) >= OrderAmount
  <2>1. AmountAsked(request) = AmountLeft
    BY <1>1, <1>2, <1>3
  <2>2. PointsAsked(request) = PointsLeft
    BY <2>1 DEF PointsAsked
  <2> QED BY <1>1, <1>2, <2>2
<1>4. CASE order.points + PointsAsked(request) >= OrderPoints
  BY <1>1, <1>2, <1>4
<1> QED BY <1>3, <1>4 DEF EndsOrder

HoldingOf == [g \in GrantIds |-> IF g \in OrderGrants THEN Holding(g) ELSE 0]

(* When all the points were given back, the grants hold nothing.           *)
LEMMA NothingLeft ==
    TypeOK /\ IsFiniteSet(ledger) /\ NoPointTwice /\ BackAddsUp /\ order.points = OrderPoints
        => \A g \in OrderGrants : Holding(g) = 0
<1> SUFFICES ASSUME TypeOK, IsFiniteSet(ledger), NoPointTwice, BackAddsUp,
                    order.points = OrderPoints, NEW g \in OrderGrants
             PROVE  Holding(g) = 0
  OBVIOUS
<1> DEFINE bought == [h \in OrderGrants |-> Opening[h].total]
           all == [h \in GrantIds |-> IF h \in OrderGrants THEN Opening[h].total ELSE 0]
           kept == [h \in GrantIds |-> all[h] - BackOf[h]]
           slack == [h \in GrantIds |-> kept[h] - HoldingOf[h]]
<1>1. g \in GrantIds /\ OrderGrants \subseteq GrantIds
  BY OrderGrantsFinite
<1>2. \A h \in GrantIds : all[h] \in Nat /\ BackOf[h] \in Int
  BY OpeningGrants, BackType
<1>3. \A h \in GrantIds : HoldingOf[h] \in Nat
  BY DEF HoldingOf, Holding, TypeOK, Grant
<1>4. OrderPoints = Total(all)
  <2>1. ZeroOutside(all, bought, OrderGrants, GrantIds)
    BY <1>1, OpeningGrants DEF ZeroOutside
  <2>2. OrderPoints = SumFunction(bought) /\ DOMAIN bought = OrderGrants
    BY DEF OrderPoints
  <2> HIDE DEF all, bought
  <2> QED BY <2>1, <2>2, TotalPart, SumFunctionIsSum
<1>5. \A h \in GrantIds : kept[h] \in Int /\ slack[h] \in Int
  BY <1>2, <1>3
<1>6. AddsUp(all, kept, BackOf, GrantIds) /\ AddsUp(kept, slack, HoldingOf, GrantIds)
  BY <1>2, <1>3, <1>5 DEF AddsUp
<1>7. \A h \in GrantIds : slack[h] \in Nat
  <2> SUFFICES ASSUME NEW h \in GrantIds PROVE slack[h] >= 0
    BY <1>5
  <2>1. CASE h \in OrderGrants
    <3>1. NoPointTwiceOf(h)
      BY <2>1, NoPointTwiceIs
    <3>2. /\ grants[h].available \in Nat /\ grants[h].frozen \in Nat
          /\ grants[h].consumed \in Nat
      BY DEF TypeOK, Grant
    <3>3. /\ HoldingOf[h] = grants[h].available + grants[h].frozen + grants[h].consumed
          /\ all[h] = Opening[h].total
      BY <2>1 DEF HoldingOf, Holding
    <3>4. TotalRows(RowsAbout(ledger, h)) \in Int
          /\ BackOf[h] + TotalRows(RowsAbout(ledger, h)) = 0
      BY RowsAboutType, BackType
    <3>5. slack[h] = all[h] - BackOf[h] - HoldingOf[h]
      OBVIOUS
    <3> HIDE DEF slack, all, kept
    <3> QED BY <1>2, <1>3, <3>1, <3>2, <3>3, <3>4, <3>5 DEF NoPointTwiceOf
  <2>2. CASE h \notin OrderGrants
    <3>1. all[h] = 0 /\ HoldingOf[h] = 0
      BY <2>2 DEF HoldingOf
    <3>2. BackOf[h] = 0
      <4>1. TotalRows(RowsAbout(ledger, h)) = 0
        BY <2>2 DEF BackAddsUp
      <4> QED BY <4>1, BackType
    <3> QED BY <3>1, <3>2
  <2> QED BY <2>1, <2>2
<1> HIDE DEF all, kept, slack
<1>8. /\ Total(all) = Total(kept) + Total(BackOf) /\ Total(kept) = Total(slack) + Total(HoldingOf)
      /\ Total(kept) \in Int /\ Total(BackOf) \in Int /\ Total(all) \in Int
      /\ Total(slack) \in Int /\ Total(HoldingOf) \in Int
  <2>1. Total(all) \in Int
    BY <1>4, OrderPointsNat
  <2> QED BY <1>6, <2>1, TotalPlus
<1>9. Total(kept) = 0
  BY <1>4, <1>8 DEF BackAddsUp
<1>10. Total(slack) \in Nat
  BY <1>7, SumNat, GrantsFinite, TotalIsSum
<1>11. HoldingOf[g] <= Total(HoldingOf)
  BY <1>1, <1>3, SumBound, GrantsFinite, TotalIsSum
<1>12. HoldingOf[g] = 0
  BY <1>1, <1>3, <1>8, <1>9, <1>10, <1>11
<1> QED BY <1>1, <1>12 DEF HoldingOf

(* The same in the next state.                                             *)
LEMMA NothingLeftNext ==
    (TypeOK /\ IsFiniteSet(ledger) /\ NoPointTwice /\ BackAddsUp /\ order.points = OrderPoints
        => \A g \in OrderGrants : Holding(g) = 0)'
BY NothingLeft, PTL

(* Every step keeps a refunded order empty.                                *)
LEMMA EmptyNext ==
    ASSUME BackedInv, BooksInv, HoldsAreRefunds, RefundedIsEmpty, RefundEffects,
           BackedInv', BooksInv', NoPointTwice', BackAddsUp'
    PROVE  RefundedIsEmpty'
<1>0. /\ TypeOK /\ FreeIsEmpty /\ FrozenIsBacked /\ order \in OrderType /\ OrderGrantsStay
      /\ TypeOK' /\ IsFiniteSet(ledger')
  BY DEF BackedInv, CycleInv, BooksInv
<1> SUFFICES ASSUME order'.status = "refunded", NEW g \in OrderGrants
             PROVE  /\ grants'[g].available = 0 /\ grants'[g].frozen = 0
                    /\ grants'[g].consumed = 0
  BY DEF RefundedIsEmpty
<1>1. g \in GrantIds
  BY OrderGrantsFinite
<1>2. grants[g] \in Grant /\ grants'[g] \in Grant
  BY <1>0, <1>1 DEF TypeOK
<1>3. ASSUME Holding(g)' <= 0
      PROVE  /\ grants'[g].available = 0 /\ grants'[g].frozen = 0
             /\ grants'[g].consumed = 0
  BY <1>2, <1>3 DEF Holding, Grant
<1>4. order.status = "refunded" => Holding(g) = 0
  BY DEF RefundedIsEmpty, Holding
<1>5. CASE WalletOnly
  <2>1. [Next]_vars /\ order' = order
    BY <1>5 DEF WalletOnly, refundVars
  <2>2. grants[g].status # "none"
    BY <1>0 DEF OrderGrantsStay
  <2>3. Holding(g)' <= Holding(g)
    BY <1>0, <1>1, <2>1, <2>2, HoldingNext
  <2> QED BY <1>3, <1>4, <2>1, <2>3
<1>6. CASE Notes
  <2>1. grants' = grants /\ order'.status = order.status
    BY <1>0, <1>6 DEF Notes, vars, OrderType
  <2> QED BY <2>1 DEF RefundedIsEmpty
<1>7. ASSUME NEW r \in RefundTrades, NEW request \in Asked, NEW part, FreezeStep(r, request, part)
      PROVE  FALSE
  BY <1>7 DEF FreezeStep, Freezes, IsBooked
<1>8. ASSUME NEW r \in RefundTrades, ReleaseStep(r) PROVE grants'[g] = grants[g]
  <2>1. ReleaseRefund(r) /\ order' = order
    BY <1>8 DEF ReleaseStep
  <2> QED BY <1>0, <1>1, <2>1, ReleasedGrants
<1>9. ASSUME NEW r \in RefundTrades, ReleaseStep(r) PROVE order.status = "refunded"
  BY <1>9 DEF ReleaseStep
<1>10. ASSUME NEW r \in RefundTrades, NEW request \in Asked, NEW part, TakeStep(r, request, part)
       PROVE  Holding(g)' <= 0
  <2>1. /\ HasPlan(request) /\ order.status # "refunded"
        /\ order' = [status |-> IF EndsOrder(request) THEN "refunded" ELSE "partially_refunded",
                     amount |-> order.amount + AmountAsked(request),
                     points |-> order.points + PointsAsked(request),
                     last |-> r,
                     records |-> order.records \cup
                        {[trade |-> r, amount |-> AmountAsked(request),
                          points |-> PointsAsked(request)]}]
    BY <1>10 DEF TakeStep, Takes, IsBooked
  <2>2. order'.status = (IF EndsOrder(request) THEN "refunded" ELSE "partially_refunded")
        /\ order'.points = order.points + PointsAsked(request)
    BY <2>1
  <2>3. EndsOrder(request)
    BY <2>2
  <2>4. order'.points = OrderPoints
    BY <1>0, <2>1, <2>2, <2>3, LastRefund
  <2>5. OrderPoints' = OrderPoints
    BY DEF OrderPoints
  <2>6. Holding(g)' = 0
    BY <1>0, <2>4, <2>5, NothingLeftNext
  <2> QED BY <2>6
<1> QED
  BY <1>3, <1>5, <1>6, <1>7, <1>8, <1>9, <1>10 DEF RefundEffects, RefundedIsEmpty

-----------------------------------------------------------------------------
(* The invariant and the theorems *)

RefundInv ==
    /\ BackedInv /\ BooksInv /\ HoldsAreRefunds /\ NoPointTwice
    /\ BackAddsUp /\ RefundedIsEmpty
    /\ freeze \in [GrantIds -> FreezeType]
    /\ admin \in [Admins -> Request] /\ RequestsAreReal
    /\ ChannelInv
    /\ compensation \in [RefundTrades -> {"none", "failed", "processed"}]

(* Nothing is frozen of the grants at the start.                           *)
LEMMA OpeningUnheld == \A g \in GrantIds : Opening[g].hold = 0 /\ Opening[g].frozen = 0
<1> SUFFICES ASSUME NEW g \in GrantIds PROVE Opening[g].hold = 0 /\ Opening[g].frozen = 0
  OBVIOUS
<1>1. CASE Opening[g] = NoGrant
  BY <1>1 DEF NoGrant, NewGrant
<1>2. ASSUME NEW k \in Kinds, NEW p \in 1 .. MaxPoints, NEW e \in 0 .. Never,
             Opening[g] = NewGrant(k, p, e)
      PROVE  Opening[g].hold = 0 /\ Opening[g].frozen = 0
  BY <1>2 DEF NewGrant
<1> QED BY <1>1, <1>2, OpeningAssumption

(* The invariant of the refunds holds initially.                           *)
LEMMA RefundInvInit == RefundInit => RefundInv
<1> SUFFICES ASSUME RefundInit PROVE RefundInv
  OBVIOUS
<1>1. Init
  BY DEF RefundInit
<1>2. CycleInv /\ FreeIsEmpty /\ FrozenIsBacked /\ IsFiniteSet(ledger)
  BY <1>1, GrantInvInit, InitRows DEF GrantInv
<1>3. grants = Opening /\ \A w \in ledger : w.kind = "recharge"
  BY <1>1, InitRows DEF Init
<1>4. \A g \in GrantIds : Opening[g].hold = 0 /\ Opening[g].frozen = 0
  BY OpeningUnheld
<1>5. OrderGrantsStay
  BY <1>3, RefundAssumption DEF OrderGrantsStay
<1>6. BackedInv
  BY <1>2, <1>5 DEF BackedInv
<1>7. order = [status |-> "completed", amount |-> 0, points |-> 0, last |-> NoTrade, records |-> {}]
  BY DEF RefundInit
<1>8. order \in OrderType /\ order.records = {} /\ order.amount = 0 /\ order.points = 0
  BY <1>7, RefundAssumption, OrderPointsNat DEF OrderType, OrderStatuses
<1>9. RefundsAddUp
  <2>1. /\ SumFunction(AmountsIn({})) = Sum(RecordAmount, {})
        /\ SumFunction(RefundedIn({})) = Sum(RecordPoints, {})
    BY RecordSums, FS_EmptySet
  <2>2. SumFunction(AmountsIn({})) = 0 /\ SumFunction(RefundedIn({})) = 0
    BY <2>1, SumEmpty
  <2> QED BY <1>8, <2>2, RefundsAddUpIs
<1>10. BooksInv
  BY <1>3, <1>8, <1>9, FS_EmptySet DEF BooksInv, RefundRowsRecorded
<1>11. freeze \in [GrantIds -> FreezeType] /\ \A g \in GrantIds : freeze[g].trade = NoTrade
  BY RefundAssumption DEF RefundInit, NoFreeze, FreezeType
<1>12. HoldsAreRefunds
  BY <1>3, <1>4, <1>11 DEF HoldsAreRefunds
<1>13. NoPointTwice
  <2> SUFFICES ASSUME NEW g \in OrderGrants PROVE NoPointTwiceOf(g)
    BY NoPointTwiceIs
  <2>1. RowsAbout(ledger, g) = {}
    BY <1>3 DEF RowsAbout
  <2>2. /\ Opening[g].available = Opening[g].total /\ Opening[g].frozen = 0
        /\ Opening[g].consumed = 0 /\ Opening[g].total \in Nat
    BY OpeningGrants, OpeningUnheld, OrderGrantsFinite
  <2> QED BY <1>3, <2>1, <2>2, NoRowsTotal DEF NoPointTwiceOf
<1>14. admin \in [Admins -> Request] /\ \A a \in Admins : admin[a] = Idle
  <2>1. Idle \in Request
    BY RefundAssumption DEF Idle, Request, Steps, OrderStatuses, Rest, NoTrade
  <2> QED BY <2>1 DEF RefundInit
<1>15. RequestsAreReal
  BY <1>8, <1>14 DEF RequestsAreReal, Idle
<1>16. ChannelInv
  BY RefundAssumption DEF RefundInit, ChannelInv, ChannelType, ChannelKeepsAmounts
<1>17. compensation \in [RefundTrades -> {"none", "failed", "processed"}]
  BY DEF RefundInit
<1>18. BackAddsUp
  <2>1. \A g \in GrantIds : TotalRows(RowsAbout(ledger, g)) = 0
    <3> TAKE g \in GrantIds
    <3>1. RowsAbout(ledger, g) = {}
      BY <1>3 DEF RowsAbout
    <3> QED BY <3>1, NoRowsTotal
  <2>2. \A g \in GrantIds : BackOf[g] = 0
    BY <2>1 DEF BackOf
  <2>3. Total(BackOf) = 0
    BY <2>2, SumZero, GrantsFinite, TotalIsSum
  <2> QED BY <1>8, <2>1, <2>3 DEF BackAddsUp
<1>19. RefundedIsEmpty
  BY <1>7 DEF RefundedIsEmpty
<1> QED
  BY <1>6, <1>10, <1>11, <1>12, <1>13, <1>14, <1>15, <1>16, <1>17, <1>18, <1>19 DEF RefundInv

(* The invariant of the refunds is inductive.                              *)
LEMMA RefundInvNext == RefundInv /\ [RefundNext]_allVars => RefundInv' /\ RefundEffects /\ ChannelSteps
<1> SUFFICES ASSUME RefundInv, [RefundNext]_allVars
             PROVE  RefundInv' /\ RefundEffects /\ ChannelSteps
  OBVIOUS
<1>1. /\ BackedInv /\ BooksInv /\ HoldsAreRefunds /\ NoPointTwice
      /\ BackAddsUp /\ RefundedIsEmpty
      /\ freeze \in [GrantIds -> FreezeType]
      /\ admin \in [Admins -> Request] /\ RequestsAreReal
      /\ ChannelInv /\ channel \in [RefundTrades -> ChannelType]
      /\ compensation \in [RefundTrades -> {"none", "failed", "processed"}]
      /\ TypeOK /\ FrozenIsBacked /\ order \in OrderType
  BY DEF RefundInv, BackedInv, CycleInv, BooksInv, ChannelInv
<1>2. RefundEffects
  BY <1>1, RefundSteps
<1>3. ChannelSteps
  BY <1>1, ChannelStepsAre
<1>4. BackedInv'
  BY <1>1, <1>2, BackedNext
<1>5. BooksInv'
  BY <1>1, <1>2, BooksNext
<1>6. HoldsAreRefunds'
  BY <1>1, <1>2, HoldsNext
<1>7. NoPointTwice'
  BY <1>1, <1>2, <1>4, NoPointTwiceNext DEF BooksInv, BackedInv, CycleInv
<1>8. freeze' \in [GrantIds -> FreezeType]
  BY <1>1, <1>2, FreezeNext
<1>9. admin' \in [Admins -> Request] /\ RequestsAreReal'
  BY <1>1, <1>2, <1>5, RequestsNext
<1>10. ChannelInv'
  BY <1>1, <1>3, ChannelNext
<1>11. compensation' \in [RefundTrades -> {"none", "failed", "processed"}]
  BY <1>1, EventsNext
<1>12. BackAddsUp'
  BY <1>1, <1>2, <1>4, BackNext DEF BackedInv, CycleInv
<1>13. RefundedIsEmpty'
  BY <1>1, <1>2, <1>4, <1>5, <1>7, <1>12, EmptyNext
<1> QED
  BY <1>2, <1>3, <1>4, <1>5, <1>6, <1>7, <1>8, <1>9, <1>10, <1>11, <1>12, <1>13 DEF RefundInv

(* The inductive invariant of the refund handler of api.go: the wallet, the*)
(* order, the freezes and the requests in progress agree in every reachable*)
(* state, whatever the channel answers.                                    *)
THEOREM RefundsCorrect == RefundSpec => []RefundInv
<1>1. RefundInit => RefundInv
  BY RefundInvInit
<1>2. RefundInv /\ [RefundNext]_allVars => RefundInv'
  BY RefundInvNext
<1> QED BY <1>1, <1>2, PTL DEF RefundSpec

(* However many administrators, retries and lost answers there are, the    *)
(* totals of the order are those of its records, no refund trade is        *)
(* recorded twice, and the records are the payment_refund rows written.    *)
THEOREM RefundsAddUpHolds == RefundSpec => []RefundsAddUp
<1>1. RefundInv => RefundsAddUp
  BY DEF RefundInv, BooksInv
<1> QED BY <1>1, RefundsCorrect, PTL

(* A point of the order is never both spent by a task and refunded.        *)
THEOREM NoPointTwiceHolds == RefundSpec => []NoPointTwice
<1>1. RefundInv => NoPointTwice
  BY DEF RefundInv
<1> QED BY <1>1, RefundsCorrect, PTL

(* A refunded order has no point left, frozen or spent in its grants.      *)
THEOREM RefundedIsEmptyHolds == RefundSpec => []RefundedIsEmpty
<1>1. RefundInv => RefundedIsEmpty
  BY DEF RefundInv
<1> QED BY <1>1, RefundsCorrect, PTL

(* The frozen points of every grant stay those of the open reservations    *)
(* and of the pending refunds while refunds interleave with tasks.         *)
THEOREM WalletStaysBackedHolds == RefundSpec => []FrozenIsBacked
<1>1. RefundInv => FrozenIsBacked
  BY DEF RefundInv, BackedInv
<1> QED BY <1>1, RefundsCorrect, PTL

(* No freeze of FreezeRefundPaymentOrder outlives the record of its refund.*)
THEOREM FreezeIsPendingHolds == RefundSpec => []FreezeIsPending
<1>1. RefundInv => FreezeIsPending
  BY DEF RefundInv, HoldsAreRefunds, FreezeIsPending
<1> QED BY <1>1, RefundsCorrect, PTL

(* The rows of the order, the freezes and the requests keep their types.   *)
THEOREM RefundTyped == RefundSpec => []RefundTypeOK
<1>1. RefundInv => RefundTypeOK
  BY DEF RefundInv, BooksInv, ChannelInv, RefundTypeOK, OrderType, RecordType, FreezeType,
         ChannelType, Request
<1> QED BY <1>1, RefundsCorrect, PTL

(* The freeze of a refund is released by a request that was refused.       *)
RefusedInv == ReleasersRefused /\ NobodyCallsManual

(* The reason for which a request may release the freeze of a refund.      *)
MayRelease(r) ==
    \/ channel[r].state = "failed"
    \/ \E a \in Admins : admin[a].trade = r /\ admin[a].step = "withdraw"

(* A step that releases a freeze has a reason to.                          *)
LEMMA ReleasesHaveReason ==
    ASSUME Channel \in {"stripe", "manual"}, RefundInv, RefundEffects, RefusedInv,
           NEW g \in GrantIds,
           freeze[g].trade # NoTrade, freeze'[g].trade = NoTrade,
           \A x \in order'.records : x.trade # freeze[g].trade
    PROVE  MayRelease(freeze[g].trade)
<1>0. /\ TypeOK /\ FrozenIsBacked /\ HoldsAreRefunds /\ ReleasersRefused
  BY DEF RefundInv, BackedInv, CycleInv, RefusedInv
<1>1. ASSUME NEW r \in RefundTrades, NEW request \in Asked, NEW part, FreezeStep(r, request, part)
      PROVE  FALSE
  BY <1>1, RefundAssumption DEF FreezeStep, Freezes
<1>2. ASSUME NEW r \in RefundTrades, NEW request \in Asked, NEW part, TakeStep(r, request, part)
      PROVE  FALSE
  <2>1. Takes(r, request, part)
    BY <1>2 DEF TakeStep
  <2>2. \E x \in order'.records : x.trade = r
    <3> DEFINE new == [trade |-> r, amount |-> AmountAsked(request),
                       points |-> PointsAsked(request)]
    <3>1. order'.records = order.records \cup {new}
      BY <2>1 DEF Takes
    <3>2. new.trade = r
      OBVIOUS
    <3> HIDE DEF new
    <3> QED BY <3>1, <3>2
  <2>3. /\ part[g] \in Nat
        /\ part[g] = 0 => freeze'[g] = freeze[g]
        /\ part[g] > 0 => freeze[g].trade = r \/ grants[g].hold = 0
    BY <1>0, <2>1, TakenGrants
  <2>4. grants[g].hold \in Nat /\ grants[g].hold > 0
    BY <1>0 DEF HoldsAreRefunds, TypeOK, Grant
  <2> QED BY <2>2, <2>3, <2>4
<1>3. ASSUME NEW r \in RefundTrades, ReleaseStep(r)
      PROVE  MayRelease(freeze[g].trade)
  <2>1. ReleaseRefund(r) /\ order' = order
    BY <1>3 DEF ReleaseStep
  <2>2. g \in Freed(r) /\ freeze[g].trade = r /\ order.status # "refunded"
    BY <1>0, <2>1, ReleasedGrants
  <2>3. ~IsBooked(r)
    BY <2>1, <2>2 DEF IsBooked, IsRecorded
  <2>4. MayRelease(r)
    BY <1>0, <1>3, <2>3 DEF ReleaseStep, ReleasersRefused, MayRelease
  <2> QED BY <2>2, <2>4
<1>4. CASE WalletOnly \/ Notes
  BY <1>4 DEF WalletOnly, Notes, refundVars
<1> QED BY <1>1, <1>2, <1>3, <1>4 DEF RefundEffects

(* Whatever is lost, repeated or raced for: on stripe and without a channel *)
(* the points frozen for a refund go back to the user only after the        *)
(* channel refused it, or by a request that did not get to ask it or was    *)
(* told to wait.  The other channels count a lost answer as a refusal.      *)
THEOREM LostAnswerKeepsFreezeHolds == RefundSpec => LostAnswerKeepsFreeze
<1>1. CASE Channel \in {"stripe", "manual"}
  <2>1. RefundInit => RefusedInv
    BY DEF RefundInit, Idle, RefusedInv, ReleasersRefused, NobodyCallsManual
  <2>2. RefundInv /\ RefusedInv /\ [RefundNext]_allVars => RefusedInv'
    BY <1>1, RefundInvNext, ReleasersNext DEF RefundInv, BooksInv, ChannelInv, RefusedInv
  <2>3. RefundInv /\ RefusedInv /\ [RefundNext]_allVars =>
          [\A g \in GrantIds :
              LET r == freeze[g].trade
              IN  /\ Channel \in {"stripe", "manual"}
                  /\ r # NoTrade /\ freeze'[g].trade = NoTrade
                  /\ \A x \in order'.records : x.trade # r
                  => \/ channel[r].state = "failed"
                     \/ \E a \in Admins : admin[a].trade = r /\ admin[a].step = "withdraw"]_allVars
    BY <1>1, RefundInvNext, ReleasesHaveReason DEF MayRelease
  <2> QED BY <2>1, <2>2, <2>3, RefundsCorrect, PTL DEF RefundSpec, LostAnswerKeepsFreeze
<1>2. CASE Channel \notin {"stripe", "manual"}
  <2>1. [RefundNext]_allVars =>
          [\A g \in GrantIds :
              LET r == freeze[g].trade
              IN  /\ Channel \in {"stripe", "manual"}
                  /\ r # NoTrade /\ freeze'[g].trade = NoTrade
                  /\ \A x \in order'.records : x.trade # r
                  => \/ channel[r].state = "failed"
                     \/ \E a \in Admins : admin[a].trade = r /\ admin[a].step = "withdraw"]_allVars
    BY <1>2
  <2> QED BY <2>1, PTL DEF RefundSpec, LostAnswerKeepsFreeze
<1> QED BY <1>1, <1>2
=============================================================================
