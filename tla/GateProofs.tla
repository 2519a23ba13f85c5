----------------------------- MODULE GateProofs -----------------------------
(***************************************************************************)
(* Theorems about the gates, for any number of calls, resources, limits    *)
(* and faults.  The counters of the gate of a process are right, and       *)
(* therefore it implements ProviderSlots.  The gate all processes share    *)
(* implements it at every resource whose set of leases outlives the calls  *)
(* in it (Outlived of RedisGate).                                          *)
(***************************************************************************)
EXTENDS Gates, FiniteSetTheorems, TLAPS

States == {"idle", "trying", "waiting", "running"}
IInv == TypeOK /\ CountsAreHeld

-----------------------------------------------------------------------------
(* Typing *)

LEMMA InitHolds == Init => IInv
<1> SUFFICES ASSUME Init PROVE IInv
  OBVIOUS
<1>1. \A k \in Resources : Using(k) = {}
  BY DEF Init, Using
<1> QED BY <1>1, FS_EmptySet DEF Init, IInv, TypeOK, CountsAreHeld

LEMMA WokenType ==
    ASSUME TypeOK
    PROVE  /\ Woken \in [Calls -> States]
           /\ \A c \in Calls : Woken[c] = "running" <=> pc[c] = "running"
           /\ \A c \in Calls : Woken[c] \in {"trying", "waiting"} <=> pc[c] \in {"trying", "waiting"}
           /\ \A c \in Calls : Woken[c] = "idle" <=> pc[c] = "idle"
BY DEF TypeOK, Woken, States

LEMMA StepType ==
    ASSUME TypeOK, [Next]_vars
    PROVE  TypeOK'
<1>1. CASE UNCHANGED vars
  BY <1>1 DEF TypeOK, vars
<1>2. ASSUME NEW c \in Calls, MakeCall(c)
      PROVE  TypeOK'
  <2>1. PICK l \in [Needs[c] -> Limits] :
            own' = [own EXCEPT ![c] = [k \in Resources |-> IF k \in Needs[c] THEN l[k] ELSE 0]]
    BY <1>2 DEF MakeCall
  <2>2. [k \in Resources |-> IF k \in Needs[c] THEN l[k] ELSE 0] \in [Resources -> Nat]
    BY LocalAssumption
  <2> QED BY <1>2, <2>1, <2>2 DEF TypeOK, MakeCall
<1>3. ASSUME NEW c \in Calls, Try(c)
      PROVE  TypeOK'
  <2>1. pc' \in [Calls -> States]
    BY <1>3, WokenType DEF Try, TypeOK, States
  <2>2. limit' \in [Resources -> Nat] /\ active' \in [Resources -> Nat] /\ own' = own
    BY <1>3 DEF Try, TypeOK
  <2> QED BY <2>1, <2>2 DEF TypeOK, States
<1>4. ASSUME NEW c \in Calls, Release(c)
      PROVE  TypeOK'
  <2>1. pc' \in [Calls -> States]
    BY <1>4, WokenType DEF Release, TypeOK, States
  <2>2. active' \in [Resources -> Nat] /\ UNCHANGED <<own, limit>>
    BY <1>4 DEF Release, Less, TypeOK
  <2> QED BY <2>1, <2>2 DEF TypeOK, States
<1>5. ASSUME NEW c \in Calls, GiveUp(c)
      PROVE  TypeOK'
  BY <1>5 DEF TypeOK, GiveUp
<1> QED BY <1>1, <1>2, <1>3, <1>4, <1>5 DEF Next

-----------------------------------------------------------------------------
(* Counters *)

LEMMA UsingFinite ==
    ASSUME NEW k \in Resources
    PROVE  IsFiniteSet(Using(k)) /\ Cardinality(Using(k)) \in Nat
<1>1. Using(k) \subseteq Calls
  BY DEF Using
<1> QED BY <1>1, LocalAssumption, FS_Subset, FS_CardinalityType

(* The calls that run, and their limits, say who holds what. *)
LEMMA SameUsing ==
    ASSUME \A c \in Calls : pc'[c] = "running" <=> pc[c] = "running",
           \A c \in Calls : pc[c] = "running" => own'[c] = own[c],
           CountsAreHeld, UNCHANGED active
    PROVE  CountsAreHeld'
<1>1. \A k \in Resources : Using(k)' = Using(k)
  BY DEF Using, Counted
<1> QED BY <1>1 DEF CountsAreHeld

LEMMA StepCounts ==
    ASSUME IInv, [Next]_vars
    PROVE  CountsAreHeld'
<1>1. TypeOK /\ CountsAreHeld
  BY DEF IInv
<1>2. CASE UNCHANGED vars
  BY <1>1, <1>2, SameUsing DEF vars
<1>3. ASSUME NEW c \in Calls, MakeCall(c)
      PROVE  CountsAreHeld'
  <2>1. \A d \in Calls : d # c => pc'[d] = pc[d] /\ own'[d] = own[d]
    BY <1>1, <1>3 DEF MakeCall, TypeOK
  <2>2. pc[c] = "idle" /\ pc'[c] = "trying"
    BY <1>1, <1>3 DEF MakeCall, TypeOK
  <2> QED BY <1>1, <1>3, <2>1, <2>2, SameUsing DEF MakeCall
<1>4. ASSUME NEW c \in Calls, Try(c)
      PROVE  CountsAreHeld'
  <2>1. own' = own /\ pc[c] = "trying"
    BY <1>4 DEF Try
  <2>2. \A d \in Calls : d # c => (pc'[d] = "running" <=> pc[d] = "running")
    BY <1>1, <1>4, WokenType DEF Try, TypeOK
  <2>3. CASE ~Available(c)
    <3>1. pc'[c] = "waiting" /\ UNCHANGED active
      BY <1>1, <1>4, <2>3, WokenType DEF Try, TypeOK
    <3> QED BY <1>1, <2>1, <2>2, <3>1, SameUsing
  <2>4. CASE Available(c)
    <3>1. /\ pc'[c] = "running"
          /\ active' = [k \in Resources |-> IF k \in Counted(c) THEN active[k] + 1 ELSE active[k]]
      BY <1>1, <1>4, <2>4, WokenType DEF Try, TypeOK
    <3>2. ASSUME NEW k \in Resources
          PROVE  active'[k] = Cardinality(Using(k)')
      <4>1. CASE k \in Counted(c)
        <5>1. Using(k)' = Using(k) \cup {c} /\ c \notin Using(k)
          BY <2>1, <2>2, <3>1, <4>1 DEF Using, Counted
        <5>2. Cardinality(Using(k)') = Cardinality(Using(k)) + 1
          BY <5>1, UsingFinite, FS_AddElement
        <5> QED BY <1>1, <3>1, <4>1, <5>2 DEF CountsAreHeld
      <4>2. CASE k \notin Counted(c)
        <5>1. Using(k)' = Using(k)
          BY <2>1, <2>2, <4>2 DEF Using, Counted
        <5> QED BY <1>1, <3>1, <4>2, <5>1 DEF CountsAreHeld
      <4> QED BY <4>1, <4>2
    <3> QED BY <3>2 DEF CountsAreHeld
  <2> QED BY <2>3, <2>4
<1>5. ASSUME NEW c \in Calls, Release(c)
      PROVE  CountsAreHeld'
  <2>1. own' = own /\ pc[c] = "running" /\ active' = Less(c)
    BY <1>5 DEF Release
  <2>2. \A d \in Calls : d # c => (pc'[d] = "running" <=> pc[d] = "running")
    BY <1>1, <1>5, WokenType DEF Release, TypeOK
  <2>3. pc'[c] = "idle"
    BY <1>1, <1>5, WokenType DEF Release, TypeOK
  <2>4. ASSUME NEW k \in Resources
        PROVE  active'[k] = Cardinality(Using(k)')
    <3>1. CASE k \in Counted(c)
      <4>1. Using(k)' = Using(k) \ {c} /\ c \in Using(k)
        BY <2>1, <2>2, <2>3, <3>1 DEF Using, Counted
      <4>2. Cardinality(Using(k)') = Cardinality(Using(k)) - 1
        BY <4>1, UsingFinite, FS_RemoveElement
      <4>3. Cardinality(Using(k)) > 0
        BY <4>1, UsingFinite, FS_EmptySet
      <4> QED BY <1>1, <2>1, <3>1, <4>2, <4>3 DEF CountsAreHeld, Less
    <3>2. CASE k \notin Counted(c)
      <4>1. Using(k)' = Using(k)
        BY <2>1, <2>2, <2>3, <3>2 DEF Using, Counted
      <4> QED BY <1>1, <2>1, <3>2, <4>1 DEF CountsAreHeld, Less
    <3> QED BY <3>1, <3>2
  <2> QED BY <2>4 DEF CountsAreHeld
<1>6. ASSUME NEW c \in Calls, GiveUp(c)
      PROVE  CountsAreHeld'
  <2>1. pc[c] = "waiting" /\ pc' = [pc EXCEPT ![c] = "idle"] /\ UNCHANGED <<own, active>>
    BY <1>6 DEF GiveUp
  <2>2. \A d \in Calls : pc'[d] = "running" <=> pc[d] = "running"
    BY <1>1, <2>1 DEF TypeOK
  <2> QED BY <1>1, <2>1, <2>2, SameUsing
<1> QED BY <1>2, <1>3, <1>4, <1>5, <1>6 DEF Next

LEMMA Inductive == Spec => []IInv
<1>1. Init => IInv
  BY InitHolds
<1>2. IInv /\ [Next]_vars => IInv'
  BY StepType, StepCounts DEF IInv
<1> QED BY <1>1, <1>2, PTL DEF Spec

(* The state of the gate stays well formed (localConcurrencyGate). *)
THEOREM Typed == Spec => []TypeOK
<1>1. IInv => TypeOK
  BY DEF IInv
<1> QED BY <1>1, Inductive, PTL

(* No slot is lost and none is given back twice (Acquire and its release). *)
THEOREM Balanced == Spec => []CountsAreHeld
<1>1. IInv => CountsAreHeld
  BY DEF IInv
<1> QED BY <1>1, Inductive, PTL

-----------------------------------------------------------------------------
(* Refinement *)

At == [c \in Calls |-> IF pc[c] \in {"trying", "waiting"} THEN "asking" ELSE pc[c]]

LEMMA SameCardinality == \A S : Slots!Cardinality(S) = Cardinality(S)
BY DEF Slots!Cardinality, Cardinality

LEMMA InitMapped == Init => Slots!SlotsInit
BY DEF Init, Slots!SlotsInit

LEMMA StepMapped ==
    ASSUME IInv, [Next]_vars
    PROVE  [Slots!SlotsNext]_(Slots!slotVars)
<1>1. TypeOK /\ CountsAreHeld /\ TypeOK'
  BY StepType DEF IInv
<1>2. CASE UNCHANGED vars
  BY <1>2 DEF vars, Slots!slotVars
<1>3. ASSUME NEW c \in Calls, MakeCall(c)
      PROVE  Slots!MakeCall(c)
  <2>1. At[c] = "idle" /\ At' = [At EXCEPT ![c] = "asking"]
    BY <1>1, <1>3 DEF At, MakeCall, TypeOK
  <2> QED BY <1>3, <2>1 DEF At, MakeCall, Slots!MakeCall
<1>4. ASSUME NEW c \in Calls, Try(c), Available(c)
      PROVE  Slots!Admit(c)
  <2>1. At[c] = "asking" /\ At' = [At EXCEPT ![c] = "running"] /\ own' = own
    BY <1>1, <1>4, WokenType DEF At, Try, TypeOK, States
  <2>2. \A k \in Counted(c) : Cardinality(Using(k)) < own[c][k]
    BY <1>1, <1>4, LocalAssumption DEF Available, CountsAreHeld, Counted
  <2>3. Slots!Counted(c) = Counted(c) /\ \A k \in Resources : Slots!Using(k) = Using(k)
    BY DEF Slots!Counted, Counted, Slots!Using, Using
  <2>4. Slots!Free(c)
    <3>1. Counted(c) \subseteq Resources
      BY LocalAssumption DEF Counted
    <3>2. \A k \in Slots!Counted(c) : Cardinality(Slots!Using(k)) < own[c][k]
      BY <2>2, <2>3, <3>1
    <3> QED BY <3>2, SameCardinality DEF Slots!Free
  <2> QED BY <2>1, <2>4 DEF At, Slots!Admit
<1>5. ASSUME NEW c \in Calls, Try(c), ~Available(c)
      PROVE  UNCHANGED Slots!slotVars
  <2>1. At' = At /\ own' = own
    BY <1>1, <1>5, WokenType DEF At, Try, TypeOK, States
  <2> QED BY <2>1 DEF At, Slots!slotVars
<1>6. ASSUME NEW c \in Calls, Release(c) \/ GiveUp(c)
      PROVE  Slots!Leave(c)
  <2>1. pc[c] \in {"running", "waiting"} /\ pc'[c] = "idle" /\ own' = own
    BY <1>1, <1>6, WokenType DEF Release, GiveUp, TypeOK, States
  <2>2. \A d \in Calls : d # c => pc'[d] = pc[d] \/ pc'[d] = Woken[d]
    BY <1>1, <1>6, WokenType DEF Release, GiveUp, TypeOK, States
  <2>3. \A d \in Calls : d # c => At'[d] = At[d]
    BY <1>1, <2>2, WokenType DEF At, TypeOK, Woken
  <2>4. At[c] # "idle" /\ At'[c] = "idle"
    BY <2>1 DEF At
  <2>5. At' = [At EXCEPT ![c] = "idle"]
    BY <2>3, <2>4 DEF At
  <2> QED BY <2>1, <2>4, <2>5 DEF At, Slots!Leave
<1> QED BY <1>2, <1>3, <1>4, <1>5, <1>6 DEF Next, Slots!SlotsNext

(* The gate of a process keeps the promise of ProviderSlots. *)
THEOREM Promised == Spec => Implements
<1>1. IInv /\ [Next]_vars => [Slots!SlotsNext]_(Slots!slotVars)
  BY StepMapped
<1> QED BY <1>1, InitMapped, Inductive, PTL DEF Spec, Implements, Slots!SlotsSpec

-----------------------------------------------------------------------------
(* The shared gate.  Its leases outlast the calls that hold them: the      *)
(* timeout of a call ends before its lease does, and at the resources of   *)
(* Outlived also before the set, however short the lease added last.       *)

CallBegun(c) == at[c] # "idle" => turn[c] \in 1..MaxCalls
Lasting(c) == Shared!Counted(c) \cap Shared!Outlived
CallHolds(c) ==
    at[c] = "running" =>
        /\ left[c] <= Timeout[c]
        /\ \A k \in Lasting(c) :
              lease[k][<<c, turn[c]>>] >= left[c] + Margin[c] /\ kept[k] > left[c]
SharedInv == Shared!TypeOK /\ \A c \in Calls : CallBegun(c) /\ CallHolds(c)

LEMMA SharedFacts ==
    /\ IsFiniteSet(Calls) /\ SharedLimits \subseteq Nat
    /\ Needs \in [Calls -> SUBSET Resources]
    /\ Timeout \in [Calls -> Nat \ {0}] /\ Margin \in [Calls -> Nat \ {0}] /\ Grace \in Nat \ {0}
    /\ MaxCalls \in Nat /\ MaxFaults \in Nat
BY SharedAssumption, LocalAssumption DEF Shared!RedisAssumption

LEMMA SharedInitHolds == Shared!Init => SharedInv
<1> SUFFICES ASSUME Shared!Init PROVE SharedInv
  OBVIOUS
<1>1. Shared!TypeOK
  <2>1. Shared!NoLease \in [Shared!Ids -> Nat]
    BY DEF Shared!NoLease
  <2>2. lease \in [Resources -> [Shared!Ids -> Nat]]
    BY <2>1 DEF Shared!Init
  <2> QED BY <2>2, SharedFacts DEF Shared!Init, Shared!TypeOK
<1>2. \A c \in Calls : at[c] = "idle"
  BY DEF Shared!Init
<1> QED BY <1>1, <1>2 DEF SharedInv, CallBegun, CallHolds

LEMMA SharedMakeCall ==
    ASSUME SharedInv, NEW c \in Calls, Shared!MakeCall(c)
    PROVE  SharedInv'
<1>1. PICK l \in [Needs[c] -> SharedLimits] :
          asked' = [asked EXCEPT ![c] = [k \in Resources |-> IF k \in Needs[c] THEN l[k] ELSE 0]]
  BY DEF Shared!MakeCall
<1>2. [k \in Resources |-> IF k \in Needs[c] THEN l[k] ELSE 0] \in [Resources -> Nat]
  BY SharedFacts
<1>3. Shared!TypeOK
  BY DEF SharedInv
<1>4. turn[c] + 1 \in 1..MaxCalls
  BY <1>3, SharedFacts DEF Shared!MakeCall, Shared!TypeOK
<1>5. Shared!TypeOK'
  <2>1. asked' \in [Calls -> [Resources -> Nat]]
    BY <1>1, <1>2, <1>3 DEF Shared!TypeOK
  <2>2. turn' \in [Calls -> 0..MaxCalls]
    BY <1>3, <1>4, SharedFacts DEF Shared!TypeOK, Shared!MakeCall
  <2>3. at' \in [Calls -> {"idle", "asking", "running"}]
    BY <1>3 DEF Shared!TypeOK, Shared!MakeCall
  <2> QED BY <1>3, <2>1, <2>2, <2>3 DEF Shared!TypeOK, Shared!MakeCall, Shared!Ids
<1>6. at'[c] = "asking" /\ turn'[c] \in 1..MaxCalls
  BY <1>3, <1>4 DEF Shared!TypeOK, Shared!MakeCall
<1>7. ASSUME NEW d \in Calls, d # c
      PROVE  CallBegun(d)' /\ CallHolds(d)'
  <2>1. /\ at'[d] = at[d] /\ turn'[d] = turn[d] /\ asked'[d] = asked[d]
        /\ left' = left /\ lease' = lease /\ kept' = kept
    BY <1>1, <1>3, <1>7 DEF Shared!TypeOK, Shared!MakeCall
  <2>2. Lasting(d)' = Lasting(d)
    BY <2>1 DEF Lasting, Shared!Counted, Shared!Outlived, Shared!LeaseTime
  <2>3. CallBegun(d) /\ CallHolds(d)
    BY DEF SharedInv
  <2> QED BY <2>1, <2>2, <2>3 DEF CallBegun, CallHolds
<1> QED BY <1>5, <1>6, <1>7 DEF SharedInv, CallBegun, CallHolds

(* What a call that does not run needs not hold. *)
LEMMA SharedIdle ==
    ASSUME SharedInv, NEW c \in Calls, at' = [at EXCEPT ![c] = "idle"], asked' = asked, turn' = turn,
           \A d \in Calls : d # c => left'[d] = left[d],
           \A d \in Calls : d # c /\ at[d] = "running" =>
              \A k \in Lasting(d) :
                 /\ lease'[k][<<d, turn[d]>>] = lease[k][<<d, turn[d]>>]
                 /\ kept'[k] > left[d]
    PROVE  \A d \in Calls : CallBegun(d)' /\ CallHolds(d)'
<1>1. Shared!TypeOK /\ \A d \in Calls : CallBegun(d) /\ CallHolds(d)
  BY DEF SharedInv
<1>2. at'[c] = "idle"
  BY <1>1 DEF Shared!TypeOK
<1>3. ASSUME NEW d \in Calls, d # c
      PROVE  CallBegun(d)' /\ CallHolds(d)'
  <2>1. at'[d] = at[d] /\ left'[d] = left[d]
    BY <1>1, <1>3 DEF Shared!TypeOK
  <2>2. Lasting(d)' = Lasting(d)
    BY DEF Lasting, Shared!Counted, Shared!Outlived, Shared!LeaseTime
  <2> QED BY <1>1, <1>3, <2>1, <2>2 DEF CallBegun, CallHolds
<1> QED BY <1>2, <1>3 DEF CallBegun, CallHolds

LEMMA SharedGiveUp ==
    ASSUME SharedInv, NEW c \in Calls, Shared!GiveUp(c)
    PROVE  SharedInv'
<1>1. Shared!TypeOK /\ \A d \in Calls : CallBegun(d) /\ CallHolds(d)
  BY DEF SharedInv
<1>2. Shared!TypeOK'
  BY <1>1 DEF Shared!TypeOK, Shared!GiveUp, Shared!Ids
<1>3. \A d \in Calls : CallBegun(d)' /\ CallHolds(d)'
  BY <1>1, SharedIdle DEF Shared!GiveUp, CallHolds
<1> QED BY <1>2, <1>3 DEF SharedInv

LEMMA PutFacts ==
    ASSUME NEW S, NEW f \in [S -> Nat], NEW i, NEW n \in Nat
    PROVE  [f EXCEPT ![i] = n] \in [S -> Nat]
OBVIOUS

(* What the script writes when it does not block. *)
LEMMA GrantedFacts ==
    ASSUME SharedInv, NEW c \in Calls, at[c] = "asking", Shared!Granted(c)
    PROVE  /\ lease' \in [Resources -> [Shared!Ids -> Nat]] /\ kept' \in [Resources -> Nat]
           /\ \A k \in Shared!Counted(c) :
                 /\ lease'[k][<<c, turn[c]>>] = Timeout[c] + Margin[c]
                 /\ kept'[k] = Timeout[c] + Margin[c] + Grace
           /\ \A d \in Calls : d # c /\ at[d] = "running" =>
                 \A k \in Lasting(d) :
                    /\ lease'[k][<<d, turn[d]>>] = lease[k][<<d, turn[d]>>]
                    /\ kept'[k] > left[d]
<1>1. Shared!TypeOK /\ \A d \in Calls : CallBegun(d) /\ CallHolds(d)
  BY DEF SharedInv
<1>2. Shared!Id(c) = <<c, turn[c]>> /\ Shared!Id(c) \in Shared!Ids
  BY <1>1 DEF CallBegun, Shared!Id, Shared!Ids
<1>3. Shared!LeaseTime(c) = Timeout[c] + Margin[c] /\ Shared!LeaseTime(c) \in Nat
  BY SharedFacts DEF Shared!LeaseTime
<1>4. \A d \in Calls : Shared!Counted(d) \subseteq Needs[d] /\ Shared!Counted(d) \subseteq Resources
  BY SharedFacts DEF Shared!Counted
<1>5. \A k \in Resources :
         /\ lease'[k] = IF k \in Shared!Counted(c)
                        THEN [lease[k] EXCEPT ![Shared!Id(c)] = Shared!LeaseTime(c)] ELSE lease[k]
         /\ kept'[k] = IF k \in Shared!Counted(c) THEN Shared!LeaseTime(c) + Grace ELSE kept[k]
  BY DEF Shared!Granted
<1>6. \A k \in Resources : lease[k] \in [Shared!Ids -> Nat] /\ kept[k] \in Nat
  BY <1>1 DEF Shared!TypeOK
<1>7. ASSUME NEW k \in Resources
      PROVE  lease'[k] \in [Shared!Ids -> Nat] /\ kept'[k] \in Nat
  <2>1. Shared!LeaseTime(c) + Grace \in Nat
    BY <1>3, SharedFacts
  <2>2. [lease[k] EXCEPT ![Shared!Id(c)] = Shared!LeaseTime(c)] \in [Shared!Ids -> Nat]
    BY <1>3, <1>6, PutFacts
  <2> QED BY <1>5, <1>6, <2>1, <2>2
<1>8. lease' \in [Resources -> [Shared!Ids -> Nat]] /\ kept' \in [Resources -> Nat]
  <2>1. /\ lease' = [k \in Resources |-> lease'[k]]
        /\ kept' = [k \in Resources |-> kept'[k]]
    BY DEF Shared!Granted
  <2> QED BY <1>7, <2>1
<1>9. ASSUME NEW k \in Shared!Counted(c)
      PROVE  lease'[k][<<c, turn[c]>>] = Timeout[c] + Margin[c] /\ kept'[k] = Timeout[c] + Margin[c] + Grace
  BY <1>2, <1>3, <1>4, <1>5, <1>6
<1>10. ASSUME NEW d \in Calls, d # c, at[d] = "running", NEW k \in Lasting(d)
       PROVE  /\ lease'[k][<<d, turn[d]>>] = lease[k][<<d, turn[d]>>]
              /\ kept'[k] > left[d]
  <2>1. k \in Resources /\ <<d, turn[d]>> # Shared!Id(c)
    BY <1>2, <1>4, <1>10 DEF Lasting
  <2>2. <<d, turn[d]>> \in Shared!Ids
    BY <1>1, <1>10 DEF CallBegun, Shared!Ids
  <2>3. lease'[k][<<d, turn[d]>>] = lease[k][<<d, turn[d]>>]
    BY <1>5, <1>6, <2>1, <2>2
  <2>4. left[d] <= Timeout[d] /\ kept[k] > left[d]
    BY <1>1, <1>10 DEF CallHolds
  <2>5. CASE k \in Shared!Counted(c)
    <3>1. Timeout[d] < Shared!LeaseTime(c) + Grace
      BY <1>4, <1>10, <2>5 DEF Lasting, Shared!Outlived
    <3>2. kept'[k] = Timeout[c] + Margin[c] + Grace
      BY <1>9, <2>5
    <3>3. left[d] \in Nat /\ Timeout[d] \in Nat
      BY <1>1, SharedFacts DEF Shared!TypeOK
    <3> QED BY <1>3, <2>3, <2>4, <3>1, <3>2, <3>3, SharedFacts
  <2>6. CASE k \notin Shared!Counted(c)
    BY <1>5, <2>1, <2>3, <2>4, <2>6
  <2> QED BY <2>5, <2>6
<1> QED BY <1>8, <1>9, <1>10

LEMMA SharedAcquire ==
    ASSUME SharedInv, NEW c \in Calls, Shared!Acquire(c)
    PROVE  SharedInv'
<1>1. Shared!TypeOK /\ \A d \in Calls : CallBegun(d) /\ CallHolds(d)
  BY DEF SharedInv
<1>2. at[c] = "asking" /\ Shared!Granted(c) /\ asked' = asked /\ turn' = turn
  BY DEF Shared!Acquire
<1>3. lease' \in [Resources -> [Shared!Ids -> Nat]] /\ kept' \in [Resources -> Nat]
  BY <1>2, GrantedFacts
<1>4. CASE /\ at' = [at EXCEPT ![c] = "running"]
           /\ left' = [left EXCEPT ![c] = Timeout[c]]
           /\ UNCHANGED faults
  <2>1. Shared!TypeOK'
    BY <1>1, <1>2, <1>3, <1>4, SharedFacts DEF Shared!TypeOK, Shared!Ids
  <2>2. at'[c] = "running" /\ left'[c] = Timeout[c]
    BY <1>1, <1>4 DEF Shared!TypeOK
  <2>3. CallBegun(c)' /\ CallHolds(c)'
    <3>1. Lasting(c)' = Lasting(c)
      BY <1>2 DEF Lasting, Shared!Counted, Shared!Outlived, Shared!LeaseTime
    <3>2. CallBegun(c)'
      BY <1>1, <1>2 DEF CallBegun
    <3>3. \A k \in Shared!Counted(c) :
             /\ lease'[k][<<c, turn[c]>>] = Timeout[c] + Margin[c]
             /\ kept'[k] = Timeout[c] + Margin[c] + Grace
      BY <1>2, GrantedFacts
    <3>4. Timeout[c] \in Nat /\ Margin[c] \in Nat \ {0} /\ Grace \in Nat \ {0}
      BY SharedFacts
    <3>5. \A k \in Lasting(c) :
             /\ lease'[k][<<c, turn[c]>>] >= left'[c] + Margin[c]
             /\ kept'[k] > left'[c]
      BY <2>2, <3>3, <3>4 DEF Lasting
    <3> QED BY <1>2, <2>2, <3>1, <3>2, <3>4, <3>5 DEF CallHolds
  <2>4. ASSUME NEW d \in Calls, d # c
        PROVE  CallBegun(d)' /\ CallHolds(d)'
    <3>1. at'[d] = at[d] /\ left'[d] = left[d] /\ asked' = asked /\ turn' = turn
      BY <1>1, <1>2, <1>4, <2>4 DEF Shared!TypeOK
    <3>2. Lasting(d)' = Lasting(d)
      BY <3>1 DEF Lasting, Shared!Counted, Shared!Outlived, Shared!LeaseTime
    <3>3. at[d] = "running" =>
            \A k \in Lasting(d) :
              /\ lease'[k][<<d, turn[d]>>] = lease[k][<<d, turn[d]>>]
              /\ kept'[k] > left[d]
      BY <1>2, <2>4, GrantedFacts
    <3> QED BY <1>1, <3>1, <3>2, <3>3 DEF CallBegun, CallHolds
  <2> QED BY <2>1, <2>3, <2>4 DEF SharedInv
<1>5. CASE /\ Shared!Fault("acquire")
           /\ at' = [at EXCEPT ![c] = "idle"]
           /\ UNCHANGED left
  <2>1. Shared!TypeOK'
    <3>1. faults' \in Nat
      BY <1>1, <1>5 DEF Shared!TypeOK, Shared!Fault
    <3> QED BY <1>1, <1>2, <1>3, <1>5, <3>1 DEF Shared!TypeOK, Shared!Ids
  <2>2. \A d \in Calls : CallBegun(d)' /\ CallHolds(d)'
    BY <1>2, <1>5, SharedIdle, GrantedFacts
  <2> QED BY <2>1, <2>2 DEF SharedInv
<1> QED BY <1>4, <1>5 DEF Shared!Acquire

(* What a release removes is the lease of its own call, and the set when   *)
(* it was the last one.                                                    *)
LEMMA ReleasedFacts ==
    ASSUME SharedInv, NEW c \in Calls, at[c] = "running", Shared!Released(c)
    PROVE  /\ lease' \in [Resources -> [Shared!Ids -> Nat]] /\ kept' \in [Resources -> Nat]
           /\ \A d \in Calls : d # c /\ at[d] = "running" =>
                 \A k \in Lasting(d) :
                    /\ lease'[k][<<d, turn[d]>>] = lease[k][<<d, turn[d]>>]
                    /\ kept'[k] > left[d]
<1>1. Shared!TypeOK /\ \A d \in Calls : CallBegun(d) /\ CallHolds(d)
  BY DEF SharedInv
<1>2. Shared!Id(c) = <<c, turn[c]>> /\ Shared!Id(c) \in Shared!Ids
  BY <1>1 DEF CallBegun, Shared!Id, Shared!Ids
<1>3. \A d \in Calls : Shared!Counted(d) \subseteq Resources
  BY SharedFacts DEF Shared!Counted
<1>4. \A k \in Resources :
         /\ lease'[k] = IF k \in Shared!Counted(c)
                        THEN [lease[k] EXCEPT ![Shared!Id(c)] = 0] ELSE lease[k]
         /\ kept'[k] = IF k \in Shared!Counted(c) /\ Shared!Leases(k) \subseteq {Shared!Id(c)}
                       THEN 0 ELSE kept[k]
  BY DEF Shared!Released
<1>5. \A k \in Resources : lease[k] \in [Shared!Ids -> Nat] /\ kept[k] \in Nat
  BY <1>1 DEF Shared!TypeOK
<1>6. ASSUME NEW k \in Resources
      PROVE  lease'[k] \in [Shared!Ids -> Nat] /\ kept'[k] \in Nat
  <2>1. [lease[k] EXCEPT ![Shared!Id(c)] = 0] \in [Shared!Ids -> Nat]
    BY <1>5, PutFacts
  <2>2. lease'[k] \in {lease[k], [lease[k] EXCEPT ![Shared!Id(c)] = 0]}
    BY <1>4
  <2>3. kept'[k] \in {0, kept[k]}
    BY <1>4
  <2> QED BY <1>5, <2>1, <2>2, <2>3
<1>7. lease' \in [Resources -> [Shared!Ids -> Nat]] /\ kept' \in [Resources -> Nat]
  <2>1. /\ lease' = [k \in Resources |-> lease'[k]]
        /\ kept' = [k \in Resources |-> kept'[k]]
    BY DEF Shared!Released
  <2> QED BY <1>6, <2>1
<1>8. ASSUME NEW d \in Calls, d # c, at[d] = "running", NEW k \in Lasting(d)
      PROVE  /\ lease'[k][<<d, turn[d]>>] = lease[k][<<d, turn[d]>>]
             /\ kept'[k] > left[d]
  <2>1. k \in Resources /\ <<d, turn[d]>> # Shared!Id(c)
    BY <1>2, <1>3, <1>8 DEF Lasting
  <2>2. <<d, turn[d]>> \in Shared!Ids
    BY <1>1, <1>8 DEF CallBegun, Shared!Ids
  <2>3. /\ lease[k][<<d, turn[d]>>] >= left[d] + Margin[d]
        /\ kept[k] > left[d]
    BY <1>1, <1>8 DEF CallHolds
  <2>4. left[d] \in Nat
    BY <1>1 DEF Shared!TypeOK
  <2>5. <<d, turn[d]>> \in Shared!Leases(k)
    <3>1. lease[k][<<d, turn[d]>>] > 0
      BY <1>5, <2>1, <2>2, <2>3, <2>4, SharedFacts
    <3> QED BY <2>2, <3>1 DEF Shared!Leases
  <2> QED BY <1>4, <1>5, <2>1, <2>2, <2>3, <2>5
<1> QED BY <1>7, <1>8

LEMMA SharedEnd ==
    ASSUME SharedInv, NEW c \in Calls, Shared!End(c)
    PROVE  SharedInv'
<1>1. Shared!TypeOK /\ \A d \in Calls : CallBegun(d) /\ CallHolds(d)
  BY DEF SharedInv
<1>2. /\ at[c] = "running" /\ at' = [at EXCEPT ![c] = "idle"]
      /\ left' = [left EXCEPT ![c] = 0] /\ asked' = asked /\ turn' = turn
  BY DEF Shared!End
<1>3. \A d \in Calls : d # c => left'[d] = left[d]
  BY <1>1, <1>2 DEF Shared!TypeOK
<1>4. CASE Shared!Released(c) /\ UNCHANGED faults
  <2>1. Shared!TypeOK'
    BY <1>1, <1>2, <1>4, ReleasedFacts DEF Shared!TypeOK, Shared!Ids
  <2>2. \A d \in Calls : CallBegun(d)' /\ CallHolds(d)'
    BY <1>2, <1>3, <1>4, ReleasedFacts, SharedIdle
  <2> QED BY <2>1, <2>2 DEF SharedInv
<1>5. CASE (Shared!Fault("release") \/ Shared!Fault("die")) /\ UNCHANGED <<lease, kept>>
  <2>1. Shared!TypeOK'
    <3>1. faults' \in Nat
      BY <1>1, <1>5 DEF Shared!TypeOK, Shared!Fault
    <3> QED BY <1>1, <1>2, <1>5, <3>1 DEF Shared!TypeOK, Shared!Ids
  <2>2. \A d \in Calls : d # c /\ at[d] = "running" =>
           \A k \in Lasting(d) :
              /\ lease'[k][<<d, turn[d]>>] = lease[k][<<d, turn[d]>>]
              /\ kept'[k] > left[d]
    BY <1>1, <1>5 DEF CallHolds
  <2>3. \A d \in Calls : CallBegun(d)' /\ CallHolds(d)'
    BY <1>2, <1>3, <2>2, SharedIdle
  <2> QED BY <2>1, <2>3 DEF SharedInv
<1> QED BY <1>4, <1>5 DEF Shared!End

(* Time takes from a running call, its leases and their sets alike, and    *)
(* the set is the last to go.                                              *)
LEMMA SharedTick ==
    ASSUME SharedInv, Shared!Tick
    PROVE  SharedInv'
<1>1. Shared!TypeOK /\ \A d \in Calls : CallBegun(d) /\ CallHolds(d)
  BY DEF SharedInv
<1>2. \A n \in Nat : Shared!Less(n) \in Nat /\ Shared!Less(n) = IF n > 0 THEN n - 1 ELSE 0
  BY DEF Shared!Less
<1>3. at' = at /\ asked' = asked /\ turn' = turn /\ faults' = faults
  BY DEF Shared!Tick
<1>4. \A k \in Resources : lease[k] \in [Shared!Ids -> Nat] /\ kept[k] \in Nat
  BY <1>1 DEF Shared!TypeOK
<1>5. \A k \in Resources : Shared!Expired(k) \in [Shared!Ids -> Nat]
  <2> TAKE k \in Resources
  <2>1. Shared!NoLease \in [Shared!Ids -> Nat]
    BY DEF Shared!NoLease
  <2>2. [i \in Shared!Ids |-> Shared!Less(lease[k][i])] \in [Shared!Ids -> Nat]
    BY <1>2, <1>4
  <2> QED BY <2>1, <2>2 DEF Shared!Expired
<1>6. Shared!TypeOK'
  <2>1. lease' \in [Resources -> [Shared!Ids -> Nat]]
    BY <1>5 DEF Shared!Tick
  <2>2. kept' \in [Resources -> Nat]
    BY <1>2, <1>4 DEF Shared!Tick
  <2>3. left' \in [Calls -> Nat]
    BY <1>1, <1>2 DEF Shared!Tick, Shared!TypeOK
  <2> QED BY <1>1, <1>3, <2>1, <2>2, <2>3 DEF Shared!TypeOK, Shared!Ids
<1>7. ASSUME NEW d \in Calls
      PROVE  CallBegun(d)' /\ CallHolds(d)'
  <2>1. Lasting(d)' = Lasting(d)
    BY <1>3 DEF Lasting, Shared!Counted, Shared!Outlived, Shared!LeaseTime
  <2>2. CallBegun(d)'
    BY <1>1, <1>3 DEF CallBegun
  <2>3. ASSUME at[d] = "running"
        PROVE  /\ left'[d] <= Timeout[d]
               /\ \A k \in Lasting(d) :
                     /\ lease'[k][<<d, turn[d]>>] >= left'[d] + Margin[d]
                     /\ kept'[k] > left'[d]
    <3>1. left[d] \in Nat /\ left[d] > 0 /\ left'[d] = left[d] - 1
      BY <1>1, <1>2, <2>3 DEF Shared!Tick, Shared!TypeOK
    <3>2. left[d] <= Timeout[d] /\ Timeout[d] \in Nat
      BY <1>1, <2>3, SharedFacts DEF CallHolds
    <3>3. ASSUME NEW k \in Lasting(d)
          PROVE  /\ lease'[k][<<d, turn[d]>>] >= left'[d] + Margin[d]
                 /\ kept'[k] > left'[d]
      <4>1. k \in Resources /\ <<d, turn[d]>> \in Shared!Ids
        BY <1>1, <2>3, SharedFacts DEF CallBegun, Shared!Ids, Shared!Counted, Lasting
      <4>2. /\ lease[k][<<d, turn[d]>>] >= left[d] + Margin[d]
            /\ kept[k] > left[d]
        BY <1>1, <2>3 DEF CallHolds
      <4>3. lease[k][<<d, turn[d]>>] \in Nat /\ kept[k] \in Nat
        BY <1>4, <4>1
      <4>4. kept[k] > 1 /\ lease[k][<<d, turn[d]>>] > 0
        BY <3>1, <4>2, <4>3, SharedFacts
      <4>5. kept'[k] = kept[k] - 1
        BY <1>2, <4>1, <4>3, <4>4 DEF Shared!Tick
      <4>6. lease'[k] = [i \in Shared!Ids |-> Shared!Less(lease[k][i])]
        BY <4>1, <4>3, <4>4 DEF Shared!Tick, Shared!Expired
      <4>7. lease'[k][<<d, turn[d]>>] = lease[k][<<d, turn[d]>>] - 1
        BY <1>2, <4>1, <4>3, <4>4, <4>6
      <4> QED BY <3>1, <4>2, <4>3, <4>5, <4>7, SharedFacts
    <3> QED BY <3>1, <3>2, <3>3
  <2> QED BY <1>3, <2>1, <2>2, <2>3 DEF CallHolds
<1> QED BY <1>6, <1>7 DEF SharedInv

LEMMA SharedNext ==
    ASSUME SharedInv, Shared!Next
    PROVE  SharedInv'
BY SharedMakeCall, SharedAcquire, SharedGiveUp, SharedEnd, SharedTick DEF Shared!Next

LEMMA SharedSame ==
    ASSUME SharedInv, UNCHANGED sharedVars
    PROVE  SharedInv'
BY DEF SharedInv, sharedVars, Shared!TypeOK, Shared!Ids, CallBegun, CallHolds, Lasting,
       Shared!Counted, Shared!Outlived, Shared!LeaseTime

LEMMA SharedInductive == GatesSpec => []SharedInv
<1>1. GatesInit => SharedInv
  BY SharedInitHolds DEF GatesInit
<1>2. SharedInv /\ [GatesNext]_gateVars => SharedInv'
  <2> SUFFICES ASSUME SharedInv, [GatesNext]_gateVars PROVE SharedInv'
    OBVIOUS
  <2>1. Shared!Next \/ UNCHANGED sharedVars
    BY DEF GatesNext, gateVars, sharedVars
  <2> QED BY <2>1, SharedNext, SharedSame
<1> QED BY <1>1, <1>2, PTL DEF GatesSpec

-----------------------------------------------------------------------------
LEMMA LeasesFinite == \A k : IsFiniteSet(Shared!Leases(k))
<1>1. IsFiniteSet(1..MaxCalls)
  BY SharedFacts, FS_Interval
<1>2. IsFiniteSet(Calls \X (1..MaxCalls))
  BY <1>1, SharedFacts, FS_Product
<1>3. IsFiniteSet(Shared!Ids)
  BY <1>2 DEF Shared!Ids
<1>4. \A k : Shared!Leases(k) \subseteq Shared!Ids
  BY DEF Shared!Leases
<1> QED BY <1>3, <1>4, FS_Subset

(* What ProviderSlots counts, seen from here. *)
LEMMA CountedMapped ==
    ASSUME NEW c \in Calls
    PROVE  Shared!Slots!Counted(c) = Lasting(c)
<1>1. Lasting(c) \subseteq Needs[c] \cap Shared!Outlived
  BY DEF Lasting, Shared!Counted
<1>2. \A k \in Needs[c] \cap Shared!Outlived : k \in Lasting(c) <=> asked[c][k] > 0
  BY DEF Lasting, Shared!Counted
<1> QED BY <1>1, <1>2 DEF Shared!Slots!Counted

(* The calls that run on a resource have as many leases of it. *)
LEMMA UsingLeased ==
    ASSUME SharedInv, NEW k \in Shared!Outlived
    PROVE  Cardinality(Shared!Slots!Using(k)) <= Cardinality(Shared!Leases(k))
<1> DEFINE U == Shared!Slots!Using(k)
           L == Shared!Leases(k)
           f == [c \in U |-> <<c, turn[c]>>]
<1>2. IsFiniteSet(L)
  BY LeasesFinite
<1>3. ASSUME NEW c \in U
      PROVE  f[c] \in L
  <2>1. /\ Shared!TypeOK /\ CallBegun(c) /\ CallHolds(c)
        /\ c \in Calls /\ at[c] = "running" /\ k \in Lasting(c) /\ k \in Resources
    BY CountedMapped DEF SharedInv, Shared!Slots!Using, Shared!Outlived
  <2>2. <<c, turn[c]>> \in Shared!Ids
    BY <2>1 DEF CallBegun, Shared!Ids
  <2>3. lease[k][<<c, turn[c]>>] >= left[c] + Margin[c] /\ left[c] \in Nat
    BY <2>1 DEF CallHolds, Shared!TypeOK
  <2>4. lease[k][<<c, turn[c]>>] \in Nat
    BY <2>1, <2>2 DEF Shared!TypeOK
  <2>5. lease[k][<<c, turn[c]>>] > 0
    <3>1. Margin[c] \in Nat \ {0}
      BY <2>1, SharedFacts
    <3> QED BY <2>3, <2>4, <3>1
  <2> QED BY <2>2, <2>5 DEF Shared!Leases
<1>4. f \in Injection(U, L)
  <2>1. f \in [U -> L]
    BY <1>3
  <2>2. \A c, d \in U : f[c] = f[d] => c = d
    OBVIOUS
  <2> QED BY <2>1, <2>2 DEF Injection, IsInjective
<1> HIDE DEF U, L, f
<1>5. Cardinality(U) <= Cardinality(L)
  BY <1>2, <1>4, FS_Injection
<1> QED BY <1>5 DEF U, L

LEMMA SharedCardinality == \A S : Shared!Slots!Cardinality(S) = Cardinality(S) /\ Shared!Cardinality(S) = Cardinality(S)
BY DEF Shared!Slots!Cardinality, Shared!Cardinality, Cardinality

LEMMA SharedInitMapped == Shared!Init => Shared!Slots!SlotsInit
BY DEF Shared!Init, Shared!Slots!SlotsInit, Shared!Outlived

(* A call asks with limits of all it needs; ProviderSlots sees some.       *)
LEMMA SharedMakeCallMapped ==
    ASSUME SharedInv, NEW c \in Calls, Shared!MakeCall(c)
    PROVE  Shared!Slots!MakeCall(c)
<1> DEFINE N == Needs[c] \cap Shared!Outlived
           Own == [d \in Calls |-> [k \in Shared!Outlived |-> asked[d][k]]]
           Own1 == [d \in Calls |-> [k \in Shared!Outlived |-> asked'[d][k]]]
<1>1. PICK l \in [Needs[c] -> SharedLimits] :
          asked' = [asked EXCEPT ![c] = [k \in Resources |-> IF k \in Needs[c] THEN l[k] ELSE 0]]
  BY DEF Shared!MakeCall
<1> DEFINE m == [k \in N |-> l[k]]
           f == [k \in Shared!Outlived |-> IF k \in N THEN m[k] ELSE 0]
<1>2. m \in [N -> SharedLimits]
  OBVIOUS
<1>3. asked'[c] = [k \in Resources |-> IF k \in Needs[c] THEN l[k] ELSE 0]
  BY <1>1 DEF SharedInv, Shared!TypeOK
<1>4. \A d \in Calls : d # c => asked'[d] = asked[d]
  BY <1>1 DEF SharedInv, Shared!TypeOK
<1>5. Shared!Outlived \subseteq Resources
  BY DEF Shared!Outlived
<1>6. [k \in Shared!Outlived |-> asked'[c][k]] = f
  BY <1>3, <1>5
<1>7. Own1 = [Own EXCEPT ![c] = f]
  <2> HIDE DEF f
  <2> QED BY <1>4, <1>6
<1>8. at[c] = "idle" /\ at' = [at EXCEPT ![c] = "asking"]
  BY DEF Shared!MakeCall
<1>9. [d \in Calls |-> Needs[d] \cap Shared!Outlived][c] = N
  OBVIOUS
<1>10. Own1 = [Own EXCEPT ![c] =
                 [k \in Shared!Outlived |->
                    IF k \in [d \in Calls |-> Needs[d] \cap Shared!Outlived][c] THEN m[k] ELSE 0]]
  BY <1>7, <1>9
<1>11. m \in [[d \in Calls |-> Needs[d] \cap Shared!Outlived][c] -> SharedLimits]
  BY <1>2, <1>9
<1>12. (Own)' = Own1
  BY DEF Shared!Outlived, Shared!LeaseTime
<1> HIDE DEF m
<1> QED BY <1>8, <1>10, <1>11, <1>12 DEF Shared!Slots!MakeCall

(* What ProviderSlots sees depends on the calls and on what they ask with. *)
LEMMA SlotVarsSame ==
    ASSUME at' = at, asked' = asked
    PROVE  Shared!Slots!slotVars' = Shared!Slots!slotVars
BY DEF Shared!Slots!slotVars, Shared!Outlived, Shared!LeaseTime

LEMMA SharedStepMapped ==
    ASSUME SharedInv, Shared!Next
    PROVE  [Shared!Slots!SlotsNext]_(Shared!Slots!slotVars)
<1>1. ASSUME NEW c \in Calls, Shared!MakeCall(c)
      PROVE  Shared!Slots!MakeCall(c)
  BY <1>1, SharedMakeCallMapped
<1>2. ASSUME NEW c \in Calls, Shared!Acquire(c)
      PROVE  Shared!Slots!Admit(c) \/ Shared!Slots!Leave(c)
  <2>1. Shared!Slots!Free(c)
    <3>1. ASSUME NEW k \in Lasting(c)
          PROVE  Cardinality(Shared!Slots!Using(k)) < asked[c][k]
      <4>1. k \in Shared!Outlived /\ k \in Shared!Counted(c) /\ asked[c][k] \in Nat
        BY SharedFacts DEF Lasting, Shared!Outlived, SharedInv, Shared!TypeOK
      <4>2. Cardinality(Shared!Leases(k)) < asked[c][k]
        BY <1>2, <4>1, SharedCardinality DEF Shared!Acquire, Shared!Available
      <4>3. Cardinality(Shared!Slots!Using(k)) <= Cardinality(Shared!Leases(k))
        BY <4>1, UsingLeased
      <4>4. Cardinality(Shared!Slots!Using(k)) \in Int /\ Cardinality(Shared!Leases(k)) \in Int
        <5>1. Shared!Slots!Using(k) \subseteq Calls
          BY DEF Shared!Slots!Using
        <5> QED BY <5>1, LeasesFinite, SharedFacts, FS_Subset, FS_CardinalityType
      <4> QED BY <4>1, <4>2, <4>3, <4>4
    <3>2. \A k \in Lasting(c) : [d \in Calls |-> [i \in Shared!Outlived |-> asked[d][i]]][c][k] = asked[c][k]
      BY DEF Lasting
    <3> QED BY <3>1, <3>2, CountedMapped, SharedCardinality DEF Shared!Slots!Free
  <2> QED BY <1>2, <2>1 DEF Shared!Acquire, Shared!Slots!Admit, Shared!Slots!Leave
<1>3. ASSUME NEW c \in Calls, Shared!GiveUp(c) \/ Shared!End(c)
      PROVE  Shared!Slots!Leave(c)
  BY <1>3 DEF Shared!GiveUp, Shared!End, Shared!Slots!Leave
<1>4. CASE Shared!Tick
  BY <1>4, SlotVarsSame DEF Shared!Tick
<1> QED BY <1>1, <1>2, <1>3, <1>4 DEF Shared!Next, Shared!Slots!SlotsNext

(* The gate all processes share keeps the promise of ProviderSlots at      *)
(* every resource whose set of leases outlives the calls in it, with calls *)
(* that die, answers that are lost and releases that fail                  *)
(* (redis_concurrency.go).  No timeout, margin or limit is excluded.       *)
THEOREM SharedPromised == GatesSpec => SharedImplements
<1>1. GatesInit => Shared!Slots!SlotsInit
  BY SharedInitMapped DEF GatesInit
<1>2. SharedInv /\ [GatesNext]_gateVars => [Shared!Slots!SlotsNext]_(Shared!Slots!slotVars)
  <2> SUFFICES ASSUME SharedInv, [GatesNext]_gateVars
               PROVE  [Shared!Slots!SlotsNext]_(Shared!Slots!slotVars)
    OBVIOUS
  <2>1. Shared!Next \/ (at' = at /\ asked' = asked)
    BY DEF GatesNext, gateVars, sharedVars
  <2> QED BY <2>1, SharedStepMapped, SlotVarsSame
<1> QED BY <1>1, <1>2, SharedInductive, PTL DEF GatesSpec, SharedImplements, Shared!Implements, Shared!Slots!SlotsSpec

(* The leases of a call last as long as the call, whatever other calls     *)
(* acquire, release or leave behind, where the set outlives the calls in   *)
(* it (lease_ttl_ms).                                                      *)
THEOREM LeasesHeld == GatesSpec => []Shared!CallsHoldLeases
<1>1. SharedInv => Shared!CallsHoldLeases
  <2> SUFFICES ASSUME SharedInv, NEW c \in Calls, at[c] = "running", NEW k \in Lasting(c)
               PROVE  Shared!Id(c) \in Shared!Leases(k)
    BY DEF Shared!CallsHoldLeases, Lasting
  <2>1. Shared!TypeOK /\ CallBegun(c) /\ CallHolds(c)
    BY DEF SharedInv
  <2>2. k \in Resources /\ <<c, turn[c]>> \in Shared!Ids
    BY <2>1, SharedFacts DEF CallBegun, Shared!Ids, Shared!Counted, Lasting
  <2>3. lease[k][<<c, turn[c]>>] >= left[c] + Margin[c] /\ left[c] \in Nat
    BY <2>1 DEF CallHolds, Shared!TypeOK
  <2>4. lease[k][<<c, turn[c]>>] \in Nat
    BY <2>1, <2>2 DEF Shared!TypeOK
  <2>5. lease[k][<<c, turn[c]>>] > 0
    <3>1. Margin[c] \in Nat \ {0}
      BY <2>1, SharedFacts
    <3> QED BY <2>3, <2>4, <3>1
  <2> QED BY <2>2, <2>5 DEF Shared!Leases, Shared!Id
<1> QED BY <1>1, SharedInductive, PTL

(* Whichever gate the program is started with, the calls of a process are  *)
(* admitted as ProviderSlots says (localConcurrencyGate).                  *)
THEOREM LocalPromised == GatesSpec => Implements
<1>1. GatesInit => Init
  BY DEF GatesInit
<1>2. [GatesNext]_gateVars => [Next]_vars
  BY DEF GatesNext, gateVars
<1>3. GatesSpec => Spec
  BY <1>1, <1>2, PTL DEF GatesSpec, Spec
<1> QED BY <1>3, Promised, PTL
=============================================================================
