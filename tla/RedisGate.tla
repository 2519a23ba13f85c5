------------------------------ MODULE RedisGate ------------------------------
(***************************************************************************)
(* The gate shared by all processes (redis_concurrency.go): for each       *)
(* resource a sorted set of leases with their ends, and for the whole set  *)
(* the time it is kept.                                                    *)
(*                                                                         *)
(* A step is one run of a script of the gate, which Redis runs atomically. *)
(* Times are what is left of them: Tick takes one from each.  A call is    *)
(* ended by the timeout of its HTTP client, so time does not pass it by.   *)
(***************************************************************************)
EXTENDS Integers, FiniteSets

CONSTANTS
    Calls, Resources, Needs, Limits,
    Timeout,    \* call -> the timeout of its model account
    Margin,     \* call -> what its lease lasts beyond it: 30 seconds; the
                \* two minutes of an account without a timeout of its own
                \* are 90 more than the 30 of the client it then uses
    Grace,      \* what the set of leases lasts beyond the lease: one second
    MaxCalls,   \* bound: how often a call is made
    Faults,     \* what may go wrong
    MaxFaults   \* bound: how often

RedisAssumption ==
    /\ IsFiniteSet(Calls) /\ Limits \subseteq Nat
    /\ Needs \in [Calls -> SUBSET Resources]
    /\ Timeout \in [Calls -> Nat \ {0}] /\ Margin \in [Calls -> Nat \ {0}] /\ Grace \in Nat \ {0}
    /\ MaxCalls \in Nat /\ MaxFaults \in Nat
    /\ Faults \subseteq {"die", "acquire", "release"}

VARIABLES
    at,      \* call -> "idle", "asking" or "running"
    own,     \* call -> the limits it asks with
    left,    \* call -> what is left of its timeout
    turn,    \* call -> how often it was made
    lease,   \* resource -> lease -> what is left of it; 0 is none
    kept,    \* resource -> what is left of the set; 0 is none
    faults   \* faults so far

vars == <<at, own, left, turn, lease, kept, faults>>

Ids == Calls \X (1..MaxCalls)
Id(c) == <<c, turn[c]>>
Counted(c) == {k \in Needs[c] : own[c][k] > 0}
NoLease == [i \in Ids |-> 0]
Leases(k) == {i \in Ids : lease[k][i] > 0}

Init ==
    /\ at = [c \in Calls |-> "idle"]
    /\ own = [c \in Calls |-> [k \in Resources |-> 0]]
    /\ left = [c \in Calls |-> 0] /\ turn = [c \in Calls |-> 0]
    /\ lease = [k \in Resources |-> NoLease]
    /\ kept = [k \in Resources |-> 0]
    /\ faults = 0

Fault(f) == f \in Faults /\ faults < MaxFaults /\ faults' = faults + 1

MakeCall(c) ==
    /\ at[c] = "idle" /\ turn[c] < MaxCalls
    /\ at' = [at EXCEPT ![c] = "asking"]
    /\ turn' = [turn EXCEPT ![c] = @ + 1]
    /\ \E l \in [Needs[c] -> Limits] :
          own' = [own EXCEPT ![c] = [k \in Resources |-> IF k \in Needs[c] THEN l[k] ELSE 0]]
    /\ UNCHANGED <<left, lease, kept, faults>>

(* providerConcurrencyLeaseTTL *)
LeaseTime(c) == Timeout[c] + Margin[c]

(* Faulty: it is enough that one of the resources has a slot. *)
AvailableSome(c) == Counted(c) = {} \/ \E k \in Counted(c) : Cardinality(Leases(k)) < own[c][k]
Available(c) == \A k \in Counted(c) : Cardinality(Leases(k)) < own[c][k]

(* redisConcurrencyAcquireScript, when it does not block: ZADD and PEXPIRE.*)
Granted(c) ==
    /\ lease' = [k \in Resources |-> IF k \in Counted(c)
                    THEN [lease[k] EXCEPT ![Id(c)] = LeaseTime(c)] ELSE lease[k]]
    /\ kept' = [k \in Resources |-> IF k \in Counted(c) THEN LeaseTime(c) + Grace ELSE kept[k]]
(* When the answer is lost, or the context has ended, nobody holds the     *)
(* lease.                                                                  *)
Acquire(c) ==
    /\ at[c] = "asking"
    /\ Available(c)
    /\ Granted(c)
    /\ \/ /\ at' = [at EXCEPT ![c] = "running"]
          /\ left' = [left EXCEPT ![c] = Timeout[c]]
          /\ UNCHANGED faults
       \/ /\ Counted(c) # {} /\ Fault("acquire")
          /\ at' = [at EXCEPT ![c] = "idle"]
          /\ UNCHANGED left
    /\ UNCHANGED <<own, turn>>

(* The context ends while the call waits for its next turn. *)
GiveUp(c) ==
    /\ at[c] = "asking"
    /\ at' = [at EXCEPT ![c] = "idle"]
    /\ UNCHANGED <<own, left, turn, lease, kept, faults>>

(* redisConcurrencyReleaseScript: ZREM, and DEL of a set that is empty.    *)
Released(c) ==
    /\ lease' = [k \in Resources |-> IF k \in Counted(c)
                    THEN [lease[k] EXCEPT ![Id(c)] = 0] ELSE lease[k]]
    /\ kept' = [k \in Resources |-> IF k \in Counted(c) /\ Leases(k) \subseteq {Id(c)}
                    THEN 0 ELSE kept[k]]
(* The provider has answered, or not in time; the process may have died.   *)
End(c) ==
    /\ at[c] = "running"
    /\ at' = [at EXCEPT ![c] = "idle"]
    /\ left' = [left EXCEPT ![c] = 0]
    /\ \/ Released(c) /\ UNCHANGED faults
       \/ (Fault("release") \/ Fault("die")) /\ UNCHANGED <<lease, kept>>
    /\ UNCHANGED <<own, turn>>

Less(n) == IF n > 0 THEN n - 1 ELSE 0
(* Faulty: what no call of the gate removes stays. *)
ExpiredNever(k) == lease[k]
(* Leases that are over are removed before they are counted, and with      *)
(* their set whatever is left of them.                                     *)
Expired(k) == IF kept[k] <= 1 THEN NoLease ELSE [i \in Ids |-> Less(lease[k][i])]
Tick ==
    /\ \A c \in Calls : at[c] = "running" => left[c] > 0
    /\ lease' = [k \in Resources |-> Expired(k)]
    /\ kept' = [k \in Resources |-> Less(kept[k])]
    /\ left' = [c \in Calls |-> Less(left[c])]
    /\ UNCHANGED <<at, own, turn, faults>>

Next == (\E c \in Calls : MakeCall(c) \/ Acquire(c) \/ GiveUp(c) \/ End(c)) \/ Tick

Spec == Init /\ [][Next]_vars
(* Time passes, the calls end, and a call that waits asks again.           *)
FairSpec == Spec /\ WF_vars(Tick) /\ \A c \in Calls : WF_vars(Acquire(c)) /\ WF_vars(End(c))

-----------------------------------------------------------------------------
TypeOK ==
    /\ at \in [Calls -> {"idle", "asking", "running"}]
    /\ own \in [Calls -> [Resources -> Nat]]
    /\ left \in [Calls -> Nat] /\ turn \in [Calls -> 0..MaxCalls]
    /\ lease \in [Resources -> [Ids -> Nat]] /\ kept \in [Resources -> Nat]
    /\ faults \in Nat

(* The resources where the set a call adds its lease to outlives every     *)
(* call that may be in it: all of them, when no account has a timeout half *)
(* a minute longer than that of another one its users call.                *)
Outlived ==
    {k \in Resources : \A c, d \in Calls :
        k \in Needs[c] \cap Needs[d] => Timeout[d] < LeaseTime(c) + Grace}

(* At these resources the leases of a call last as long as the call,       *)
(* whatever other calls acquire, release or leave behind.                  *)
CallsHoldLeases ==
    \A c \in Calls : at[c] = "running" => \A k \in Counted(c) \cap Outlived : Id(c) \in Leases(k)

(* At these resources all processes together admit as ProviderSlots says.  *)
Slots == INSTANCE ProviderSlots WITH
            Resources <- Outlived,
            Needs <- [c \in Calls |-> Needs[c] \cap Outlived],
            own <- [c \in Calls |-> [k \in Outlived |-> own[c][k]]]
Implements == Slots!SlotsSpec

(* A lease nobody holds any more goes: no death, lost answer or failed     *)
(* release takes a slot for good.                                          *)
LeasesGo == \A k \in Resources, i \in Ids : i \in Leases(k) ~> i \notin Leases(k)
(* So whoever asks is admitted, or gives up. *)
AskersAreServed == \A c \in Calls : at[c] = "asking" ~> at[c] # "asking"

-----------------------------------------------------------------------------
(* What the code does not keep: TLC refutes each of these, with the        *)
(* constants the README names.                                             *)

(* No more calls run on a resource than each of them was admitted under    *)
(* ("shared by API, workers and replicas", pic-gallery-tech-design.md).    *)
Using(k) == {c \in Calls : at[c] = "running" /\ k \in Counted(c)}
LimitShared == \A k \in Resources : \A c \in Using(k) : Cardinality(Using(k)) <= own[c][k]
=============================================================================
