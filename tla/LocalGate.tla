------------------------------ MODULE LocalGate ------------------------------
(***************************************************************************)
(* The gate within one process (localConcurrencyGate of                    *)
(* internal/service/imagetask/service.go): a counter for each resource     *)
(* under a mutex, and a channel that is closed and replaced to wake        *)
(* whoever waits.                                                          *)
(*                                                                         *)
(* A step is what is done between Lock and Unlock.  A call that waits on   *)
(* the channel it saw is "waiting", one that is about to lock is "trying". *)
(***************************************************************************)
EXTENDS Integers, FiniteSets

CONSTANTS Calls, Resources, Needs, Limits

ASSUME LocalAssumption ==
    /\ IsFiniteSet(Calls) /\ Limits \subseteq Nat
    /\ Needs \in [Calls -> SUBSET Resources]

VARIABLES
    pc,      \* call -> "idle", "trying", "waiting" or "running"
    own,     \* call -> the limits it asks with
    active,  \* resource -> entries[key].active
    limit    \* resource -> entries[key].limit; 0 while there is no entry

vars == <<pc, own, active, limit>>

Counted(c) == {k \in Needs[c] : own[c][k] > 0}

Init ==
    /\ pc = [c \in Calls |-> "idle"]
    /\ own = [c \in Calls |-> [k \in Resources |-> 0]]
    /\ active = [k \in Resources |-> 0]
    /\ limit = [k \in Resources |-> 0]

(* The limits of the user and of the model account are those of the time   *)
(* the task was begun.                                                     *)
MakeCall(c) ==
    /\ pc[c] = "idle"
    /\ pc' = [pc EXCEPT ![c] = "trying"]
    /\ \E l \in [Needs[c] -> Limits] :
          own' = [own EXCEPT ![c] = [k \in Resources |-> IF k \in Needs[c] THEN l[k] ELSE 0]]
    /\ UNCHANGED <<active, limit>>

(* Faulty: nobody is told. *)
WokenNone == pc
(* signalChangedLocked *)
Woken == [c \in Calls |-> IF pc[c] = "waiting" THEN "trying" ELSE pc[c]]

(* Faulty: a resource that is full by one may still be taken. *)
AvailableOne(c) == \A k \in Counted(c) : active[k] <= own[c][k]
(* The limit of an entry is that of whoever asks last. *)
Available(c) == \A k \in Counted(c) : active[k] < own[c][k]

Changes(c) == \E k \in Counted(c) : limit[k] # 0 /\ limit[k] # own[c][k]

(* One turn of the loop of Acquire. *)
Try(c) ==
    /\ pc[c] = "trying"
    /\ limit' = [k \in Resources |-> IF k \in Counted(c) THEN own[c][k] ELSE limit[k]]
    /\ LET others == IF Changes(c) THEN Woken ELSE pc IN
       IF Available(c)
       THEN /\ pc' = [others EXCEPT ![c] = "running"]
            /\ active' = [k \in Resources |-> IF k \in Counted(c) THEN active[k] + 1 ELSE active[k]]
       ELSE /\ pc' = [others EXCEPT ![c] = "waiting"]
            /\ UNCHANGED active
    /\ UNCHANGED own

Less(c) == [k \in Resources |-> IF k \in Counted(c) /\ active[k] > 0 THEN active[k] - 1 ELSE active[k]]

(* The function Acquire returns, once. *)
Release(c) ==
    /\ pc[c] = "running"
    /\ active' = Less(c)
    /\ pc' = [(IF Counted(c) = {} THEN pc ELSE Woken) EXCEPT ![c] = "idle"]
    /\ UNCHANGED <<own, limit>>

(* The context ends while the call waits. *)
GiveUp(c) ==
    /\ pc[c] = "waiting"
    /\ pc' = [pc EXCEPT ![c] = "idle"]
    /\ UNCHANGED <<own, active, limit>>

Next == \E c \in Calls : MakeCall(c) \/ Try(c) \/ Release(c) \/ GiveUp(c)

Spec == Init /\ [][Next]_vars
(* Goroutines that can run do, and calls of a provider end. *)
FairSpec == Spec /\ \A c \in Calls : WF_vars(Try(c)) /\ WF_vars(Release(c))

-----------------------------------------------------------------------------
TypeOK ==
    /\ pc \in [Calls -> {"idle", "trying", "waiting", "running"}]
    /\ own \in [Calls -> [Resources -> Nat]]
    /\ active \in [Resources -> Nat]
    /\ limit \in [Resources -> Nat]

Using(k) == {c \in Calls : pc[c] = "running" /\ k \in Counted(c)}
(* The counter of a resource is the number of calls that hold a slot of    *)
(* it: none is lost or given back twice (Acquire and its release).         *)
CountsAreHeld == \A k \in Resources : active[k] = Cardinality(Using(k))

(* The gate admits as ProviderSlots says. *)
Slots == INSTANCE ProviderSlots WITH
    at <- [c \in Calls |-> IF pc[c] \in {"trying", "waiting"} THEN "asking" ELSE pc[c]]
Implements == Slots!SlotsSpec

(* No call waits on while there is a slot for it: the channel it waits on  *)
(* was taken under the lock under which it found none.                     *)
NotForgotten ==
    \A c \in Calls : []<>~(pc[c] \in {"trying", "waiting"} /\ Available(c))

(* While no limit is changed, a call is woken only when slots were given   *)
(* back: calls that wait do not wake each other.                           *)
WokenByRelease ==
    [][\A c \in Calls : pc[c] = "waiting" /\ pc'[c] = "trying" =>
        \E d \in Calls : pc[d] = "running" /\ pc'[d] = "idle"]_vars
=============================================================================
