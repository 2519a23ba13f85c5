---------------------------- MODULE ProviderSlots ----------------------------
(***************************************************************************)
(* What the concurrency gate of internal/service/imagetask promises to the *)
(* calls of image providers: a call starts only while every resource it    *)
(* needs, its user and its model account, has a slot left, and it takes    *)
(* all its slots in one step.  LocalGate and RedisGate implement it.       *)
(***************************************************************************)
EXTENDS Integers, FiniteSets

CONSTANTS
    Calls,
    Resources,
    Needs,  \* call -> the resources it needs
    Limits  \* limits a resource may have when a call is made; 0 is none

VARIABLES
    at,  \* call -> "idle", "asking" or "running"
    own  \* call -> the limits it asks with

slotVars == <<at, own>>

(* normalizeConcurrencyResources: what has no limit is not counted. *)
Counted(c) == {k \in Needs[c] : own[c][k] > 0}
Using(k) == {c \in Calls : at[c] = "running" /\ k \in Counted(c)}
Free(c) == \A k \in Counted(c) : Cardinality(Using(k)) < own[c][k]

SlotsInit ==
    /\ at = [c \in Calls |-> "idle"]
    /\ own = [c \in Calls |-> [k \in Resources |-> 0]]

MakeCall(c) ==
    /\ at[c] = "idle"
    /\ at' = [at EXCEPT ![c] = "asking"]
    /\ \E limit \in [Needs[c] -> Limits] :
          own' = [own EXCEPT ![c] = [k \in Resources |-> IF k \in Needs[c] THEN limit[k] ELSE 0]]
Admit(c) ==
    /\ at[c] = "asking" /\ Free(c)
    /\ at' = [at EXCEPT ![c] = "running"]
    /\ UNCHANGED own
(* The call is over, or its context ended while it waited. *)
Leave(c) ==
    /\ at[c] # "idle"
    /\ at' = [at EXCEPT ![c] = "idle"]
    /\ UNCHANGED own

SlotsNext == \E c \in Calls : MakeCall(c) \/ Admit(c) \/ Leave(c)
SlotsSpec == SlotsInit /\ [][SlotsNext]_slotVars
=============================================================================
