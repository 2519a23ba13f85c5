-------------------------------- MODULE Gates --------------------------------
(***************************************************************************)
(* The two gates the program may be started with: the one of a process,    *)
(* or the one all processes share when there is a Redis                    *)
(* (NewRedisConcurrencyGate).  A behavior is one of the gate that was      *)
(* chosen; the other stays as it began.                                    *)
(***************************************************************************)
EXTENDS LocalGate

CONSTANTS
    SharedLimits, Timeout, Margin, Grace, MaxCalls, Faults, MaxFaults  \* of RedisGate

VARIABLES
    gate,                                        \* "local" or "shared"
    at, asked, left, turn, lease, kept, faults   \* of RedisGate; asked is its own

Shared == INSTANCE RedisGate WITH Limits <- SharedLimits, own <- asked
ASSUME SharedAssumption == Shared!RedisAssumption

sharedVars == <<at, asked, left, turn, lease, kept, faults>>
gateVars == <<gate, vars, sharedVars>>

GatesInit == gate \in {"local", "shared"} /\ Init /\ Shared!Init
GatesNext ==
    \/ gate = "local" /\ Next /\ UNCHANGED <<gate, sharedVars>>
    \/ gate = "shared" /\ Shared!Next /\ UNCHANGED <<gate, vars>>

(* The fairness of each gate, while it is the one that was chosen. *)
GatesFairness ==
    /\ \A c \in Calls :
        /\ WF_gateVars(gate = "local" /\ Try(c) /\ UNCHANGED <<gate, sharedVars>>)
        /\ WF_gateVars(gate = "local" /\ Release(c) /\ UNCHANGED <<gate, sharedVars>>)
        /\ WF_gateVars(gate = "shared" /\ Shared!Acquire(c) /\ UNCHANGED <<gate, vars>>)
        /\ WF_gateVars(gate = "shared" /\ Shared!End(c) /\ UNCHANGED <<gate, vars>>)
    /\ WF_gateVars(gate = "shared" /\ Shared!Tick /\ UNCHANGED <<gate, vars>>)
GatesSpec == GatesInit /\ [][GatesNext]_gateVars /\ GatesFairness

-----------------------------------------------------------------------------
(* At every resource whose set of leases outlives the calls in it, the     *)
(* shared gate admits as ProviderSlots says, over all processes, with      *)
(* calls that die, answers that are lost and releases that fail            *)
(* (redis_concurrency.go).  Where a shorter lease ends the set, it does    *)
(* not: LimitShared of RedisGate.                                          *)
SharedImplements == Shared!Implements
(* Whoever asks the shared gate is admitted or gives up: what calls that   *)
(* died and answers that were lost have left takes no slot for good.  (A    *)
(* set that ends too soon, which the run's timeouts leave out, only frees  *)
(* slots that are in use.)                                                 *)
AskersAreServed == Shared!AskersAreServed
=============================================================================
