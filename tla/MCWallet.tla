------------------------------ MODULE MCWallet ------------------------------
(* Model values for TLC: a user who bought a subscription that lapses at    *)
(* time 1 and a recharge that never expires.                                *)
EXTENDS Wallet, TLC

CONSTANT MaxRows  \* bound: rows of the ledger

SubscriptionAndRecharge ==
    [g \in GrantIds |->
        CASE g = 1 -> NewGrant("subscription", 1, 1)
          [] g = 2 -> NewGrant("recharge", 2, Never)
          [] OTHER -> NoGrant]

TaskSymmetry == Permutations(Tasks)

(* Wallets whose ledger has grown to MaxRows rows are not followed further. *)
ShortLedger == Cardinality(ledger) <= MaxRows
=============================================================================
