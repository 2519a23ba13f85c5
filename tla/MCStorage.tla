------------------------------ MODULE MCStorage ------------------------------
(* A session on a local disk, which is swept once it is over; and sessions *)
(* on S3 that are open longer than the sweep waits.                        *)
EXTENDS Storage

CONSTANTS s1, s2

MCDisk == [sessions |-> {s1}, local |-> TRUE, long |-> FALSE, expires |-> {s1}, quota |-> 1,
           faults |-> {"die", "slow", "abort", "cancel", "delete", "error", "lost"}, maxFaults |-> 2]
MCS3 == [sessions |-> {s1, s2}, local |-> FALSE, long |-> TRUE, expires |-> {s1, s2}, quota |-> 2,
         faults |-> {"die", "slow", "abort", "answer", "error", "cancel", "put"}, maxFaults |-> 2]
=============================================================================
