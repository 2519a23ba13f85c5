------------------------------- MODULE MCGates -------------------------------
(* Two calls of one user with one account, and one with another account;   *)
(* the timeouts of the two accounts differ by less than a lease outlasts   *)
(* its call, and so do their margins.                                      *)
EXTENDS Gates, TLC

CONSTANTS c1, c2, c3, user, account, other

MCNeeds == c1 :> {user, account} @@ c2 :> {user, account} @@ c3 :> {user, other}
MCTimeout == c1 :> 2 @@ c2 :> 2 @@ c3 :> 3
MCMargin == c1 :> 1 @@ c2 :> 1 @@ c3 :> 2
=============================================================================
