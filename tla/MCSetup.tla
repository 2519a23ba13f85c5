------------------------------ MODULE MCSetup -------------------------------
(* Two browsers with an operation and a form of their own each, any of     *)
(* which may submit either form; the forms name two databases.             *)
EXTENDS Setup, TLC
CONSTANTS f1, f2, d1, d2

MCDatabaseOf == (f1 :> d1) @@ (f2 :> d2)
=============================================================================
