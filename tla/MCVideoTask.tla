----------------------------- MODULE MCVideoTask -----------------------------
EXTENDS VideoTask, TLC

CONSTANTS s1, s2

TwoProcesses == s1 :> "p" @@ s2 :> "q"
=============================================================================
