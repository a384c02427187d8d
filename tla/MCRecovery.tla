----------------------------- MODULE MCRecovery -----------------------------
(* A small instance of Recovery for TLC: one job, due at every step.        *)
EXTENDS Recovery, TLC

CONSTANTS j1, main, dashboard

OneJobEveryStep == (j1 :> Step)

\* The two callers of Replay are alike (safety only).
CallersAlike == Permutations(Caller)
=============================================================================
