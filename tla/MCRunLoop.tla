----------------------------- MODULE MCRunLoop ------------------------------
(* RunLoop with a job due at every second and one due at every other.         *)
EXTENDS RunLoop, TLC
CONSTANTS often, seldom
Cadence == (often :> Time) @@ (seldom :> {s \in Time : s % 2 = 0})
=============================================================================
