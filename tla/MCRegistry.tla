----------------------------- MODULE MCRegistry -----------------------------
(* Registry with three job objects: "anon" is an unnamed persistent           *)
(* invocable, "report" a named one whose constructor is registered, "plain" a *)
(* job of the same name that another version of the program declares without  *)
(* persistence.                                                               *)
EXTENDS Registry, TLC

CONSTANTS anon, report, plain, rebuilt, idA, idR, main, dashboard

Names == (anon :> None) @@ (report :> idR) @@ (plain :> idR)
Stable == (anon :> idA) @@ (report :> idR) @@ (plain :> idR)
Versions == {{anon, report}, {anon, plain}, {anon}}
WhoReplays == Permutations(Caller)
=============================================================================
