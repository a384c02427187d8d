------------------------------- MODULE MCStream -----------------------------
(* Stream with one page, one job and one operator.                           *)
EXTENDS Stream, TLC

CONSTANTS runner, operator, page1
=============================================================================
