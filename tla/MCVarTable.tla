----------------------------- MODULE MCVarTable -----------------------------
(***************************************************************************)
(* Three names, two of them in the same chain before and after the growth, *)
(* two values, and enough assignments for two growths.                     *)
(***************************************************************************)
EXTENDS VarTable, TLC

CONSTANTS k1, k2, k3, r1, r2

MCHash   == k1 :> 0 @@ k2 :> 10 @@ k3 :> 2
MCPrimes == <<2, 5, 11>>
=============================================================================
