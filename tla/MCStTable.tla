----------------------------- MODULE MCStTable -----------------------------
(***************************************************************************)
(* A small StTable: four keys, three of them colliding in the first table, *)
(* two of these again after one growth, and a table that grows at its      *)
(* third and its sixth entry.                                              *)
(***************************************************************************)
EXTENDS StTable, TLC

CONSTANTS k1, k2, k3, k4, r1, r2

MCHash   == k1 :> 0 @@ k2 :> 2 @@ k3 :> 10 @@ k4 :> 1
MCPrimes == <<2, 5, 11>>

\* The table of primes in st.c (without the 0 that ends it): the size
\* new_size picks for a growth is always the next prime.
StPrimes == <<11, 19, 37, 67, 131, 283, 521, 1033, 2053, 4099, 8219, 16427,
              32771, 65581, 131101, 262147, 524309, 1048583, 2097169, 4194319,
              8388617, 16777259, 33554467, 67108879>>
ASSUME RealSizesGrow ==
  \A n \in 1..(Len(StPrimes)-1) :
     /\ 8 * 2^n > StPrimes[n] + 1
     /\ \A m \in 1..n : 8 * 2^(m-1) <= StPrimes[n] + 1
=============================================================================
