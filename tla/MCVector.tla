------------------------------ MODULE MCVector ------------------------------
(***************************************************************************)
(* A small Vector: two elements, a default size of two, vectors that begin *)
(* with one, two or three places and grow to at most four elements.        *)
(***************************************************************************)
EXTENDS Vector

CONSTANTS a, b

MCIndex    == -2 .. 2
MCNewSizes == {0, 1, 3}
=============================================================================
