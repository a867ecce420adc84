-------------------------------- MODULE MCGc --------------------------------
(***************************************************************************)
(* A small Gc: two strings, a literal, the method's parameter, and either  *)
(* an array and a variable or two variables.  Two states are one for TLC   *)
(* if they differ only in what is never read again: the past of what has   *)
(* been freed, the parameter of a method that does not run, a `last' that  *)
(* is pinned or freed, the first entry of a name that no other name can    *)
(* bring back; and, as nothing is claimed of them, if the script did go    *)
(* wrong in the same ways.                                                 *)
(***************************************************************************)
EXTENDS Gc, TLC

CONSTANTS s1, s2, ary, lit, x, y, p

\* Bound: a script has an array or a second variable, not both; one with an array
\* has at most one object whose count may be too high.
Used      == {v \in Var \ {Parm} : \E b \in Block : env[b][v] # None}
OneOfBoth == mem.st[ary] = "unborn" \/ (Cardinality(Used) < 2 /\ Cardinality(mem.kept) < 2)

Renamed == Permutations(Str) \cup Permutations(Var \ {Parm})

Alive(o) == mem.st[o] = "live"
\* A `last' is compared with what is counted down, and matters to nothing else.
Recalled(o) == IF o = None THEN None
               ELSE IF o \in Lit \/ ~Alive(o) THEN None ELSE o
Heap0 == [mem EXCEPT !.rc    = [o \in Obj |-> IF Alive(o) THEN @[o] ELSE 0],
                     !.elems = [a \in Ary |-> IF Alive(a) THEN @[a] ELSE <<>>],
                     !.kept  = {o \in @ : Alive(o)},
                     !.last  = [b \in Block |-> Recalled(@[b])]]
\* What a cell that is not finished will give replaces the value before it.
Frames0 == [i \in DOMAIN frames |->
              LET f == [frames[i] EXCEPT !.val = IF i = Len(frames) THEN @ ELSE None]
              IN  IF f.assign = None THEN f
                  ELSE [f EXCEPT !.assign.last = Recalled(@)]]
Locals == IF \E f \in Range(frames) : f.blk = "method" THEN env
          ELSE [env EXCEPT !["method"] = [v \in Var |-> None]]
\* The first entry of a name comes back when another name is added to its table,
\* and there is another only where there is no array.
First0 == [b \in {"main", "inner"}, v \in Var \ {Parm} |->
             LET o == oldest[b][v]
             IN  IF mem.st[ary] # "unborn" \/ o = None THEN None
                 ELSE IF Alive(o) THEN o ELSE "freed"]
View == IF causes = {} THEN <<Heap0, Locals, First0, Frames0>>
        ELSE <<causes>>
=============================================================================
