------------------------------ MODULE MCScope ------------------------------
(***************************************************************************)
(* A small Scope: a method f(p) with an if and a begin block in it, a      *)
(* second method g() without parameter, one more name, one value and nil.  *)
(* Two states are one for TLC if they differ only in the argument that was *)
(* passed to g, which has no use for it.                                   *)
(***************************************************************************)
EXTENDS Scope, TLC

CONSTANTS main, f, g, f_if, f_begin, p, x, v

MCParent == f :> main @@ g :> main @@ f_if :> f @@ f_begin :> f
MCArgs   == {<<>>, <<x>>, <<v>>}
MCParm   == f :> p @@ g :> Nobody

View == <<env, tables, cur_thr, argv[f], stack>>

\* What a call remembers of its caller's variables is not looked at once the
\* table is shared; RecursionKeepsLocals does look at it.
Remembered == [k \in DOMAIN stack |->
                 IF stack[k].kind = "call" /\ stack[k].shared
                 THEN [stack[k] EXCEPT !.before = <<>>] ELSE stack[k]]
ViewShared == <<env, tables, cur_thr, argv[f], Remembered>>
=============================================================================
