----------------------------- MODULE MCClasses -----------------------------
(***************************************************************************)
(* A small Classes: four builtin classes, two of the script's.  Object and *)
(* String have an instance method "up", String a singleton method "new".   *)
(* Once the script has been read, the state of the parser is never looked  *)
(* at again.                                                               *)
(***************************************************************************)
EXTENDS Classes, TLC

CONSTANTS c1, c2

MadeAlike == Permutations(Made)

MCSuper == [k \in Builtin |-> IF k = "Object" THEN None ELSE "Object"]
MCIm == [k \in Builtin |-> CASE k = "Kernel" -> {}
                             [] k = "Thread" -> {"call"} [] OTHER -> {"up"}]
MCSm == [k \in Builtin |-> IF k = "String" THEN {"new"} ELSE {}]

View == CASE phase = "parse" -> <<tables, parser>>
          [] phase = "run"   -> <<tables, cache>>
          [] OTHER           -> <<phase>>
=============================================================================
