------------------------------ MODULE Classes ------------------------------
(***************************************************************************)
(* Classes, their methods, and how a call finds one.  The parser fills the *)
(* tables of the classes as it reads a script, a sequence of class, def    *)
(* and end; calls come when all of it has been read.  current_class is a   *)
(* single variable, which an `end' sets to the super of the class it       *)
(* closes, whatever class was open before.                                 *)
(*                                                                         *)
(* mcall_call keeps a cache of one method: curi is a local variable, so    *)
(* only the first of the three entries is ever written.  The fourth, which *)
(* its loop reads beyond the array, is never a match in the build at hand: *)
(* the linker puts sigint_flag there.                                      *)
(*                                                                         *)
(* Left out: blocks other than def, whose names are those around them; the *)
(* arguments of calls; and scripts that open the class Thread, or a name   *)
(* that is not a class.                                                    *)
(***************************************************************************)
EXTENDS Naturals, Sequences, SequencesExt

CONSTANTS Builtin, Made,      \* the interpreter's classes; the script's
          Name, Sym, Missing, \* names of classes, of methods; method_missing
          BuiltinSuper,       \* the super of each builtin class
          NativeIm, NativeSm, \* the methods that are written in C
          Asked,              \* the methods that C code calls
          Selves,             \* the classes of what cself may be
          None,
          MaxTokens           \* bound: the length of a script

Class == Builtin \cup Made

ASSUME ClassesAssumption ==
  /\ {"Object", "Kernel", "Thread"} \subseteq Builtin
  /\ Builtin \cap Made = {} /\ None \notin Class
  /\ BuiltinSuper \in [Builtin -> Builtin \cup {None}]
  /\ Selves \subseteq Builtin /\ MaxTokens \in Nat
ASSUME MethodsAssumption ==
  /\ {"call", Missing} \cup Asked \subseteq Sym /\ "call" \in NativeIm["Thread"]
  /\ {NativeIm, NativeSm} \subseteq [Builtin -> SUBSET Sym]
\* The interpreter makes a class after its super: no class is its own.
ASSUME RootsAssumption ==
  \A S \in SUBSET Builtin : S # {} => \E k \in S : BuiltinSuper[k] \notin S

VARIABLES phase,          \* "parse", "run", or how it ended
          classes,        \* those the script has made, in order
          super, im_tbl, sm_tbl,
          current_class,
          names,          \* the classes by name, for each def that is open
          end_vector,     \* what closes each open block
          nest,           \* history: the class each open block is in
          astray,         \* history: see parse_class
          tokens,         \* bound: how much has been read
          cache           \* the entry that is used

tables == <<classes, super, im_tbl, sm_tbl>>
parser == <<current_class, names, end_vector, nest, astray, tokens>>
vars   == <<phase, tables, parser, cache>>

\* A method: what it is called, the class it is entered in, and the class it
\* is written in; None for what is written in C.
Method == [sym : Sym, home : Class, in : Class \cup {None}]
Natives(nat) == [k \in Class |-> [s \in Sym |->
                   IF k \in Builtin /\ s \in nat[k]
                   THEN [sym |-> s, home |-> k, in |-> None] ELSE None]]

NoEntry == [k |-> None, s |-> None, f |-> None]

Init == /\ phase = "parse" /\ tokens = 0
        /\ classes = <<>>
        /\ super = [k \in Class |-> IF k \in Builtin THEN BuiltinSuper[k] ELSE None]
        /\ im_tbl = Natives(NativeIm) /\ sm_tbl = Natives(NativeSm)
        /\ current_class = None
        /\ names = <<[n \in Name |-> IF n \in Builtin THEN n ELSE None]>>
        /\ end_vector = <<>> /\ nest = <<"Kernel">> /\ astray = FALSE
        /\ cache = NoEntry

----------------------------------------------------------------------------
(* The parser *)

Token == phase = "parse" /\ tokens < MaxTokens /\ tokens' = tokens + 1

\* check_variable: the table has the name, and none further in has it.
Innermost(i, n) == names[i][n] # None /\ \A j \in DOMAIN names : j > i => names[j][n] = None

OrKernel(k) == IF k = None THEN "Kernel" ELSE k

NewClass(n, sup) ==
  /\ \A i \in DOMAIN names : names[i][n] = None
  /\ \E k \in Made \ Range(classes) :
       /\ current_class' = k
       /\ classes' = Append(classes, k)
       /\ super' = [super EXCEPT ![k] = sup]
       /\ names' = [names EXCEPT ![Len(names)][n] = k]

\* A class that is in scope is opened again.
define_class(n, sup) ==
  \/ NewClass(n, sup)
  \/ \E i \in DOMAIN names :
       /\ Innermost(i, n) /\ current_class' = names[i][n]
       /\ UNCHANGED <<classes, super, names>>

\* The script goes astray when it opens a class at a place that the end of
\* the class will not come back to.
parse_class(n) ==
  /\ Token
  /\ define_class(n, current_class)
  /\ end_vector' = Append(end_vector, [fn |-> "end_class", sym |-> None])
  /\ nest' = Append(nest, current_class')
  /\ astray' = (astray \/ OrKernel(super'[current_class']) # Last(nest))
  /\ UNCHANGED <<phase, im_tbl, sm_tbl, cache>>

\* A def is a block of its own for the names of classes.
parse_define(s) ==
  /\ Token
  /\ names' = Append(names, [n \in Name |-> None])
  /\ end_vector' = Append(end_vector, [fn |-> "end_define", sym |-> s])
  /\ nest' = Append(nest, Last(nest))
  /\ UNCHANGED <<phase, tables, current_class, astray, cache>>

\* mutant: at the end of a class, no class is open
NoBack == None

Back == OrKernel(super[current_class])

end_class == /\ Last(end_vector).fn = "end_class"
             /\ current_class' = Back
             /\ UNCHANGED <<tables, names>>

\* define_soft_method, in current_class or else in Kernel.
end_define ==
  /\ Last(end_vector).fn = "end_define"
  /\ LET s == Last(end_vector).sym
         k == OrKernel(current_class)
     IN  im_tbl' = [im_tbl EXCEPT ![k][s] = [sym |-> s, home |-> k, in |-> Last(nest)]]
  /\ names' = Front(names)
  /\ UNCHANGED <<classes, super, sm_tbl, current_class>>

parse_end ==
  /\ Token
  /\ \/ /\ end_vector = <<>> /\ phase' = "yyerror"
        /\ UNCHANGED <<tables, current_class, names, end_vector, nest>>
     \/ /\ end_vector # <<>> /\ (end_class \/ end_define)
        /\ end_vector' = Front(end_vector) /\ nest' = Front(nest)
        /\ UNCHANGED phase
  /\ UNCHANGED <<astray, cache>>

parse_eof == /\ phase = "parse" /\ phase' = "run"
             /\ UNCHANGED <<tables, parser, cache>>

----------------------------------------------------------------------------
(* Calls *)

\* A class and its supers.
Line(k) == LET line[c \in Class] ==
                 IF super[c] = None THEN <<c>> ELSE <<c>> \o line[super[c]]
           IN  line[k]

Or(f, g) == IF f # None THEN f ELSE g

\* What a class itself has for a name: the method, or a method_missing.
Answer(tbl, c, s) == Or(tbl[c][s], tbl[c][Missing])

\* mutant: the last class of the line that has an answer
FirstFromTop(tbl, k, s) ==
  LET has == {i \in DOMAIN Line(k) : Answer(tbl, Line(k)[i], s) # None}
  IN  IF has = {} THEN None
      ELSE Answer(tbl, Line(k)[CHOOSE i \in has : \A j \in has : i >= j], s)

\* The answer of the first class of the line that has one.
First(tbl, k, s) ==
  LET has == {i \in DOMAIN Line(k) : Answer(tbl, Line(k)[i], s) # None}
  IN  IF has = {} THEN None
      ELSE Answer(tbl, Line(k)[CHOOSE i \in has : \A j \in has : i <= j], s)

get_method(k, s) == Or(First(im_tbl, k, s), Or(im_tbl["Kernel"][s], sm_tbl["Kernel"][s]))
get_singleton_method(k, s) == First(sm_tbl, k, s)

\* Where mcall_call looks, before it asks cself, and after.
Known(k, s) == Or(get_method(k, s), Or(get_singleton_method(k, s),
                                       get_singleton_method("Kernel", s)))
Resolve(k, s, self) ==
  Or(Known(k, s), Or(get_method(self, s), Or(get_singleton_method(self, s),
                                             get_method("Object", s))))

\* mutant: the cache is asked for the method alone
HitAnyClass(k, s) == cache.f # None /\ cache.s = s

Hit(k, s) == cache.f # None /\ cache.k = k /\ cache.s = s

\* A method of the script is called through the method "call" of its thread,
\* by an mcall_call that uses the cache too.
ThreadCall == [k |-> "Thread", s |-> "call", f |-> get_method("Thread", "call")]

Found(k, s, self) == IF Hit(k, s) THEN cache.f ELSE Resolve(k, s, self)

Entry(k, s, f) == [k |-> k, s |-> s, f |-> f]

mcall_call(k, s, self) ==
  /\ phase = "run"
  /\ LET f == Found(k, s, self)
     IN  \/ f = None /\ phase' = "fail" /\ UNCHANGED cache
         \/ /\ f # None /\ UNCHANGED phase
            /\ cache' = IF f.in = None THEN Entry(k, s, f) ELSE ThreadCall
  /\ UNCHANGED <<tables, parser>>

\* How C code calls: neither singletons nor, at first, the cache.
toi_funcall(k, s) ==
  /\ phase = "run"
  /\ LET f == get_method(k, s)
     IN  /\ phase' = IF f = None THEN "fail" ELSE phase
         /\ cache' = IF f = None \/ f.in = None THEN cache ELSE ThreadCall
  /\ UNCHANGED <<tables, parser>>

There == Builtin \cup Range(classes)

Next == \/ \E n \in Name : parse_class(n)
        \/ \E s \in Sym \ {"call"} : parse_define(s)
        \/ parse_end \/ parse_eof
        \/ \E k \in There, s \in Asked : toi_funcall(k, s)
        \/ \E k \in There, s \in Sym, self \in Selves : mcall_call(k, s, self)

Spec == Init /\ [][Next]_vars

----------------------------------------------------------------------------
EndEntry == [fn : {"end_class"}, sym : {None}] \cup [fn : {"end_define"}, sym : Sym]

\* What is open and what is in scope are classes that are there.
TypeOK == /\ phase \in {"parse", "run", "yyerror", "fail"}
          /\ classes \in Seq(Made)
          /\ super \in [Class -> Class \cup {None}]
          /\ {im_tbl, sm_tbl} \subseteq [Class -> [Sym -> Method \cup {None}]]
          /\ current_class \in There \cup {None}
          /\ names \in Seq([Name -> There \cup {None}])
          /\ end_vector \in Seq(EndEntry)
          /\ nest \in Seq(There) /\ Len(nest) = Len(end_vector) + 1
          /\ astray \in BOOLEAN /\ tokens \in Nat

\* The super of a class is older than the class, however classes are nested
\* and opened again: the searches of get_method, get_singleton_method and
\* kind_of_p, which follow `super', all end.
SupersAreOlder ==
  /\ \A k \in Builtin : super[k] = BuiltinSuper[k]
  /\ \A i \in DOMAIN classes :
       super[classes[i]] \in Builtin \cup {None} \cup {classes[j] : j \in 1 .. i - 1}

\* A method is entered in the class it is written in, whatever was opened
\* and closed before it, unless a class was opened away from its super.
DefinedWhereWritten ==
  ~astray => \A k \in Class, s \in Sym :
               im_tbl[k][s] # None => im_tbl[k][s].in \in {k, None}

\* A call runs the method of the nearest class that has it, unless a class
\* nearer still has a method_missing, which gets the call.
NearestAnswers ==
  phase = "run" =>
    \A k \in There, s \in Sym, self \in Selves :
      LET has(c, t)  == im_tbl[c][t] # None
          answers(c) == has(c, s) \/ has(c, Missing)
          line       == Line(k)
      IN  \A i \in DOMAIN line :
            answers(line[i]) /\ (\A j \in 1 .. i - 1 : ~answers(line[j])) =>
              Found(k, s, self) = im_tbl[line[i]][IF has(line[i], s) THEN s ELSE Missing]

\* The cache does not show: a call finds what a search would find, unless
\* only cself, or Object, could have the method.
CacheTransparent ==
  phase = "run" =>
    \A k \in There, s \in Sym, self \in Selves :
      Known(k, s) # None => Found(k, s, self) = Known(k, s)
=============================================================================
