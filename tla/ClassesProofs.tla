--------------------------- MODULE ClassesProofs ---------------------------
(***************************************************************************)
(* Theorems about Classes, for all classes, names and methods, and scripts *)
(* of any length.                                                          *)
(***************************************************************************)
EXTENDS Classes, SequenceTheorems, Induction

USE ClassesAssumption, MethodsAssumption

\* end_class closes a class: one is open.
Opened == current_class = None =>
            \A i \in DOMAIN end_vector : end_vector[i].fn = "end_define"

\* Each open block is in the class that current_class will be again when it
\* ends; what is true of the scripts that are not astray.
Nested == /\ Last(nest) = OrKernel(current_class)
          /\ \A i \in DOMAIN end_vector :
               nest[i] = IF end_vector[i].fn = "end_class"
                         THEN OrKernel(super[nest[i + 1]]) ELSE nest[i + 1]

\* What is cached is what the search finds, if it finds anything.
Cached == cache.f # None /\ Known(cache.k, cache.s) # None
            => cache.f = Known(cache.k, cache.s)

IInv == TypeOK /\ SupersAreOlder /\ Opened

----------------------------------------------------------------------------
\* Sequences: their ends.

LEMMA LastOfAppend ==
  ASSUME NEW S, NEW s \in Seq(S), NEW e \in S
  PROVE  /\ Append(s, e) \in Seq(S) /\ Append(s, e) # <<>>
         /\ Last(Append(s, e)) = e
         /\ Len(Append(s, e)) = Len(s) + 1
         /\ DOMAIN Append(s, e) = 1 .. Len(s) + 1
         /\ \A i \in 1 .. Len(s) : Append(s, e)[i] = s[i]
BY AppendProperties DEF Last

LEMMA PrefixOfSeq ==
  ASSUME NEW S, NEW s, NEW n \in Nat, \A i \in 1 .. n : s[i] \in S
  PROVE  /\ SubSeq(s, 1, n) \in Seq(S) /\ Len(SubSeq(s, 1, n)) = n
         /\ \A i \in 1 .. n : SubSeq(s, 1, n)[i] = s[i]
OBVIOUS

LEMMA FrontOfSeq ==
  ASSUME NEW S, NEW s \in Seq(S), s # <<>>
  PROVE  /\ Front(s) \in Seq(S) /\ Len(Front(s)) = Len(s) - 1
         /\ DOMAIN Front(s) = 1 .. Len(s) - 1
         /\ \A i \in 1 .. Len(s) - 1 : Front(s)[i] = s[i]
         /\ Last(s) \in S /\ Last(s) = s[Len(s)] /\ Len(s) \in Nat \ {0}
<1>1. Len(s) \in Nat \ {0}
  BY EmptySeq
<1>2. \A i \in 1 .. Len(s) - 1 : s[i] \in S
  BY <1>1, ElementOfSeq
<1>3. Last(s) \in S
  BY <1>1, ElementOfSeq DEF Last
<1>4. /\ SubSeq(s, 1, Len(s) - 1) \in Seq(S)
      /\ Len(SubSeq(s, 1, Len(s) - 1)) = Len(s) - 1
      /\ \A i \in 1 .. Len(s) - 1 : SubSeq(s, 1, Len(s) - 1)[i] = s[i]
  <2>1. PICK n \in Nat : n = Len(s) - 1
    BY <1>1
  <2>2. \A i \in 1 .. n : s[i] \in S
    BY <1>2, <2>1
  <2>3. /\ SubSeq(s, 1, n) \in Seq(S) /\ Len(SubSeq(s, 1, n)) = n
        /\ \A i \in 1 .. n : SubSeq(s, 1, n)[i] = s[i]
    BY <2>2, PrefixOfSeq
  <2> QED
    BY <2>1, <2>3
<1> QED
  BY <1>1, <1>3, <1>4, LenProperties DEF Front, Last

LEMMA RangeOfAppend ==
  ASSUME NEW S, NEW s \in Seq(S), NEW e \in S
  PROVE  Range(Append(s, e)) = Range(s) \cup {e}
BY AppendProperties, LenProperties DEF Range

----------------------------------------------------------------------------
\* The first state.

LEMMA NativesType ==
  ASSUME NEW nat \in [Builtin -> SUBSET Sym]
  PROVE  Natives(nat) \in [Class -> [Sym -> Method \cup {None}]]
BY DEF Natives, Method, Class

LEMMA InitIInv == Init => IInv /\ Nested
<1> SUFFICES ASSUME Init PROVE IInv /\ Nested
  OBVIOUS
<1>1. Range(classes) = {} /\ classes \in Seq(Made) /\ DOMAIN classes = {}
  BY EmptySeq DEF Init, Range
<1>2. {im_tbl, sm_tbl} \subseteq [Class -> [Sym -> Method \cup {None}]]
  BY NativesType DEF Init
<1>3. names \in Seq([Name -> There \cup {None}])
  BY DEF Init, There
<1>4. end_vector \in Seq(EndEntry) /\ nest \in Seq(There)
        /\ Len(end_vector) = 0 /\ Len(nest) = 1 /\ DOMAIN end_vector = {}
  BY EmptySeq DEF Init, There
<1>5. TypeOK
  <2>1. super \in [Class -> Class \cup {None}] /\ current_class \in There \cup {None}
    BY DEF Init, Class
  <2>2. phase \in {"parse", "run", "yyerror", "fail"} /\ astray \in BOOLEAN /\ tokens \in Nat
    BY DEF Init
  <2> QED
    BY <1>1, <1>2, <1>3, <1>4, <2>1, <2>2 DEF TypeOK
<1>6. SupersAreOlder
  BY <1>1 DEF Init, SupersAreOlder, Class
<1>7. Opened /\ Nested
  BY <1>4 DEF Init, Opened, Nested, Last, OrKernel
<1> QED
  BY <1>5, <1>6, <1>7 DEF IInv

----------------------------------------------------------------------------
\* What opening a class does to the classes, once made or found again.

LEMMA DefineClass ==
  ASSUME IInv, NEW n \in Name, define_class(n, current_class)
  PROVE  /\ classes' \in Seq(Made) /\ There \subseteq There'
         /\ super' \in [Class -> Class \cup {None}]
         /\ current_class' \in There'
         /\ names' \in Seq([Name -> (There \cup {None})'])
         /\ \A k \in There : super'[k] = super[k]
         /\ SupersAreOlder'
<1> USE DEF IInv, TypeOK
<1>1. CASE NewClass(n, current_class)
  <2>1. PICK k \in Made \ Range(classes) :
          /\ current_class' = k
          /\ classes' = Append(classes, k)
          /\ super' = [super EXCEPT ![k] = current_class]
          /\ names' = [names EXCEPT ![Len(names)][n] = k]
    BY <1>1 DEF NewClass
  <2>2. classes' \in Seq(Made) /\ Range(classes') = Range(classes) \cup {k}
    BY <2>1, LastOfAppend, RangeOfAppend
  <2>3. There' = There \cup {k} /\ k \in There' /\ k \notin There /\ k \in Class
    BY <2>2 DEF There, Class
  <2>4. Range(classes) \subseteq Made
    BY LenProperties DEF Range
  <2>5. current_class \in Class \cup {None}
    BY <2>4 DEF There, Class
  <2>6. super' \in [Class -> Class \cup {None}] /\ \A c \in There : super'[c] = super[c]
    BY <2>1, <2>3, <2>4, <2>5 DEF There, Class
  <2>7. names' \in Seq([Name -> There' \cup {None}])
    <3> DEFINE T == [Name -> There' \cup {None}]
    <3>1. names \in Seq(T)
      <4>1. [Name -> There \cup {None}] \subseteq T
        BY <2>3
      <4> QED
        BY <4>1, SeqMonotonic
    <3>2. CASE names = <<>>
      <4>1. names' = names
        BY <2>1, <3>2
      <4> QED
        BY <3>1, <4>1
    <3>3. CASE names # <<>>
      <4>1. Len(names) \in 1 .. Len(names)
        BY <3>3, EmptySeq
      <4>2. names[Len(names)] \in T
        BY <3>1, <4>1, ElementOfSeq
      <4>3. [names[Len(names)] EXCEPT ![n] = k] \in T
        BY <2>3, <4>2
      <4>4. names' = [names EXCEPT ![Len(names)] = [names[Len(names)] EXCEPT ![n] = k]]
        BY <2>1
      <4> QED
        BY <3>1, <4>1, <4>3, <4>4, ExceptSeq
    <3> QED
      BY <3>2, <3>3
  <2>8. SupersAreOlder'
    <3>1. \A c \in Builtin : super'[c] = BuiltinSuper[c]
      BY <2>6 DEF SupersAreOlder, There
    <3>2. /\ Len(classes) \in Nat /\ DOMAIN classes = 1 .. Len(classes)
          /\ DOMAIN classes' = 1 .. Len(classes) + 1
          /\ classes'[Len(classes) + 1] = k
          /\ \A i \in 1 .. Len(classes) : classes'[i] = classes[i]
      BY <2>1, AppendProperties, LenProperties
    <3>3. ASSUME NEW i \in 1 .. Len(classes)
          PROVE  super'[classes'[i]] \in Builtin \cup {None} \cup {classes'[j] : j \in 1 .. i - 1}
      <4>1. classes[i] \in There
        BY <3>2 DEF There, Range
      <4>2. super[classes[i]] \in Builtin \cup {None} \cup {classes[j] : j \in 1 .. i - 1}
        <5>1. SupersAreOlder
          OBVIOUS
        <5> QED
          BY ONLY <3>2, <5>1, i \in 1 .. Len(classes) DEF SupersAreOlder
      <4>3. \A j \in 1 .. i - 1 : classes'[j] = classes[j]
        BY <3>2
      <4>4. {classes'[j] : j \in 1 .. i - 1} = {classes[j] : j \in 1 .. i - 1}
        BY ONLY <4>3
      <4>5. super'[classes'[i]] = super[classes[i]]
        BY ONLY <2>6, <3>2, <4>1, i \in 1 .. Len(classes)
      <4> QED
        BY ONLY <4>2, <4>4, <4>5
    <3>4. super'[k] \in Builtin \cup {None} \cup {classes'[j] : j \in 1 .. Len(classes)}
      <4>1. super'[k] = current_class
        BY <2>1, <2>3
      <4>2. current_class \in Builtin \cup {None} \cup {classes[j] : j \in 1 .. Len(classes)}
        BY <3>2 DEF There, Range
      <4>3. \A j \in 1 .. Len(classes) : classes[j] \in {classes'[h] : h \in 1 .. Len(classes)}
        BY ONLY <3>2
      <4> QED
        BY ONLY <4>1, <4>2, <4>3
    <3>5. ASSUME NEW i \in DOMAIN classes'
          PROVE  super'[classes'[i]] \in Builtin \cup {None} \cup {classes'[j] : j \in 1 .. i - 1}
      <4>1. CASE i = Len(classes) + 1
        <5>1. i - 1 = Len(classes) /\ classes'[i] = k
          BY ONLY <3>2, <4>1
        <5> QED
          BY ONLY <3>4, <5>1
      <4>2. CASE i \in 1 .. Len(classes)
        BY ONLY <3>3, <4>2
      <4> QED
        BY ONLY <3>2, <4>1, <4>2, i \in DOMAIN classes'
    <3> QED
      BY <3>1, <3>5 DEF SupersAreOlder
  <2> QED
    BY <2>1, <2>2, <2>3, <2>6, <2>7, <2>8
<1>2. CASE \E i \in DOMAIN names :
             /\ Innermost(i, n) /\ current_class' = names[i][n]
             /\ UNCHANGED <<classes, super, names>>
  <2>1. PICK i \in DOMAIN names : Innermost(i, n) /\ current_class' = names[i][n]
    BY <1>2
  <2>2. UNCHANGED <<classes, super, names>>
    BY <1>2
  <2>3. There' = There
    BY <2>2 DEF There
  <2>4. names[i] \in [Name -> There \cup {None}]
    BY LenProperties, ElementOfSeq
  <2>5. current_class' \in There
    BY <2>1, <2>4 DEF Innermost
  <2> QED
    BY <2>2, <2>3, <2>5 DEF SupersAreOlder
<1> QED
  BY <1>1, <1>2 DEF define_class

\* Both superclasses and what an end falls back to are there.
LEMMA BackIsThere ==
  ASSUME IInv, current_class # None
  PROVE  current_class \in There /\ Back \in There /\ Back # None
<1>1. current_class \in There /\ current_class \in Class
  BY LenProperties DEF IInv, TypeOK, There, Class, Range
<1>2. super[current_class] \in There \cup {None}
  BY <1>1, LenProperties, SMTT(30) DEF IInv, SupersAreOlder, TypeOK, There, Range
<1>3. There \subseteq Class
  BY LenProperties DEF IInv, TypeOK, There, Class, Range
<1> QED
  BY <1>1, <1>2, <1>3 DEF Back, OrKernel, There

LEMMA ClassStep ==
  ASSUME IInv, NEW n \in Name, parse_class(n)
  PROVE  IInv'
<1>1. /\ classes' \in Seq(Made) /\ There \subseteq There'
      /\ super' \in [Class -> Class \cup {None}]
      /\ current_class' \in There'
      /\ names' \in Seq([Name -> (There \cup {None})'])
      /\ SupersAreOlder'
  BY DefineClass DEF parse_class
<1>2. /\ end_vector' \in Seq(EndEntry)
      /\ Len(end_vector') = Len(end_vector) + 1
  BY LastOfAppend DEF parse_class, IInv, TypeOK, EndEntry
<1>3. nest' \in Seq(There') /\ Len(nest') = Len(nest) + 1
  <2>1. nest \in Seq(There')
    BY <1>1, SeqMonotonic DEF IInv, TypeOK
  <2> QED
    BY <1>1, <2>1, LastOfAppend DEF parse_class
<1>4. current_class' # None
  BY <1>1, LenProperties DEF There, Class, Range
<1>5. TypeOK'
  BY <1>1, <1>2, <1>3, LenProperties DEF IInv, TypeOK, parse_class, Token
<1> QED
  BY <1>1, <1>4, <1>5 DEF IInv, Opened

LEMMA DefineStep ==
  ASSUME IInv, NEW s \in Sym, parse_define(s)
  PROVE  IInv'
<1>1. There' = There
  BY DEF parse_define, There, tables
<1>2. /\ end_vector' \in Seq(EndEntry)
      /\ Len(end_vector') = Len(end_vector) + 1 /\ Len(end_vector) \in Nat
      /\ DOMAIN end_vector' = 1 .. Len(end_vector) + 1
      /\ end_vector'[Len(end_vector) + 1].fn = "end_define"
      /\ \A i \in 1 .. Len(end_vector) : end_vector'[i] = end_vector[i]
      /\ DOMAIN end_vector = 1 .. Len(end_vector)
  <2> DEFINE e == [fn |-> "end_define", sym |-> s]
  <2>1. e \in EndEntry
    BY DEF EndEntry
  <2> QED
    BY <2>1, AppendProperties, LenProperties DEF parse_define, IInv, TypeOK
<1>3. nest' \in Seq(There) /\ Len(nest') = Len(nest) + 1
  <2>1. nest # <<>> /\ nest \in Seq(There)
    BY <1>2, EmptySeq DEF IInv, TypeOK
  <2> QED
    BY <2>1, FrontOfSeq, LastOfAppend DEF parse_define
<1>4. names' \in Seq([Name -> There \cup {None}])
  BY LastOfAppend DEF parse_define, IInv, TypeOK
<1>5. TypeOK'
  BY <1>1, <1>2, <1>3, <1>4 DEF IInv, TypeOK, parse_define, Token, tables
<1>6. SupersAreOlder'
  BY DEF IInv, SupersAreOlder, parse_define, tables
<1>7. Opened'
  BY <1>2 DEF IInv, Opened, parse_define
<1> QED
  BY <1>5, <1>6, <1>7 DEF IInv

LEMMA EndStep ==
  ASSUME IInv, parse_end
  PROVE  IInv'
<1> USE DEF IInv
<1>1. There' = There
  BY DEF parse_end, end_class, end_define, There, tables
<1>2. SupersAreOlder'
  BY DEF parse_end, end_class, end_define, SupersAreOlder, tables
<1>3. CASE end_vector = <<>> /\ UNCHANGED <<tables, current_class, names, end_vector, nest>>
  <2>1. TypeOK'
    BY <1>1, <1>3 DEF TypeOK, parse_end, Token, tables, end_class, end_define
  <2>2. Opened'
    BY <1>3 DEF Opened
  <2> QED
    BY <1>2, <2>1, <2>2
<1>4. CASE end_vector # <<>> /\ (end_class \/ end_define)
  <2>1. /\ end_vector' = Front(end_vector) /\ nest' = Front(nest)
    BY <1>4 DEF parse_end
  <2>2. /\ end_vector \in Seq(EndEntry) /\ nest \in Seq(There) /\ nest # <<>>
        /\ Len(nest) = Len(end_vector) + 1
    BY <1>4, EmptySeq DEF TypeOK
  <2>3. /\ end_vector' \in Seq(EndEntry) /\ nest' \in Seq(There)
        /\ Len(end_vector) \in Nat \ {0}
        /\ Len(nest') = Len(end_vector') + 1
        /\ DOMAIN end_vector' = 1 .. Len(end_vector) - 1
        /\ DOMAIN end_vector = 1 .. Len(end_vector)
        /\ \A i \in 1 .. Len(end_vector) - 1 : end_vector'[i] = end_vector[i]
        /\ Last(end_vector) \in EndEntry /\ Last(end_vector) = end_vector[Len(end_vector)]
        /\ Last(nest) \in There
    <3>1. /\ end_vector' \in Seq(EndEntry) /\ Len(end_vector') = Len(end_vector) - 1
          /\ Len(end_vector) \in Nat \ {0}
          /\ DOMAIN end_vector' = 1 .. Len(end_vector) - 1
          /\ \A i \in 1 .. Len(end_vector) - 1 : end_vector'[i] = end_vector[i]
          /\ Last(end_vector) \in EndEntry /\ Last(end_vector) = end_vector[Len(end_vector)]
      BY ONLY <1>4, <2>1, <2>2, FrontOfSeq
    <3>2. nest' \in Seq(There) /\ Len(nest') = Len(nest) - 1 /\ Last(nest) \in There
      BY ONLY <2>1, <2>2, FrontOfSeq
    <3>3. DOMAIN end_vector = 1 .. Len(end_vector)
      BY <2>2, LenProperties
    <3> QED
      BY ONLY <2>2, <3>1, <3>2, <3>3
  <2>4. current_class' \in There \cup {None}
          /\ (current_class' = None => current_class = None)
    <3>1. CASE end_class
      <4>1. current_class # None
        BY <2>3, <3>1 DEF Opened, end_class
      <4> QED
        BY <3>1, <4>1, BackIsThere DEF end_class
    <3>2. CASE end_define
      BY <3>2 DEF end_define, TypeOK
    <3> QED
      BY <1>4, <3>1, <3>2
  <2>5. im_tbl' \in [Class -> [Sym -> Method \cup {None}]] /\ sm_tbl' = sm_tbl /\ super' = super
          /\ classes' = classes
    <3>1. CASE end_class
      BY <3>1 DEF end_class, tables, TypeOK
    <3>2. CASE end_define
      <4> DEFINE s == Last(end_vector).sym
                 k == OrKernel(current_class)
      <4>1. s \in Sym
        BY <2>3, <3>2 DEF EndEntry, end_define
      <4>2. There \subseteq Class
        BY LenProperties DEF TypeOK, There, Class, Range
      <4>3. k \in Class
        BY <4>2 DEF TypeOK, OrKernel, Class
      <4>4. [sym |-> s, home |-> k, in |-> Last(nest)] \in Method
        BY <2>3, <4>1, <4>2, <4>3 DEF Method
      <4> QED
        BY <3>2, <4>1, <4>3, <4>4 DEF end_define, TypeOK
    <3> QED
      BY <1>4, <3>1, <3>2
  <2>6. names' \in Seq([Name -> There \cup {None}])
    <3>1. CASE end_class
      BY <3>1 DEF end_class, TypeOK
    <3>2. CASE end_define
      <4>1. CASE names = <<>>
        BY <3>2, <4>1 DEF end_define, Front
      <4>2. CASE names # <<>>
        BY <3>2, <4>2, FrontOfSeq DEF end_define, TypeOK
      <4> QED
        BY <4>1, <4>2
    <3> QED
      BY <1>4, <3>1, <3>2
  <2>7. UNCHANGED <<phase, astray>> /\ tokens' = tokens + 1
    BY <1>4 DEF parse_end, Token
  <2>8. TypeOK'
    BY <1>1, <2>3, <2>4, <2>5, <2>6, <2>7 DEF TypeOK
  <2>9. Opened'
    BY <2>3, <2>4 DEF Opened
  <2> QED
    BY <1>2, <2>8, <2>9
<1> QED
  BY <1>3, <1>4 DEF parse_end

\* A call changes nothing of what the parser made.
LEMMA CallStep ==
  ASSUME IInv, UNCHANGED <<tables, parser>>,
         phase' \in {phase, "run", "fail"}
  PROVE  IInv'
BY DEF IInv, TypeOK, SupersAreOlder, Opened, There, tables, parser

LEMMA StepIInv == IInv /\ [Next]_vars => IInv'
<1> SUFFICES ASSUME IInv, [Next]_vars PROVE IInv'
  OBVIOUS
<1>1. CASE \E n \in Name : parse_class(n)
  BY <1>1, ClassStep
<1>2. CASE \E s \in Sym \ {"call"} : parse_define(s)
  BY <1>2, DefineStep
<1>3. CASE parse_end
  BY <1>3, EndStep
<1>4. CASE parse_eof
  BY <1>4, CallStep DEF parse_eof
<1>5. CASE \E k \in There, s \in Asked : toi_funcall(k, s)
  <2>1. PICK k \in There, s \in Asked : toi_funcall(k, s)
    BY <1>5
  <2>2. UNCHANGED <<tables, parser>> /\ phase' \in {phase, "run", "fail"}
    BY <2>1 DEF toi_funcall
  <2> QED
    BY <2>2, CallStep
<1>6. CASE \E k \in There, s \in Sym, self \in Selves : mcall_call(k, s, self)
  <2>1. PICK k \in There, s \in Sym, self \in Selves : mcall_call(k, s, self)
    BY <1>6
  <2>2. UNCHANGED <<tables, parser>> /\ phase' \in {phase, "run", "fail"}
    BY <2>1 DEF mcall_call
  <2> QED
    BY <2>2, CallStep
<1>7. CASE UNCHANGED vars
  BY <1>7, CallStep DEF vars
<1> QED
  BY <1>1, <1>2, <1>3, <1>4, <1>5, <1>6, <1>7 DEF Next

LEMMA Invariance == Spec => []IInv
<1>1. Init => IInv
  BY InitIInv
<1>2. IInv /\ [Next]_vars => IInv'
  BY StepIInv
<1> QED
  BY <1>1, <1>2, PTL DEF Spec

----------------------------------------------------------------------------
\* What is open and in scope, whatever is nested in what, is a class that is
\* there (parse.y:90-117, class.c:81-103).
THEOREM TypeCorrect == Spec => []TypeOK
<1>1. IInv => TypeOK
  BY DEF IInv
<1> QED
  BY <1>1, Invariance, PTL

\* The supers of a class are older than it, so that no search along `super'
\* goes in a circle, in scripts of any length (class.c:81-103).
THEOREM SupersOlder == Spec => []SupersAreOlder
<1>1. IInv => SupersAreOlder
  BY DEF IInv
<1> QED
  BY <1>1, Invariance, PTL

----------------------------------------------------------------------------
\* Where methods are entered.

AtHome == ~astray => Nested /\ DefinedWhereWritten

LEMMA ClassAtHome ==
  ASSUME IInv, AtHome, NEW n \in Name, parse_class(n)
  PROVE  AtHome'
<1> SUFFICES ASSUME ~astray' PROVE Nested' /\ DefinedWhereWritten'
  BY DEF AtHome
<1>1. ~astray /\ OrKernel(super'[current_class']) = Last(nest)
  BY DEF parse_class
<1>2. Nested /\ DefinedWhereWritten
  BY <1>1 DEF AtHome
<1>3. There \subseteq There' /\ current_class' \in There' /\ classes' \in Seq(Made)
        /\ \A k \in There : super'[k] = super[k]
  BY DefineClass DEF parse_class
<1>4. current_class' # None
  BY <1>3, LenProperties DEF There, Class, Range
<1>5. nest \in Seq(There) /\ Len(nest) = Len(end_vector) + 1 /\ Len(end_vector) \in Nat
        /\ DOMAIN end_vector = 1 .. Len(end_vector) /\ end_vector \in Seq(EndEntry)
  BY LenProperties DEF IInv, TypeOK
<1>6. nest' = Append(nest, current_class') /\ nest \in Seq(There') /\ current_class' \in There'
  BY <1>3, <1>5, SeqMonotonic DEF parse_class
<1>7. /\ Last(nest') = current_class'
      /\ nest'[Len(end_vector) + 2] = current_class'
      /\ \A i \in 1 .. Len(end_vector) + 1 : nest'[i] = nest[i]
  BY <1>5, <1>6, LastOfAppend, AppendProperties
<1>8. /\ DOMAIN end_vector' = 1 .. Len(end_vector) + 1
      /\ end_vector'[Len(end_vector) + 1].fn = "end_class"
      /\ \A i \in 1 .. Len(end_vector) : end_vector'[i] = end_vector[i]
  <2> DEFINE e == [fn |-> "end_class", sym |-> None]
  <2>1. e \in EndEntry
    BY DEF EndEntry
  <2> QED
    BY <1>5, <2>1, LastOfAppend, AppendProperties DEF parse_class
<1>9. Nested'
  <2>1. ASSUME NEW i \in 1 .. Len(end_vector)
        PROVE  nest'[i] = IF end_vector'[i].fn = "end_class"
                          THEN OrKernel(super'[nest'[i + 1]]) ELSE nest'[i + 1]
    <3>1. nest'[i] = nest[i] /\ nest'[i + 1] = nest[i + 1] /\ nest[i + 1] \in There
      BY <1>5, <1>7, ElementOfSeq
    <3>2. super'[nest'[i + 1]] = super[nest[i + 1]]
      BY <1>3, <3>1
    <3>3. nest[i] = IF end_vector[i].fn = "end_class"
                    THEN OrKernel(super[nest[i + 1]]) ELSE nest[i + 1]
      BY <1>2, <1>5 DEF Nested
    <3> QED
      BY <1>8, <3>1, <3>2, <3>3 DEF OrKernel
  <2>2. nest'[Len(end_vector) + 1] = OrKernel(super'[nest'[Len(end_vector) + 2]])
    <3>1. nest'[Len(end_vector) + 1] = Last(nest)
      BY <1>5, <1>7 DEF Last
    <3> QED
      BY <1>1, <1>7, <3>1 DEF OrKernel
  <2>3. Last(nest') = OrKernel(current_class')
    BY <1>4, <1>7 DEF OrKernel
  <2>4. ASSUME NEW i \in DOMAIN end_vector'
        PROVE  nest'[i] = IF end_vector'[i].fn = "end_class"
                          THEN OrKernel(super'[nest'[i + 1]]) ELSE nest'[i + 1]
    <3>1. CASE i = Len(end_vector) + 1
      <4>1. i + 1 = Len(end_vector) + 2 /\ end_vector'[i].fn = "end_class"
        BY <1>5, <1>8, <3>1
      <4> QED
        BY <2>2, <3>1, <4>1
    <3>2. CASE i \in 1 .. Len(end_vector)
      BY <2>1, <3>2
    <3> QED
      BY <1>5, <1>8, <3>1, <3>2
  <2> QED
    BY <2>3, <2>4 DEF Nested, OrKernel
<1>10. DefinedWhereWritten'
  BY <1>1, <1>2 DEF DefinedWhereWritten, parse_class
<1> QED
  BY <1>9, <1>10

LEMMA DefineAtHome ==
  ASSUME IInv, AtHome, NEW s \in Sym, parse_define(s)
  PROVE  AtHome'
<1> SUFFICES ASSUME ~astray' PROVE Nested' /\ DefinedWhereWritten'
  BY DEF AtHome
<1>1. ~astray /\ UNCHANGED <<tables, current_class, astray>>
  BY DEF parse_define
<1>2. Nested /\ DefinedWhereWritten
  BY <1>1 DEF AtHome
<1>3. nest \in Seq(There) /\ Len(nest) = Len(end_vector) + 1 /\ Len(end_vector) \in Nat
        /\ DOMAIN end_vector = 1 .. Len(end_vector) /\ end_vector \in Seq(EndEntry)
        /\ nest # <<>>
  BY LenProperties, EmptySeq DEF IInv, TypeOK
<1>4. Last(nest) \in There /\ Last(nest) = nest[Len(end_vector) + 1]
  BY <1>3, FrontOfSeq
<1>5. /\ Last(nest') = Last(nest)
      /\ nest'[Len(end_vector) + 2] = Last(nest)
      /\ \A i \in 1 .. Len(end_vector) + 1 : nest'[i] = nest[i]
  BY <1>3, <1>4, LastOfAppend, AppendProperties DEF parse_define
<1>6. /\ DOMAIN end_vector' = 1 .. Len(end_vector) + 1
      /\ end_vector'[Len(end_vector) + 1].fn = "end_define"
      /\ \A i \in 1 .. Len(end_vector) : end_vector'[i] = end_vector[i]
  <2> DEFINE e == [fn |-> "end_define", sym |-> s]
  <2>1. e \in EndEntry
    BY DEF EndEntry
  <2> QED
    BY <1>3, <2>1, LastOfAppend, AppendProperties DEF parse_define
<1>7. ASSUME NEW i \in DOMAIN end_vector'
      PROVE  nest'[i] = IF end_vector'[i].fn = "end_class"
                        THEN OrKernel(super'[nest'[i + 1]]) ELSE nest'[i + 1]
  <2>1. CASE i = Len(end_vector) + 1
    <3>1. i + 1 = Len(end_vector) + 2 /\ nest'[i] = Last(nest)
      BY <1>3, <1>4, <1>5, <2>1
    <3> QED
      BY <1>5, <1>6, <2>1, <3>1
  <2>2. CASE i \in 1 .. Len(end_vector)
    <3>1. nest'[i] = nest[i] /\ nest'[i + 1] = nest[i + 1] /\ end_vector'[i] = end_vector[i]
      BY <1>3, <1>5, <1>6, <2>2
    <3>2. nest[i] = IF end_vector[i].fn = "end_class"
                    THEN OrKernel(super[nest[i + 1]]) ELSE nest[i + 1]
      BY <1>2, <1>3, <2>2 DEF Nested
    <3> QED
      BY <1>1, <3>1, <3>2 DEF tables, OrKernel
  <2> QED
    BY <1>3, <1>6, <2>1, <2>2
<1>8. Nested'
  BY <1>1, <1>2, <1>5, <1>7 DEF Nested, OrKernel
<1>9. DefinedWhereWritten'
  BY <1>1, <1>2 DEF DefinedWhereWritten, tables
<1> QED
  BY <1>8, <1>9

LEMMA EndAtHome ==
  ASSUME IInv, AtHome, parse_end
  PROVE  AtHome'
<1> SUFFICES ASSUME ~astray' PROVE Nested' /\ DefinedWhereWritten'
  BY DEF AtHome
<1>1. ~astray /\ Nested /\ DefinedWhereWritten
  BY DEF AtHome, parse_end
<1>2. CASE end_vector = <<>> /\ UNCHANGED <<tables, current_class, names, end_vector, nest>>
  BY <1>1, <1>2 DEF Nested, DefinedWhereWritten, tables, OrKernel
<1>3. CASE end_vector # <<>> /\ (end_class \/ end_define)
  <2>1. /\ end_vector \in Seq(EndEntry) /\ nest \in Seq(There) /\ nest # <<>>
        /\ Len(nest) = Len(end_vector) + 1
    BY <1>3, EmptySeq DEF IInv, TypeOK
  <2>2. /\ end_vector' = Front(end_vector) /\ nest' = Front(nest)
        /\ nest' \in Seq(There) /\ nest' # <<>>
        /\ Len(end_vector) \in Nat \ {0} /\ Len(nest') = Len(end_vector)
        /\ DOMAIN end_vector' = 1 .. Len(end_vector) - 1
        /\ Len(end_vector) \in DOMAIN end_vector
        /\ \A i \in 1 .. Len(end_vector) - 1 : i \in DOMAIN end_vector
        /\ \A i \in 1 .. Len(end_vector) - 1 : end_vector'[i] = end_vector[i]
        /\ \A i \in 1 .. Len(end_vector) : nest'[i] = nest[i]
        /\ Last(end_vector) = end_vector[Len(end_vector)]
        /\ Last(nest) = nest[Len(end_vector) + 1]
    <3>1. end_vector' = Front(end_vector) /\ nest' = Front(nest)
      BY <1>3 DEF parse_end
    <3>2. /\ DOMAIN end_vector' = 1 .. Len(end_vector) - 1
          /\ \A i \in 1 .. Len(end_vector) - 1 : end_vector'[i] = end_vector[i]
          /\ Last(end_vector) = end_vector[Len(end_vector)]
          /\ Len(end_vector) \in Nat \ {0} /\ DOMAIN end_vector = 1 .. Len(end_vector)
      BY <1>3, <2>1, <3>1, FrontOfSeq, LenProperties
    <3>3. /\ nest' \in Seq(There) /\ Len(nest') = Len(end_vector)
          /\ \A i \in 1 .. Len(end_vector) : nest'[i] = nest[i]
          /\ Last(nest) = nest[Len(end_vector) + 1]
      <4>1. Len(nest) - 1 = Len(end_vector) /\ Len(nest) = Len(end_vector) + 1
        BY <2>1, <3>2
      <4>2. /\ nest' \in Seq(There) /\ Len(nest') = Len(nest) - 1
            /\ \A i \in 1 .. Len(nest) - 1 : nest'[i] = nest[i]
            /\ Last(nest) = nest[Len(nest)]
        BY <2>1, <3>1, FrontOfSeq
      <4> QED
        BY <4>1, <4>2
    <3>4. nest' # <<>>
      BY <3>2, <3>3
    <3> QED
      BY <3>1, <3>2, <3>3, <3>4
  <2>3. Last(nest') = nest[Len(end_vector)]
    BY <2>2 DEF Last
  <2>4. super' = super
    BY <1>3 DEF end_class, end_define, tables
  <2>5. \A i \in DOMAIN end_vector' :
          nest'[i] = IF end_vector'[i].fn = "end_class"
                     THEN OrKernel(super'[nest'[i + 1]]) ELSE nest'[i + 1]
    <3> TAKE i \in DOMAIN end_vector'
    <3>1. nest'[i] = nest[i] /\ nest'[i + 1] = nest[i + 1] /\ end_vector'[i] = end_vector[i]
      BY <2>2
    <3>2. nest[i] = IF end_vector[i].fn = "end_class"
                    THEN OrKernel(super[nest[i + 1]]) ELSE nest[i + 1]
      BY <1>1, <2>2 DEF Nested
    <3> QED
      BY <2>4, <3>1, <3>2 DEF OrKernel
  <2>6. CASE end_class
    <3>1. current_class # None
      BY <2>2, <2>6 DEF IInv, Opened, end_class
    <3>2. current_class' = Back /\ Back # None
      BY <2>6, <3>1, BackIsThere DEF end_class
    <3>3. Last(nest) = current_class
      BY <1>1, <3>1 DEF Nested, OrKernel
    <3>4. nest[Len(end_vector)] = OrKernel(super[Last(nest)])
      BY <1>1, <2>2, <2>6 DEF Nested, end_class
    <3>5. Last(nest') = OrKernel(current_class')
      BY <2>3, <3>2, <3>3, <3>4 DEF Back, OrKernel
    <3>6. DefinedWhereWritten'
      BY <1>1, <2>6 DEF DefinedWhereWritten, end_class, tables
    <3> QED
      BY <2>5, <3>5, <3>6 DEF Nested, OrKernel
  <2>7. CASE end_define
    <3>1. Last(nest') = Last(nest)
      BY <1>1, <2>2, <2>3, <2>7 DEF Nested, end_define
    <3>2. Last(nest') = OrKernel(current_class')
      BY <1>1, <2>7, <3>1 DEF Nested, end_define, OrKernel
    <3>3. DefinedWhereWritten'
      <4> DEFINE s == Last(end_vector).sym
                 k == OrKernel(current_class)
      <4>1. k = Last(nest)
        BY <1>1 DEF Nested
      <4>2. im_tbl' = [im_tbl EXCEPT ![k][s] = [sym |-> s, home |-> k, in |-> Last(nest)]]
        BY <2>7 DEF end_define
      <4>3. im_tbl \in [Class -> [Sym -> Method \cup {None}]]
        BY DEF IInv, TypeOK
      <4>4. ASSUME NEW c \in Class, NEW t \in Sym
            PROVE  \/ im_tbl'[c][t] = im_tbl[c][t]
                   \/ im_tbl'[c][t].in = c
        BY <4>1, <4>2, <4>3
      <4> QED
        BY <1>1, <4>4 DEF DefinedWhereWritten
    <3> QED
      BY <2>5, <3>2, <3>3 DEF Nested, OrKernel
  <2> QED
    BY <1>3, <2>6, <2>7
<1> QED
  BY <1>2, <1>3 DEF parse_end

LEMMA StepAtHome == IInv /\ AtHome /\ [Next]_vars => AtHome'
<1> SUFFICES ASSUME IInv, AtHome, [Next]_vars PROVE AtHome'
  OBVIOUS
<1>1. CASE \E n \in Name : parse_class(n)
  BY <1>1, ClassAtHome
<1>2. CASE \E s \in Sym \ {"call"} : parse_define(s)
  BY <1>2, DefineAtHome
<1>3. CASE parse_end
  BY <1>3, EndAtHome
<1>4. CASE UNCHANGED <<tables, parser>>
  BY <1>4 DEF AtHome, Nested, DefinedWhereWritten, tables, parser, OrKernel
<1>5. CASE parse_eof
  BY <1>4, <1>5 DEF parse_eof
<1>6. CASE \E k \in There, s \in Asked : toi_funcall(k, s)
  BY <1>4, <1>6 DEF toi_funcall
<1>7. CASE \E k \in There, s \in Sym, self \in Selves : mcall_call(k, s, self)
  BY <1>4, <1>7 DEF mcall_call
<1>8. CASE UNCHANGED vars
  BY <1>4, <1>8 DEF vars
<1> QED
  BY <1>1, <1>2, <1>3, <1>5, <1>6, <1>7, <1>8 DEF Next

\* A method is entered in the class it is written in, however deep and often
\* classes are nested and opened again, as long as each is opened where its
\* end leads back to (parse.y end_class, end_define).
THEOREM MethodsAtHome == Spec => []DefinedWhereWritten
<1>1. Init => AtHome
  <2>1. Init => DefinedWhereWritten
    BY DEF Init, DefinedWhereWritten, Natives
  <2> QED
    BY <2>1, InitIInv DEF AtHome
<1>2. IInv /\ AtHome /\ [Next]_vars => AtHome'
  BY StepAtHome
<1>3. AtHome => DefinedWhereWritten
  BY DEF AtHome, DefinedWhereWritten
<1> QED
  BY <1>1, <1>2, <1>3, Invariance, PTL DEF Spec

----------------------------------------------------------------------------
\* The cache of methods.

LEMMA SearchUnchanged == UNCHANGED tables => \A k, s : Known(k, s)' = Known(k, s)
BY DEF tables, Known, get_method, get_singleton_method, First, Answer, Line, Or

\* While the script is read nothing is cached.
CacheInv == Cached /\ (phase = "parse" => cache.f = None)

\* What a call caches is what the search finds.
LEMMA CallCached ==
  ASSUME Cached, NEW k, NEW s, NEW self, mcall_call(k, s, self), phase = "run"
  PROVE  Cached'
<1> DEFINE f == Found(k, s, self)
<1>1. UNCHANGED tables
  BY DEF mcall_call
<1>2. \A c, t : Known(c, t)' = Known(c, t)
  BY <1>1, SearchUnchanged
<1>3. CASE f = None /\ UNCHANGED cache
  BY <1>2, <1>3 DEF Cached
<1>4. CASE f # None /\ cache' = Entry(k, s, f)
  <2>1. Known(k, s) # None => f = Known(k, s)
    BY DEF Found, Hit, Cached, Resolve, Or
  <2>2. cache'.k = k /\ cache'.s = s /\ cache'.f = f
    BY <1>4 DEF Entry
  <2> QED
    BY <1>2, <2>1, <2>2 DEF Cached
<1>5. CASE cache' = ThreadCall
  <2>1. cache'.k = "Thread" /\ cache'.s = "call" /\ cache'.f = get_method("Thread", "call")
    BY <1>5 DEF ThreadCall
  <2>2. Known("Thread", "call") = Or(get_method("Thread", "call"),
          Or(get_singleton_method("Thread", "call"), get_singleton_method("Kernel", "call")))
    BY DEF Known
  <2> QED
    BY <1>2, <2>1, <2>2 DEF Cached, Or
<1> QED
  BY <1>3, <1>4, <1>5 DEF mcall_call

LEMMA StepCacheInv == CacheInv /\ [Next]_vars => CacheInv'
<1> SUFFICES ASSUME CacheInv, [Next]_vars PROVE CacheInv'
  OBVIOUS
<1>1. CASE cache' = cache /\ phase = "parse"
  BY <1>1 DEF CacheInv, Cached
<1>2. CASE cache' = cache /\ UNCHANGED tables /\ phase' # "parse"
  BY <1>2, SearchUnchanged DEF CacheInv, Cached
<1>3. CASE \E n \in Name : parse_class(n)
  BY <1>1, <1>3 DEF parse_class, Token
<1>4. CASE \E s \in Sym \ {"call"} : parse_define(s)
  BY <1>1, <1>4 DEF parse_define, Token
<1>5. CASE parse_end
  BY <1>1, <1>5 DEF parse_end, Token
<1>6. CASE parse_eof
  BY <1>1, <1>6 DEF parse_eof
<1>7. CASE \E k \in There, s \in Asked : toi_funcall(k, s)
  <2>1. PICK k \in There, s \in Asked : toi_funcall(k, s)
    BY <1>7
  <2>2. UNCHANGED tables /\ phase' # "parse"
    BY <2>1 DEF toi_funcall
  <2>3. CASE cache' = cache
    BY <1>2, <2>2, <2>3
  <2>4. CASE cache' = ThreadCall
    <3>1. cache'.k = "Thread" /\ cache'.s = "call" /\ cache'.f = get_method("Thread", "call")
      BY <2>4 DEF ThreadCall
    <3>2. Known("Thread", "call") = Or(get_method("Thread", "call"),
            Or(get_singleton_method("Thread", "call"), get_singleton_method("Kernel", "call")))
      BY DEF Known
    <3>3. Known("Thread", "call")' = Known("Thread", "call")
      BY <2>2, SearchUnchanged
    <3> QED
      BY <2>2, <3>1, <3>2, <3>3 DEF CacheInv, Cached, Or
  <2> QED
    BY <2>1, <2>3, <2>4 DEF toi_funcall
<1>8. CASE \E k \in There, s \in Sym, self \in Selves : mcall_call(k, s, self)
  <2>1. PICK k \in There, s \in Sym, self \in Selves : mcall_call(k, s, self)
    BY <1>8
  <2>2. phase = "run" /\ phase' # "parse"
    BY <2>1 DEF mcall_call
  <2> QED
    BY <2>1, <2>2, CallCached DEF CacheInv
<1>9. CASE UNCHANGED vars
  <2>1. UNCHANGED tables /\ cache' = cache /\ phase' = phase
    BY <1>9 DEF vars
  <2>2. \A k, s : Known(k, s)' = Known(k, s)
    BY <2>1, SearchUnchanged
  <2> QED
    BY <2>1, <2>2 DEF CacheInv, Cached
<1> QED
  BY <1>3, <1>4, <1>5, <1>6, <1>7, <1>8, <1>9 DEF Next

\* A call that finds its method in the cache runs the one that a search would
\* find, whatever was called before, and on whatever (class.c:181-226): the
\* tables no longer change when calls begin, and the class of the receiver is
\* part of what is compared.
THEOREM CacheHonest == Spec => []CacheTransparent
<1>1. Init => CacheInv
  BY DEF Init, NoEntry, CacheInv, Cached
<1>2. CacheInv /\ [Next]_vars => CacheInv'
  BY StepCacheInv
<1>3. CacheInv => CacheTransparent
  BY DEF CacheInv, Cached, CacheTransparent, Found, Hit, Resolve, Or
<1> QED
  BY <1>1, <1>2, <1>3, PTL DEF Spec

----------------------------------------------------------------------------
\* The search of a method.

\* What the script has not made yet has no super.
Unmade == \A k \in Made \ Range(classes) : super[k] = None

LEMMA StepUnmade == IInv /\ Unmade /\ [Next]_vars => Unmade'
<1> SUFFICES ASSUME IInv, Unmade, [Next]_vars PROVE Unmade'
  OBVIOUS
<1>1. CASE UNCHANGED <<classes, super>>
  BY <1>1 DEF Unmade
<1>2. CASE \E n \in Name : parse_class(n)
  <2>1. PICK n \in Name : define_class(n, current_class)
    BY <1>2 DEF parse_class
  <2>2. CASE NewClass(n, current_class)
    <3>1. PICK k \in Made : /\ classes' = Append(classes, k)
                            /\ super' = [super EXCEPT ![k] = current_class]
      BY <2>2 DEF NewClass
    <3>2. Range(classes') = Range(classes) \cup {k}
      BY <3>1, RangeOfAppend DEF IInv, TypeOK
    <3> QED
      BY <3>1, <3>2 DEF Unmade, IInv, TypeOK, Class
  <2> QED
    BY <1>1, <2>1, <2>2 DEF define_class
<1>3. CASE \E s \in Sym \ {"call"} : parse_define(s)
  BY <1>1, <1>3 DEF parse_define, tables
<1>4. CASE parse_end
  BY <1>1, <1>4 DEF parse_end, end_class, end_define, tables
<1>5. CASE parse_eof
  BY <1>1, <1>5 DEF parse_eof, tables
<1>6. CASE \E k \in There, s \in Asked : toi_funcall(k, s)
  BY <1>1, <1>6 DEF toi_funcall, tables
<1>7. CASE \E k \in There, s \in Sym, self \in Selves : mcall_call(k, s, self)
  BY <1>1, <1>7 DEF mcall_call, tables
<1>8. CASE UNCHANGED vars
  BY <1>1, <1>8 DEF vars, tables
<1> QED
  BY <1>2, <1>3, <1>4, <1>5, <1>6, <1>7, <1>8 DEF Next

Tops == {c \in Class : super[c] = None}

\* From every class the supers lead to one that has none.
LEMMA SupersEnd ==
  ASSUME IInv, Unmade
  PROVE  Ends(Class, Tops, super) /\ Closed(Class, Tops, super)
<1>1. Closed(Class, Tops, super)
  BY DEF Closed, Tops, IInv, TypeOK
<1>2. ASSUME NEW T \in SUBSET Class, T # {}
      PROVE  \E t \in T : t \in Tops \/ super[t] \notin T
  <2>1. CASE T \cap Builtin # {}
    <3>1. PICK k \in T \cap Builtin : BuiltinSuper[k] \notin T \cap Builtin
      BY <2>1, RootsAssumption
    <3>2. super[k] = BuiltinSuper[k] /\ BuiltinSuper[k] \in Builtin \cup {None}
      BY <3>1 DEF IInv, SupersAreOlder
    <3> QED
      BY <3>1, <3>2 DEF Tops
  <2>2. CASE \E k \in T : k \in Made \ Range(classes)
    BY <2>2 DEF Unmade, Tops
  <2>3. CASE T \cap Builtin = {} /\ T \subseteq Range(classes)
    <3> DEFINE I == {i \in DOMAIN classes : classes[i] \in T}
    <3>1. DOMAIN classes = 1 .. Len(classes) /\ Len(classes) \in Nat
      BY LenProperties DEF IInv, TypeOK
    <3>2. I \in SUBSET Nat /\ I # {}
      BY <1>2, <2>3, <3>1 DEF Range
    <3>3. PICK i \in I : \A j \in I : i <= j
      BY <3>2, LeastNumber
    <3>4. super[classes[i]] \in Builtin \cup {None} \cup {classes[j] : j \in 1 .. i - 1}
      BY DEF IInv, SupersAreOlder
    <3>5. \A j \in 1 .. i - 1 : classes[j] \notin T
      BY <3>1, <3>3
    <3> QED
      BY <2>3, <3>4, <3>5 DEF Tops
  <2> QED
    BY <2>1, <2>2, <2>3 DEF Class
<1> QED
  BY <1>1, <1>2 DEF Ends

\* The search of get_method ends, and goes along classes.
LEMMA LineIsThere ==
  ASSUME IInv, Unmade, NEW k \in Class
  PROVE  Line(k) \in Seq(Class)
<1> DEFINE Along1(f) == f = [c \in Class |-> IF super[c] = None THEN <<c>>
                                             ELSE <<c>> \o f[super[c]]]
           base == [c \in Class |-> <<c>>]
           step == [p \in Class \X Seq(Class) |-> <<p[1]>> \o p[2]]
           line == CHOOSE f : Along1(f)
<1>1. Ends(Class, Tops, super) /\ Closed(Class, Tops, super)
  BY SupersEnd
<1>2. base \in [Class -> Seq(Class)] /\ step \in [Class \X Seq(Class) -> Seq(Class)]
  OBVIOUS
<1>3. PICK f : /\ Along(f, Class, Tops, super, base, step)
               /\ \A c \in Class : f[c] \in Seq(Class)
  <2> DEFINE V == Seq(Class)
  <2>1. base \in [Class -> V] /\ step \in [Class \X V -> V]
    BY <1>2
  <2> HIDE DEF base, step, V
  <2>2. /\ \E f : Along(f, Class, Tops, super, base, step)
        /\ \A f : Along(f, Class, Tops, super, base, step) => \A c \in Class : f[c] \in V
    BY ONLY <1>1, <2>1, LinkRecursion, Zenon
  <2> QED
    BY <2>2 DEF V
<1>4. ASSUME NEW c \in Class, super[c] # None
      PROVE  super[c] \in Class /\ step[c, f[super[c]]] = <<c>> \o f[super[c]]
  <2>1. super[c] \in Class
    BY <1>4 DEF IInv, TypeOK
  <2>2. f[super[c]] \in Seq(Class)
    BY <1>3, <2>1
  <2> QED
    BY <2>1, <2>2
<1>5. Along1(f)
  <2>1. f = [c \in Class |-> IF c \in Tops THEN base[c] ELSE step[c, f[super[c]]]]
    BY <1>3 DEF Along
  <2>2. \A c \in Class : (IF c \in Tops THEN base[c] ELSE step[c, f[super[c]]])
                           = IF super[c] = None THEN <<c>> ELSE <<c>> \o f[super[c]]
    <3> HIDE DEF step
    <3> QED
      BY <1>4 DEF Tops
  <2> QED
    BY <2>1, <2>2
<1>6. Along1(line)
  BY <1>5
<1> HIDE DEF line
<1> DEFINE U == {c \in Class : line[c] \notin Seq(Class)}
<1>7. U = {}
  <2>1. SUFFICES ASSUME U # {} PROVE FALSE
    OBVIOUS
  <2>2. PICK t \in U : t \in Tops \/ super[t] \notin U
    BY <1>1, <2>1 DEF Ends
  <2>3. line[t] = IF super[t] = None THEN <<t>> ELSE <<t>> \o line[super[t]]
    BY <1>6
  <2>4. CASE super[t] = None
    <3>1. <<t>> \in Seq(Class)
      OBVIOUS
    <3> QED
      BY <2>2, <2>3, <2>4, <3>1
  <2>5. CASE super[t] # None
    <3>1. super[t] \in Class /\ line[super[t]] \in Seq(Class)
      BY <1>4, <2>2, <2>5 DEF Tops
    <3>2. <<t>> \in Seq(Class)
      OBVIOUS
    <3>3. <<t>> \o line[super[t]] \in Seq(Class)
      BY <3>1, <3>2
    <3> QED
      BY <2>2, <2>3, <2>5, <3>3
  <2> QED
    BY <2>4, <2>5
<1>8. Line(k) = line[k]
  BY DEF Line, line
<1> QED
  BY <1>7, <1>8

\* What is first in the line is what the search finds.
LEMMA FirstIsNearest ==
  ASSUME NEW tbl, NEW k, NEW s, Line(k) \in Seq(Class), NEW i \in DOMAIN Line(k),
         Answer(tbl, Line(k)[i], s) # None,
         \A j \in 1 .. i - 1 : Answer(tbl, Line(k)[j], s) = None
  PROVE  First(tbl, k, s) = Answer(tbl, Line(k)[i], s)
<1> DEFINE has == {j \in DOMAIN Line(k) : Answer(tbl, Line(k)[j], s) # None}
           m == CHOOSE j \in has : \A l \in has : j <= l
<1>1. DOMAIN Line(k) = 1 .. Len(Line(k)) /\ Len(Line(k)) \in Nat
  BY LenProperties
<1>2. i \in has /\ \A l \in has : i <= l
  BY <1>1
<1>3. m \in has /\ \A l \in has : m <= l
  BY <1>2
<1>4. m = i
  BY <1>1, <1>2, <1>3
<1>5. First(tbl, k, s) = Answer(tbl, Line(k)[m], s)
  BY <1>2 DEF First
<1> QED
  BY <1>4, <1>5

LEMMA NearestFound == IInv /\ Unmade /\ CacheInv => NearestAnswers
<1> DEFINE has(c, t) == im_tbl[c][t] # None
<1> SUFFICES ASSUME IInv, Unmade, CacheInv, phase = "run",
                    NEW k \in There, NEW s \in Sym, NEW self \in Selves,
                    NEW i \in DOMAIN Line(k),
                    has(Line(k)[i], s) \/ has(Line(k)[i], Missing),
                    \A j \in 1 .. i - 1 : ~(has(Line(k)[j], s) \/ has(Line(k)[j], Missing))
             PROVE  Found(k, s, self)
                      = im_tbl[Line(k)[i]][IF has(Line(k)[i], s) THEN s ELSE Missing]
  BY DEF NearestAnswers
<1>1. k \in Class
  BY LenProperties DEF IInv, TypeOK, There, Class, Range
<1>2. Line(k) \in Seq(Class)
  BY <1>1, LineIsThere
<1> DEFINE c == Line(k)[i]
           f == im_tbl[c][IF im_tbl[c][s] # None THEN s ELSE Missing]
<1>3. f # None /\ Answer(im_tbl, c, s) = f
  BY DEF Answer, Or
<1>4. \A j \in 1 .. i - 1 : Answer(im_tbl, Line(k)[j], s) = None
  BY DEF Answer, Or
<1>5. First(im_tbl, k, s) = f
  BY <1>2, <1>3, <1>4, FirstIsNearest
<1> HIDE DEF f
<1>6. Known(k, s) = f
  BY <1>3, <1>5 DEF Known, get_method, Or
<1>7. Found(k, s, self) = f
  BY <1>3, <1>6 DEF CacheInv, Cached, Found, Hit, Resolve, Or
<1> QED
  BY <1>7 DEF f

\* A call runs the method of the nearest class that has one, or that class's
\* method_missing, cached or not, for scripts of any length and classes of any
\* depth (class.c:51-99, 181-226).
THEOREM NearestMethod == Spec => []NearestAnswers
<1>1. Init => Unmade /\ CacheInv
  BY DEF Init, Unmade, Class, NoEntry, CacheInv, Cached
<1>2. CacheInv /\ [Next]_vars => CacheInv'
  BY StepCacheInv
<1> QED
  BY <1>1, <1>2, StepUnmade, NearestFound, Invariance, PTL DEF Spec
=============================================================================
