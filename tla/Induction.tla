----------------------------- MODULE Induction -----------------------------
(***************************************************************************)
(* Induction over the natural numbers, for sets instead of predicates: the *)
(* provers cannot instantiate a theorem that has an operator as parameter, *)
(* and a set of numbers does what a predicate would.                       *)
(***************************************************************************)
EXTENDS Integers, WellFoundedInduction, TLAPS

Smaller == {ss \in Nat \X Nat : ss[1] < ss[2]}

\* No sequence of numbers descends for ever.
LEMMA SmallerWellFounded == IsWellFoundedOn(Smaller, Nat)
BY NatLessThanWellFounded DEF OpToRel, Smaller

\* A set of numbers that is not empty has a least one.
LEMMA LeastNumber ==
  ASSUME NEW S \in SUBSET Nat, S # {}
  PROVE  \E n \in S : \A m \in S : n <= m
<1>1. PICK n \in S : \A m \in S : ~(<<m, n>> \in Smaller)
  BY SmallerWellFounded, WFMin
<1>2. \A m \in S : ~(m < n)
  BY <1>1 DEF Smaller
<1> QED
  BY <1>2

\* A set that has 0, and with each number the next, has all.
LEMMA InductiveSet ==
  ASSUME NEW S, 0 \in S, \A n \in Nat : n \in S => n + 1 \in S
  PROVE  Nat \subseteq S
<1>1. SUFFICES ASSUME Nat \ S # {} PROVE FALSE
  OBVIOUS
<1>2. PICK n \in Nat \ S : \A m \in Nat \ S : n <= m
  BY <1>1, LeastNumber
<1>3. n - 1 \in Nat /\ n - 1 \in S
  BY <1>2
<1> QED
  BY <1>2, <1>3

\* What recursion makes of base and step, from number to number.
Recursive(f, D, a, base, step) ==
  f = [k \in D |-> IF k = a THEN base ELSE step[k, f[k-1]]]

\* Such a function exists on every interval.
LEMMA NumberRecursion ==
  ASSUME NEW a \in Int, NEW b \in Int, NEW S, NEW base \in S,
         NEW step \in [Int \X S -> S]
  PROVE  \E f : Recursive(f, a..b, a, base, step) /\ \A k \in a..b : f[k] \in S
<1> DEFINE Good(f, n) == /\ f \in [a..(a+n) -> S] /\ f[a] = base
                         /\ \A k \in a..(a+n) : k # a => f[k] = step[k, f[k-1]]
           P == {n \in Nat : \E f : Good(f, n)}
<1>1. 0 \in P
  <2> DEFINE g == [k \in a..(a+0) |-> base]
  <2>1. \A k \in a..(a+0) : k = a
    OBVIOUS
  <2>2. a \in a..(a+0)
    OBVIOUS
  <2>3. Good(g, 0)
    BY <2>1, <2>2
  <2> QED
    BY <2>3
<1>2. ASSUME NEW n \in Nat, n \in P PROVE n + 1 \in P
  <2>1. PICK f : Good(f, n)
    BY <1>2
  <2> DEFINE m == a + (n + 1)
             g == [k \in a..m |-> IF k = m THEN step[k, f[k-1]] ELSE f[k]]
  <2>2. /\ a \in a..(a+n) /\ a+n \in a..(a+n) /\ m \in a..m /\ a # m /\ m \in Int
        /\ m - 1 = a+n /\ m - 1 # m
        /\ \A k \in a..m : k # m => k \in a..(a+n)
        /\ \A k \in a..(a+n) : k \in a..m /\ k # m
        /\ \A k \in a..(a+n) : k # a => k-1 \in a..(a+n)
    OBVIOUS
  <2> HIDE DEF m
  <2>3. f[m-1] \in S /\ step[m, f[m-1]] \in S
    BY <2>1, <2>2
  <2>4. \A k \in a..m : g[k] \in S
    BY <2>1, <2>2, <2>3
  <2>5. g \in [a..m -> S]
    BY <2>4
  <2>6. g[m] = step[m, g[m-1]]
    BY <2>2
  <2>7. \A k \in a..(a+n) : k # a => g[k] = step[k, g[k-1]]
    BY <2>1, <2>2
  <2>8. \A k \in a..m : k # a => g[k] = step[k, g[k-1]]
    BY <2>2, <2>6, <2>7
  <2>9. g[a] = base
    BY <2>1, <2>2
  <2> HIDE DEF g
  <2>10. Good(g, n + 1)
    BY <2>5, <2>8, <2>9 DEF m
  <2> HIDE DEF Good
  <2> QED
    BY <2>10
<1>3. Nat \subseteq P
  <2> HIDE DEF P
  <2> QED
    BY <1>1, <1>2, InductiveSet
<1>4. CASE b < a
  <2>1. a..b = {}
    BY <1>4
  <2> DEFINE f == [k \in a..b |-> base]
  <2>2. f = [k \in a..b |-> IF k = a THEN base ELSE step[k, f[k-1]]]
    BY <2>1
  <2> QED
    BY <2>1, <2>2 DEF Recursive
<1>5. CASE a <= b
  <2>1. b - a \in Nat /\ a + (b - a) = b
    BY <1>5
  <2>2. PICK f : Good(f, b - a)
    BY <1>3, <2>1
  <2>3. /\ f \in [a..b -> S] /\ f[a] = base
        /\ \A k \in a..b : k # a => f[k] = step[k, f[k-1]]
    BY <2>1, <2>2
  <2>4. f = [k \in a..b |-> IF k = a THEN base ELSE step[k, f[k-1]]]
    BY <1>5, <2>3
  <2> QED
    BY <2>3, <2>4 DEF Recursive
<1> QED
  BY <1>4, <1>5

----------------------------------------------------------------------------
(***************************************************************************)
(* Walks along links: from s to next[s] until a place of Stop.  Where the  *)
(* links never lead back, a recursive function may follow them.            *)
(***************************************************************************)
Ends(S, Stop, next) == \A T \in SUBSET S : T # {} => \E t \in T : t \in Stop \/ next[t] \notin T

\* Z is left only by way of Stop.
Closed(Z, Stop, next) == \A z \in Z : z \in Stop \/ next[z] \in Z

\* Whatever the function is that satisfies the recursive definition, it
\* yields a place of Stop, and stays in every set that has s and its links.
LEMMA WalkStays ==
  ASSUME NEW S, NEW Stop, NEW next, Ends(S, Stop, next),
         NEW f, \A s \in S : f[s] = IF s \in Stop THEN s ELSE f[next[s]],
         NEW Z \in SUBSET S, Closed(Z, Stop, next)
  PROVE  \A s \in Z : f[s] \in Z \cap Stop
<1> DEFINE T == {s \in Z : f[s] \notin Z \cap Stop}
<1>1. SUFFICES ASSUME T # {} PROVE FALSE
  OBVIOUS
<1>2. T \in SUBSET S
  OBVIOUS
<1>3. PICK t \in T : t \in Stop \/ next[t] \notin T
  BY <1>1, <1>2 DEF Ends
<1> QED
  BY <1>3 DEF Closed

\* There is such a function.
LEMMA WalkExists ==
  ASSUME NEW S, NEW Stop, NEW next, Ends(S, Stop, next), Closed(S, Stop, next)
  PROVE  \E f : f = [s \in S |-> IF s \in Stop THEN s ELSE f[next[s]]]
<1> DEFINE Only(s, x) == /\ x \in Stop
                         /\ \A Z \in SUBSET S :
                              s \in Z /\ Closed(Z, Stop, next) => x \in Z
           One(s) == /\ \E x : Only(s, x)
                     /\ \A x, y : Only(s, x) /\ Only(s, y) => x = y
           T == {s \in S : ~One(s)}
<1>1. ASSUME NEW s \in S, s \in Stop PROVE Only(s, s) /\ \A x : Only(s, x) => x = s
  <2>1. Only(s, s)
    BY <1>1
  <2>2. {s} \in SUBSET S /\ Closed({s}, Stop, next)
    BY <1>1 DEF Closed
  <2> QED
    BY <2>1, <2>2
<1>2. ASSUME NEW s \in S, s \notin Stop, NEW x PROVE Only(s, x) <=> Only(next[s], x)
  <2>1. ASSUME Only(next[s], x) PROVE Only(s, x)
    BY <1>2, <2>1 DEF Closed
  <2>2. ASSUME Only(s, x), NEW Z \in SUBSET S, next[s] \in Z, Closed(Z, Stop, next)
        PROVE  x \in Z
    <3>1. Z \cup {s} \in SUBSET S /\ Closed(Z \cup {s}, Stop, next)
      BY <2>2 DEF Closed
    <3>2. x \in Z \cup {s} /\ x \in Stop
      BY <2>2, <3>1
    <3> QED
      BY <1>2, <3>2
  <2> QED
    BY <2>1, <2>2
<1>3. T = {}
  <2>1. SUFFICES ASSUME T # {} PROVE FALSE
    OBVIOUS
  <2>2. PICK t \in T : t \in Stop \/ next[t] \notin T
    BY <2>1 DEF Ends
  <2>3. CASE t \in Stop
    BY <1>1, <2>2, <2>3
  <2>4. CASE t \notin Stop
    <3>1. next[t] \in S /\ One(next[t])
      BY <2>2, <2>4 DEF Closed
    <3>2. One(t)
      BY <1>2, <2>4, <3>1
    <3> QED
      BY <3>2
  <2> QED
    BY <2>3, <2>4
<1> DEFINE f == [s \in S |-> CHOOSE x : Only(s, x)]
<1>4. ASSUME NEW s \in S, NEW x, Only(s, x) PROVE f[s] = x
  <2>1. Only(s, f[s])
    BY <1>4
  <2>2. One(s)
    BY <1>3
  <2> QED
    BY <1>4, <2>1, <2>2
<1>5. ASSUME NEW s \in S PROVE f[s] = IF s \in Stop THEN s ELSE f[next[s]]
  <2>1. CASE s \in Stop
    BY <1>1, <1>4, <2>1
  <2>2. CASE s \notin Stop
    <3>1. next[s] \in S
      BY <2>2 DEF Closed
    <3>2. PICK x : Only(next[s], x)
      BY <1>3, <3>1
    <3>3. Only(s, x)
      BY <1>2, <2>2, <3>2
    <3>4. f[next[s]] = x /\ f[s] = x
      BY <1>4, <3>1, <3>2, <3>3
    <3> QED
      BY <2>2, <3>4
  <2> QED
    BY <2>1, <2>2
<1> HIDE DEF f
<1>6. f = [s \in S |-> IF s \in Stop THEN s ELSE f[next[s]]]
  <2>1. f = [s \in S |-> f[s]]
    BY DEF f
  <2> QED
    BY <1>5, <2>1
<1> QED
  BY <1>6

\* What recursion along the links makes of base and step.
Along(f, S, Stop, next, base, step) ==
  f = [s \in S |-> IF s \in Stop THEN base[s] ELSE step[s, f[next[s]]]]

\* Such a function exists where the links never lead back, and each one has
\* its values where base and step have theirs.
LEMMA LinkRecursion ==
  ASSUME NEW S, NEW Stop, NEW next, Ends(S, Stop, next), Closed(S, Stop, next),
         NEW V, NEW base \in [S -> V], NEW step \in [S \X V -> V]
  PROVE  /\ \E f : Along(f, S, Stop, next, base, step)
         /\ \A f : Along(f, S, Stop, next, base, step) => \A s \in S : f[s] \in V
<1> DEFINE Full(Z) == \A s \in S : IF s \in Stop THEN <<s, base[s]>> \in Z
                                    ELSE \A v \in V : <<next[s], v>> \in Z => <<s, step[s, v]>> \in Z
           Z0 == {p \in S \X V : \A Z \in SUBSET (S \X V) : Full(Z) => p \in Z}
           One(s) == \E v \in V : /\ <<s, v>> \in Z0
                                  /\ \A w \in V : <<s, w>> \in Z0 => w = v
           T == {s \in S : ~One(s)}
<1>1. Full(Z0)
  <2> SUFFICES ASSUME NEW s \in S
               PROVE  IF s \in Stop THEN <<s, base[s]>> \in Z0
                      ELSE \A v \in V : <<next[s], v>> \in Z0 => <<s, step[s, v]>> \in Z0
    OBVIOUS
  <2>1. CASE s \in Stop
    <3>1. <<s, base[s]>> \in S \X V
      OBVIOUS
    <3>2. \A Z \in SUBSET (S \X V) : Full(Z) => <<s, base[s]>> \in Z
      BY <2>1
    <3> QED
      BY <2>1, <3>1, <3>2
  <2>2. CASE s \notin Stop
    <3> SUFFICES ASSUME NEW v \in V, <<next[s], v>> \in Z0 PROVE <<s, step[s, v]>> \in Z0
      BY <2>2
    <3>1. <<s, v>> \in S \X V /\ <<s, step[s, v]>> \in S \X V
      OBVIOUS
    <3>2. ASSUME NEW Z \in SUBSET (S \X V), Full(Z) PROVE <<s, step[s, v]>> \in Z
      <4>1. <<next[s], v>> \in Z
        BY <3>2
      <4> QED
        BY <2>2, <3>2, <4>1
    <3> QED
      BY <3>1, <3>2
  <2> QED
    BY <2>1, <2>2
<1>2. ASSUME NEW s \in S, NEW v \in V, <<s, v>> \in Z0
      PROVE  IF s \in Stop THEN v = base[s]
             ELSE \E w \in V : <<next[s], w>> \in Z0 /\ v = step[s, w]
  <2> SUFFICES ASSUME ~(IF s \in Stop THEN v = base[s]
                        ELSE \E w \in V : <<next[s], w>> \in Z0 /\ v = step[s, w])
               PROVE  FALSE
    OBVIOUS
  <2> DEFINE Z == {p \in Z0 : p # <<s, v>>}
  <2>1. Z \in SUBSET (S \X V)
    OBVIOUS
  <2>2. Full(Z)
    <3> SUFFICES ASSUME NEW r \in S
                 PROVE  IF r \in Stop THEN <<r, base[r]>> \in Z
                        ELSE \A w \in V : <<next[r], w>> \in Z => <<r, step[r, w]>> \in Z
      OBVIOUS
    <3>1. CASE r \in Stop
      <4>1. <<r, base[r]>> \in Z0
        BY <1>1, <3>1
      <4>2. <<r, base[r]>> # <<s, v>>
        BY <3>1
      <4> QED
        BY <3>1, <4>1, <4>2
    <3>2. CASE r \notin Stop
      <4> SUFFICES ASSUME NEW w \in V, <<next[r], w>> \in Z0 PROVE <<r, step[r, w]>> \in Z
        BY <3>2
      <4>1. <<r, step[r, w]>> \in Z0
        BY <1>1, <3>2
      <4>2. ASSUME r = s, v = step[r, w] PROVE FALSE
        BY <3>2, <4>2
      <4>3. <<r, step[r, w]>> # <<s, v>>
        BY <4>2
      <4> QED
        BY <4>1, <4>3
    <3> QED
      BY <3>1, <3>2
  <2>3. <<s, v>> \in Z
    BY <1>2, <2>1, <2>2
  <2> QED
    BY <2>3
<1> HIDE DEF Z0
<1>3. T = {}
  <2>1. SUFFICES ASSUME T # {} PROVE FALSE
    OBVIOUS
  <2>2. PICK t \in T : t \in Stop \/ next[t] \notin T
    BY <2>1 DEF Ends
  <2>3. CASE t \in Stop
    <3>1. base[t] \in V /\ <<t, base[t]>> \in Z0
      BY <1>1, <2>3
    <3>2. \A w \in V : <<t, w>> \in Z0 => w = base[t]
      BY <1>2, <2>3
    <3> QED
      BY <3>1, <3>2
  <2>4. CASE t \notin Stop
    <3>1. next[t] \in S /\ One(next[t])
      BY <2>2, <2>4 DEF Closed
    <3>2. PICK v \in V : /\ <<next[t], v>> \in Z0
                         /\ \A w \in V : <<next[t], w>> \in Z0 => w = v
      BY <3>1
    <3>3. step[t, v] \in V /\ <<t, step[t, v]>> \in Z0
      BY <1>1, <2>4, <3>2
    <3>4. \A w \in V : <<t, w>> \in Z0 => w = step[t, v]
      BY <1>2, <2>4, <3>2
    <3> QED
      BY <3>3, <3>4
  <2> QED
    BY <2>3, <2>4
<1> DEFINE f == [s \in S |-> CHOOSE v \in V : <<s, v>> \in Z0]
<1>4. ASSUME NEW s \in S, NEW v \in V, <<s, v>> \in Z0 PROVE f[s] = v
  <2>1. f[s] \in V /\ <<s, f[s]>> \in Z0
    BY <1>4
  <2>2. One(s)
    BY <1>3
  <2> QED
    BY <1>4, <2>1, <2>2
<1>5. ASSUME NEW s \in S PROVE f[s] = IF s \in Stop THEN base[s] ELSE step[s, f[next[s]]]
  <2>1. CASE s \in Stop
    <3>1. base[s] \in V /\ <<s, base[s]>> \in Z0
      BY <1>1, <2>1
    <3> QED
      BY <1>4, <2>1, <3>1
  <2>2. CASE s \notin Stop
    <3>1. next[s] \in S
      BY <2>2 DEF Closed
    <3>2. PICK v \in V : <<next[s], v>> \in Z0
      BY <1>3, <3>1
    <3>3. step[s, v] \in V /\ <<s, step[s, v]>> \in Z0
      BY <1>1, <2>2, <3>2
    <3>4. f[next[s]] = v
      BY <1>4, <3>1, <3>2
    <3>5. f[s] = step[s, v]
      BY <1>4, <3>3
    <3> HIDE DEF f
    <3> QED
      BY <2>2, <3>4, <3>5
  <2> QED
    BY <2>1, <2>2
<1>6. f \in [S -> V]
  <2>1. \A s \in S : (CHOOSE v \in V : <<s, v>> \in Z0) \in V
    BY <1>3
  <2> QED
    BY <2>1
<1> HIDE DEF f
<1>7. Along(f, S, Stop, next, base, step)
  BY <1>5, <1>6 DEF Along
<1>8. ASSUME NEW g, Along(g, S, Stop, next, base, step) PROVE \A s \in S : g[s] \in V
  <2> DEFINE U == {s \in S : g[s] \notin V}
  <2>1. SUFFICES ASSUME U # {} PROVE FALSE
    OBVIOUS
  <2>2. U \in SUBSET S
    OBVIOUS
  <2>3. PICK t \in U : t \in Stop \/ next[t] \notin U
    BY <2>1, <2>2 DEF Ends
  <2>4. g[t] = IF t \in Stop THEN base[t] ELSE step[t, g[next[t]]]
    BY <1>8 DEF Along
  <2>5. CASE t \in Stop
    BY <2>4, <2>5
  <2>6. CASE t \notin Stop
    <3>1. next[t] \in S /\ g[next[t]] \in V
      BY <2>3, <2>6 DEF Closed
    <3> QED
      BY <2>4, <2>6, <3>1
  <2> QED
    BY <2>5, <2>6
<1> QED
  BY <1>7, <1>8
=============================================================================
