------------------------------ MODULE GcProofs ------------------------------
(***************************************************************************)
(* Proofs about Gc, for any number of strings, arrays, literals and        *)
(* variables, arrays of any length and scripts that run for any time.      *)
(***************************************************************************)
EXTENDS Gc, FiniteSetTheorems, Induction

----------------------------------------------------------------------------
(***************************************************************************)
(* Lists.  A list is thinned by taking entries out of it.                  *)
(***************************************************************************)
In(s) == {s[k] : k \in DOMAIN s}

Thinner(t, s) ==
  /\ IsInjective(t) /\ In(t) \subseteq In(s) /\ Len(t) <= Len(s)
  /\ \A i, j \in DOMAIN t : i < j => \E k, l \in DOMAIN s : k < l /\ s[k] = t[i] /\ s[l] = t[j]

\* What RemoveAt leaves.
LEMMA Removed ==
  ASSUME NEW S, NEW s \in Seq(S), NEW p \in DOMAIN s
  PROVE  /\ RemoveAt(s, p) \in Seq(S)
         /\ Len(RemoveAt(s, p)) = Len(s) - 1
         /\ \A q \in 1..(Len(s) - 1) :
               RemoveAt(s, p)[q] = IF q < p THEN s[q] ELSE s[q+1]
<1> DEFINE a == SubSeq(s, 1, p-1)
           b == SubSeq(s, p+1, Len(s))
<1>1. p \in 1..Len(s)
  OBVIOUS
<1>2. /\ a \in Seq(S) /\ Len(a) = p-1
      /\ \A q \in 1..(p-1) : a[q] = s[q]
  BY <1>1
<1>3. /\ b \in Seq(S) /\ Len(b) = Len(s) - p
      /\ \A q \in 1..(Len(s) - p) : b[q] = s[p+q]
  BY <1>1
<1> HIDE DEF a, b
<1>4. a \o b \in Seq(S) /\ Len(a \o b) = Len(s) - 1
  BY <1>1, <1>2, <1>3
<1>5. ASSUME NEW q \in 1..(Len(s) - 1)
      PROVE  (a \o b)[q] = IF q < p THEN s[q] ELSE s[q+1]
  <2>1. CASE q < p
    BY <1>1, <1>2, <1>3, <2>1
  <2>2. CASE ~(q < p)
    <3>1. (a \o b)[q] = b[q - (p-1)]
      BY <1>1, <1>2, <1>3, <2>2, SMTT(30)
    <3>2. q - (p-1) \in 1..(Len(s) - p) /\ p + (q - (p-1)) = q + 1
      BY <1>1, <2>2
    <3> QED
      BY <2>2, <3>1, <3>2, <1>3
  <2> QED
    BY <2>1, <2>2
<1> QED
  BY <1>4, <1>5 DEF RemoveAt, a, b

\* Taking out one entry of an injective list.
LEMMA RemovedThins ==
  ASSUME NEW S, NEW s \in Seq(S), IsInjective(s), NEW p \in DOMAIN s
  PROVE  /\ RemoveAt(s, p) \in Seq(S)
         /\ Thinner(RemoveAt(s, p), s)
         /\ In(RemoveAt(s, p)) = In(s) \ {s[p]}
         /\ \A q \in 1..(p-1) : q \in DOMAIN RemoveAt(s, p) /\ RemoveAt(s, p)[q] = s[q]
<1> DEFINE t == RemoveAt(s, p)
<1>1. /\ t \in Seq(S) /\ Len(t) = Len(s) - 1
      /\ \A q \in 1..(Len(s) - 1) : t[q] = IF q < p THEN s[q] ELSE s[q+1]
  BY Removed
<1> HIDE DEF t
<1>2. /\ DOMAIN t = 1..(Len(s) - 1) /\ DOMAIN s = 1..Len(s) /\ Len(s) \in Nat
      /\ p \in 1..Len(s)
  BY <1>1
<1> DEFINE Was(q) == IF q < p THEN q ELSE q + 1
<1>3. \A q \in DOMAIN t : Was(q) \in DOMAIN s /\ Was(q) # p /\ t[q] = s[Was(q)]
  BY <1>1, <1>2
<1>4. \A q, r \in DOMAIN t : q < r => Was(q) < Was(r)
  BY <1>2
<1>5. IsInjective(t)
  <2> SUFFICES ASSUME NEW q \in DOMAIN t, NEW r \in DOMAIN t, t[q] = t[r] PROVE q = r
    BY DEF IsInjective
  <2>1. Was(q) = Was(r)
    <3> HIDE DEF Was
    <3> QED
      BY <1>3 DEF IsInjective
  <2> QED
    BY <2>1, <1>2
<1>6. In(t) = In(s) \ {s[p]}
  <2>1. In(t) \subseteq In(s) \ {s[p]}
    <3> HIDE DEF Was
    <3> QED
      BY <1>3, <1>2 DEF In, IsInjective
  <2>2. ASSUME NEW k \in DOMAIN s, k # p PROVE s[k] \in In(t)
    <3> DEFINE q == IF k < p THEN k ELSE k - 1
    <3>1. q \in DOMAIN t /\ Was(q) = k
      BY <1>2, <2>2
    <3> QED
      BY <3>1, <1>3 DEF In
  <2> QED
    BY <2>1, <2>2 DEF In
<1>7. Thinner(t, s)
  <2>1. ASSUME NEW i \in DOMAIN t, NEW j \in DOMAIN t, i < j
        PROVE  \E k, l \in DOMAIN s : k < l /\ s[k] = t[i] /\ s[l] = t[j]
    BY <1>3, <1>4, <2>1
  <2>2. Len(t) <= Len(s)
    BY <1>1, <1>2
  <2> QED
    BY <1>5, <1>6, <2>1, <2>2 DEF Thinner
<1>8. \A q \in 1..(p-1) : q \in DOMAIN t /\ t[q] = s[q]
  BY <1>1, <1>2
<1> QED
  BY <1>1, <1>6, <1>7, <1>8 DEF t

LEMMA ThinnerItself == ASSUME NEW S, NEW s \in Seq(S), IsInjective(s) PROVE Thinner(s, s)
BY DEF Thinner

LEMMA ThinnerStill ==
  ASSUME NEW S, NEW s \in Seq(S), NEW t \in Seq(S), NEW u \in Seq(S), Thinner(t, s), Thinner(u, t)
  PROVE  Thinner(u, s)
<1>1. IsInjective(u) /\ In(u) \subseteq In(s) /\ Len(u) <= Len(s)
  BY DEF Thinner
<1>2. ASSUME NEW i \in DOMAIN u, NEW j \in DOMAIN u, i < j
      PROVE  \E k, l \in DOMAIN s : k < l /\ s[k] = u[i] /\ s[l] = u[j]
  <2>1. PICK p \in DOMAIN t, q \in DOMAIN t : p < q /\ t[p] = u[i] /\ t[q] = u[j]
    BY <1>2 DEF Thinner
  <2>2. PICK k \in DOMAIN s, l \in DOMAIN s : k < l /\ s[k] = t[p] /\ s[l] = t[q]
    BY <2>1 DEF Thinner
  <2> QED
    BY <2>1, <2>2
<1> QED
  BY <1>1, <1>2 DEF Thinner

\* Without takes the object out, if it is there, and leaves what precedes it.
LEMMA WithoutThins ==
  ASSUME NEW S, NEW s \in Seq(S), IsInjective(s), NEW o
  PROVE  /\ Without(s, o) \in Seq(S)
         /\ Thinner(Without(s, o), s)
         /\ In(Without(s, o)) = In(s) \ {o}
         /\ \A q \in DOMAIN s :
              (\A r \in 1..q : s[r] # o)
                => \A r \in 1..q : r \in DOMAIN Without(s, o) /\ Without(s, o)[r] = s[r]
<1>1. CASE \E k \in DOMAIN s : s[k] = o
  <2> DEFINE k == CHOOSE k \in DOMAIN s : s[k] = o
  <2>1. k \in DOMAIN s /\ s[k] = o
    BY <1>1
  <2>2. Without(s, o) = RemoveAt(s, k)
    BY <1>1 DEF Without
  <2> HIDE DEF k
  <2>3. ASSUME NEW q \in DOMAIN s, \A r \in 1..q : s[r] # o, NEW r \in 1..q PROVE r \in 1..(k-1)
    BY <2>1, <2>3
  <2>4. \A q \in 1..(k-1) : q \in DOMAIN RemoveAt(s, k) /\ RemoveAt(s, k)[q] = s[q]
    BY <2>1, RemovedThins
  <2>5. RemoveAt(s, k) \in Seq(S) /\ Thinner(RemoveAt(s, k), s) /\ In(RemoveAt(s, k)) = In(s) \ {s[k]}
    BY <2>1, RemovedThins
  <2> QED
    BY <2>1, <2>2, <2>3, <2>4, <2>5
<1>2. CASE ~\E k \in DOMAIN s : s[k] = o
  <2>1. Without(s, o) = s
    BY <1>2 DEF Without
  <2>2. o \notin In(s)
    BY <1>2 DEF In
  <2>3. \A q \in DOMAIN s : \A r \in 1..q : r \in DOMAIN s
    OBVIOUS
  <2> QED
    BY <2>1, <2>2, <2>3, ThinnerItself
<1> QED
  BY <1>1, <1>2

----------------------------------------------------------------------------
(***************************************************************************)
(* The heap, and what the steps of object_refcount_down do to its parts.   *)
(***************************************************************************)
Heap == [st    : [Obj -> {"unborn", "live", "freed"}],
         rc    : [Obj -> Int],
         elems : [Ary -> Seq(Obj)],
         stk   : [Block -> Seq(Obj)],
         last  : [Block -> Obj \cup {None}],
         kept  : SUBSET Obj]

Live(m, o) == m.st[o] = "live"
On(m, b)   == In(m.stk[b])

LEMMA Kinds == /\ Obj = Str \cup Ary \cup Lit /\ Made = Str \cup Ary
               /\ Made \subseteq Obj /\ Ary \subseteq Obj /\ Str \subseteq Obj /\ Lit \subseteq Obj
               /\ None \notin Obj /\ None \notin Var /\ Parm \in Var
               /\ Made \cap Lit = {} /\ Str \cap Ary = {} /\ Ary \cap Block = {}
               /\ "main" \in Block /\ "inner" \in Block /\ "method" \in Block
BY NamesAssumption, KindsAssumption DEF Obj, Made, Block

LEMMA HeapParts ==
  ASSUME NEW m \in Heap
  PROVE  /\ m.st \in [Obj -> {"unborn", "live", "freed"}]
         /\ m.rc \in [Obj -> Int] /\ m.elems \in [Ary -> Seq(Obj)]
         /\ m.stk \in [Block -> Seq(Obj)] /\ m.last \in [Block -> Obj \cup {None}]
         /\ m.kept \subseteq Obj
BY DEF Heap

LEMMA FreedParts ==
  ASSUME NEW m \in Heap, NEW o \in Obj
  PROVE  /\ Freed(m, o) \in Heap
         /\ Freed(m, o).st = [m.st EXCEPT ![o] = "freed"]
         /\ Freed(m, o).rc = m.rc /\ Freed(m, o).elems = m.elems /\ Freed(m, o).stk = m.stk
         /\ Freed(m, o).last = m.last /\ Freed(m, o).kept = m.kept
BY DEF Freed, Heap

LEMMA AddParts ==
  ASSUME NEW m \in Heap, NEW o \in Obj, NEW n \in Int
  PROVE  /\ Add(m, o, n) \in Heap
         /\ Add(m, o, n).rc = [m.rc EXCEPT ![o] = @ + n]
         /\ Add(m, o, n).st = m.st /\ Add(m, o, n).elems = m.elems /\ Add(m, o, n).stk = m.stk
         /\ Add(m, o, n).last = m.last /\ Add(m, o, n).kept = m.kept
<1> DEFINE r == [m.rc EXCEPT ![o] = @ + n]
<1>1. r \in [Obj -> Int]
  BY HeapParts
<1>2. Add(m, o, n) = [m EXCEPT !.rc = r]
  BY DEF Add, Heap
<1> HIDE DEF r
<1>3. [m EXCEPT !.rc = r] \in Heap
  BY <1>1 DEF Heap
<1>4. /\ [m EXCEPT !.rc = r].rc = r
      /\ [m EXCEPT !.rc = r].st = m.st /\ [m EXCEPT !.rc = r].elems = m.elems
      /\ [m EXCEPT !.rc = r].stk = m.stk /\ [m EXCEPT !.rc = r].last = m.last
      /\ [m EXCEPT !.rc = r].kept = m.kept
  BY DEF Heap
<1> QED
  BY <1>2, <1>3, <1>4 DEF r

LEMMA LoweredParts ==
  ASSUME NEW m \in Heap, NEW o \in Obj, NEW cur \in Block
  PROVE  /\ Lowered(m, o, cur) \in Heap
         /\ Lowered(m, o, cur).rc = IF m.rc[o] # GC_NEVER_FREE /\ m.last[cur] # o
                                    THEN [m.rc EXCEPT ![o] = @ - 1] ELSE m.rc
         /\ Lowered(m, o, cur).kept = IF m.rc[o] # GC_NEVER_FREE /\ m.last[cur] = o
                                      THEN m.kept \cup {o} ELSE m.kept
         /\ Lowered(m, o, cur).st = m.st /\ Lowered(m, o, cur).elems = m.elems
         /\ Lowered(m, o, cur).stk = m.stk /\ Lowered(m, o, cur).last = m.last
<1>1. CASE m.rc[o] = GC_NEVER_FREE
  <2>1. Lowered(m, o, cur) = m
    BY <1>1 DEF Lowered
  <2> QED
    BY <1>1, <2>1
<1>2. CASE m.rc[o] # GC_NEVER_FREE /\ m.last[cur] = o
  <2> DEFINE s == m.kept \cup {o}
  <2>1. Lowered(m, o, cur) = [m EXCEPT !.kept = s] /\ s \subseteq Obj
    BY <1>2, HeapParts DEF Lowered
  <2> HIDE DEF s
  <2>2. [m EXCEPT !.kept = s] \in Heap
    BY <2>1 DEF Heap
  <2>3. /\ [m EXCEPT !.kept = s].kept = s
        /\ [m EXCEPT !.kept = s].st = m.st /\ [m EXCEPT !.kept = s].elems = m.elems
        /\ [m EXCEPT !.kept = s].stk = m.stk /\ [m EXCEPT !.kept = s].last = m.last
        /\ [m EXCEPT !.kept = s].rc = m.rc
    BY DEF Heap
  <2> QED
    BY <1>2, <2>1, <2>2, <2>3 DEF s
<1>3. CASE m.rc[o] # GC_NEVER_FREE /\ m.last[cur] # o
  <2>1. Lowered(m, o, cur) = Add(m, o, -1)
    BY <1>3 DEF Lowered
  <2>2. [m.rc EXCEPT ![o] = @ + -1] = [m.rc EXCEPT ![o] = @ - 1]
    BY HeapParts
  <2>3. /\ Add(m, o, -1) \in Heap
        /\ Add(m, o, -1).rc = [m.rc EXCEPT ![o] = @ + -1]
        /\ Add(m, o, -1).st = m.st /\ Add(m, o, -1).elems = m.elems /\ Add(m, o, -1).stk = m.stk
        /\ Add(m, o, -1).last = m.last /\ Add(m, o, -1).kept = m.kept
    BY AddParts
  <2> QED
    BY ONLY <1>3, <2>1, <2>2, <2>3
<1> QED
  BY <1>1, <1>2, <1>3

LEMMA UnlistedParts ==
  ASSUME NEW m \in Heap, NEW o \in Obj, NEW cur \in Block,
         Without(m.stk[cur], o) \in Seq(Obj)
  PROVE  /\ Unlisted(m, o, cur) \in Heap
         /\ Unlisted(m, o, cur).stk = [m.stk EXCEPT ![cur] = Without(@, o)]
         /\ Unlisted(m, o, cur).st = m.st /\ Unlisted(m, o, cur).rc = m.rc
         /\ Unlisted(m, o, cur).elems = m.elems /\ Unlisted(m, o, cur).last = m.last
         /\ Unlisted(m, o, cur).kept = m.kept
BY DEF Unlisted, Heap

LEMMA WithoutType == ASSUME NEW S, NEW s \in Seq(S), NEW o PROVE Without(s, o) \in Seq(S)
<1>1. CASE \E k \in DOMAIN s : s[k] = o
  BY <1>1, Removed DEF Without
<1> QED
  BY <1>1 DEF Without

LEMMA DroppedParts ==
  ASSUME NEW m \in Heap, NEW e \in Obj, NEW cur \in Block
  PROVE  LET d == Dropped(m, e, cur)
         IN  /\ d \in Heap /\ d.elems = m.elems /\ d.last = m.last
             /\ d.rc = IF m.rc[e] # GC_NEVER_FREE /\ m.last[cur] # e
                       THEN [m.rc EXCEPT ![e] = @ - 1] ELSE m.rc
             /\ d.kept = IF m.rc[e] # GC_NEVER_FREE /\ m.last[cur] = e
                         THEN m.kept \cup {e} ELSE m.kept
             /\ d.st = IF Spent(m, e, cur) THEN [m.st EXCEPT ![e] = "freed"] ELSE m.st
             /\ d.stk = IF Spent(m, e, cur) THEN [m.stk EXCEPT ![cur] = Without(@, e)] ELSE m.stk
<1> DEFINE l == Lowered(m, e, cur)
           f == Freed(l, e)
<1>1. /\ l \in Heap
      /\ l.rc = IF m.rc[e] # GC_NEVER_FREE /\ m.last[cur] # e THEN [m.rc EXCEPT ![e] = @ - 1] ELSE m.rc
      /\ l.kept = IF m.rc[e] # GC_NEVER_FREE /\ m.last[cur] = e THEN m.kept \cup {e} ELSE m.kept
      /\ l.st = m.st /\ l.elems = m.elems /\ l.stk = m.stk /\ l.last = m.last
  BY LoweredParts
<1> HIDE DEF l
<1>2. /\ f \in Heap /\ f.st = [l.st EXCEPT ![e] = "freed"]
      /\ f.rc = l.rc /\ f.elems = l.elems /\ f.stk = l.stk /\ f.last = l.last /\ f.kept = l.kept
  BY <1>1, FreedParts
<1> HIDE DEF f
<1>3. Without(f.stk[cur], e) \in Seq(Obj)
  <2>1. f.stk[cur] \in Seq(Obj)
    BY <1>2, HeapParts
  <2> QED
    BY <2>1, WithoutType
<1>4. /\ Unlisted(f, e, cur) \in Heap
      /\ Unlisted(f, e, cur).stk = [f.stk EXCEPT ![cur] = Without(@, e)]
      /\ Unlisted(f, e, cur).st = f.st /\ Unlisted(f, e, cur).rc = f.rc
      /\ Unlisted(f, e, cur).elems = f.elems /\ Unlisted(f, e, cur).last = f.last
      /\ Unlisted(f, e, cur).kept = f.kept
  BY <1>2, <1>3, UnlistedParts
<1>5. Dropped(m, e, cur) = IF Spent(m, e, cur) THEN Unlisted(f, e, cur) ELSE l
  BY DEF Dropped, l, f
<1>6. CASE Spent(m, e, cur)
  BY ONLY <1>1, <1>2, <1>4, <1>5, <1>6
<1>7. CASE ~Spent(m, e, cur)
  BY ONLY <1>1, <1>5, <1>7
<1> QED
  BY <1>6, <1>7

LEMMA DroppedType ==
  ASSUME NEW m \in Heap, NEW e \in Obj, NEW cur \in Block PROVE Dropped(m, e, cur) \in Heap
BY DroppedParts

----------------------------------------------------------------------------
(***************************************************************************)
(* The places that refer to an object, in any heap and tables.  While the  *)
(* array a goes, its first j elements are no longer owed a reference.      *)
(***************************************************************************)
Tabled == [Block -> [Var -> Obj \cup {None}]]

VarsOf(en, o)      == {tv \in Block \X (Var \ {Parm}) : en[tv[1]][tv[2]] = o}
Pairs(a, s, j, o)  == {<<a, k>> : k \in {i \in DOMAIN s : j < i /\ s[i] = o}}
Elsewhere(m, a, o) == UNION {Pairs(b, m.elems[b], 0, o) : b \in {c \in Ary : Live(m, c)} \ {a}}
Owed(m, en, a, j, o) == VarsOf(en, o) \cup Elsewhere(m, a, o) \cup Pairs(a, m.elems[a], j, o)
PlacesIn(m, en, o) ==
  VarsOf(en, o) \cup UNION {Pairs(a, m.elems[a], 0, o) : a \in {b \in Ary : Live(m, b)}}

LEMMA PairsFinite ==
  ASSUME NEW a, NEW S, NEW s \in Seq(S), NEW j, NEW o
  PROVE  IsFiniteSet(Pairs(a, s, j, o))
<1>1. IsFiniteSet(1..Len(s)) /\ IsFiniteSet({a})
  <2>1. 1 \in Int /\ Len(s) \in Int
    OBVIOUS
  <2> QED
    BY <2>1, FS_Interval, FS_Singleton
<1>2. IsFiniteSet({a} \X (1..Len(s)))
  BY <1>1, FS_Product
<1>3. Pairs(a, s, j, o) \in SUBSET ({a} \X (1..Len(s)))
  BY DEF Pairs
<1> QED
  BY <1>2, <1>3, FS_Subset

LEMMA VarsFinite == ASSUME NEW en, NEW o PROVE IsFiniteSet(VarsOf(en, o))
<1>1. IsFiniteSet(Block)
  <2>1. IsFiniteSet({"main"})
    BY FS_Singleton
  <2>2. IsFiniteSet({"main"} \cup {"inner"})
    BY ONLY <2>1, FS_AddElement
  <2>3. IsFiniteSet(({"main"} \cup {"inner"}) \cup {"method"})
    BY ONLY <2>2, FS_AddElement
  <2>4. Block = ({"main"} \cup {"inner"}) \cup {"method"}
    BY DEF Block
  <2> QED
    BY ONLY <2>3, <2>4
<1>2. IsFiniteSet(Var \ {Parm})
  BY SizesAssumption, FS_Difference
<1>3. IsFiniteSet(Block \X (Var \ {Parm}))
  BY <1>1, <1>2, FS_Product
<1>4. VarsOf(en, o) \in SUBSET (Block \X (Var \ {Parm}))
  BY DEF VarsOf
<1> QED
  BY <1>3, <1>4, FS_Subset

LEMMA UnionFinite ==
  ASSUME NEW m \in Heap, NEW o, NEW A \in SUBSET Ary
  PROVE  IsFiniteSet(UNION {Pairs(b, m.elems[b], 0, o) : b \in A})
<1> DEFINE f == [b \in A |-> Pairs(b, m.elems[b], 0, o)]
           R == {f[b] : b \in A}
<1>1. IsFiniteSet(A)
  BY SizesAssumption, Kinds, FS_Subset
<1>2. IsFiniteSet(R)
  <2>1. f \in Surjection(A, R)
    BY DEF Surjection
  <2> HIDE DEF f, R
  <2> QED
    BY ONLY <2>1, <1>1, FS_Surjection
<1>3. \A T \in R : IsFiniteSet(T)
  BY HeapParts, PairsFinite
<1>4. R = {Pairs(b, m.elems[b], 0, o) : b \in A}
  OBVIOUS
<1> HIDE DEF R
<1> QED
  BY ONLY <1>2, <1>3, <1>4, FS_UNION

LEMMA PlacesFinite ==
  ASSUME NEW m \in Heap, NEW en, NEW o
  PROVE  IsFiniteSet(PlacesIn(m, en, o)) /\ Cardinality(PlacesIn(m, en, o)) \in Nat
<1>1. IsFiniteSet(VarsOf(en, o))
  BY VarsFinite
<1>2. IsFiniteSet(UNION {Pairs(b, m.elems[b], 0, o) : b \in {c \in Ary : Live(m, c)}})
  <2> DEFINE A == {c \in Ary : Live(m, c)}
  <2>1. A \in SUBSET Ary
    OBVIOUS
  <2> HIDE DEF A
  <2>2. IsFiniteSet(UNION {Pairs(b, m.elems[b], 0, o) : b \in A})
    BY <2>1, UnionFinite
  <2> QED
    BY <2>2 DEF A
<1>3. IsFiniteSet(PlacesIn(m, en, o))
  BY <1>1, <1>2, FS_Union DEF PlacesIn
<1> QED
  BY <1>3, FS_CardinalityType

LEMMA OwedFinite ==
  ASSUME NEW m \in Heap, NEW en, NEW a \in Ary, NEW j, NEW o
  PROVE  IsFiniteSet(Owed(m, en, a, j, o)) /\ Cardinality(Owed(m, en, a, j, o)) \in Nat
<1>1. IsFiniteSet(VarsOf(en, o)) /\ IsFiniteSet(Pairs(a, m.elems[a], j, o))
  BY VarsFinite, PairsFinite, HeapParts
<1>2. IsFiniteSet(Elsewhere(m, a, o))
  <2> DEFINE A == {c \in Ary : Live(m, c)} \ {a}
  <2>1. A \in SUBSET Ary /\ Elsewhere(m, a, o) = UNION {Pairs(b, m.elems[b], 0, o) : b \in A}
    BY DEF Elsewhere
  <2> HIDE DEF A
  <2>2. IsFiniteSet(UNION {Pairs(b, m.elems[b], 0, o) : b \in A})
    BY <2>1, UnionFinite
  <2> QED
    BY ONLY <2>1, <2>2
<1>3. IsFiniteSet(Owed(m, en, a, j, o))
  BY <1>1, <1>2, FS_Union DEF Owed
<1> QED
  BY <1>3, FS_CardinalityType

\* All of them are owed at first; none by the array itself in the end.
LEMMA OwedFirst ==
  ASSUME NEW m, NEW en, NEW a \in Ary, Live(m, a), NEW o
  PROVE  Owed(m, en, a, 0, o) = PlacesIn(m, en, o)
BY DEF Owed, PlacesIn, Elsewhere

LEMMA OwedLast ==
  ASSUME NEW m \in Heap, NEW en, NEW a \in Ary, NEW o, NEW n,
         n.elems = m.elems, \A b \in Ary : Live(n, b) <=> Live(m, b) /\ b # a
  PROVE  Owed(m, en, a, Len(m.elems[a]), o) = PlacesIn(n, en, o)
<1>1. Pairs(a, m.elems[a], Len(m.elems[a]), o) = {}
  <2>1. m.elems[a] \in Seq(Obj)
    BY HeapParts
  <2> QED
    BY <2>1 DEF Pairs
<1>2. {c \in Ary : Live(m, c)} \ {a} = {b \in Ary : Live(n, b)}
  OBVIOUS
<1> QED
  BY <1>1, <1>2 DEF Owed, PlacesIn, Elsewhere

\* One element less.
LEMMA OwedNext ==
  ASSUME NEW m \in Heap, NEW en, NEW a \in Ary, NEW j \in 1..Len(m.elems[a]), NEW o
  PROVE  IF m.elems[a][j] = o
         THEN /\ <<a, j>> \in Owed(m, en, a, j-1, o)
              /\ Cardinality(Owed(m, en, a, j, o)) = Cardinality(Owed(m, en, a, j-1, o)) - 1
         ELSE Owed(m, en, a, j, o) = Owed(m, en, a, j-1, o)
<1> DEFINE s == m.elems[a]
<1>1. s \in Seq(Obj) /\ DOMAIN s = 1..Len(s) /\ Len(s) \in Nat
  BY HeapParts
<1> HIDE DEF s
<1>2. \A i \in DOMAIN s : j - 1 < i <=> i = j \/ j < i
  BY <1>1
<1>3. CASE s[j] = o
  <2>1. Pairs(a, s, j-1, o) = Pairs(a, s, j, o) \cup {<<a, j>>}
    BY <1>1, <1>2, <1>3 DEF Pairs, s
  <2>2. <<a, j>> \notin Pairs(a, s, j, o)
    BY DEF Pairs, s
  <2>3. <<a, j>> \notin VarsOf(en, o)
    BY Kinds DEF VarsOf
  <2>4. <<a, j>> \notin Elsewhere(m, a, o)
    BY DEF Elsewhere, Pairs
  <2>5. Owed(m, en, a, j, o) = Owed(m, en, a, j-1, o) \ {<<a, j>>} /\ <<a, j>> \in Owed(m, en, a, j-1, o)
    BY <2>1, <2>2, <2>3, <2>4 DEF Owed, s
  <2>6. IsFiniteSet(Owed(m, en, a, j-1, o))
    BY OwedFinite
  <2>7. Cardinality(Owed(m, en, a, j, o)) = Cardinality(Owed(m, en, a, j-1, o)) - 1
    BY ONLY <2>5, <2>6, FS_RemoveElement
  <2> QED
    BY <1>3, <2>5, <2>7 DEF s
<1>4. CASE s[j] # o
  <2>1. Pairs(a, s, j-1, o) = Pairs(a, s, j, o)
    BY <1>1, <1>2, <1>4 DEF Pairs
  <2> QED
    BY <1>4, <2>1 DEF Owed, s
<1> QED
  BY <1>3, <1>4 DEF s

----------------------------------------------------------------------------
(***************************************************************************)
(* A heap in order, as long as the script did nothing of what is in        *)
(* causes; and what may become of it when objects go.                      *)
(***************************************************************************)

\* The lists have each live object once, and nothing else.
Apart(m) == /\ \A b \in Block : IsInjective(m.stk[b])
            /\ \A b, c \in Block : b # c => On(m, b) \cap On(m, c) = {}
Listed(m) == /\ Apart(m)
             /\ \A b \in Block : \A o \in On(m, b) : Live(m, o)
             /\ \A o \in Obj : Live(m, o) => \E b \in Block : o \in On(m, b)

Pinned(m) == \A o \in Lit : Live(m, o) /\ m.rc[o] = GC_NEVER_FREE

\* An object to be made is not counted, and empty.
Fresh(m) == \A o \in Made : m.st[o] = "unborn" => m.rc[o] = 0 /\ (o \in Ary => m.elems[o] = <<>>)

\* Arrays have strings, live ones if the array is.
Filled(m) == \A a \in Ary : \A k \in DOMAIN m.elems[a] :
               m.elems[a][k] \in Str /\ (Live(m, a) => Live(m, m.elems[a][k]))

\* A count is no lower than the references, and higher for a reason.
Due(count, places, kept) == count >= places /\ (count > places => kept)
Counted(m, en) ==
  \A o \in Made : Live(m, o) => Due(m.rc[o], Cardinality(PlacesIn(m, en, o)), o \in m.kept)

\* Only the method has a parameter; variables have live objects.
Tables(m, en) ==
  /\ en \in Tabled
  /\ en["main"][Parm] = None /\ en["inner"][Parm] = None
  /\ \A t \in Block, v \in Var \ {Parm} : en[t][v] # None => Live(m, en[t][v])

Sound(m, en) == /\ m \in Heap
                /\ Listed(m) /\ Pinned(m) /\ Fresh(m) /\ Filled(m)
                /\ Counted(m, en) /\ Tables(m, en)

\* The counting down of the block b takes objects.
Taken(m, n, b) ==
  /\ n \in Heap /\ n.elems = m.elems /\ n.last = m.last /\ m.kept \subseteq n.kept
  /\ \A o \in Obj : n.st[o] = m.st[o] \/ (Live(m, o) /\ n.st[o] = "freed")
  /\ \A o \in Lit : n.st[o] = m.st[o]
  /\ \A o \in Obj : ~Live(m, o) \/ o \in Lit => n.rc[o] = m.rc[o]
  /\ \A o \in Obj : n.rc[o] <= m.rc[o] /\ (Live(n, o) /\ Kept(m, o) => Kept(n, o))
  /\ \A c \in Block : c # b => n.stk[c] = m.stk[c]
  /\ Thinner(n.stk[b], m.stk[b])

\* What precedes the first of them in the list stays in its place.
Ahead(m, n, b) ==
  \A q \in DOMAIN m.stk[b] :
    (\A r \in 1..q : Live(n, m.stk[b][r]))
      => \A r \in 1..q : r \in DOMAIN n.stk[b] /\ n.stk[b][r] = m.stk[b][r]

\* The first j elements of the array a have been counted down.
Reaping(m, en, a, b, j, n) ==
  /\ Taken(m, n, b) /\ Ahead(m, n, b)
  /\ \A o \in Ary : n.rc[o] = m.rc[o] /\ n.st[o] = m.st[o]
  /\ On(n, b) = {o \in On(m, b) : Live(n, o)}
  /\ \A o \in Made : Live(n, o) =>
       /\ Due(n.rc[o], Cardinality(Owed(m, en, a, j, o)), o \in n.kept)
       /\ n.rc[o] - Cardinality(Owed(m, en, a, j, o))
            >= m.rc[o] - Cardinality(Owed(m, en, a, 0, o))
  /\ \A o \in Obj : Live(m, o) /\ ~Live(n, o) =>
       /\ o \in Str /\ Owed(m, en, a, j, o) = {}
       /\ m.rc[o] <= Cardinality(Owed(m, en, a, 0, o))

LEMMA ReapBegins ==
  ASSUME NEW m, NEW en, Sound(m, en), NEW a \in Ary, Live(m, a), NEW b \in Block
  PROVE  Reaping(m, en, a, b, 0, m)
<1>1. Taken(m, m, b)
  <2>1. m \in Heap /\ m.stk[b] \in Seq(Obj) /\ IsInjective(m.stk[b])
    BY HeapParts DEF Sound, Listed, Apart
  <2>2. \A o \in Obj : m.rc[o] <= m.rc[o]
    BY <2>1, HeapParts
  <2> QED
    BY <2>1, <2>2, ThinnerItself DEF Taken
<1>2. Ahead(m, m, b)
  BY HeapParts DEF Ahead, Sound
<1>3. \A o \in Made : Live(m, o) =>
        /\ Due(m.rc[o], Cardinality(Owed(m, en, a, 0, o)), o \in m.kept)
        /\ m.rc[o] - Cardinality(Owed(m, en, a, 0, o)) >= m.rc[o] - Cardinality(Owed(m, en, a, 0, o))
  <2> SUFFICES ASSUME NEW o \in Made, Live(m, o)
               PROVE  /\ Due(m.rc[o], Cardinality(Owed(m, en, a, 0, o)), o \in m.kept)
                      /\ m.rc[o] - Cardinality(Owed(m, en, a, 0, o))
                           >= m.rc[o] - Cardinality(Owed(m, en, a, 0, o))
    OBVIOUS
  <2>1. Owed(m, en, a, 0, o) = PlacesIn(m, en, o)
    BY OwedFirst
  <2>2. m.rc[o] \in Int /\ Cardinality(Owed(m, en, a, 0, o)) \in Nat
    BY HeapParts, OwedFinite, Kinds DEF Sound
  <2> QED
    BY <2>1, <2>2 DEF Sound, Counted
<1>4. On(m, b) = {o \in On(m, b) : Live(m, o)}
  BY DEF Sound, Listed
<1> QED
  BY <1>1, <1>2, <1>3, <1>4 DEF Reaping

LEMMA ReapGoesOn ==
  ASSUME NEW m, NEW en, Sound(m, en), NEW a \in Ary, Live(m, a), NEW b \in Block,
         NEW j \in 1..Len(m.elems[a]), NEW n, Reaping(m, en, a, b, j - 1, n)
  PROVE  Reaping(m, en, a, b, j, Dropped(n, m.elems[a][j], b))
<1> DEFINE e == m.elems[a][j]
           d == Dropped(n, e, b)
           Owe(i, o) == Cardinality(Owed(m, en, a, i, o))
<1>1. m \in Heap /\ n \in Heap
  BY DEF Sound, Reaping, Taken
<1>2. e \in Str /\ e \in Obj /\ e \in Made /\ e \notin Ary /\ e \notin Lit
  <2>1. j \in DOMAIN m.elems[a]
    BY <1>1, HeapParts
  <2> QED
    BY <2>1, Kinds DEF Sound, Filled
<1>3. \A o \in Obj : Owe(j, o) \in Nat /\ Owe(j - 1, o) \in Nat /\ Owe(0, o) \in Nat
  BY <1>1, OwedFinite
<1>4. ASSUME NEW o \in Obj, o # e PROVE Owed(m, en, a, j, o) = Owed(m, en, a, j - 1, o)
  <2>1. ~(m.elems[a][j] = o)
    BY <1>4
  <2>2. IF m.elems[a][j] = o
        THEN /\ <<a, j>> \in Owed(m, en, a, j-1, o)
             /\ Cardinality(Owed(m, en, a, j, o)) = Cardinality(Owed(m, en, a, j-1, o)) - 1
        ELSE Owed(m, en, a, j, o) = Owed(m, en, a, j-1, o)
    BY ONLY <1>1, a \in Ary, j \in 1..Len(m.elems[a]), OwedNext
  <2> QED
    BY ONLY <2>1, <2>2
<1>5. <<a, j>> \in Owed(m, en, a, j - 1, e) /\ Owe(j, e) = Owe(j - 1, e) - 1
  BY <1>1, OwedNext
<1>6. Live(n, e) /\ Live(m, e)
  <2>1. j \in DOMAIN m.elems[a]
    BY <1>1, HeapParts
  <2>2. Live(m, e)
    BY <2>1 DEF Sound, Filled
  <2>3. Live(m, e) /\ ~Live(n, e) => Owed(m, en, a, j - 1, e) = {}
    BY <1>2 DEF Reaping
  <2> QED
    BY <1>5, <2>2, <2>3
<1>7. Due(n.rc[e], Owe(j - 1, e), e \in n.kept) /\ n.rc[e] - Owe(j - 1, e) >= m.rc[e] - Owe(0, e)
  BY <1>2, <1>6 DEF Reaping
<1>8. n.rc[e] \in Int /\ m.rc[e] \in Int
  BY <1>1, <1>2, HeapParts
<1>9. n.rc[e] >= 1 /\ n.rc[e] # GC_NEVER_FREE
  BY <1>2, <1>3, <1>5, <1>7, <1>8, SMTT(30) DEF Due, GC_NEVER_FREE
<1>10. /\ d \in Heap /\ d.elems = n.elems /\ d.last = n.last
       /\ d.rc = IF n.last[b] # e THEN [n.rc EXCEPT ![e] = @ - 1] ELSE n.rc
       /\ d.kept = IF n.last[b] = e THEN n.kept \cup {e} ELSE n.kept
       /\ d.st = IF Spent(n, e, b) THEN [n.st EXCEPT ![e] = "freed"] ELSE n.st
       /\ d.stk = IF Spent(n, e, b) THEN [n.stk EXCEPT ![b] = Without(@, e)] ELSE n.stk
  <2>1. /\ d \in Heap /\ d.elems = n.elems /\ d.last = n.last
        /\ d.rc = IF n.rc[e] # GC_NEVER_FREE /\ n.last[b] # e
                  THEN [n.rc EXCEPT ![e] = @ - 1] ELSE n.rc
        /\ d.kept = IF n.rc[e] # GC_NEVER_FREE /\ n.last[b] = e
                    THEN n.kept \cup {e} ELSE n.kept
        /\ d.st = IF Spent(n, e, b) THEN [n.st EXCEPT ![e] = "freed"] ELSE n.st
        /\ d.stk = IF Spent(n, e, b) THEN [n.stk EXCEPT ![b] = Without(@, e)] ELSE n.stk
    <3> HIDE DEF e
    <3> QED
      BY <1>1, <1>2, DroppedParts
  <2> HIDE DEF d, e
  <2> QED
    BY ONLY <1>9, <2>1
<1>11. Spent(n, e, b) <=> n.last[b] # e /\ n.rc[e] = 1
  BY <1>8, <1>9 DEF Spent
<1> HIDE DEF d
<1>12. Thinner(n.stk[b], m.stk[b]) /\ IsInjective(n.stk[b]) /\ n.stk[b] \in Seq(Obj)
  BY <1>1, HeapParts DEF Reaping, Taken, Thinner
<1>13. /\ Thinner(Without(n.stk[b], e), n.stk[b])
       /\ In(Without(n.stk[b], e)) = In(n.stk[b]) \ {e}
       /\ \A q \in DOMAIN n.stk[b] :
              (\A r \in 1..q : n.stk[b][r] # e)
                => \A r \in 1..q : r \in DOMAIN Without(n.stk[b], e)
                                   /\ Without(n.stk[b], e)[r] = n.stk[b][r]
  BY <1>12, WithoutThins
<1>14. d.stk[b] = IF Spent(n, e, b) THEN Without(n.stk[b], e) ELSE n.stk[b]
  BY <1>1, <1>10, HeapParts
<1>15. \A o \in Obj : d.st[o] = IF Spent(n, e, b) /\ o = e THEN "freed" ELSE n.st[o]
  BY <1>1, <1>10, HeapParts
<1>16. \A o \in Obj : d.rc[o] = IF n.last[b] # e /\ o = e THEN n.rc[o] - 1 ELSE n.rc[o]
  BY <1>1, <1>10, HeapParts
<1>17. Taken(m, d, b)
  <2>1. d.elems = m.elems /\ d.last = m.last /\ m.kept \subseteq d.kept
    BY <1>10 DEF Reaping, Taken
  <2>2. \A o \in Obj : d.st[o] = m.st[o] \/ (Live(m, o) /\ d.st[o] = "freed")
    BY <1>6, <1>15 DEF Reaping, Taken
  <2>3. \A o \in Lit : d.st[o] = m.st[o]
    BY <1>2, <1>15, Kinds DEF Reaping, Taken
  <2>4. \A o \in Obj : ~Live(m, o) \/ o \in Lit => d.rc[o] = m.rc[o]
    BY <1>2, <1>6, <1>16 DEF Reaping, Taken
  <2>5. \A o \in Obj : n.rc[o] <= m.rc[o] /\ n.rc[o] \in Int /\ m.rc[o] \in Int
    BY <1>1, HeapParts DEF Reaping, Taken
  <2>6. \A o \in Obj : d.rc[o] <= m.rc[o]
    BY <2>5, <1>16
  <2>7. ASSUME NEW o \in Obj, Live(d, o), Kept(m, o) PROVE Kept(d, o)
    <3>1. Live(n, o) /\ Kept(n, o)
      BY <1>15, <2>7 DEF Reaping, Taken, Live
    <3>2. CASE o # e \/ n.last[b] = e
      BY <1>16, <3>1, <3>2 DEF Kept
    <3>3. CASE o = e /\ n.last[b] # e
      <4>1. ~Spent(n, e, b)
        BY <1>15, <2>7, <3>3 DEF Live
      <4>2. n.rc[e] >= 2
        BY <4>1, <1>8, <1>9, <1>11, <3>3
      <4> QED
        BY <4>2, <1>8, <1>16, <3>3, SMTT(30) DEF Kept
    <3> QED
      BY <3>2, <3>3
  <2>8. \A c \in Block : c # b => d.stk[c] = m.stk[c]
    BY <1>1, <1>10, HeapParts DEF Reaping, Taken
  <2>9. Thinner(d.stk[b], m.stk[b])
    <3>1. m.stk[b] \in Seq(Obj) /\ Without(n.stk[b], e) \in Seq(Obj)
      BY <1>1, <1>12, HeapParts, WithoutThins
    <3> QED
      BY <3>1, <1>12, <1>13, <1>14, ThinnerStill
  <2> QED
    BY <1>10, <2>1, <2>2, <2>3, <2>4, <2>6, <2>7, <2>8, <2>9 DEF Taken
<1>18. Ahead(m, d, b)
  <2> SUFFICES ASSUME NEW q \in DOMAIN m.stk[b], \A r \in 1..q : Live(d, m.stk[b][r]), NEW r \in 1..q
               PROVE  r \in DOMAIN d.stk[b] /\ d.stk[b][r] = m.stk[b][r]
    BY DEF Ahead
  <2>1. m.stk[b] \in Seq(Obj) /\ n.stk[b] \in Seq(Obj)
    BY <1>1, HeapParts
  <2>2. \A i \in 1..q : i \in DOMAIN m.stk[b] /\ m.stk[b][i] \in Obj
    BY <2>1
  <2>3. \A i \in 1..q : Live(n, m.stk[b][i])
    BY <2>2, <1>15 DEF Live
  <2>4. \A i \in 1..q : i \in DOMAIN n.stk[b] /\ n.stk[b][i] = m.stk[b][i]
    BY <2>3 DEF Reaping, Ahead
  <2>5. q \in 1..q /\ q \in DOMAIN n.stk[b]
    BY <2>1, <2>4
  <2>6. CASE ~Spent(n, e, b)
    BY <2>4, <2>6, <1>14
  <2>7. CASE Spent(n, e, b)
    <3>1. \A i \in 1..q : n.stk[b][i] # e
      BY <2>2, <2>4, <2>7, <1>2, <1>15 DEF Live
    <3> QED
      BY <2>4, <2>5, <2>7, <3>1, <1>13, <1>14
  <2> QED
    BY <2>6, <2>7
<1>19. \A o \in Ary : d.rc[o] = m.rc[o] /\ d.st[o] = m.st[o]
  BY <1>2, <1>15, <1>16, Kinds DEF Reaping
<1>20. On(d, b) = {o \in On(m, b) : Live(d, o)}
  <2>1. On(n, b) = {o \in On(m, b) : Live(n, o)}
    BY DEF Reaping
  <2>2. On(m, b) \subseteq Obj
    BY <1>1, HeapParts DEF On, In
  <2>3. On(d, b) = IF Spent(n, e, b) THEN On(n, b) \ {e} ELSE On(n, b)
    BY <1>13, <1>14 DEF On
  <2> QED
    BY <2>1, <2>2, <2>3, <1>15 DEF Live
<1>21. ASSUME NEW o \in Made, Live(d, o)
       PROVE  /\ Due(d.rc[o], Owe(j, o), o \in d.kept)
              /\ d.rc[o] - Owe(j, o) >= m.rc[o] - Owe(0, o)
  <2>1. o \in Obj /\ Live(n, o)
    BY <1>15, <1>21, Kinds DEF Live
  <2>2. Due(n.rc[o], Owe(j - 1, o), o \in n.kept) /\ n.rc[o] - Owe(j - 1, o) >= m.rc[o] - Owe(0, o)
    BY <2>1 DEF Reaping
  <2>3. n.rc[o] \in Int /\ m.rc[o] \in Int /\ Owe(j, o) \in Nat /\ Owe(j - 1, o) \in Nat /\ Owe(0, o) \in Nat
    BY <2>1, <1>1, <1>3, HeapParts
  <2>4. o \in n.kept => o \in d.kept
    BY <1>10
  <2> HIDE DEF Owe
  <2>5. CASE o # e
    <3>1. Owe(j, o) = Owe(j - 1, o) /\ d.rc[o] = n.rc[o]
      BY <1>4, <1>16, <2>1, <2>5 DEF Owe
    <3> QED
      BY <2>2, <2>3, <2>4, <3>1 DEF Due
  <2>6. CASE o = e /\ n.last[b] = e
    <3>1. Owe(j, o) = Owe(j - 1, o) - 1 /\ d.rc[o] = n.rc[o] /\ o \in d.kept
      BY <1>5, <1>10, <1>16, <2>1, <2>6
    <3> QED
      BY <2>2, <2>3, <3>1, SMTT(30) DEF Due
  <2>7. CASE o = e /\ n.last[b] # e
    <3>1. Owe(j, o) = Owe(j - 1, o) - 1 /\ d.rc[o] = n.rc[o] - 1
      BY <1>5, <1>16, <2>1, <2>7
    <3> QED
      BY <2>2, <2>3, <2>4, <3>1 DEF Due
  <2> QED
    BY <2>5, <2>6, <2>7
<1>22. ASSUME NEW o \in Obj, Live(m, o), ~Live(d, o)
       PROVE  o \in Str /\ Owed(m, en, a, j, o) = {} /\ m.rc[o] <= Owe(0, o)
  <2>1. CASE ~Live(n, o)
    <3>1. o \in Str /\ Owed(m, en, a, j - 1, o) = {} /\ m.rc[o] <= Owe(0, o)
      BY <1>22, <2>1 DEF Reaping
    <3> QED
      BY <3>1, <1>4, <1>5
  <2>2. CASE Live(n, o)
    <3>1. o = e /\ Spent(n, e, b)
      BY <1>15, <1>22, <2>2 DEF Live
    <3>2. Owe(j, e) = 0 /\ Owe(j - 1, e) = 1 /\ n.rc[e] = 1
      BY <3>1, <1>3, <1>2, <1>5, <1>7, <1>8, <1>11 DEF Due
    <3>3. m.rc[e] <= Owe(0, e)
      BY <3>2, <1>2, <1>3, <1>7, <1>8, SMTT(30)
    <3>4. Owed(m, en, a, j, e) = {}
      BY <1>1, <3>2, OwedFinite, FS_EmptySet
    <3> QED
      BY <1>2, <3>1, <3>3, <3>4
  <2> QED
    BY <2>1, <2>2
<1> QED
  BY <1>17, <1>18, <1>19, <1>20, <1>21, <1>22 DEF Reaping, d

\* Whatever the heap, what has been freed stays so.
StaysFreed(m, n) == n \in Heap /\ \A o \in Obj : m.st[o] = "freed" => n.st[o] = "freed"

LEMMA DroppedFrees ==
  ASSUME NEW m \in Heap, NEW e \in Obj, NEW b \in Block
  PROVE  StaysFreed(m, Dropped(m, e, b))
BY DroppedParts, HeapParts DEF StaysFreed

\* What ary_reap does, element by element.
LEMMA ReapWalk ==
  ASSUME NEW m \in Heap, NEW a \in Ary, NEW b \in Block
  PROVE  \E f : /\ ary_reap(m, a, b) = f[Len(m.elems[a])] /\ f[0] = m
                /\ \A k \in 0..Len(m.elems[a]) : f[k] \in Heap
                /\ \A k \in 1..Len(m.elems[a]) : f[k] = Dropped(f[k-1], m.elems[a][k], b)
<1> DEFINE s == m.elems[a]
           Reaps(f) == f = [k \in 0..Len(s) |-> IF k = 0 THEN m ELSE Dropped(f[k-1], s[k], b)]
           Taking(k, h) == IF k \in 1..Len(s) THEN Dropped(h, s[k], b) ELSE m
           step == [kh \in Int \X Heap |-> Taking(kh[1], kh[2])]
           reap == CHOOSE f : Reaps(f)
<1>1. s \in Seq(Obj) /\ Len(s) \in Nat /\ \A k \in 1..Len(s) : s[k] \in Obj
  <2>1. s \in Seq(Obj)
    BY HeapParts
  <2> QED
    BY <2>1
<1> HIDE DEF s
<1>2. step \in [Int \X Heap -> Heap]
  <2>1. \A k \in 1..Len(s), h \in Heap : Dropped(h, s[k], b) \in Heap
    BY <1>1, DroppedParts
  <2>2. \A k \in Int, h \in Heap : Taking(k, h) \in Heap
    BY <2>1
  <2> HIDE DEF Taking
  <2> QED
    BY <2>2
<1>3. ASSUME NEW k \in 1..Len(s), NEW h \in Heap PROVE step[k, h] = Dropped(h, s[k], b)
  <2>1. <<k, h>> \in Int \X Heap
    OBVIOUS
  <2>2. step[k, h] = Taking(k, h)
    <3> HIDE DEF Taking
    <3> QED
      BY <2>1
  <2> QED
    BY <2>2
<1> HIDE DEF step
<1>4. PICK f : Recursive(f, 0..Len(s), 0, m, step) /\ \A k \in 0..Len(s) : f[k] \in Heap
  <2> HIDE DEF Heap
  <2>1. 0 \in Int /\ Len(s) \in Int
    BY <1>1
  <2> QED
    BY ONLY <1>2, <2>1, m \in Heap, NumberRecursion
<1>5. f = [k \in 0..Len(s) |-> IF k = 0 THEN m ELSE step[k, f[k-1]]]
  BY <1>4 DEF Recursive
<1>6. ASSUME NEW k \in 0..Len(s), k # 0 PROVE step[k, f[k-1]] = Dropped(f[k-1], s[k], b)
  <2>1. k \in 1..Len(s) /\ k - 1 \in 0..Len(s)
    BY <1>1, <1>6
  <2>2. f[k-1] \in Heap
    BY <1>4, <2>1
  <2> QED
    BY ONLY <1>3, <2>1, <2>2
<1>7. Reaps(f)
  BY <1>5, <1>6
<1>8. Reaps(reap)
  BY <1>7
<1>9. ary_reap(m, a, b) = reap[Len(s)]
  BY DEF ary_reap, s
<1> HIDE DEF reap
<1>10. reap[0] = m /\ \A k \in 1..Len(s) : reap[k] = Dropped(reap[k-1], s[k], b)
  BY <1>1, <1>8
<1> DEFINE P == {k \in Nat : k <= Len(s) => reap[k] \in Heap}
<1>11. 0 \in P
  BY <1>10
<1>12. ASSUME NEW k \in Nat, k \in P PROVE k + 1 \in P
  <2> SUFFICES ASSUME k + 1 <= Len(s) PROVE reap[k + 1] \in Heap
    OBVIOUS
  <2>1. k + 1 \in 1..Len(s) /\ (k + 1) - 1 = k /\ reap[k] \in Heap
    BY <1>1, <1>12
  <2>2. reap[k + 1] = Dropped(reap[k], s[k + 1], b)
    BY <1>10, <2>1
  <2>3. s[k + 1] \in Obj
    BY <1>1, <2>1
  <2> QED
    BY ONLY <2>1, <2>2, <2>3, b \in Block, DroppedType
<1>13. Nat \subseteq P
  <2> HIDE DEF P
  <2> QED
    BY <1>11, <1>12, InductiveSet
<1>14. \A k \in 0..Len(s) : reap[k] \in Heap
  BY <1>1, <1>13
<1> QED
  BY <1>9, <1>10, <1>14 DEF s

LEMMA ReapFrees ==
  ASSUME NEW m \in Heap, NEW a \in Ary, NEW b \in Block PROVE StaysFreed(m, ary_reap(m, a, b))
<1> DEFINE s == m.elems[a]
<1>1. PICK f : /\ ary_reap(m, a, b) = f[Len(s)] /\ f[0] = m
               /\ \A k \in 0..Len(s) : f[k] \in Heap
               /\ \A k \in 1..Len(s) : f[k] = Dropped(f[k-1], s[k], b)
  BY ReapWalk
<1>2. Len(s) \in Nat /\ \A k \in 1..Len(s) : s[k] \in Obj
  <2>1. s \in Seq(Obj)
    BY HeapParts
  <2> QED
    BY <2>1
<1> HIDE DEF s
<1> DEFINE P == {k \in Nat : k <= Len(s) => StaysFreed(m, f[k])}
<1>3. 0 \in P
  BY <1>1 DEF StaysFreed
<1>4. ASSUME NEW k \in Nat, k \in P PROVE k + 1 \in P
  <2> SUFFICES ASSUME k + 1 <= Len(s) PROVE StaysFreed(m, f[k + 1])
    OBVIOUS
  <2>1. k + 1 \in 1..Len(s) /\ (k + 1) - 1 = k /\ f[k] \in Heap /\ StaysFreed(m, f[k])
    BY <1>2, <1>4 DEF StaysFreed
  <2>2. f[k + 1] = Dropped(f[k], s[k + 1], b) /\ s[k + 1] \in Obj
    BY <1>1, <1>2, <2>1
  <2>3. StaysFreed(f[k], Dropped(f[k], s[k + 1], b))
    BY <2>1, <2>2, DroppedFrees
  <2> QED
    BY <2>1, <2>2, <2>3 DEF StaysFreed
<1>5. Nat \subseteq P
  <2> HIDE DEF P
  <2> QED
    BY <1>3, <1>4, InductiveSet
<1> QED
  BY <1>1, <1>2, <1>5

LEMMA DeallocFrees ==
  ASSUME NEW m \in Heap, NEW o \in Obj, NEW b \in Block
  PROVE  StaysFreed(m, memdealloc(m, o, b)) /\ memdealloc(m, o, b).st[o] = "freed"
<1> DEFINE r == IF o \in Ary THEN ary_reap(m, o, b) ELSE m
<1>1. StaysFreed(m, r)
  BY ReapFrees DEF StaysFreed
<1>2. memdealloc(m, o, b) = Freed(r, o)
  BY DEF memdealloc
<1> HIDE DEF r
<1>3. r \in Heap
  BY <1>1 DEF StaysFreed
<1>4. Freed(r, o) \in Heap /\ Freed(r, o).st = [r.st EXCEPT ![o] = "freed"]
  BY <1>3, FreedParts
<1> QED
  BY <1>1, <1>2, <1>3, <1>4, HeapParts DEF StaysFreed

LEMMA Reaped ==
  ASSUME NEW m, NEW en, Sound(m, en), NEW a \in Ary, Live(m, a), NEW b \in Block
  PROVE  Reaping(m, en, a, b, Len(m.elems[a]), ary_reap(m, a, b))
<1> DEFINE s == m.elems[a]
<1>1. m \in Heap
  BY DEF Sound
<1>2. PICK f : /\ ary_reap(m, a, b) = f[Len(s)] /\ f[0] = m
               /\ \A k \in 1..Len(s) : f[k] = Dropped(f[k-1], s[k], b)
  <2>1. \E f : /\ ary_reap(m, a, b) = f[Len(s)] /\ f[0] = m
               /\ \A k \in 0..Len(s) : f[k] \in Heap
               /\ \A k \in 1..Len(s) : f[k] = Dropped(f[k-1], s[k], b)
    BY <1>1, ReapWalk
  <2> QED
    BY <2>1
<1>3. Len(s) \in Nat
  <2>1. s \in Seq(Obj)
    BY <1>1, HeapParts
  <2> QED
    BY <2>1
<1> DEFINE P == {k \in Nat : k <= Len(s) => Reaping(m, en, a, b, k, f[k])}
<1>4. 0 \in P
  BY <1>2, ReapBegins
<1>5. ASSUME NEW k \in Nat, k \in P PROVE k + 1 \in P
  <2> SUFFICES ASSUME k + 1 <= Len(s) PROVE Reaping(m, en, a, b, k + 1, f[k + 1])
    OBVIOUS
  <2>1. k + 1 \in 1..Len(s) /\ (k + 1) - 1 = k
    BY <1>3
  <2>2. Reaping(m, en, a, b, k, f[k])
    BY <1>3, <1>5
  <2>3. f[k + 1] = Dropped(f[k], s[k + 1], b)
    BY <1>2, <2>1
  <2>4. Reaping(m, en, a, b, k + 1, Dropped(f[k], m.elems[a][k + 1], b))
    BY <2>1, <2>2, ReapGoesOn
  <2> QED
    BY <2>3, <2>4
<1>6. Nat \subseteq P
  <2> HIDE DEF P
  <2> QED
    BY <1>4, <1>5, InductiveSet
<1> QED
  BY <1>2, <1>3, <1>6

\* What memdealloc leaves: the object is still in its list.
Dealloced(m, en, o, b, g) ==
  /\ Taken(m, g, b) /\ ~Live(g, o)
  /\ \A q \in DOMAIN m.stk[b] :
       (\A r \in 1..q : m.stk[b][r] = o \/ Live(g, m.stk[b][r]))
         => \A r \in 1..q : r \in DOMAIN g.stk[b] /\ g.stk[b][r] = m.stk[b][r]
  /\ \A a \in Ary : g.rc[a] = m.rc[a] /\ (a # o => g.st[a] = m.st[a])
  /\ On(g, b) = {x \in On(m, b) : Live(g, x) \/ x = o}
  /\ \A x \in Made : Live(g, x) =>
       /\ Due(g.rc[x], Cardinality(PlacesIn(g, en, x)), x \in g.kept)
       /\ g.rc[x] - Cardinality(PlacesIn(g, en, x)) >= m.rc[x] - Cardinality(PlacesIn(m, en, x))
  /\ \A x \in Obj : Live(m, x) /\ ~Live(g, x) /\ x # o =>
       /\ o \in Ary /\ x \in Str /\ PlacesIn(g, en, x) = {} /\ m.rc[x] <= Cardinality(PlacesIn(m, en, x))

LEMMA DeallocArray ==
  ASSUME NEW m, NEW en, Sound(m, en), NEW o \in Ary, Live(m, o), NEW b \in Block
  PROVE  Dealloced(m, en, o, b, memdealloc(m, o, b))
<1> DEFINE r == ary_reap(m, o, b)
           g == memdealloc(m, o, b)
           n == Len(m.elems[o])
<1>1. Reaping(m, en, o, b, n, r)
  BY Reaped
<1> HIDE DEF r
<1>2. m \in Heap /\ r \in Heap /\ o \in Obj
  BY <1>1, Kinds DEF Sound, Reaping, Taken
<1>3. g = Freed(r, o)
  BY DEF memdealloc, r
<1>4. /\ g \in Heap /\ g.st = [r.st EXCEPT ![o] = "freed"]
      /\ g.rc = r.rc /\ g.elems = r.elems /\ g.stk = r.stk /\ g.last = r.last /\ g.kept = r.kept
  BY <1>2, <1>3, FreedParts
<1> HIDE DEF g
<1>5. \A x \in Obj : g.st[x] = IF x = o THEN "freed" ELSE r.st[x]
  BY <1>2, <1>4, HeapParts
<1>6. Taken(m, r, b) /\ Ahead(m, r, b)
  BY <1>1 DEF Reaping
<1>7. Live(r, o)
  BY <1>1 DEF Reaping, Live
<1>8. \A x \in Obj : Live(r, x) <=> Live(g, x) \/ x = o
  BY <1>5, <1>7 DEF Live
<1>9. Taken(m, g, b)
  <2>1. g.elems = m.elems /\ g.last = m.last /\ m.kept \subseteq g.kept
    BY <1>4, <1>6 DEF Taken
  <2>2. \A x \in Obj : g.st[x] = m.st[x] \/ (Live(m, x) /\ g.st[x] = "freed")
    BY <1>5, <1>6 DEF Taken
  <2>3. \A x \in Lit : g.st[x] = m.st[x]
    BY <1>2, <1>5, <1>6, Kinds DEF Taken
  <2>4. \A x \in Obj : Live(g, x) /\ Kept(m, x) => Kept(g, x)
    BY <1>4, <1>6, <1>8 DEF Taken, Kept
  <2> QED
    BY <1>4, <1>6, <2>1, <2>2, <2>3, <2>4 DEF Taken
<1>10. \A b1 \in Ary : Live(g, b1) <=> Live(m, b1) /\ b1 # o
  BY <1>1, <1>5, Kinds DEF Reaping, Live
<1>11. ASSUME NEW x
       PROVE  /\ Owed(m, en, o, n, x) = PlacesIn(g, en, x)
              /\ Owed(m, en, o, 0, x) = PlacesIn(m, en, x)
  <2>1. g.elems = m.elems
    BY <1>9 DEF Taken
  <2> QED
    BY <1>2, <1>10, <2>1, OwedFirst, OwedLast
<1>12. ASSUME NEW q \in DOMAIN m.stk[b], \A i \in 1..q : m.stk[b][i] = o \/ Live(g, m.stk[b][i]),
              NEW i \in 1..q
       PROVE  i \in DOMAIN g.stk[b] /\ g.stk[b][i] = m.stk[b][i]
  <2>1. m.stk[b] \in Seq(Obj)
    BY <1>2, HeapParts
  <2>2. \A k \in 1..q : m.stk[b][k] \in Obj
    BY <2>1
  <2>3. \A k \in 1..q : Live(r, m.stk[b][k])
    BY <1>8, <1>12, <2>2
  <2> QED
    BY <1>4, <1>6, <2>3 DEF Ahead
<1>13. On(g, b) = {x \in On(m, b) : Live(g, x) \/ x = o}
  <2>1. On(g, b) = {x \in On(m, b) : Live(r, x)}
    BY <1>1, <1>4 DEF Reaping, On
  <2>2. On(m, b) \subseteq Obj
    BY <1>2, HeapParts DEF On, In
  <2> QED
    BY <2>1, <2>2, <1>8
<1>14. \A x \in Made : Live(g, x) =>
         /\ Due(g.rc[x], Cardinality(PlacesIn(g, en, x)), x \in g.kept)
         /\ g.rc[x] - Cardinality(PlacesIn(g, en, x)) >= m.rc[x] - Cardinality(PlacesIn(m, en, x))
  BY <1>1, <1>4, <1>8, <1>11, Kinds DEF Reaping
<1>15. \A x \in Obj : Live(m, x) /\ ~Live(g, x) /\ x # o =>
         /\ x \in Str /\ PlacesIn(g, en, x) = {} /\ m.rc[x] <= Cardinality(PlacesIn(m, en, x))
  BY <1>1, <1>8, <1>11 DEF Reaping
<1>16. \A a \in Ary : g.rc[a] = m.rc[a] /\ (a # o => g.st[a] = m.st[a])
  BY <1>1, <1>4, <1>5, Kinds DEF Reaping
<1>17. ~Live(g, o)
  BY <1>2, <1>5 DEF Live
<1> QED
  BY <1>9, <1>12, <1>13, <1>14, <1>15, <1>16, <1>17 DEF Dealloced, g

LEMMA DeallocString ==
  ASSUME NEW m, NEW en, Sound(m, en), NEW o \in Str, Live(m, o), NEW b \in Block
  PROVE  Dealloced(m, en, o, b, memdealloc(m, o, b))
<1> DEFINE g == memdealloc(m, o, b)
<1>1. m \in Heap /\ o \in Obj /\ o \notin Ary /\ o \notin Lit
  BY Kinds DEF Sound
<1>2. g = Freed(m, o)
  BY <1>1 DEF memdealloc
<1>3. /\ g \in Heap /\ g.st = [m.st EXCEPT ![o] = "freed"]
      /\ g.rc = m.rc /\ g.elems = m.elems /\ g.stk = m.stk /\ g.last = m.last /\ g.kept = m.kept
  BY <1>1, <1>2, FreedParts
<1> HIDE DEF g
<1>4. \A x \in Obj : g.st[x] = IF x = o THEN "freed" ELSE m.st[x]
  BY <1>1, <1>3, HeapParts
<1>5. m.stk[b] \in Seq(Obj) /\ IsInjective(m.stk[b]) /\ m.rc \in [Obj -> Int]
  BY <1>1, HeapParts DEF Sound, Listed, Apart
<1>6. Taken(m, g, b)
  <2>1. Thinner(g.stk[b], m.stk[b])
    BY <1>3, <1>5, ThinnerItself
  <2>2. \A x \in Obj : g.rc[x] <= m.rc[x] /\ (Live(g, x) /\ Kept(m, x) => Kept(g, x))
    BY <1>3, <1>5 DEF Kept
  <2>3. \A x \in Obj : g.st[x] = m.st[x] \/ (Live(m, x) /\ g.st[x] = "freed")
    BY <1>4
  <2>4. \A x \in Lit : g.st[x] = m.st[x]
    BY <1>1, <1>4, Kinds
  <2> QED
    BY <1>3, <2>1, <2>2, <2>3, <2>4 DEF Taken
<1>7. \A a \in Ary : g.rc[a] = m.rc[a] /\ (a # o => g.st[a] = m.st[a])
  BY <1>1, <1>3, <1>4, Kinds
<1>8. \A x : PlacesIn(g, en, x) = PlacesIn(m, en, x)
  <2>1. {a \in Ary : Live(g, a)} = {a \in Ary : Live(m, a)}
    BY <1>1, <1>4, Kinds DEF Live
  <2> QED
    BY <1>3, <2>1 DEF PlacesIn
<1>9. On(g, b) = {x \in On(m, b) : Live(g, x) \/ x = o}
  <2>1. On(m, b) \subseteq Obj /\ On(g, b) = On(m, b)
    BY <1>3, <1>5 DEF On, In
  <2>2. \A x \in On(m, b) : Live(m, x)
    BY DEF Sound, Listed
  <2> QED
    BY <2>1, <2>2, <1>4 DEF Live
<1>10. \A x \in Made : Live(g, x) =>
         /\ Due(g.rc[x], Cardinality(PlacesIn(g, en, x)), x \in g.kept)
         /\ g.rc[x] - Cardinality(PlacesIn(g, en, x)) >= m.rc[x] - Cardinality(PlacesIn(m, en, x))
  <2> SUFFICES ASSUME NEW x \in Made, Live(g, x)
               PROVE  /\ Due(m.rc[x], Cardinality(PlacesIn(m, en, x)), x \in m.kept)
                      /\ m.rc[x] - Cardinality(PlacesIn(m, en, x))
                           >= m.rc[x] - Cardinality(PlacesIn(m, en, x))
    BY <1>3, <1>8
  <2>1. x \in Obj /\ Live(m, x)
    BY <1>4, Kinds DEF Live
  <2>2. m.rc[x] \in Int
    BY <1>5, <2>1
  <2>3. Cardinality(PlacesIn(m, en, x)) \in Nat
    BY <1>1, PlacesFinite
  <2>4. Due(m.rc[x], Cardinality(PlacesIn(m, en, x)), x \in m.kept)
    BY <2>1 DEF Sound, Counted
  <2> QED
    BY <2>2, <2>3, <2>4
<1>11. \A x \in Obj : Live(m, x) /\ ~Live(g, x) => x = o
  BY <1>4 DEF Live
<1>12. ~Live(g, o)
  BY <1>1, <1>4 DEF Live
<1>13. \A q \in DOMAIN m.stk[b] : \A i \in 1..q : i \in DOMAIN g.stk[b] /\ g.stk[b][i] = m.stk[b][i]
  BY <1>3, <1>5
<1> QED
  BY <1>6, <1>7, <1>9, <1>10, <1>11, <1>12, <1>13 DEF Dealloced, g

LEMMA TakenStill ==
  ASSUME NEW m \in Heap, NEW n, NEW h, NEW b \in Block, Taken(m, n, b), Taken(n, h, b)
  PROVE  Taken(m, h, b)
<1>1. n \in Heap /\ h \in Heap
  BY DEF Taken
<1>2. Thinner(h.stk[b], m.stk[b])
  <2>1. m.stk[b] \in Seq(Obj) /\ n.stk[b] \in Seq(Obj) /\ h.stk[b] \in Seq(Obj)
    BY <1>1, HeapParts
  <2>2. Thinner(n.stk[b], m.stk[b]) /\ Thinner(h.stk[b], n.stk[b])
    BY DEF Taken
  <2> QED
    BY ONLY <2>1, <2>2, ThinnerStill
<1>3. \A o \in Obj : h.rc[o] <= m.rc[o]
  <2> SUFFICES ASSUME NEW o \in Obj PROVE h.rc[o] <= m.rc[o]
    OBVIOUS
  <2>1. m.rc[o] \in Int /\ n.rc[o] \in Int /\ h.rc[o] \in Int
    BY <1>1, HeapParts
  <2>2. n.rc[o] <= m.rc[o] /\ h.rc[o] <= n.rc[o]
    BY DEF Taken
  <2> QED
    BY <2>1, <2>2
<1>4. ASSUME NEW o \in Obj PROVE h.st[o] = m.st[o] \/ (Live(m, o) /\ h.st[o] = "freed")
  BY DEF Taken, Live
<1>5. ASSUME NEW o \in Obj, Live(h, o), Kept(m, o) PROVE Kept(h, o)
  <2>1. Live(n, o)
    BY <1>5 DEF Taken, Live
  <2> QED
    BY <1>5, <2>1 DEF Taken
<1>6. ASSUME NEW o \in Obj, ~Live(m, o) \/ o \in Lit PROVE h.rc[o] = m.rc[o]
  <2>1. ~Live(n, o) \/ o \in Lit
    BY <1>6 DEF Taken, Live
  <2> QED
    BY <1>6, <2>1 DEF Taken
<1> QED
  BY <1>1, <1>2, <1>3, <1>4, <1>5, <1>6 DEF Taken

\* What the end of the block b does not take, though a parameter has it.
Safe(m, en, b, q) ==
  /\ q \in Obj /\ Live(m, q)
  /\ \/ q \in Lit
     \/ \E tv \in VarsOf(en, q) : tv[1] # b
     \/ m.rc[q] > Cardinality(PlacesIn(m, en, q))
     \/ q \notin On(m, b)

\* The list loses the object: if it had the others too, the heap is in order.
Cut(g, b, o, h) ==
  /\ h \in Heap /\ h.st = g.st /\ h.rc = g.rc /\ h.elems = g.elems /\ h.last = g.last
  /\ h.kept = g.kept /\ \A c \in Block : c # b => h.stk[c] = g.stk[c]
  /\ Thinner(h.stk[b], g.stk[b]) /\ On(h, b) = On(g, b) \ {o}

LEMMA CutSound ==
  ASSUME NEW m, NEW en, Sound(m, en), NEW o \in Made, Live(m, o), PlacesIn(m, en, o) = {},
         m.rc[o] <= 0, NEW b \in Block, NEW g, Dealloced(m, en, o, b, g), NEW h, Cut(g, b, o, h),
         \A x \in Obj : Live(m, x) /\ ~Live(h, x) => x \in On(m, b)
  PROVE  Sound(h, en) /\ Taken(m, h, b) /\ \A q : Safe(m, en, b, q) => Safe(h, en, b, q)
<1>1. m \in Heap /\ g \in Heap /\ h \in Heap /\ o \in Obj /\ o \notin Lit
  BY Kinds DEF Sound, Dealloced, Taken, Cut
<1>2. /\ h.st = g.st /\ h.rc = g.rc /\ h.elems = m.elems /\ h.last = m.last /\ h.kept = g.kept
      /\ g.elems = m.elems
  BY DEF Cut, Dealloced, Taken
<1>3. \A x : Live(h, x) <=> Live(g, x)
  BY <1>2 DEF Live
<1>4. \A x \in Obj : h.st[x] = m.st[x] \/ (Live(m, x) /\ h.st[x] = "freed")
  BY <1>2 DEF Dealloced, Taken
<1>5. Taken(m, h, b)
  <2>1. m.stk[b] \in Seq(Obj) /\ g.stk[b] \in Seq(Obj) /\ h.stk[b] \in Seq(Obj)
    BY <1>1, HeapParts
  <2>2. Thinner(h.stk[b], m.stk[b])
    <3>1. Thinner(g.stk[b], m.stk[b]) /\ Thinner(h.stk[b], g.stk[b])
      BY DEF Cut, Dealloced, Taken
    <3> QED
      BY ONLY <2>1, <3>1, ThinnerStill
  <2>3. Taken(m, g, b)
    BY DEF Dealloced
  <2>4. \A c \in Block : c # b => h.stk[c] = m.stk[c]
    BY DEF Cut, Dealloced, Taken
  <2> QED
    BY <1>1, <1>2, <2>2, <2>3, <2>4 DEF Taken, Live, Kept
<1>6. \A x : PlacesIn(h, en, x) = PlacesIn(g, en, x)
  BY <1>2 DEF PlacesIn, Live
<1>7. Listed(h)
  <2>1. \A c \in Block : On(h, c) \subseteq On(m, c) /\ IsInjective(h.stk[c])
    BY <1>5 DEF Taken, Thinner, On, Sound, Listed, Apart
  <2>2. Apart(h)
    BY <2>1 DEF Apart, Sound, Listed
  <2>3. ASSUME NEW c \in Block, NEW x \in On(h, c) PROVE Live(h, x)
    <3>1. x \in On(m, c) /\ Live(m, x) /\ x \in Obj
      <4>1. x \in On(m, c) /\ m.stk[c] \in Seq(Obj)
        BY <1>1, <2>1, <2>3, HeapParts
      <4> QED
        BY <4>1 DEF Sound, Listed, On, In
    <3>2. CASE c = b
      BY <1>3, <2>3, <3>2 DEF Cut, Dealloced
    <3>3. CASE c # b
      <4>1. x \notin On(m, b)
        BY <3>1, <3>3 DEF Sound, Listed, Apart
      <4> QED
        BY <3>1, <4>1
    <3> QED
      BY <3>2, <3>3
  <2>4. ASSUME NEW x \in Obj, Live(h, x) PROVE \E c \in Block : x \in On(h, c)
    <3>1. Live(m, x) /\ x # o
      BY <1>3, <1>4, <2>4 DEF Live, Dealloced
    <3>2. PICK c \in Block : x \in On(m, c)
      BY <3>1 DEF Sound, Listed
    <3>3. CASE c = b
      <4>1. x \in On(g, b)
        BY <1>3, <2>4, <3>2, <3>3 DEF Dealloced
      <4> QED
        BY <3>1, <4>1 DEF Cut
    <3>4. CASE c # b
      BY <1>5, <3>2, <3>4 DEF Taken, On
    <3> QED
      BY <3>3, <3>4
  <2> QED
    BY <2>2, <2>3, <2>4 DEF Listed
<1>8. Pinned(h)
  BY <1>5, Kinds DEF Pinned, Sound, Taken, Live
<1>9. Fresh(h)
  <2> SUFFICES ASSUME NEW x \in Made, h.st[x] = "unborn"
               PROVE  h.rc[x] = 0 /\ (x \in Ary => h.elems[x] = <<>>)
    BY DEF Fresh
  <2>1. m.st[x] = "unborn" /\ x \in Obj
    BY <1>4, Kinds
  <2>2. h.rc[x] = m.rc[x]
    BY <1>5, <2>1 DEF Taken, Live
  <2> QED
    BY <1>2, <2>1, <2>2 DEF Sound, Fresh
<1>10. ASSUME NEW x \in Obj, Live(m, x), ~Live(h, x)
       PROVE  /\ PlacesIn(h, en, x) = {} /\ VarsOf(en, x) = {} /\ x \in Made /\ x \in On(m, b)
              /\ m.rc[x] <= Cardinality(PlacesIn(m, en, x))
  <2>1. CASE x = o
    <3>1. PlacesIn(h, en, o) \subseteq PlacesIn(m, en, o)
      BY <1>2, <1>4, Kinds DEF PlacesIn, Live
    <3>2. Cardinality(PlacesIn(m, en, o)) = 0
      BY FS_EmptySet
    <3> QED
      BY <1>10, <2>1, <3>1, <3>2 DEF PlacesIn
  <2>2. CASE x # o
    <3>1. x \in Str /\ PlacesIn(g, en, x) = {} /\ m.rc[x] <= Cardinality(PlacesIn(m, en, x))
      BY <1>3, <1>10, <2>2 DEF Dealloced
    <3> QED
      BY <1>6, <1>10, <3>1, Kinds DEF PlacesIn
  <2> QED
    BY <2>1, <2>2
<1>11. Filled(h)
  <2> SUFFICES ASSUME NEW a \in Ary, NEW k \in DOMAIN h.elems[a]
               PROVE  h.elems[a][k] \in Str /\ (Live(h, a) => Live(h, h.elems[a][k]))
    BY DEF Filled
  <2> DEFINE x == h.elems[a][k]
  <2>1. x \in Str /\ x \in Obj /\ (Live(m, a) => Live(m, x))
    BY <1>2, Kinds DEF Sound, Filled
  <2>2. ASSUME Live(h, a), ~Live(h, x) PROVE FALSE
    <3>1. Live(m, a)
      BY <1>4, <2>2, Kinds DEF Live
    <3>2. <<a, k>> \in Pairs(a, h.elems[a], 0, x)
      <4>1. k > 0
        <5>1. h.elems[a] \in Seq(Obj)
          BY <1>1, HeapParts
        <5> QED
          BY <5>1
      <4> QED
        BY <4>1 DEF Pairs
    <3>3. <<a, k>> \in PlacesIn(h, en, x)
      <4> HIDE DEF x
      <4> QED
        BY <2>2, <3>2 DEF PlacesIn
    <3>4. PlacesIn(h, en, x) = {}
      BY <1>10, <2>1, <2>2, <3>1
    <3> QED
      BY <3>3, <3>4
  <2> QED
    BY <2>1, <2>2
<1>12. Counted(h, en)
  BY <1>2, <1>3, <1>6 DEF Counted, Dealloced
<1>13. Tables(h, en)
  <2>1. ASSUME NEW t \in Block, NEW v \in Var \ {Parm}, en[t][v] # None PROVE Live(h, en[t][v])
    <3>1. en[t][v] \in Obj
      BY <2>1 DEF Sound, Tables, Tabled
    <3>2. Live(m, en[t][v])
      BY <2>1 DEF Sound, Tables
    <3>3. <<t, v>> \in VarsOf(en, en[t][v])
      BY DEF VarsOf
    <3> QED
      BY <1>10, <3>1, <3>2, <3>3
  <2> QED
    BY <2>1 DEF Tables, Sound
<1>14. ASSUME NEW q, Safe(m, en, b, q) PROVE Safe(h, en, b, q)
  <2>1. q \in Obj /\ Live(m, q)
    BY <1>14 DEF Safe
  <2>2. m.rc[q] \in Int /\ h.rc[q] \in Int /\ Cardinality(PlacesIn(m, en, q)) \in Nat
        /\ Cardinality(PlacesIn(h, en, q)) \in Nat
    BY <1>1, <2>1, HeapParts, PlacesFinite
  <2>3. Live(h, q)
    BY <1>10, <1>14, <2>1, <2>2, Kinds DEF Safe
  <2>4. On(h, b) \subseteq On(m, b)
    BY <1>5 DEF Taken, Thinner, On
  <2>5. q \in Made => h.rc[q] - Cardinality(PlacesIn(h, en, q)) >= m.rc[q] - Cardinality(PlacesIn(m, en, q))
    BY <1>2, <1>3, <1>6, <2>3 DEF Dealloced
  <2>6. q \in Made \/ q \in Lit
    BY <2>1 DEF Obj
  <2> QED
    BY <1>14, <2>1, <2>2, <2>3, <2>4, <2>5, <2>6 DEF Safe
<1> QED
  BY <1>1, <1>5, <1>7, <1>8, <1>9, <1>11, <1>12, <1>13, <1>14 DEF Sound

----------------------------------------------------------------------------
(***************************************************************************)
(* The sweep of a block.  Either every step of the walk leaves the heap in *)
(* order, or what InsideOut and TakesForeign say has happened.             *)
(***************************************************************************)
Walk == [m : Heap, i : Nat \ {0}]

Good(m, en, b, w) ==
  /\ w \in Walk /\ Sound(w.m, en) /\ Taken(m, w.m, b)
  /\ \A a \in Ary : w.m.rc[a] = m.rc[a]
  /\ \A q \in DOMAIN w.m.stk[b] :
       q < w.i => Kept(w.m, w.m.stk[b][q]) /\ Kept(m, w.m.stk[b][q])
  /\ \A q : Safe(m, en, b, q) => Safe(w.m, en, b, q)

Bad(m, b, n) ==
  \/ \E j, i \in DOMAIN m.stk[b] :
       /\ i < j /\ m.stk[b][j] \in Ary /\ ~Kept(m, m.stk[b][j])
       /\ Kept(m, m.stk[b][i]) /\ n.st[m.stk[b][i]] = "freed"
  \/ \E x \in Obj : Live(m, x) /\ n.st[x] = "freed" /\ Maker(m, x) # {b}

LEMMA BadStays ==
  ASSUME NEW m \in Heap, NEW b \in Block, NEW n, Bad(m, b, n), NEW h, StaysFreed(n, h)
  PROVE  Bad(m, b, h)
<1>1. \A k \in DOMAIN m.stk[b] : m.stk[b][k] \in Obj
  <2>1. m.stk[b] \in Seq(Obj)
    BY HeapParts
  <2> QED
    BY <2>1
<1> QED
  BY <1>1 DEF Bad, StaysFreed

\* Taking the entry i out of the list of b.
LEMMA CutParts ==
  ASSUME NEW g \in Heap, NEW b \in Block, NEW i \in DOMAIN g.stk[b], IsInjective(g.stk[b])
  PROVE  LET h == [g EXCEPT !.stk[b] = RemoveAt(@, i)]
         IN  /\ Cut(g, b, g.stk[b][i], h) /\ h.stk[b] = RemoveAt(g.stk[b], i)
<1> DEFINE t == RemoveAt(g.stk[b], i)
           k == [g.stk EXCEPT ![b] = t]
           h == [g EXCEPT !.stk = k]
<1>1. g.stk[b] \in Seq(Obj) /\ g.stk \in [Block -> Seq(Obj)]
  BY HeapParts
<1>2. t \in Seq(Obj) /\ Thinner(t, g.stk[b]) /\ In(t) = In(g.stk[b]) \ {g.stk[b][i]}
  BY <1>1, RemovedThins
<1>3. [g EXCEPT !.stk[b] = RemoveAt(@, i)] = h
  BY DEF Heap
<1> HIDE DEF t
<1>4. k \in [Block -> Seq(Obj)] /\ k[b] = t /\ \A c \in Block : c # b => k[c] = g.stk[c]
  BY <1>1, <1>2
<1> HIDE DEF k
<1>5. /\ h \in Heap /\ h.stk = k /\ h.st = g.st /\ h.rc = g.rc /\ h.elems = g.elems
      /\ h.last = g.last /\ h.kept = g.kept
  BY <1>4 DEF Heap
<1> HIDE DEF h
<1>6. Cut(g, b, g.stk[b][i], h) /\ h.stk[b] = t
  BY <1>2, <1>4, <1>5 DEF Cut, On
<1> QED
  BY <1>3, <1>6 DEF t

LEMMA CutType ==
  ASSUME NEW g \in Heap, NEW b \in Block, NEW i \in DOMAIN g.stk[b]
  PROVE  StaysFreed(g, [g EXCEPT !.stk[b] = RemoveAt(@, i)])
<1> DEFINE t == RemoveAt(g.stk[b], i)
           k == [g.stk EXCEPT ![b] = t]
           h == [g EXCEPT !.stk = k]
<1>1. g.stk[b] \in Seq(Obj) /\ g.stk \in [Block -> Seq(Obj)]
  BY HeapParts
<1>2. t \in Seq(Obj)
  BY <1>1, Removed
<1>3. [g EXCEPT !.stk[b] = RemoveAt(@, i)] = h
  BY DEF Heap
<1> HIDE DEF t
<1>4. k \in [Block -> Seq(Obj)]
  BY <1>1, <1>2
<1> HIDE DEF k
<1>5. h \in Heap /\ h.st = g.st
  BY <1>4 DEF Heap
<1> HIDE DEF h
<1> QED
  BY <1>3, <1>5 DEF StaysFreed

\* What SweepStep does, in three cases.
LEMMA StepParts ==
  ASSUME NEW w \in Walk, NEW b \in Block
  PROVE  LET o == w.m.stk[b][w.i]
             g == memdealloc(w.m, o, b)
         IN  IF w.i > Len(w.m.stk[b]) THEN SweepStep(b, w) = w
             ELSE /\ o \in Obj /\ w.i \in DOMAIN w.m.stk[b]
                  /\ IF Kept(w.m, o)
                     THEN SweepStep(b, w).m = w.m /\ SweepStep(b, w).i = w.i + 1
                     ELSE /\ SweepStep(b, w).i = w.i
                          /\ SweepStep(b, w).m =
                               IF w.i > Len(g.stk[b]) THEN g
                               ELSE [g EXCEPT !.stk[b] = RemoveAt(@, w.i)]
<1>1. w.m \in Heap /\ w.i \in Nat \ {0}
  BY DEF Walk
<1>2. w.m.stk[b] \in Seq(Obj)
  BY <1>1, HeapParts
<1> DEFINE o == w.m.stk[b][w.i]
           g == memdealloc(w.m, o, b)
           n == IF w.i > Len(g.stk[b]) THEN g ELSE [g EXCEPT !.stk[b] = RemoveAt(@, w.i)]
<1>3. CASE w.i > Len(w.m.stk[b])
  BY <1>3 DEF SweepStep
<1>4. CASE ~(w.i > Len(w.m.stk[b]))
  <2>1. o \in Obj /\ w.i \in DOMAIN w.m.stk[b]
    BY <1>1, <1>2, <1>4
  <2>2. CASE Kept(w.m, o)
    <3>1. SweepStep(b, w) = [w EXCEPT !.i = @ + 1]
      BY <1>4, <2>2 DEF SweepStep
    <3>2. [w EXCEPT !.i = @ + 1].m = w.m /\ [w EXCEPT !.i = @ + 1].i = w.i + 1
      BY DEF Walk
    <3> QED
      BY <1>4, <2>1, <2>2, <3>1, <3>2
  <2>3. CASE ~Kept(w.m, o)
    <3>1. SweepStep(b, w) = [w EXCEPT !.m = n]
      BY <1>4, <2>3 DEF SweepStep
    <3> HIDE DEF n
    <3>2. [w EXCEPT !.m = n].m = n /\ [w EXCEPT !.m = n].i = w.i
      BY DEF Walk
    <3> QED
      BY <1>4, <2>1, <2>3, <3>1, <3>2 DEF n
  <2> QED
    BY <2>2, <2>3
<1> QED
  BY <1>3, <1>4

LEMMA StepType ==
  ASSUME NEW w \in Walk, NEW b \in Block
  PROVE  SweepStep(b, w) \in Walk /\ StaysFreed(w.m, SweepStep(b, w).m)
<1> DEFINE o == w.m.stk[b][w.i]
           g == memdealloc(w.m, o, b)
           n == IF w.i > Len(g.stk[b]) THEN g ELSE [g EXCEPT !.stk[b] = RemoveAt(@, w.i)]
<1>1. w.m \in Heap /\ w.i \in Nat \ {0}
  BY DEF Walk
<1>2. w.m.stk[b] \in Seq(Obj)
  BY <1>1, HeapParts
<1>3. CASE w.i > Len(w.m.stk[b])
  BY <1>1, <1>3 DEF SweepStep, StaysFreed
<1>4. CASE ~(w.i > Len(w.m.stk[b])) /\ Kept(w.m, o)
  <2>1. SweepStep(b, w) = [w EXCEPT !.i = @ + 1]
    BY <1>4 DEF SweepStep
  <2>2. [w EXCEPT !.i = @ + 1] \in Walk /\ [w EXCEPT !.i = @ + 1].m = w.m
    BY DEF Walk
  <2> QED
    BY <1>1, <2>1, <2>2 DEF StaysFreed
<1>5. CASE ~(w.i > Len(w.m.stk[b])) /\ ~Kept(w.m, o)
  <2>1. SweepStep(b, w) = [w EXCEPT !.m = n]
    BY <1>5 DEF SweepStep
  <2>2. o \in Obj
    BY <1>1, <1>2, <1>5
  <2>3. StaysFreed(w.m, g)
    <3> HIDE DEF o
    <3> QED
      BY <1>1, <2>2, DeallocFrees
  <2> HIDE DEF g
  <2>4. g \in Heap /\ g.stk[b] \in Seq(Obj)
    BY <2>3, HeapParts DEF StaysFreed
  <2>5. StaysFreed(g, n)
    <3>1. CASE w.i > Len(g.stk[b])
      BY <2>4, <3>1 DEF StaysFreed
    <3>2. CASE ~(w.i > Len(g.stk[b]))
      <4>1. w.i \in DOMAIN g.stk[b]
        BY <1>1, <2>4, <3>2
      <4> QED
        BY <2>4, <3>2, <4>1, CutType
    <3> QED
      BY <3>1, <3>2
  <2> HIDE DEF n
  <2>6. n \in Heap /\ StaysFreed(w.m, n)
    BY <2>3, <2>5 DEF StaysFreed
  <2>7. [w EXCEPT !.m = n] \in Walk /\ [w EXCEPT !.m = n].m = n
    BY <2>6 DEF Walk
  <2> QED
    BY <2>1, <2>6, <2>7
<1> QED
  BY <1>3, <1>4, <1>5

\* Whose list an object is in, when the heap is in order.
LEMMA MakerIs ==
  ASSUME NEW m, m \in Heap, Listed(m), NEW x, NEW c \in Block
  PROVE  /\ x \in On(m, c) => Maker(m, x) = {c}
         /\ c \in Maker(m, x) <=> x \in On(m, c)
<1>1. \A d \in Block : d \in Maker(m, x) <=> x \in On(m, d)
  <2> SUFFICES ASSUME NEW d \in Block PROVE d \in Maker(m, x) <=> x \in On(m, d)
    OBVIOUS
  <2>1. m.stk[d] \in Seq(Obj)
    BY HeapParts
  <2>2. DOMAIN m.stk[d] = 1..Len(m.stk[d])
    BY <2>1
  <2> QED
    BY <2>2 DEF Maker, Contains, On, In
<1>2. Maker(m, x) \subseteq Block
  BY DEF Maker
<1>3. ASSUME x \in On(m, c), NEW d \in Maker(m, x) PROVE d = c
  BY <1>1, <1>2, <1>3 DEF Listed, Apart
<1> QED
  BY <1>1, <1>2, <1>3

\* Every step but the last ones has fewer entries before it.
Further(b, w, v) == IF w.i > Len(w.m.stk[b]) THEN v = w
                    ELSE Len(v.m.stk[b]) - v.i < Len(w.m.stk[b]) - w.i

LEMMA SweepGoesOn ==
  ASSUME NEW m, NEW en, Sound(m, en), NEW b \in Block, NEW w, Good(m, en, b, w)
  PROVE  \/ Good(m, en, b, SweepStep(b, w)) /\ Further(b, w, SweepStep(b, w))
         \/ Bad(m, b, SweepStep(b, w).m)
<1> DEFINE s == w.m.stk[b]
           o == s[w.i]
           g == memdealloc(w.m, o, b)
           v == SweepStep(b, w)
<1>1. /\ w \in Walk /\ m \in Heap /\ w.m \in Heap /\ w.i \in Nat \ {0} /\ s \in Seq(Obj)
      /\ Sound(w.m, en) /\ Taken(m, w.m, b)
  BY HeapParts DEF Good, Sound, Walk
<1>2. v \in Walk
  BY <1>1, StepType
<1>3. CASE w.i > Len(s)
  <2>1. v = w
    BY <1>3 DEF SweepStep
  <2>2. Further(b, w, v)
    BY <1>3, <2>1 DEF Further
  <2> QED
    BY <2>1, <2>2
<1>4. CASE ~(w.i > Len(s))
  <2>1. w.i \in DOMAIN s /\ o \in Obj /\ o \in On(w.m, b) /\ Live(w.m, o)
    BY <1>1, <1>4 DEF On, In, Sound, Listed
  <2>2. w.m.rc[o] \in Int /\ m.rc[o] \in Int /\ w.m.rc[o] <= m.rc[o]
    BY <1>1, <2>1, HeapParts DEF Taken
  <2>3. CASE Kept(w.m, o)
    <3>1. v.m = w.m /\ v.i = w.i + 1
      BY <1>1, <1>4, <2>3, StepParts
    <3>2. Kept(m, o)
      <4>1. CASE o \in Lit
        BY <4>1 DEF Kept, Sound, Pinned
      <4>2. CASE o \in Made
        <5>1. w.m.rc[o] >= Cardinality(PlacesIn(w.m, en, o)) /\ Cardinality(PlacesIn(w.m, en, o)) \in Nat
          BY <1>1, <2>1, <4>2, PlacesFinite DEF Sound, Counted, Due
        <5>2. w.m.rc[o] > 0
          BY <2>2, <2>3, <5>1 DEF Kept, GC_NEVER_FREE
        <5> QED
          BY <2>2, <5>2 DEF Kept
      <4> QED
        BY <2>1, <4>1, <4>2 DEF Obj
    <3>3. ASSUME NEW q \in DOMAIN s, q < w.i + 1
          PROVE  Kept(w.m, s[q]) /\ Kept(m, s[q])
      <4>1. q < w.i \/ q = w.i
        BY <1>1, <3>3, SMTT(30)
      <4> QED
        BY <2>3, <3>2, <4>1 DEF Good
    <3> HIDE DEF v
    <3>4. Good(m, en, b, v)
      <4>1. \A q \in DOMAIN v.m.stk[b] :
              q < v.i => Kept(v.m, v.m.stk[b][q]) /\ Kept(m, v.m.stk[b][q])
        BY <3>1, <3>3
      <4>2. v.m = w.m
        BY <3>1
      <4> HIDE DEF s
      <4> QED
        BY <1>2, <4>1, <4>2 DEF Good
    <3>5. Further(b, w, v)
      BY <1>1, <1>4, <3>1 DEF Further
    <3> QED
      BY <3>4, <3>5 DEF v
  <2>4. CASE ~Kept(w.m, o)
    <3>1. o \in Made
      BY <1>1, <2>1, <2>4 DEF Obj, Kept, Sound, Pinned
    <3>2. PlacesIn(w.m, en, o) = {} /\ w.m.rc[o] <= 0
      <4>1. w.m.rc[o] >= Cardinality(PlacesIn(w.m, en, o)) /\ Cardinality(PlacesIn(w.m, en, o)) \in Nat
        BY <1>1, <2>1, <3>1, PlacesFinite DEF Sound, Counted, Due
      <4>2. w.m.rc[o] <= 0
        BY <2>2, <2>4 DEF Kept
      <4>3. Cardinality(PlacesIn(w.m, en, o)) = 0
        BY <2>2, <4>1, <4>2
      <4> QED
        BY <1>1, <4>2, <4>3, PlacesFinite, FS_EmptySet
    <3>3. Dealloced(w.m, en, o, b, g)
      <4>1. o \in Ary \/ o \in Str
        BY <3>1 DEF Made
      <4> HIDE DEF o
      <4> QED
        BY <1>1, <2>1, <4>1, DeallocArray, DeallocString
    <3>4. /\ v.i = w.i
          /\ v.m = IF w.i > Len(g.stk[b]) THEN g ELSE [g EXCEPT !.stk[b] = RemoveAt(@, w.i)]
      BY <1>1, <1>4, <2>4, StepParts
    <3> HIDE DEF g, v
    <3>5. g \in Heap /\ g.stk[b] \in Seq(Obj) /\ Taken(w.m, g, b) /\ IsInjective(g.stk[b])
      BY <3>3, HeapParts DEF Dealloced, Taken, Thinner
    <3>6. StaysFreed(g, v.m)
      <4>1. CASE w.i > Len(g.stk[b])
        BY <3>4, <3>5, <4>1 DEF StaysFreed
      <4>2. CASE ~(w.i > Len(g.stk[b]))
        <5>1. w.i \in DOMAIN g.stk[b]
          BY <1>1, <3>5, <4>2
        <5> QED
          BY <3>4, <3>5, <4>2, <5>1, CutType
      <4> QED
        BY <4>1, <4>2
    <3>7. ASSUME NEW x \in Obj, Live(w.m, x), ~Live(g, x)
          PROVE  Live(m, x) /\ v.m.st[x] = "freed"
      <4>1. g.st[x] = "freed"
        BY <3>5, <3>7 DEF Taken, Live
      <4>2. Live(m, x)
        BY <1>1, <3>7 DEF Taken, Live
      <4> QED
        BY <3>6, <4>1, <4>2 DEF StaysFreed
    <3>8. CASE \E x \in Obj : Live(w.m, x) /\ ~Live(g, x) /\ x \notin On(w.m, b)
      <4>1. PICK x \in Obj : Live(w.m, x) /\ ~Live(g, x) /\ x \notin On(w.m, b)
        BY <3>8
      <4>2. PICK c \in Block : x \in On(w.m, c)
        BY <1>1, <4>1 DEF Sound, Listed
      <4>3. c # b /\ x \in On(m, c)
        BY <1>1, <4>1, <4>2 DEF Taken, On
      <4>4. Maker(m, x) = {c}
        BY <1>1, <4>3, MakerIs DEF Sound
      <4>5. Maker(m, x) # {b}
        BY <4>3, <4>4
      <4>6. Bad(m, b, v.m)
        BY <3>7, <4>1, <4>5 DEF Bad
      <4> QED
        BY <4>6 DEF v
    <3>9. CASE \E q \in DOMAIN s : q < w.i /\ ~Live(g, s[q])
      <4>1. PICK q \in DOMAIN s : q < w.i /\ ~Live(g, s[q])
        BY <3>9
      <4>2. s[q] \in Obj /\ Live(w.m, s[q])
        BY <1>1, <4>1 DEF On, In, Sound, Listed
      <4>3. s[q] # o
        BY <1>1, <2>1, <4>1 DEF Sound, Listed, Apart, IsInjective
      <4>4. o \in Ary
        BY <3>3, <4>1, <4>2, <4>3 DEF Dealloced
      <4>5. PICK k \in DOMAIN m.stk[b], l \in DOMAIN m.stk[b] :
              k < l /\ m.stk[b][k] = s[q] /\ m.stk[b][l] = o
        BY <1>1, <2>1, <4>1 DEF Taken, Thinner
      <4>6. ~Kept(m, o)
        BY <2>4, <4>4 DEF Good, Kept
      <4>7. Kept(m, s[q])
        BY <4>1 DEF Good
      <4>8. v.m.st[s[q]] = "freed"
        BY <3>7, <4>1, <4>2
      <4>9. Bad(m, b, v.m)
        <5> HIDE DEF o, s
        <5> QED
          BY <4>4, <4>5, <4>6, <4>7, <4>8 DEF Bad
      <4> QED
        BY <4>9 DEF v
    <3>10. CASE /\ \A x \in Obj : Live(w.m, x) /\ ~Live(g, x) => x \in On(w.m, b)
                /\ \A q \in DOMAIN s : q < w.i => Live(g, s[q])
      <4>1. \A r \in 1..w.i : r \in DOMAIN g.stk[b] /\ g.stk[b][r] = s[r]
        <5>1. \A r \in 1..w.i : r \in DOMAIN s /\ (r < w.i \/ r = w.i)
          BY <1>1, <2>1
        <5>2. \A r \in 1..w.i : s[r] = o \/ Live(g, s[r])
          BY <3>10, <5>1
        <5> QED
          BY <2>1, <3>3, <5>2 DEF Dealloced
      <4>2. w.i \in DOMAIN g.stk[b] /\ g.stk[b][w.i] = o
        BY <1>1, <4>1
      <4>3. v.m = [g EXCEPT !.stk[b] = RemoveAt(@, w.i)]
        BY <3>4, <3>5, <4>2
      <4>4. Cut(g, b, o, v.m) /\ v.m.stk[b] = RemoveAt(g.stk[b], w.i)
        BY <3>5, <4>2, <4>3, CutParts
      <4>5. \A x \in Obj : Live(w.m, x) /\ ~Live(v.m, x) => x \in On(w.m, b)
        BY <3>10, <4>4 DEF Cut, Live
      <4>6. Sound(v.m, en) /\ Taken(w.m, v.m, b) /\ \A q : Safe(w.m, en, b, q) => Safe(v.m, en, b, q)
        <5> HIDE DEF o
        <5> QED
          BY <1>1, <2>1, <3>1, <3>2, <3>3, <4>4, <4>5, CutSound
      <4>7. Taken(m, v.m, b)
        BY <1>1, <4>6, TakenStill
      <4>8. \A a \in Ary : v.m.rc[a] = m.rc[a]
        BY <3>3, <4>4 DEF Good, Dealloced, Cut
      <4>9. ASSUME NEW q \in DOMAIN v.m.stk[b], q < v.i
            PROVE  Kept(v.m, v.m.stk[b][q]) /\ Kept(m, v.m.stk[b][q])
        <5>1. q \in 1..(w.i - 1) /\ q \in 1..w.i /\ q < w.i
          <6>1. v.m.stk[b] \in Seq(Obj)
            BY <4>6, HeapParts DEF Sound
          <6> QED
            BY <1>1, <3>4, <4>9, <6>1
        <5>2. v.m.stk[b][q] = s[q] /\ q \in DOMAIN s
          <6>1. RemoveAt(g.stk[b], w.i)[q] = g.stk[b][q]
            BY <3>5, <4>2, <5>1, RemovedThins
          <6>2. q \in DOMAIN s
            BY <1>1, <2>1, <5>1
          <6> QED
            BY <4>1, <4>4, <5>1, <6>1, <6>2
        <5>3. Kept(w.m, s[q]) /\ Kept(m, s[q]) /\ s[q] \in Obj
          BY <1>1, <5>1, <5>2 DEF Good
        <5>4. Live(v.m, s[q])
          BY <3>10, <4>4, <5>1, <5>2 DEF Cut, Live
        <5> QED
          BY <4>6, <5>2, <5>3, <5>4 DEF Taken
      <4>10. Good(m, en, b, v)
        BY <1>2, <4>6, <4>7, <4>8, <4>9 DEF Good, v
      <4>11. Further(b, w, v)
        <5>1. Len(v.m.stk[b]) = Len(g.stk[b]) - 1 /\ Len(g.stk[b]) <= Len(s)
          BY <3>5, <4>2, <4>4, Removed DEF Taken, Thinner
        <5> QED
          BY <1>1, <1>4, <3>4, <3>5, <5>1, SMTT(30) DEF Further
      <4> QED
        BY <4>10, <4>11 DEF v
    <3> DEFINE Outside == \E x \in Obj : Live(w.m, x) /\ ~Live(g, x) /\ x \notin On(w.m, b)
               Passed  == \E q \in DOMAIN s : q < w.i /\ ~Live(g, s[q])
               Or      == (Good(m, en, b, v) /\ Further(b, w, v)) \/ Bad(m, b, v.m)
    <3>11. Outside => Or
      BY <3>8 DEF v
    <3>12. Passed => Or
      BY <3>9 DEF v
    <3>13. ~Outside /\ ~Passed => Or
      BY <3>10 DEF v
    <3> HIDE DEF Outside, Passed
    <3> QED
      BY <3>11, <3>12, <3>13 DEF v
  <2> QED
    BY <2>3, <2>4
<1> QED
  BY <1>3, <1>4

LEMMA SweepWalk ==
  ASSUME NEW m \in Heap, NEW b \in Block
  PROVE  \E f : /\ Sweep(m, b) = f[Len(m.stk[b])].m /\ f[0] = [m |-> m, i |-> 1]
                /\ \A k \in 0..Len(m.stk[b]) : f[k] \in Walk
                /\ \A k \in 1..Len(m.stk[b]) : f[k] = SweepStep(b, f[k-1])
<1> DEFINE n == Len(m.stk[b])
           base == [m |-> m, i |-> 1]
           Walks(f) == f = [k \in 0..n |-> IF k = 0 THEN base ELSE SweepStep(b, f[k-1])]
           step == [kw \in Int \X Walk |-> SweepStep(b, kw[2])]
           walk == CHOOSE f : Walks(f)
<1>1. n \in Nat /\ base \in Walk
  <2>1. m.stk[b] \in Seq(Obj)
    BY HeapParts
  <2> QED
    BY <2>1 DEF Walk
<1> HIDE DEF n, base
<1>2. step \in [Int \X Walk -> Walk]
  BY StepType
<1>3. \A k \in Int, w \in Walk : step[k, w] = SweepStep(b, w)
  OBVIOUS
<1> HIDE DEF step
<1>4. PICK f : Recursive(f, 0..n, 0, base, step) /\ \A k \in 0..n : f[k] \in Walk
  <2>1. 0 \in Int /\ n \in Int
    BY <1>1
  <2> QED
    BY ONLY <1>1, <1>2, <2>1, NumberRecursion
<1>5. f = [k \in 0..n |-> IF k = 0 THEN base ELSE step[k, f[k-1]]]
  BY <1>4 DEF Recursive
<1>6. ASSUME NEW k \in 0..n, k # 0 PROVE step[k, f[k-1]] = SweepStep(b, f[k-1])
  <2>1. k \in Int /\ k - 1 \in 0..n
    BY <1>1, <1>6
  <2>2. f[k-1] \in Walk
    BY <1>4, <2>1
  <2> QED
    BY ONLY <1>3, <2>1, <2>2
<1>7. Walks(f)
  BY <1>5, <1>6
<1>8. Walks(walk)
  BY <1>7
<1>9. Sweep(m, b) = walk[n].m
  BY DEF Sweep, n, base
<1> HIDE DEF walk
<1>10. walk[0] = base /\ \A k \in 1..n : walk[k] = SweepStep(b, walk[k-1])
  BY <1>1, <1>8
<1> DEFINE P == {k \in Nat : k <= n => walk[k] \in Walk}
<1>11. 0 \in P
  BY <1>1, <1>10
<1>12. ASSUME NEW k \in Nat, k \in P PROVE k + 1 \in P
  <2> SUFFICES ASSUME k + 1 <= n PROVE walk[k + 1] \in Walk
    OBVIOUS
  <2>1. k + 1 \in 1..n /\ (k + 1) - 1 = k /\ walk[k] \in Walk
    BY <1>1, <1>12
  <2>2. walk[k + 1] = SweepStep(b, walk[k])
    BY <1>10, <2>1
  <2> QED
    BY <2>1, <2>2, StepType
<1>13. Nat \subseteq P
  <2> HIDE DEF P
  <2> QED
    BY <1>11, <1>12, InductiveSet
<1>14. \A k \in 0..n : walk[k] \in Walk
  BY <1>1, <1>13
<1> QED
  BY <1>9, <1>10, <1>14 DEF n, base

\* What the sweep of b leaves, if nothing is a cause.
Done(m, en, b, n) ==
  /\ Sound(n, en) /\ Taken(m, n, b)
  /\ \A o \in On(n, b) : Kept(n, o)
  /\ \A q : Safe(m, en, b, q) => Safe(n, en, b, q)

LEMMA GoodAtFirst ==
  ASSUME NEW m, NEW en, Sound(m, en), NEW b \in Block
  PROVE  Good(m, en, b, [m |-> m, i |-> 1])
<1>1. m \in Heap /\ m.stk[b] \in Seq(Obj)
  BY HeapParts DEF Sound
<1>2. Taken(m, m, b)
  <2>1. IsInjective(m.stk[b])
    BY DEF Sound, Listed, Apart
  <2>2. \A o \in Obj : m.rc[o] <= m.rc[o]
    BY <1>1, HeapParts
  <2> QED
    BY <1>1, <2>1, <2>2, ThinnerItself DEF Taken
<1>3. \A q \in DOMAIN m.stk[b] : ~(q < 1)
  BY <1>1
<1> QED
  BY <1>1, <1>2, <1>3 DEF Good, Walk

LEMMA SweepLeaves ==
  ASSUME NEW m, NEW en, Sound(m, en), NEW b \in Block
  PROVE  Done(m, en, b, Sweep(m, b)) \/ Bad(m, b, Sweep(m, b))
<1> DEFINE n == Len(m.stk[b])
<1>1. m \in Heap
  BY DEF Sound
<1>2. PICK f : /\ Sweep(m, b) = f[n].m /\ f[0] = [m |-> m, i |-> 1]
               /\ \A k \in 0..n : f[k] \in Walk
               /\ \A k \in 1..n : f[k] = SweepStep(b, f[k-1])
  <2>1. \E f : /\ Sweep(m, b) = f[n].m /\ f[0] = [m |-> m, i |-> 1]
               /\ \A k \in 0..n : f[k] \in Walk
               /\ \A k \in 1..n : f[k] = SweepStep(b, f[k-1])
    BY <1>1, SweepWalk
  <2> QED
    BY <2>1
<1>3. n \in Nat
  <2>1. m.stk[b] \in Seq(Obj)
    BY <1>1, HeapParts
  <2> QED
    BY <2>1
<1>4. f[0].m = m /\ f[0].i = 1
  BY <1>2
<1> DEFINE Size(w) == Len(w.m.stk[b])
           Far(k) == f[k].i > Size(f[k]) \/ Size(f[k]) - f[k].i <= n - 1 - k
           P == {k \in Nat : k <= n => (Good(m, en, b, f[k]) /\ Far(k)) \/ Bad(m, b, f[k].m)}
<1>5. \A w \in Walk : Size(w) \in Nat /\ w.i \in Nat
  <2> SUFFICES ASSUME NEW w \in Walk PROVE Size(w) \in Nat /\ w.i \in Nat
    OBVIOUS
  <2>1. w.m \in Heap /\ w.i \in Nat \ {0}
    BY DEF Walk
  <2>2. w.m.stk[b] \in Seq(Obj)
    BY <2>1, HeapParts
  <2> QED
    BY <2>1, <2>2
<1>6. 0 \in P
  <2>1. Good(m, en, b, f[0])
    BY <1>2, GoodAtFirst
  <2>2. Size(f[0]) = n
    BY <1>4
  <2>3. Size(f[0]) - f[0].i <= n - 1 - 0
    BY <1>3, <1>4, <2>2
  <2> QED
    BY <2>1, <2>3
<1>7. ASSUME NEW k \in Nat, k \in P PROVE k + 1 \in P
  <2> SUFFICES ASSUME k + 1 <= n
               PROVE  (Good(m, en, b, f[k+1]) /\ Far(k + 1)) \/ Bad(m, b, f[k+1].m)
    OBVIOUS
  <2>1. k + 1 \in 1..n /\ (k + 1) - 1 = k /\ k <= n /\ k \in 0..n /\ k + 1 \in 0..n
    BY <1>3
  <2>2. f[k+1] = SweepStep(b, f[k]) /\ f[k] \in Walk /\ f[k+1] \in Walk
    BY <1>2, <2>1
  <2>3. CASE Bad(m, b, f[k].m)
    <3>1. StaysFreed(f[k].m, f[k+1].m)
      BY <2>2, StepType
    <3> QED
      BY <1>1, <2>3, <3>1, BadStays
  <2>4. CASE Good(m, en, b, f[k]) /\ Far(k)
    <3>1. \/ Good(m, en, b, f[k+1]) /\ Further(b, f[k], f[k+1])
          \/ Bad(m, b, f[k+1].m)
      BY <2>2, <2>4, SweepGoesOn
    <3>2. ASSUME Further(b, f[k], f[k+1]) PROVE Far(k + 1)
      <4>1. Size(f[k]) \in Nat /\ Size(f[k+1]) \in Nat /\ f[k].i \in Nat /\ f[k+1].i \in Nat
        BY <1>5, <2>2
      <4>2. IF f[k].i > Size(f[k]) THEN f[k+1] = f[k] ELSE Size(f[k+1]) - f[k+1].i < Size(f[k]) - f[k].i
        BY <3>2 DEF Further
      <4>3. f[k].i > Size(f[k]) \/ Size(f[k]) - f[k].i <= n - 1 - k
        BY <2>4
      <4> HIDE DEF Size, n
      <4>4. CASE f[k].i > Size(f[k])
        BY <4>2, <4>4
      <4>5. CASE ~(f[k].i > Size(f[k]))
        BY <1>3, <4>1, <4>2, <4>3, <4>5
      <4> QED
        BY <4>4, <4>5
    <3> QED
      BY <3>1, <3>2
  <2> QED
    BY <1>7, <2>1, <2>3, <2>4
<1>8. Nat \subseteq P
  <2> HIDE DEF P
  <2> QED
    BY <1>6, <1>7, InductiveSet
<1>9. (Good(m, en, b, f[n]) /\ Far(n)) \/ Bad(m, b, f[n].m)
  BY <1>3, <1>8, SMTT(30)
<1>10. ASSUME Good(m, en, b, f[n]), Far(n) PROVE Done(m, en, b, f[n].m)
  <2>1. f[n] \in Walk /\ f[n].m \in Heap
    BY <1>10 DEF Good, Walk
  <2>2. f[n].i > Size(f[n])
    <3>1. Size(f[n]) \in Nat /\ f[n].i \in Nat
      BY <1>5, <2>1
    <3>2. f[n].i > Size(f[n]) \/ Size(f[n]) - f[n].i <= n - 1 - n
      BY <1>10
    <3> HIDE DEF Size, n
    <3> QED
      BY <1>3, <3>1, <3>2
  <2>3. f[n].m.stk[b] \in Seq(Obj) /\ f[n].i \in Nat
    BY <1>5, <2>1, HeapParts
  <2>4. \A q \in DOMAIN f[n].m.stk[b] : q < f[n].i
    BY <2>2, <2>3
  <2> QED
    BY <1>10, <2>4 DEF Good, Done, On, In
<1> QED
  BY <1>2, <1>9, <1>10

LEMMA SweepSound ==
  ASSUME NEW m, NEW en, Sound(m, en), NEW b \in Block, SweepCauses(m, b) = {}
  PROVE  Done(m, en, b, Sweep(m, b))
<1>1. ~InsideOut(m, b) /\ ~TakesForeign(m, b)
  BY DEF SweepCauses
<1>2. ASSUME Bad(m, b, Sweep(m, b)) PROVE FALSE
  <2>1. CASE \E j, i \in DOMAIN m.stk[b] :
               /\ i < j /\ m.stk[b][j] \in Ary /\ ~Kept(m, m.stk[b][j])
               /\ Kept(m, m.stk[b][i]) /\ Sweep(m, b).st[m.stk[b][i]] = "freed"
    BY <1>1, <2>1 DEF InsideOut
  <2>2. CASE \E x \in Obj : Live(m, x) /\ Sweep(m, b).st[x] = "freed" /\ Maker(m, x) # {b}
    BY <1>1, <2>2 DEF TakesForeign, Gone, Live
  <2> QED
    BY <1>2, <2>1, <2>2 DEF Bad
<1> QED
  BY <1>2, SweepLeaves

----------------------------------------------------------------------------
(***************************************************************************)
(* Assignments: the old value is counted down, the new one up.             *)
(***************************************************************************)
LEMMA SoundWith ==
  ASSUME NEW m, NEW en, Sound(m, en), NEW h \in Heap, NEW en1,
         h.st = m.st, h.elems = m.elems, h.stk = m.stk,
         \A x \in Obj : x \in Lit \/ m.st[x] = "unborn" => h.rc[x] = m.rc[x],
         Counted(h, en1), Tables(h, en1)
  PROVE  Sound(h, en1)
<1>1. Listed(h)
  BY DEF Sound, Listed, Apart, On, Live
<1>2. Pinned(h)
  BY Kinds DEF Sound, Pinned, Live
<1>3. Fresh(h)
  BY Kinds DEF Sound, Fresh
<1>4. Filled(h)
  BY DEF Sound, Filled, Live
<1> QED
  BY <1>1, <1>2, <1>3, <1>4 DEF Sound

\* The tables when a variable is given a value, and the places then.
Given(en, t, v, x, en1) ==
  /\ en1 \in Tabled /\ en1[t][v] = x
  /\ \A u \in Block, y \in Var : u # t \/ y # v => en1[u][y] = en[u][y]

LEMMA VarGiven ==
  ASSUME NEW en \in Tabled, NEW t \in Block, NEW v \in Var, NEW x \in Obj \cup {None}
  PROVE  Given(en, t, v, x, [en EXCEPT ![t][v] = x])
BY DEF Tabled, Given

LEMMA PlacesGiven ==
  ASSUME NEW m, NEW en, NEW t \in Block, NEW v \in Var \ {Parm},
         NEW x, NEW o, NEW en1, Given(en, t, v, x, en1)
  PROVE  /\ o # x => PlacesIn(m, en1, o) = PlacesIn(m, en, o) \ {<<t, v>>}
         /\ o = x => PlacesIn(m, en1, o) = PlacesIn(m, en, o) \cup {<<t, v>>}
         /\ o = en[t][v] => <<t, v>> \in PlacesIn(m, en, o)
         /\ o # en[t][v] => <<t, v>> \notin PlacesIn(m, en, o)
<1> DEFINE Elems == UNION {Pairs(a, m.elems[a], 0, o) : a \in {b \in Ary : Live(m, b)}}
<1>1. /\ en1[t][v] = x
      /\ \A u \in Block, y \in Var : u # t \/ y # v => en1[u][y] = en[u][y]
  BY DEF Given
<1>2. <<t, v>> \notin Elems
  BY Kinds DEF Pairs
<1>3. \A tv \in Block \X (Var \ {Parm}) : tv # <<t, v>> => tv[1] # t \/ tv[2] # v
  OBVIOUS
<1>4. \A tv \in Block \X (Var \ {Parm}) : tv # <<t, v>> => en1[tv[1]][tv[2]] = en[tv[1]][tv[2]]
  BY <1>1, <1>3
<1>5. <<t, v>> \in Block \X (Var \ {Parm})
  OBVIOUS
<1>6. o # x => VarsOf(en1, o) = VarsOf(en, o) \ {<<t, v>>}
  BY <1>1, <1>4, <1>5 DEF VarsOf
<1>7. o = x => VarsOf(en1, o) = VarsOf(en, o) \cup {<<t, v>>}
  BY <1>1, <1>4, <1>5 DEF VarsOf
<1>8. <<t, v>> \in VarsOf(en, o) <=> o = en[t][v]
  BY <1>5 DEF VarsOf
<1>9. PlacesIn(m, en, o) = VarsOf(en, o) \cup Elems /\ PlacesIn(m, en1, o) = VarsOf(en1, o) \cup Elems
  BY DEF PlacesIn
<1> HIDE DEF Elems
<1> QED
  BY <1>2, <1>6, <1>7, <1>8, <1>9

\* The parameter is not a place.
LEMMA PlacesOfParm ==
  ASSUME NEW m, NEW en, NEW t \in Block, NEW x, NEW o, NEW en1, Given(en, t, Parm, x, en1)
  PROVE  PlacesIn(m, en1, o) = PlacesIn(m, en, o)
<1>1. \A u \in Block, y \in Var \ {Parm} : en1[u][y] = en[u][y]
  BY DEF Given
<1>2. VarsOf(en1, o) = VarsOf(en, o)
  BY <1>1 DEF VarsOf
<1> QED
  BY <1>2 DEF PlacesIn

\* object_refcount_down leaves the heap in order for the tables without the
\* variable, unless it takes what another block lists.
Fallen(m, n, cur) ==
  /\ n \in Heap /\ n.elems = m.elems /\ n.last = m.last /\ m.kept \subseteq n.kept
  /\ \A x \in Obj : n.st[x] = m.st[x] \/ (Live(m, x) /\ n.st[x] = "freed")
  /\ \A x \in Obj : Live(n, x) /\ Kept(m, x) => Kept(n, x)
  /\ \A b \in Block : On(n, b) \subseteq On(m, b)

LEMMA TakenFalls == ASSUME NEW m, NEW n, NEW cur \in Block, Taken(m, n, cur) PROVE Fallen(m, n, cur)
BY DEF Taken, Fallen, Thinner, On

LEMMA LiteralFalls ==
  ASSUME NEW m, NEW en, Sound(m, en), NEW cur \in Block, NEW t \in Block, NEW v \in Var,
         en[t][v] \in Lit
  PROVE  LET n == object_refcount_down(m, en[t][v], cur)
         IN  /\ n = m /\ Sound(n, [en EXCEPT ![t][v] = None])
             /\ t = cur => \A q : Safe(m, en, cur, q) => Safe(n, [en EXCEPT ![t][v] = None], cur, q)
<1> DEFINE o   == en[t][v]
           en0 == [en EXCEPT ![t][v] = None]
<1>1. m \in Heap /\ en \in Tabled /\ m.rc[o] = GC_NEVER_FREE /\ None \in Obj \cup {None}
  BY DEF Sound, Pinned, Tables
<1>2. object_refcount_down(m, o, cur) = m
  BY <1>1 DEF object_refcount_down, Spent, Lowered
<1>3. Given(en, t, v, None, en0)
  BY <1>1, VarGiven
<1> HIDE DEF en0
<1>4. ASSUME NEW x \in Made PROVE PlacesIn(m, en0, x) = PlacesIn(m, en, x)
  <2>1. x # o /\ x # None
    BY Kinds
  <2>2. CASE v = Parm
    BY <1>3, <2>2, PlacesOfParm
  <2>3. CASE v # Parm
    <3>1. v \in Var \ {Parm}
      BY <2>3
    <3>2. /\ x # None => PlacesIn(m, en0, x) = PlacesIn(m, en, x) \ {<<t, v>>}
          /\ x # en[t][v] => <<t, v>> \notin PlacesIn(m, en, x)
      BY <1>3, <3>1, PlacesGiven
    <3> QED
      BY <2>1, <3>2
  <2> QED
    BY <2>2, <2>3
<1>5. Counted(m, en0)
  BY <1>4 DEF Counted, Sound
<1>6. Tables(m, en0)
  BY <1>3, Kinds DEF Tables, Sound, Given
<1>7. Sound(m, en0)
  BY <1>1, <1>5, <1>6, SoundWith
<1>8. ASSUME NEW q, Safe(m, en, t, q) PROVE Safe(m, en0, t, q)
  <2>1. q \in Lit \/ q \in Made
    BY <1>8 DEF Safe, Obj
  <2>2. \A p \in VarsOf(en, q) : p[1] # t => p \in VarsOf(en0, q)
    BY <1>3 DEF VarsOf, Given
  <2> QED
    BY <1>4, <1>8, <2>1, <2>2 DEF Safe
<1> QED
  BY <1>2, <1>7, <1>8 DEF en0


LEMMA DownFalls ==
  ASSUME NEW m, NEW en, Sound(m, en), NEW cur \in Block, NEW t \in Block, NEW v \in Var \ {Parm},
         en[t][v] \in Made,
         \A x \in Gone(m, object_refcount_down(m, en[t][v], cur)) : Maker(m, x) = {cur}
  PROVE  LET n == object_refcount_down(m, en[t][v], cur)
         IN  /\ Fallen(m, n, cur) /\ Sound(n, [en EXCEPT ![t][v] = None])
             /\ t = cur => \A q : Safe(m, en, cur, q) => Safe(n, [en EXCEPT ![t][v] = None], cur, q)
<1> DEFINE o   == en[t][v]
           en0 == [en EXCEPT ![t][v] = None]
           n   == object_refcount_down(m, o, cur)
           l   == Lowered(m, o, cur)
           g   == memdealloc(l, o, cur)
<1>1. /\ m \in Heap /\ en \in Tabled /\ o \in Obj /\ o \in Made /\ o \notin Lit /\ o # None
      /\ Live(m, o) /\ v \in Var
  BY Kinds DEF Sound, Tables
<1>2. Given(en, t, v, None, en0)
  BY <1>1, VarGiven
<1> DEFINE C(x)  == Cardinality(PlacesIn(m, en, x))
           C0(x) == Cardinality(PlacesIn(m, en0, x))
<1>3. \A x : C(x) \in Nat /\ C0(x) \in Nat
  BY <1>1, PlacesFinite
<1>4. ASSUME NEW x \in Made PROVE C0(x) = IF x = o THEN C(x) - 1 ELSE C(x)
  <2>1. x # None
    BY Kinds
  <2>2. /\ x # None => PlacesIn(m, en0, x) = PlacesIn(m, en, x) \ {<<t, v>>}
        /\ x = en[t][v] => <<t, v>> \in PlacesIn(m, en, x)
        /\ x # en[t][v] => <<t, v>> \notin PlacesIn(m, en, x)
    BY <1>2, PlacesGiven
  <2>3. IsFiniteSet(PlacesIn(m, en, x))
    BY <1>1, PlacesFinite
  <2>4. CASE x = o
    <3> HIDE DEF en0
    <3> QED
      BY <2>1, <2>2, <2>3, <2>4, FS_RemoveElement
  <2>5. CASE x # o
    <3> HIDE DEF en0
    <3> QED
      BY <2>1, <2>2, <2>5
  <2> QED
    BY <2>4, <2>5
<1>5. /\ l \in Heap
      /\ l.rc = IF m.rc[o] # GC_NEVER_FREE /\ m.last[cur] # o THEN [m.rc EXCEPT ![o] = @ - 1] ELSE m.rc
      /\ l.kept = IF m.rc[o] # GC_NEVER_FREE /\ m.last[cur] = o THEN m.kept \cup {o} ELSE m.kept
      /\ l.st = m.st /\ l.elems = m.elems /\ l.stk = m.stk /\ l.last = m.last
  <2> HIDE DEF o, n, g
  <2>1. m \in Heap /\ o \in Obj /\ cur \in Block
    BY <1>1
  <2> QED
    BY ONLY <2>1, LoweredParts
<1> HIDE DEF l
<1>6. /\ m.rc[o] \in Int /\ m.rc[o] >= 1 /\ m.rc[o] # GC_NEVER_FREE
      /\ Due(m.rc[o], C(o), o \in m.kept)
  <2>1. m.rc[o] \in Int
    BY <1>1, HeapParts
  <2>2. Due(m.rc[o], C(o), o \in m.kept)
    BY <1>1 DEF Sound, Counted
  <2>3. C(o) >= 1
    <3>1. C0(o) = C(o) - 1
      BY <1>1, <1>4
    <3> HIDE DEF C, C0
    <3> QED
      BY <1>3, <3>1
  <2> HIDE DEF C
  <2> QED
    BY <1>3, <2>1, <2>2, <2>3 DEF Due, GC_NEVER_FREE
<1>7. \A x \in Obj : l.rc[x] = IF m.last[cur] # o /\ x = o THEN m.rc[x] - 1 ELSE m.rc[x]
  BY <1>1, <1>5, <1>6, HeapParts
<1>8. \A x : PlacesIn(l, en0, x) = PlacesIn(m, en0, x)
  BY <1>5 DEF PlacesIn, Live
<1>9. Sound(l, en0)
  <2>1. ASSUME NEW x \in Made, Live(l, x)
        PROVE  Due(l.rc[x], C0(x), x \in l.kept)
    <3>1. x \in Obj /\ Live(m, x) /\ m.rc[x] \in Int
      BY <1>1, <1>5, <2>1, Kinds, HeapParts DEF Live
    <3>2. Due(m.rc[x], C(x), x \in m.kept)
      BY <3>1 DEF Sound, Counted
    <3>3. C0(x) = IF x = o THEN C(x) - 1 ELSE C(x)
      BY <1>4
    <3>4. l.rc[x] = IF m.last[cur] # o /\ x = o THEN m.rc[x] - 1 ELSE m.rc[x]
      BY <1>7, <3>1
    <3>5. (x \in m.kept => x \in l.kept) /\ (m.last[cur] = o /\ x = o => x \in l.kept)
      BY <1>5, <1>6
    <3> HIDE DEF C, C0, o
    <3> QED
      BY <1>3, <3>1, <3>2, <3>3, <3>4, <3>5 DEF Due
  <2>2. Counted(l, en0)
    BY <1>8, <2>1 DEF Counted
  <2>3. Tables(l, en0)
    <3> HIDE DEF en0
    <3> QED
      BY <1>2, <1>5, Kinds DEF Tables, Sound, Live, Given
  <2>4. \A x \in Obj : x \in Lit \/ m.st[x] = "unborn" => l.rc[x] = m.rc[x]
    BY <1>1, <1>7 DEF Live
  <2> HIDE DEF en0
  <2> QED
    BY <1>5, <2>2, <2>3, <2>4, SoundWith
<1>10. Spent(m, o, cur) <=> m.last[cur] # o /\ m.rc[o] = 1
  BY <1>6 DEF Spent
<1>13. ASSUME NEW q, Safe(m, en, t, q) PROVE Safe(l, en0, t, q)
  <2>1. q \in Obj /\ Live(l, q) /\ (q \in Lit \/ q \in Made)
    BY <1>5, <1>13 DEF Safe, Obj, Live
  <2>2. \A p \in VarsOf(en, q) : p[1] # t => p \in VarsOf(en0, q)
    <3> HIDE DEF en0
    <3> QED
      BY <1>2 DEF VarsOf, Given
  <2>3. q \notin On(m, t) => q \notin On(l, t)
    BY <1>5 DEF On
  <2>4. ASSUME q \in Made, m.rc[q] > C(q) PROVE l.rc[q] > C0(q)
    <3>1. C0(q) = IF q = o THEN C(q) - 1 ELSE C(q)
      BY <1>4, <2>4
    <3>2. l.rc[q] = IF m.last[cur] # o /\ q = o THEN m.rc[q] - 1 ELSE m.rc[q]
      BY <1>7, <2>1
    <3>3. m.rc[q] \in Int
      BY <1>1, <2>1, HeapParts
    <3> HIDE DEF C, C0, o
    <3> QED
      BY <1>3, <2>4, <3>1, <3>2, <3>3
  <2>5. PlacesIn(l, en0, q) = PlacesIn(m, en0, q)
    BY <1>8
  <2> HIDE DEF en0
  <2> QED
    BY <1>13, <2>1, <2>2, <2>3, <2>4, <2>5 DEF Safe
<1>11. CASE ~Spent(m, o, cur)
  <2>1. n = l
    BY <1>11 DEF object_refcount_down, l
  <2>2. ASSUME NEW x \in Obj, Live(l, x), Kept(m, x) PROVE Kept(l, x)
    <3>1. CASE m.last[cur] # o /\ x = o
      <4>1. m.rc[o] > 1
        BY <1>6, <1>10, <1>11, <3>1
      <4> QED
        BY <1>6, <1>7, <3>1, <4>1, <2>2 DEF Kept
    <3>2. CASE ~(m.last[cur] # o /\ x = o)
      BY <1>7, <2>2, <3>2 DEF Kept
    <3> QED
      BY <3>1, <3>2
  <2>3. m.kept \subseteq l.kept
    BY <1>5
  <2>4. Fallen(m, l, cur)
    BY <1>5, <2>2, <2>3 DEF Fallen, Live, On
  <2> QED
    BY <1>9, <1>13, <2>1, <2>4
<1>12. CASE Spent(m, o, cur)
  <2>1. n = Unlisted(g, o, cur)
    BY <1>12 DEF object_refcount_down, g, l
  <2>2. Live(l, o) /\ l.rc[o] = 0
    BY <1>1, <1>5, <1>6, <1>7, <1>10, <1>12 DEF Live
  <2>3. PlacesIn(l, en0, o) = {}
    <3>1. C0(o) = 0
      <4>1. C0(o) = C(o) - 1
        BY <1>1, <1>4
      <4>2. m.rc[o] = 1 /\ m.rc[o] >= C(o)
        BY <1>6, <1>10, <1>12 DEF Due
      <4> HIDE DEF C, C0, o
      <4> QED
        BY <1>3, <4>1, <4>2
    <3> QED
      BY <1>1, <1>8, <3>1, PlacesFinite, FS_EmptySet
  <2>4. Dealloced(l, en0, o, cur, g)
    <3>1. o \in Ary \/ o \in Str
      BY <1>1 DEF Made
    <3> HIDE DEF o, en0
    <3> QED
      BY <1>9, <2>2, <3>1, DeallocArray, DeallocString
  <2> HIDE DEF g
  <2>5. g \in Heap /\ g.stk[cur] \in Seq(Obj) /\ IsInjective(g.stk[cur])
    BY <2>4, HeapParts DEF Dealloced, Taken, Thinner
  <2>6. Without(g.stk[cur], o) \in Seq(Obj) /\ Thinner(Without(g.stk[cur], o), g.stk[cur])
        /\ In(Without(g.stk[cur], o)) = In(g.stk[cur]) \ {o}
    <3> HIDE DEF o
    <3> QED
      BY <2>5, WithoutThins
  <2>7. /\ n \in Heap /\ n.stk = [g.stk EXCEPT ![cur] = Without(@, o)]
        /\ n.st = g.st /\ n.rc = g.rc /\ n.elems = g.elems /\ n.last = g.last /\ n.kept = g.kept
    <3> HIDE DEF o, n
    <3> QED
      BY <1>1, <2>1, <2>5, <2>6, UnlistedParts
  <2> HIDE DEF n
  <2>8. Cut(g, cur, o, n)
    <3>1. n.stk[cur] = Without(g.stk[cur], o) /\ \A c \in Block : c # cur => n.stk[c] = g.stk[c]
      BY <2>5, <2>7, HeapParts
    <3> HIDE DEF o
    <3> QED
      BY <2>6, <2>7, <3>1 DEF Cut, On
  <2>9. ASSUME NEW x \in Obj, Live(l, x), ~Live(n, x) PROVE x \in On(l, cur)
    <3>1. n.st[x] = "freed" /\ Live(m, x)
      BY <1>5, <2>4, <2>7, <2>9 DEF Dealloced, Taken, Live
    <3>2. Maker(m, x) = {cur}
      BY <3>1 DEF Gone, Live, n
    <3>3. x \in On(m, cur)
      BY <1>1, <3>2, MakerIs DEF Sound
    <3> QED
      BY <1>5, <3>3 DEF On
  <2>10. /\ Sound(n, en0) /\ Taken(l, n, cur)
         /\ \A q : Safe(l, en0, cur, q) => Safe(n, en0, cur, q)
    <3>1. l.rc[o] <= 0
      BY <2>2
    <3> HIDE DEF o, en0
    <3> QED
      BY <1>1, <1>9, <2>2, <2>3, <2>4, <2>8, <2>9, <3>1, CutSound
  <2>11. Fallen(m, n, cur)
    <3>1. ~Live(n, o)
      BY <2>4, <2>7 DEF Dealloced, Live
    <3>2. ASSUME NEW x \in Obj, Live(n, x), Kept(m, x) PROVE Kept(n, x)
      <4>1. Kept(l, x)
        BY <1>7, <3>1, <3>2 DEF Kept
      <4> QED
        BY <2>10, <3>2, <4>1 DEF Taken
    <3>3. /\ n.elems = m.elems /\ n.last = m.last /\ m.kept \subseteq n.kept
          /\ \A x \in Obj : n.st[x] = m.st[x] \/ (Live(m, x) /\ n.st[x] = "freed")
      BY <1>5, <2>10 DEF Taken, Live
    <3>4. \A b \in Block : On(n, b) \subseteq On(m, b)
      BY <1>5, <2>10 DEF Taken, Thinner, On
    <3> QED
      BY <2>7, <3>2, <3>3, <3>4 DEF Fallen
  <2> QED
    BY <1>13, <2>10, <2>11 DEF n
<1> QED
  BY <1>11, <1>12

\* `last' and kept are of no account.
Alike(m, h) == /\ h \in Heap /\ h.st = m.st /\ h.rc = m.rc /\ h.elems = m.elems /\ h.stk = m.stk
               /\ m.kept \subseteq h.kept

LEMMA AlikeSound ==
  ASSUME NEW m, NEW en, Sound(m, en), NEW h, Alike(m, h)
  PROVE  /\ Sound(h, en)
         /\ \A b \in Block : \A q : Safe(m, en, b, q) => Safe(h, en, b, q)
         /\ \A b \in Block : On(h, b) = On(m, b)
         /\ \A x : (Live(h, x) <=> Live(m, x)) /\ (Kept(h, x) <=> Kept(m, x))
<1>1. \A x : PlacesIn(h, en, x) = PlacesIn(m, en, x)
  BY DEF PlacesIn, Alike, Live
<1>2. \A x : (Live(h, x) <=> Live(m, x)) /\ (Kept(h, x) <=> Kept(m, x))
  BY DEF Live, Kept, Alike
<1>3. \A b \in Block : On(h, b) = On(m, b)
  BY DEF On, Alike
<1>4. Counted(h, en)
  BY <1>1, <1>2 DEF Alike, Sound, Counted, Due
<1>5. Tables(h, en)
  BY <1>2 DEF Sound, Tables
<1>6. Sound(h, en)
  BY <1>4, <1>5, SoundWith DEF Alike
<1>7. \A b \in Block : \A q : Safe(m, en, b, q) => Safe(h, en, b, q)
  BY <1>1, <1>2, <1>3 DEF Safe, Alike
<1> QED
  BY <1>2, <1>3, <1>6, <1>7

LEMMA LastAlike ==
  ASSUME NEW m \in Heap, NEW b \in Block, NEW x \in Obj \cup {None}
  PROVE  Alike(m, [m EXCEPT !.last[b] = x])
<1> DEFINE l == [m.last EXCEPT ![b] = x]
<1>1. l \in [Block -> Obj \cup {None}] /\ m.kept \subseteq Obj
  BY HeapParts
<1> HIDE DEF l
<1>2. Alike(m, [m EXCEPT !.last = l])
  BY <1>1 DEF Alike, Heap
<1>3. [m EXCEPT !.last[b] = x] = [m EXCEPT !.last = l]
  BY DEF l, Heap
<1> QED
  BY <1>2, <1>3

Noted(m, b, x, K, g) == g = [m EXCEPT !.last[b] = x, !.kept = @ \cup K]

LEMMA KeptAlike ==
  ASSUME NEW m \in Heap, NEW b \in Block, NEW x \in Obj \cup {None}, NEW K \in SUBSET Obj,
         NEW g, Noted(m, b, x, K, g)
  PROVE  Alike(m, g) /\ g.kept = m.kept \cup K
<1> DEFINE l == [m.last EXCEPT ![b] = x]
           k == m.kept \cup K
<1>1. l \in [Block -> Obj \cup {None}] /\ k \subseteq Obj /\ m.kept \subseteq k
  BY HeapParts
<1>2. g = [m EXCEPT !.last = l, !.kept = k]
  BY DEF l, Noted, Heap
<1> HIDE DEF l, k
<1>3. Alike(m, [m EXCEPT !.last = l, !.kept = k]) /\ [m EXCEPT !.last = l, !.kept = k].kept = k
  BY <1>1 DEF Alike, Heap
<1> QED
  BY <1>2, <1>3 DEF k

LEMMA UpSound ==
  ASSUME NEW m, NEW en, Sound(m, en), NEW t \in Block, NEW v \in Var, en[t][v] = None,
         NEW x \in Obj, Live(m, x), v = Parm => t = "method" /\ (x \in Lit \/ x \in m.kept),
         NEW en1, Given(en, t, v, x, en1)
  PROVE  /\ Sound(CountUp(m, x), en1)
         /\ Fallen(m, CountUp(m, x), t)
         /\ CountUp(m, x).st = m.st /\ CountUp(m, x).stk = m.stk
         /\ v = Parm => Safe(CountUp(m, x), en1, "method", x)
         /\ v # Parm => \A q : Safe(m, en, t, q) => Safe(CountUp(m, x), en1, t, q)
<1> DEFINE h == CountUp(m, x)
           C(o) == Cardinality(PlacesIn(m, en, o))
           C1(o) == Cardinality(PlacesIn(m, en1, o))
<1>1. m \in Heap
  BY DEF Sound
<1>2. /\ h \in Heap /\ h.st = m.st /\ h.elems = m.elems /\ h.stk = m.stk /\ h.last = m.last
      /\ h.kept = m.kept
      /\ \A o \in Obj : h.rc[o] = IF o = x /\ m.rc[x] # GC_NEVER_FREE THEN m.rc[o] + 1 ELSE m.rc[o]
  <2>1. CASE m.rc[x] = GC_NEVER_FREE
    BY <1>1, <2>1 DEF CountUp
  <2>2. CASE m.rc[x] # GC_NEVER_FREE
    <3>1. h = Add(m, x, 1)
      BY <2>2 DEF CountUp, Add
    <3> HIDE DEF h
    <3>2. /\ Add(m, x, 1) \in Heap
          /\ Add(m, x, 1).rc = [m.rc EXCEPT ![x] = @ + 1]
          /\ Add(m, x, 1).st = m.st /\ Add(m, x, 1).elems = m.elems /\ Add(m, x, 1).stk = m.stk
          /\ Add(m, x, 1).last = m.last /\ Add(m, x, 1).kept = m.kept
      BY <1>1, AddParts
    <3>3. \A o \in Obj : [m.rc EXCEPT ![x] = @ + 1][o] = IF o = x THEN m.rc[o] + 1 ELSE m.rc[o]
      BY <1>1, HeapParts
    <3> QED
      BY <2>2, <3>1, <3>2, <3>3
  <2> QED
    BY <2>1, <2>2
<1> HIDE DEF h
<1>3. \A o : C(o) \in Nat /\ C1(o) \in Nat
  BY <1>1, PlacesFinite
<1>4. \A o \in Obj : m.rc[o] \in Int /\ h.rc[o] \in Int
  BY <1>1, <1>2, HeapParts
<1>5. ASSUME NEW o \in Obj PROVE C1(o) = IF o = x /\ v # Parm THEN C(o) + 1 ELSE C(o)
  <2>1. CASE v = Parm
    BY <2>1, PlacesOfParm
  <2>2. CASE v # Parm
    <3>1. /\ o # x => PlacesIn(m, en1, o) = PlacesIn(m, en, o) \ {<<t, v>>}
          /\ o = x => PlacesIn(m, en1, o) = PlacesIn(m, en, o) \cup {<<t, v>>}
          /\ o # en[t][v] => <<t, v>> \notin PlacesIn(m, en, o)
      <4>1. t \in Block /\ v \in Var \ {Parm} /\ Given(en, t, v, x, en1)
        BY <2>2
      <4> QED
        BY ONLY <4>1, PlacesGiven
    <3>2. <<t, v>> \notin PlacesIn(m, en, o)
      BY <3>1, Kinds
    <3>3. IsFiniteSet(PlacesIn(m, en, o))
      BY <1>1, PlacesFinite
    <3>4. CASE o = x
      BY <2>2, <3>1, <3>2, <3>3, <3>4, FS_AddElement
    <3>5. CASE o # x
      <4>1. PlacesIn(m, en1, o) = PlacesIn(m, en, o)
        BY <3>1, <3>2, <3>5
      <4> QED
        BY <3>5, <4>1
    <3> QED
      BY <3>4, <3>5
  <2> QED
    BY <2>1, <2>2
<1>6. \A o : PlacesIn(h, en1, o) = PlacesIn(m, en1, o)
  BY <1>2 DEF PlacesIn, Live
<1>7. x \in Lit => m.rc[x] = GC_NEVER_FREE
  BY DEF Sound, Pinned
<1>8. ASSUME NEW o \in Made, Live(m, o)
      PROVE  Due(h.rc[o], C1(o), o \in h.kept) /\ (o = x => h.rc[o] = m.rc[o] + 1) /\ m.rc[o] >= C(o)
  <2>1. o \in Obj /\ Due(m.rc[o], C(o), o \in m.kept)
    BY <1>8, Kinds DEF Sound, Counted
  <2>2. m.rc[o] # GC_NEVER_FREE /\ m.rc[o] >= C(o)
    <3> HIDE DEF C
    <3> QED
      BY <1>3, <1>4, <2>1 DEF Due, GC_NEVER_FREE
  <2>3. h.rc[o] = IF o = x THEN m.rc[o] + 1 ELSE m.rc[o]
    BY <1>2, <2>1, <2>2
  <2>4. C1(o) = IF o = x /\ v # Parm THEN C(o) + 1 ELSE C(o)
    BY <1>5, <2>1
  <2>5. o = x /\ v = Parm => o \in h.kept
    BY <1>2, Kinds
  <2>6. o \in m.kept => o \in h.kept
    BY <1>2
  <2> HIDE DEF C, C1
  <2> QED
    BY <1>3, <1>4, <2>1, <2>2, <2>3, <2>4, <2>5, <2>6 DEF Due
<1>9. Counted(h, en1)
  BY <1>2, <1>6, <1>8 DEF Counted, Live
<1>10. Tables(h, en1)
  <2>1. en1 \in Tabled /\ en1[t][v] = x
    BY DEF Given
  <2>2. en1["main"][Parm] = None /\ en1["inner"][Parm] = None
    BY Kinds DEF Given, Sound, Tables
  <2>3. \A u \in Block, y \in Var \ {Parm} : en1[u][y] # None => Live(h, en1[u][y])
    BY <1>2 DEF Given, Sound, Tables, Live
  <2> QED
    BY <2>1, <2>2, <2>3 DEF Tables
<1>11. \A o \in Obj : o \in Lit \/ m.st[o] = "unborn" => h.rc[o] = m.rc[o]
  BY <1>2, <1>7 DEF Live
<1>12. Sound(h, en1)
  BY <1>2, <1>9, <1>10, <1>11, SoundWith
<1>13. Fallen(m, h, t)
  <2>1. \A o \in Obj : Kept(m, o) => Kept(h, o)
    BY <1>2, <1>4 DEF Kept
  <2> QED
    BY <1>2, <2>1 DEF Fallen, On
<1>14. ASSUME v = Parm PROVE Safe(h, en1, "method", x)
  <2>1. x \in Obj /\ Live(h, x)
    BY <1>2 DEF Live
  <2>2. CASE x \in Lit
    BY <2>1, <2>2 DEF Safe
  <2>3. CASE x \in Made
    <3>1. h.rc[x] = m.rc[x] + 1 /\ m.rc[x] >= C(x)
      BY <1>8, <2>3
    <3>2. C1(x) = C(x)
      BY <1>5, <1>14
    <3>3. h.rc[x] > C1(x)
      <4> HIDE DEF C, C1
      <4> QED
        BY <1>3, <1>4, <3>1, <3>2
    <3> QED
      BY <1>6, <2>1, <3>3 DEF Safe
  <2> QED
    BY <2>2, <2>3 DEF Obj
<1>15. ASSUME v # Parm, NEW q, Safe(m, en, t, q) PROVE Safe(h, en1, t, q)
  <2>1. q \in Obj /\ Live(h, q) /\ (q \in Lit \/ (q \in Made /\ Live(m, q)))
    BY <1>2, <1>15 DEF Safe, Obj, Live
  <2>2. \A p \in VarsOf(en, q) : p[1] # t => p \in VarsOf(en1, q)
    BY DEF VarsOf, Given
  <2>3. q \notin On(m, t) => q \notin On(h, t)
    BY <1>2 DEF On
  <2>4. ASSUME q \in Made, Live(m, q), m.rc[q] > C(q) PROVE h.rc[q] > C1(q)
    <3>1. C1(q) = IF q = x THEN C(q) + 1 ELSE C(q)
      BY <1>5, <1>15, <2>1
    <3>2. h.rc[q] >= m.rc[q] /\ (q = x => h.rc[q] = m.rc[q] + 1)
      BY <1>2, <1>4, <1>8, <2>1, <2>4
    <3>3. m.rc[q] \in Int /\ h.rc[q] \in Int
      BY <1>4, <2>1
    <3> HIDE DEF C, C1
    <3> QED
      BY <1>3, <2>4, <3>1, <3>2, <3>3
  <2> QED
    BY <1>6, <1>15, <2>1, <2>2, <2>3, <2>4 DEF Safe
<1> QED
  BY <1>2, <1>12, <1>13, <1>14, <1>15 DEF h

----------------------------------------------------------------------------
(***************************************************************************)
(* Right sides.  Each leaves the heap in order, and what was in use.       *)
(***************************************************************************)
Onward(m, en, h) == /\ Sound(h, en)
                    /\ \A o \in Obj : Live(m, o) => Live(h, o)
                    /\ \A q : Safe(m, en, "method", q) => Safe(h, en, "method", q)

LEMMA AlikeOnward ==
  ASSUME NEW m, NEW en, Sound(m, en), NEW h, Alike(m, h) PROVE Onward(m, en, h)
BY AlikeSound, Kinds DEF Onward

LEMMA OnwardStill ==
  ASSUME NEW m, NEW en, NEW h, NEW g, Onward(m, en, h), Onward(h, en, g) PROVE Onward(m, en, g)
BY DEF Onward

\* A new object is listed last.
Newborn(m, b, o, h) ==
  /\ h \in Heap /\ h.st[o] = "live" /\ \A x \in Obj : x # o => h.st[x] = m.st[x]
  /\ h.rc = m.rc /\ h.elems = m.elems /\ h.kept = m.kept
  /\ h.stk[b] = Append(m.stk[b], o) /\ \A c \in Block : c # b => h.stk[c] = m.stk[c]

LEMMA BornParts ==
  ASSUME NEW m \in Heap, NEW b \in Block, NEW o \in Obj
  PROVE  Newborn(m, b, o, [m EXCEPT !.st[o] = "live", !.stk[b] = Append(@, o)])
<1> DEFINE st  == [m.st EXCEPT ![o] = "live"]
           stk == [m.stk EXCEPT ![b] = Append(@, o)]
<1>1. m.st \in [Obj -> {"unborn", "live", "freed"}] /\ m.stk \in [Block -> Seq(Obj)]
  BY HeapParts
<1>2. st \in [Obj -> {"unborn", "live", "freed"}] /\ st[o] = "live"
      /\ \A x \in Obj : x # o => st[x] = m.st[x]
  BY <1>1
<1>3. stk \in [Block -> Seq(Obj)] /\ stk[b] = Append(m.stk[b], o)
      /\ \A c \in Block : c # b => stk[c] = m.stk[c]
  BY <1>1
<1>4. [m EXCEPT !.st[o] = "live", !.stk[b] = Append(@, o)] = [m EXCEPT !.st = st, !.stk = stk]
  BY DEF Heap
<1> HIDE DEF st, stk
<1>5. Newborn(m, b, o, [m EXCEPT !.st = st, !.stk = stk])
  BY <1>2, <1>3 DEF Newborn, Heap
<1> QED
  BY <1>4, <1>5

LEMMA BornSound ==
  ASSUME NEW m, NEW en, Sound(m, en), NEW b \in Block, NEW o \in Made, m.st[o] = "unborn",
         NEW h, Newborn(m, b, o, h)
  PROVE  Onward(m, en, h) /\ Live(h, o) /\ \A c \in Block : c # b => o \notin On(h, c)
<1>1. m \in Heap /\ h \in Heap /\ o \in Obj /\ o \notin Lit /\ o # None
  BY Kinds DEF Sound, Newborn
<1>2. \A x \in Obj : x # o => (Live(h, x) <=> Live(m, x)) /\ h.st[x] = m.st[x]
  BY DEF Newborn, Live
<1>3. Live(h, o) /\ ~Live(m, o)
  BY DEF Newborn, Live
<1>4. m.stk \in [Block -> Seq(Obj)] /\ m.elems \in [Ary -> Seq(Obj)]
  BY <1>1, HeapParts
<1>5. \A c \in Block : o \notin On(m, c)
  BY <1>3 DEF Sound, Listed
<1>6. /\ On(h, b) = On(m, b) \cup {o} /\ IsInjective(h.stk[b])
      /\ \A c \in Block : c # b => On(h, c) = On(m, c) /\ h.stk[c] = m.stk[c]
  <2>1. m.stk[b] \in Seq(Obj) /\ h.stk[b] = Append(m.stk[b], o) /\ IsInjective(m.stk[b])
    BY <1>4 DEF Newborn, Sound, Listed, Apart
  <2>2. /\ DOMAIN h.stk[b] = DOMAIN m.stk[b] \cup {Len(m.stk[b]) + 1}
        /\ \A k \in DOMAIN m.stk[b] : h.stk[b][k] = m.stk[b][k]
        /\ h.stk[b][Len(m.stk[b]) + 1] = o
    BY <2>1
  <2>3. On(h, b) = On(m, b) \cup {o}
    BY <2>2 DEF On, In
  <2>4. \A k \in DOMAIN m.stk[b] : m.stk[b][k] # o
    BY <1>5 DEF On, In
  <2>5. IsInjective(h.stk[b])
    BY <2>1, <2>2, <2>4 DEF IsInjective
  <2> QED
    BY <2>3, <2>5 DEF Newborn, On
<1>7. Listed(h)
  <2>1. \A c \in Block : IsInjective(h.stk[c])
    BY <1>6 DEF Sound, Listed, Apart
  <2>2. \A c, d \in Block : c # d => On(h, c) \cap On(h, d) = {}
    BY <1>5, <1>6 DEF Sound, Listed, Apart
  <2>3. \A c \in Block : \A x \in On(h, c) : Live(h, x)
    <3>1. \A c \in Block : \A x \in On(m, c) : x \in Obj
      BY <1>4 DEF On, In
    <3> QED
      BY <1>2, <1>3, <1>6, <3>1 DEF Sound, Listed
  <2>4. \A x \in Obj : Live(h, x) => \E c \in Block : x \in On(h, c)
    BY <1>2, <1>6 DEF Sound, Listed
  <2> QED
    BY <2>1, <2>2, <2>3, <2>4 DEF Listed, Apart
<1>8. Pinned(h)
  BY <1>1, <1>2, Kinds DEF Newborn, Sound, Pinned
<1>9. Fresh(h)
  <2>1. \A x \in Made : h.st[x] = "unborn" => m.st[x] = "unborn"
    BY <1>2, <1>3, Kinds DEF Live
  <2> QED
    BY <2>1 DEF Newborn, Sound, Fresh
<1>10. h.elems = m.elems /\ (o \in Ary => m.elems[o] = <<>>) /\ m.rc[o] = 0
  BY DEF Newborn, Sound, Fresh
<1>11. Filled(h)
  <2> SUFFICES ASSUME NEW a \in Ary, NEW k \in DOMAIN h.elems[a]
               PROVE  h.elems[a][k] \in Str /\ (Live(h, a) => Live(h, h.elems[a][k]))
    BY DEF Filled
  <2>1. a # o
    BY <1>10
  <2>2. m.elems[a][k] \in Str /\ (Live(m, a) => Live(m, m.elems[a][k]))
    BY <1>10 DEF Sound, Filled
  <2> QED
    BY <1>2, <1>3, <1>10, <2>1, <2>2, Kinds
<1>12. ASSUME NEW x PROVE PlacesIn(h, en, x) = PlacesIn(m, en, x)
  <2>1. o \in Ary => Pairs(o, m.elems[o], 0, x) = {}
    BY <1>10 DEF Pairs
  <2>2. \A a \in Ary : Live(h, a) <=> Live(m, a) \/ a = o
    BY <1>2, <1>3, Kinds
  <2>3. UNION {Pairs(a, m.elems[a], 0, x) : a \in {c \in Ary : Live(h, c)}}
          = UNION {Pairs(a, m.elems[a], 0, x) : a \in {c \in Ary : Live(m, c)}}
    BY <2>1, <2>2
  <2> QED
    BY <1>10, <2>3 DEF PlacesIn
<1>13. PlacesIn(m, en, o) = {}
  <2>1. VarsOf(en, o) = {}
    BY <1>1, <1>3 DEF VarsOf, Sound, Tables
  <2>2. \A a \in {c \in Ary : Live(m, c)} : Pairs(a, m.elems[a], 0, o) = {}
    BY <1>3 DEF Sound, Filled, Pairs
  <2> QED
    BY <2>1, <2>2 DEF PlacesIn
<1>14. Counted(h, en)
  <2> SUFFICES ASSUME NEW x \in Made, Live(h, x)
               PROVE  Due(h.rc[x], Cardinality(PlacesIn(h, en, x)), x \in h.kept)
    BY DEF Counted
  <2>1. CASE x = o
    <3>1. h.rc[x] = 0
      BY <1>10, <2>1 DEF Newborn
    <3>2. Cardinality(PlacesIn(h, en, x)) = 0
      BY <1>12, <1>13, <2>1, FS_EmptySet
    <3> QED
      BY <3>1, <3>2 DEF Due
  <2>2. CASE x # o
    <3>1. Live(m, x)
      BY <1>2, <2>2, Kinds
    <3> QED
      BY <1>12, <3>1 DEF Newborn, Sound, Counted
  <2> QED
    BY <2>1, <2>2
<1>15. Tables(h, en)
  BY <1>2, <1>3, Kinds DEF Sound, Tables, Tabled
<1>16. Sound(h, en)
  BY <1>1, <1>7, <1>8, <1>9, <1>11, <1>14, <1>15 DEF Sound
<1>17. \A x \in Obj : Live(m, x) => Live(h, x)
  BY <1>2, <1>3
<1>18. ASSUME NEW q, Safe(m, en, "method", q) PROVE Safe(h, en, "method", q)
  <2>1. q \in Obj /\ Live(m, q) /\ q # o
    BY <1>3, <1>18 DEF Safe
  <2>2. q \notin On(m, "method") => q \notin On(h, "method")
    BY <1>6, <2>1, Kinds
  <2> QED
    BY <1>12, <1>17, <1>18, <2>1, <2>2 DEF Safe, Newborn
<1> QED
  BY <1>3, <1>5, <1>6, <1>16, <1>17, <1>18 DEF Onward

\* An array gets other elements; the count of e follows.
Restocked(m, a, s, e, d, h) ==
  /\ h \in Heap /\ h.st = m.st /\ h.stk = m.stk /\ h.kept = m.kept
  /\ h.elems[a] = s /\ \A c \in Ary : c # a => h.elems[c] = m.elems[c]
  /\ h.rc[e] = m.rc[e] + d /\ \A x \in Obj : x # e => h.rc[x] = m.rc[x]

LEMMA RestockParts ==
  ASSUME NEW m \in Heap, NEW a \in Ary, NEW s \in Seq(Obj), NEW e \in Obj, NEW d \in Int
  PROVE  Restocked(m, a, s, e, d, Add([m EXCEPT !.elems[a] = s], e, d))
<1> DEFINE l == [m.elems EXCEPT ![a] = s]
           g == [m EXCEPT !.elems = l]
<1>1. m.elems \in [Ary -> Seq(Obj)] /\ m.rc \in [Obj -> Int]
  BY HeapParts
<1>2. l \in [Ary -> Seq(Obj)] /\ l[a] = s /\ \A c \in Ary : c # a => l[c] = m.elems[c]
  BY <1>1
<1>3. [m EXCEPT !.elems[a] = s] = g
  BY DEF Heap
<1> HIDE DEF l
<1>4. g \in Heap /\ g.elems = l /\ g.st = m.st /\ g.stk = m.stk /\ g.kept = m.kept /\ g.rc = m.rc
  BY <1>2 DEF Heap
<1> HIDE DEF g
<1>5. /\ Add(g, e, d) \in Heap
      /\ Add(g, e, d).rc = [g.rc EXCEPT ![e] = @ + d]
      /\ Add(g, e, d).st = g.st /\ Add(g, e, d).elems = g.elems /\ Add(g, e, d).stk = g.stk
      /\ Add(g, e, d).kept = g.kept
  BY <1>4, AddParts
<1>6. [g.rc EXCEPT ![e] = @ + d][e] = g.rc[e] + d
      /\ \A x \in Obj : x # e => [g.rc EXCEPT ![e] = @ + d][x] = g.rc[x]
  BY <1>1, <1>4
<1>7. Restocked(m, a, s, e, d, Add(g, e, d))
  BY <1>2, <1>4, <1>5, <1>6 DEF Restocked
<1> QED
  BY <1>3, <1>7

\* e is once more (less) among the elements.
Differs(a, t, s, e, d) ==
  \A o : Cardinality(Pairs(a, t, 0, o)) = Cardinality(Pairs(a, s, 0, o)) + (IF o = e THEN d ELSE 0)

LEMMA RestockSound ==
  ASSUME NEW m, NEW en, Sound(m, en), NEW a \in Ary, Live(m, a), NEW e \in Str, Live(m, e),
         NEW d \in Int, NEW s \in Seq(Str), \A k \in DOMAIN s : Live(m, s[k]),
         Differs(a, s, m.elems[a], e, d), NEW h, Restocked(m, a, s, e, d, h)
  PROVE  Onward(m, en, h)
<1> DEFINE C(o)  == Cardinality(PlacesIn(m, en, o))
           C1(o) == Cardinality(PlacesIn(h, en, o))
<1>1. m \in Heap /\ h \in Heap /\ e \in Made /\ e \notin Lit /\ e \in Obj
  BY Kinds DEF Sound, Restocked
<1>2. /\ \A x : Live(h, x) <=> Live(m, x)
      /\ \A b \in Block : On(h, b) = On(m, b)
  BY DEF Restocked, Live, On
<1>3. \A o : C(o) \in Nat /\ C1(o) \in Nat
  BY <1>1, PlacesFinite
<1>4. ASSUME NEW o PROVE C1(o) = C(o) + (IF o = e THEN d ELSE 0)
  <2> DEFINE R == VarsOf(en, o) \cup Elsewhere(m, a, o)
  <2>1. PlacesIn(m, en, o) = R \cup Pairs(a, m.elems[a], 0, o)
    BY DEF PlacesIn, Elsewhere
  <2>2. PlacesIn(h, en, o) = R \cup Pairs(a, s, 0, o)
    <3>1. {b \in Ary : Live(h, b)} = ({c \in Ary : Live(m, c)} \ {a}) \cup {a}
      BY <1>2
    <3>2. \A b \in {c \in Ary : Live(m, c)} \ {a} : h.elems[b] = m.elems[b]
      BY DEF Restocked
    <3>3. h.elems[a] = s
      BY DEF Restocked
    <3> QED
      BY <3>1, <3>2, <3>3 DEF PlacesIn, Elsewhere
  <2>3. \A k : <<a, k>> \notin R
    BY Kinds DEF VarsOf, Elsewhere, Pairs
  <2>4. R \cap Pairs(a, s, 0, o) = {} /\ R \cap Pairs(a, m.elems[a], 0, o) = {}
    BY <2>3 DEF Pairs
  <2>5. IsFiniteSet(PlacesIn(m, en, o))
    BY <1>1, PlacesFinite
  <2> HIDE DEF R
  <2>6. IsFiniteSet(R)
    BY <2>1, <2>5, FS_Subset
  <2>7. IsFiniteSet(Pairs(a, s, 0, o)) /\ IsFiniteSet(Pairs(a, m.elems[a], 0, o))
    <3>1. m.elems[a] \in Seq(Obj)
      BY <1>1, HeapParts
    <3> QED
      BY <3>1, PairsFinite
  <2>8. Cardinality({}) = 0
    BY FS_EmptySet
  <2>9. C(o) = Cardinality(R) + Cardinality(Pairs(a, m.elems[a], 0, o)) - 0
    BY <2>1, <2>4, <2>6, <2>7, <2>8, FS_Union
  <2>10. C1(o) = Cardinality(R) + Cardinality(Pairs(a, s, 0, o)) - 0
    BY <2>2, <2>4, <2>6, <2>7, <2>8, FS_Union
  <2>11. /\ Cardinality(R) \in Nat /\ Cardinality(Pairs(a, s, 0, o)) \in Nat
         /\ Cardinality(Pairs(a, m.elems[a], 0, o)) \in Nat
    BY <2>6, <2>7, FS_CardinalityType
  <2>12. Cardinality(Pairs(a, s, 0, o))
           = Cardinality(Pairs(a, m.elems[a], 0, o)) + (IF o = e THEN d ELSE 0)
    BY DEF Differs
  <2> HIDE DEF C, C1
  <2> QED
    BY <2>9, <2>10, <2>11, <2>12
<1>5. \A o \in Obj : m.rc[o] \in Int /\ h.rc[o] = m.rc[o] + (IF o = e THEN d ELSE 0)
  BY <1>1, HeapParts DEF Restocked
<1>6. Counted(h, en)
  <2> SUFFICES ASSUME NEW o \in Made, Live(h, o) PROVE Due(h.rc[o], C1(o), o \in h.kept)
    BY DEF Counted
  <2>1. o \in Obj /\ Due(m.rc[o], C(o), o \in m.kept)
    BY <1>2, Kinds DEF Sound, Counted
  <2>2. C1(o) = C(o) + (IF o = e THEN d ELSE 0)
    BY <1>4
  <2>3. h.kept = m.kept
    BY DEF Restocked
  <2> HIDE DEF C, C1
  <2> QED
    BY <1>3, <1>5, <2>1, <2>2, <2>3 DEF Due
<1>7. Tables(h, en)
  BY <1>2 DEF Sound, Tables
<1>8. Listed(h)
  BY <1>2 DEF Restocked, Sound, Listed, Apart
<1>9. Pinned(h)
  BY <1>1, <1>2, Kinds DEF Restocked, Sound, Pinned
<1>10. Fresh(h)
  BY <1>1, Kinds DEF Restocked, Sound, Fresh, Live
<1>11. Filled(h)
  <2> SUFFICES ASSUME NEW c \in Ary, NEW k \in DOMAIN h.elems[c]
               PROVE  h.elems[c][k] \in Str /\ (Live(h, c) => Live(h, h.elems[c][k]))
    BY DEF Filled
  <2>1. CASE c = a
    BY <1>2, <2>1 DEF Restocked
  <2>2. CASE c # a
    BY <1>2, <2>2 DEF Restocked, Sound, Filled
  <2> QED
    BY <2>1, <2>2
<1>12. Sound(h, en)
  BY <1>1, <1>6, <1>7, <1>8, <1>9, <1>10, <1>11 DEF Sound
<1>13. ASSUME NEW q, Safe(m, en, "method", q) PROVE Safe(h, en, "method", q)
  <2>1. q \in Obj /\ Live(h, q) /\ On(h, "method") = On(m, "method")
    BY <1>2, <1>13, Kinds DEF Safe
  <2>2. m.rc[q] > C(q) => h.rc[q] > C1(q)
    <3>1. C1(q) = C(q) + (IF q = e THEN d ELSE 0)
      BY <1>4
    <3> HIDE DEF C, C1
    <3> QED
      BY <1>3, <1>5, <2>1, <3>1
  <2> QED
    BY <1>13, <2>1, <2>2 DEF Safe
<1> QED
  BY <1>2, <1>12, <1>13 DEF Onward

LEMMA FrontPairs ==
  ASSUME NEW a, NEW S, NEW s \in Seq(S), s # <<>>
  PROVE  /\ Front(s) \in Seq(S) /\ \A k \in DOMAIN Front(s) : k \in DOMAIN s /\ Front(s)[k] = s[k]
         /\ Differs(a, Front(s), s, s[Len(s)], -1)
<1>1. /\ Front(s) \in Seq(S) /\ Len(s) \in Nat \ {0} /\ DOMAIN s = 1..Len(s)
      /\ DOMAIN Front(s) = 1..(Len(s) - 1)
      /\ \A k \in 1..(Len(s) - 1) : Front(s)[k] = s[k]
  BY DEF Front
<1>2. \A k \in DOMAIN s : k # Len(s) <=> k \in DOMAIN Front(s)
  BY <1>1
<1>3. ASSUME NEW o
      PROVE  Cardinality(Pairs(a, Front(s), 0, o))
               = Cardinality(Pairs(a, s, 0, o)) + (IF o = s[Len(s)] THEN -1 ELSE 0)
  <2>3. Pairs(a, Front(s), 0, o) = Pairs(a, s, 0, o) \ {<<a, Len(s)>>}
    BY <1>1, <1>2 DEF Pairs
  <2>4. <<a, Len(s)>> \in Pairs(a, s, 0, o) <=> o = s[Len(s)]
    BY <1>1 DEF Pairs
  <2>5. IsFiniteSet(Pairs(a, s, 0, o))
    BY PairsFinite
  <2>6. Cardinality(Pairs(a, s, 0, o)) \in Nat
    BY <2>5, FS_CardinalityType
  <2>7. Cardinality(Pairs(a, Front(s), 0, o))
          = IF <<a, Len(s)>> \in Pairs(a, s, 0, o) THEN Cardinality(Pairs(a, s, 0, o)) - 1
            ELSE Cardinality(Pairs(a, s, 0, o))
    BY ONLY <2>3, <2>5, FS_RemoveElement
  <2> QED
    BY <2>4, <2>6, <2>7
<1> QED
  BY <1>1, <1>2, <1>3 DEF Differs

LEMMA TailPairs ==
  ASSUME NEW a, NEW S, NEW s \in Seq(S), s # <<>>
  PROVE  /\ Tail(s) \in Seq(S)
         /\ \A k \in DOMAIN Tail(s) : k + 1 \in DOMAIN s /\ Tail(s)[k] = s[k + 1]
         /\ Differs(a, Tail(s), s, s[1], -1)
<1>1. /\ Tail(s) \in Seq(S) /\ Len(s) \in Nat \ {0} /\ DOMAIN s = 1..Len(s)
      /\ DOMAIN Tail(s) = 1..(Len(s) - 1)
      /\ \A k \in 1..(Len(s) - 1) : Tail(s)[k] = s[k+1]
  OBVIOUS
<1>2. \A k \in DOMAIN s : k # 1 <=> k - 1 \in DOMAIN Tail(s)
  BY <1>1
<1>3. ASSUME NEW o
      PROVE  Cardinality(Pairs(a, Tail(s), 0, o))
               = Cardinality(Pairs(a, s, 0, o)) + (IF o = s[1] THEN -1 ELSE 0)
  <2> DEFINE T == Pairs(a, s, 0, o) \ {<<a, 1>>}
             f == [p \in Pairs(a, Tail(s), 0, o) |-> <<a, p[2] + 1>>]
  <2>3. IsFiniteSet(Pairs(a, s, 0, o)) /\ IsFiniteSet(Pairs(a, Tail(s), 0, o))
    BY <1>1, PairsFinite
  <2>4. f \in Bijection(Pairs(a, Tail(s), 0, o), T)
    <3>1. ASSUME NEW p \in Pairs(a, Tail(s), 0, o) PROVE f[p] \in T
      BY <1>1 DEF Pairs
    <3>2. ASSUME NEW p \in Pairs(a, Tail(s), 0, o), NEW q \in Pairs(a, Tail(s), 0, o), f[p] = f[q]
          PROVE  p = q
      BY <1>1, <3>2 DEF Pairs
    <3>3. ASSUME NEW t \in T PROVE \E p \in Pairs(a, Tail(s), 0, o) : f[p] = t
      <4>1. PICK k \in DOMAIN s : t = <<a, k>> /\ s[k] = o
        BY DEF Pairs
      <4>2. k # 1 /\ k - 1 \in DOMAIN Tail(s) /\ Tail(s)[k - 1] = o
        BY <1>1, <1>2, <4>1
      <4>3. <<a, k - 1>> \in Pairs(a, Tail(s), 0, o)
        BY <1>1, <4>2 DEF Pairs
      <4>4. f[<<a, k - 1>>] = t
        BY <1>1, <4>1, <4>3
      <4> QED
        BY <4>3, <4>4
    <3>4. f \in [Pairs(a, Tail(s), 0, o) -> T]
      BY <3>1
    <3> HIDE DEF f, T
    <3> QED
      BY <3>2, <3>3, <3>4 DEF Bijection, Injection, Surjection, IsInjective
  <2>5. Cardinality(T) = Cardinality(Pairs(a, Tail(s), 0, o))
    <3> HIDE DEF f, T
    <3> QED
      BY <2>3, <2>4, FS_Bijection DEF ExistsBijection
  <2>6. Cardinality(T) = IF <<a, 1>> \in Pairs(a, s, 0, o) THEN Cardinality(Pairs(a, s, 0, o)) - 1
                         ELSE Cardinality(Pairs(a, s, 0, o))
    BY <2>3, FS_RemoveElement
  <2>7. <<a, 1>> \in Pairs(a, s, 0, o) <=> o = s[1]
    BY <1>1 DEF Pairs
  <2>8. Cardinality(Pairs(a, s, 0, o)) \in Nat
    BY <2>3, FS_CardinalityType
  <2> HIDE DEF T
  <2> QED
    BY <2>5, <2>6, <2>7, <2>8
<1> QED
  BY <1>1, <1>3 DEF Differs

----------------------------------------------------------------------------
(***************************************************************************)
(* The parameter of a running method is not counted, but not swept either. *)
(***************************************************************************)
Holds(m, en) == Safe(m, en, "method", en["method"][Parm])

Running == Sound(mem, env) /\ Cur \in Block /\ (Cur = "method" => Holds(mem, env))

RightGood(r) == Onward(mem, env, r.m) /\ r.val \in Obj /\ Live(r.m, r.val)

LEMMA ResultParts ==
  ASSUME NEW m, NEW val, NEW cause
  PROVE  Result(m, val, cause).m = m /\ Result(m, val, cause).val = val
         /\ Result(m, val, cause).cause = cause
BY DEF Result

LEMMA AfterCallAlike ==
  ASSUME NEW m \in Heap, Cur \in Block PROVE Alike(m, AfterCall(m))
<1>1. None \in Obj \cup {None}
  OBVIOUS
<1> QED
  BY <1>1, LastAlike DEF AfterCall

\* The heap of a call of an array's method.
LEMMA CallOnward ==
  ASSUME NEW m, NEW en, Cur \in Block, NEW h, Onward(m, en, h)
  PROVE  Onward(m, en, AfterCall(h)) /\ \A o : Live(h, o) <=> Live(AfterCall(h), o)
<1>1. Sound(h, en) /\ h \in Heap
  BY DEF Onward, Sound
<1>2. Alike(h, AfterCall(h))
  BY <1>1, AfterCallAlike
<1>3. Onward(h, en, AfterCall(h))
  BY <1>1, <1>2, AlikeOnward
<1> QED
  BY <1>2, <1>3, OnwardStill DEF Alike, Live

LEMMA ValueLive ==
  ASSUME Running, NEW v \in Var, Value(v) # None
  PROVE  /\ Value(v) \in Obj /\ Live(mem, Value(v))
         /\ Cur # "method" => \E p \in VarsOf(env, Value(v)) : p[1] # "method"
<1>1. /\ env \in Tabled /\ env["main"][Parm] = None /\ env["inner"][Parm] = None
      /\ \A t \in Block, w \in Var \ {Parm} : env[t][w] # None => Live(mem, env[t][w])
  BY DEF Running, Sound, Tables
<1>2. /\ Table(Seen(v)) \in Block /\ Value(v) = env[Table(Seen(v))][v]
      /\ Table(Seen(v)) = "method" => Cur = "method"
  BY Kinds DEF Table, Seen, Value, Running, Block
<1>3. Value(v) \in Obj
  BY <1>1, <1>2 DEF Tabled
<1>4. CASE v # Parm
  <2>1. Live(mem, Value(v))
    BY <1>1, <1>2, <1>4
  <2>2. <<Table(Seen(v)), v>> \in VarsOf(env, Value(v))
    BY <1>2, <1>4 DEF VarsOf
  <2> QED
    BY <1>2, <1>3, <2>1, <2>2
<1>5. CASE v = Parm
  <2>1. Table(Seen(v)) = "method"
    BY <1>1, <1>2, <1>5 DEF Block
  <2> QED
    BY <1>2, <1>3, <1>5, <2>1 DEF Running, Holds, Safe
<1> QED
  BY <1>4, <1>5

LEMMA OnwardItself == ASSUME NEW m, NEW en, Sound(m, en) PROVE Onward(m, en, m)
BY DEF Onward

LEMMA NewGood ==
  ASSUME Running, NEW r \in New
  PROVE  /\ RightGood(r) /\ r.val \in Made /\ r.m.elems = mem.elems
         /\ \A c \in Block : c # Cur => r.val \notin On(r.m, c)
<1> DEFINE B(o) == [mem EXCEPT !.st[o] = "live", !.stk[Cur] = Append(@, o)]
<1>1. PICK o \in Made : mem.st[o] = "unborn" /\ r = Result(AfterCall(B(o)), o, {})
  BY DEF New
<1>2. Sound(mem, env) /\ mem \in Heap /\ Cur \in Block /\ o \in Obj
  BY Kinds DEF Running, Sound
<1>3. Newborn(mem, Cur, o, B(o))
  BY <1>2, BornParts
<1> DEFINE h == B(o)
<1>4. r.m = AfterCall(h) /\ r.val = o
  BY <1>1, ResultParts
<1>5. Newborn(mem, Cur, o, h)
  BY <1>3
<1> HIDE DEF h, B
<1>6. Onward(mem, env, h) /\ Live(h, o) /\ \A c \in Block : c # Cur => o \notin On(h, c)
  BY <1>1, <1>2, <1>5, BornSound
<1>7. Onward(mem, env, AfterCall(h)) /\ Live(AfterCall(h), o)
  BY <1>2, <1>6, CallOnward
<1>8. Alike(h, AfterCall(h))
  BY <1>2, <1>5, AfterCallAlike DEF Newborn
<1> QED
  BY <1>2, <1>4, <1>5, <1>6, <1>7, <1>8 DEF RightGood, Alike, On, Newborn

LEMMA LiteralGood ==
  ASSUME Running, NEW r \in Literal
  PROVE  RightGood(r) /\ r.val \in Lit /\ r.m = mem
<1>1. PICK l \in Lit : r = Result(mem, l, {})
  BY DEF Literal
<1>2. r.m = mem /\ r.val = l
  BY <1>1, ResultParts
<1> QED
  BY <1>2, Kinds, OnwardItself DEF Running, RightGood, Sound, Pinned

LEMMA ReadGood ==
  ASSUME Running, NEW r \in Read
  PROVE  /\ RightGood(r) /\ r.m.elems = mem.elems
         /\ Cur # "method" => \E p \in VarsOf(env, r.val) : p[1] # "method"
<1>1. PICK v \in Bound : r = Result([mem EXCEPT !.last[Cur] = Value(v)], Value(v), {})
  BY DEF Read
<1>2. v \in Var /\ Value(v) # None
  BY DEF Bound
<1> DEFINE x == Value(v)
           h == [mem EXCEPT !.last[Cur] = x]
<1>3. r.m = h /\ r.val = x
  BY <1>1, ResultParts
<1>4. /\ x \in Obj /\ Live(mem, x)
      /\ Cur # "method" => \E p \in VarsOf(env, x) : p[1] # "method"
  BY <1>2, ValueLive
<1>5. Sound(mem, env) /\ mem \in Heap /\ Cur \in Block
  BY DEF Running, Sound
<1> HIDE DEF x
<1>6. Alike(mem, h)
  <2>1. x \in Obj \cup {None}
    BY <1>4
  <2> QED
    BY <1>5, <2>1, LastAlike
<1> HIDE DEF h
<1>7. Onward(mem, env, h)
  BY <1>5, <1>6, AlikeOnward
<1> QED
  BY <1>3, <1>4, <1>6, <1>7 DEF RightGood, Alike, Live

LEMMA ArraysLive ==
  ASSUME Running, NEW a \in Arrays
  PROVE  /\ a \in Ary /\ Live(mem, a) /\ mem.elems[a] \in Seq(Str) /\ mem.elems[a] \in Seq(Obj)
         /\ \A k \in DOMAIN mem.elems[a] : mem.elems[a][k] \in Str /\ Live(mem, mem.elems[a][k])
<1>1. PICK v \in Bound : a = Value(v)
  BY DEF Arrays
<1>2. a \in Ary /\ Live(mem, a)
  BY <1>1, ValueLive DEF Arrays, Bound
<1>3. mem.elems[a] \in Seq(Obj)
  BY <1>2, HeapParts DEF Running, Sound
<1>4. \A k \in DOMAIN mem.elems[a] : mem.elems[a][k] \in Str /\ Live(mem, mem.elems[a][k])
  BY <1>2 DEF Running, Sound, Filled
<1>5. mem.elems[a] \in Seq(Str)
  BY <1>3, <1>4
<1> QED
  BY <1>2, <1>3, <1>4, <1>5

LEMMA FirstGood == ASSUME Running, NEW r \in ary_first PROVE RightGood(r)
<1>1. PICK a \in Full : r = Result(AfterCall(mem), Head(mem.elems[a]), {})
  BY DEF ary_first
<1>2. a \in Arrays /\ mem.elems[a] # <<>>
  BY DEF Full
<1>3. Head(mem.elems[a]) \in Str /\ Live(mem, Head(mem.elems[a]))
  <2>1. 1 \in DOMAIN mem.elems[a] /\ Head(mem.elems[a]) = mem.elems[a][1]
    BY <1>2, ArraysLive
  <2> QED
    BY <1>2, <2>1, ArraysLive
<1>4. r.m = AfterCall(mem) /\ r.val = Head(mem.elems[a])
  BY <1>1, ResultParts
<1>5. Onward(mem, env, AfterCall(mem)) /\ \A o : Live(mem, o) <=> Live(AfterCall(mem), o)
  BY OnwardItself, CallOnward DEF Running
<1> QED
  BY <1>3, <1>4, <1>5, Kinds DEF RightGood

LEMMA PopGood == ASSUME Running, NEW r \in ary_pop PROVE RightGood(r)
<1>1. PICK a \in Full : r = Result(AfterCall(Add([mem EXCEPT !.elems[a] = Front(@)],
                                                Last(mem.elems[a]), -1)), Last(mem.elems[a]), {})
  BY DEF ary_pop
<1>2. /\ a \in Arrays /\ mem.elems[a] # <<>> /\ mem \in Heap /\ Sound(mem, env) /\ Cur \in Block
  BY DEF Full, Running, Sound
<1>3. /\ a \in Ary /\ Live(mem, a) /\ mem.elems[a] \in Seq(Str)
      /\ \A k \in DOMAIN mem.elems[a] : mem.elems[a][k] \in Str /\ Live(mem, mem.elems[a][k])
  BY <1>2, ArraysLive
<1> DEFINE s == mem.elems[a]
           e == s[Len(s)]
           h == Add([mem EXCEPT !.elems[a] = Front(s)], e, -1)
<1>4. Len(s) \in DOMAIN s
  BY <1>2, <1>3
<1>5. e \in Str /\ Live(mem, e) /\ e \in Obj
  BY <1>3, <1>4, Kinds
<1>6. Front(s) \in Seq(Str) /\ Front(s) \in Seq(Obj) /\ \A k \in DOMAIN Front(s) : Live(mem, Front(s)[k])
  <2>1. Front(s) \in Seq(Str) /\ \A k \in DOMAIN Front(s) : k \in DOMAIN s /\ Front(s)[k] = s[k]
    BY <1>2, <1>3, FrontPairs
  <2> QED
    BY <1>3, <2>1, Kinds
<1>7. Differs(a, Front(s), s, e, -1)
  BY <1>2, <1>3, FrontPairs
<1>8. Restocked(mem, a, Front(s), e, -1, h)
  <2>1. -1 \in Int
    OBVIOUS
  <2> HIDE DEF s, e
  <2> QED
    BY <1>2, <1>3, <1>5, <1>6, <2>1, RestockParts
<1>9. r.m = AfterCall(h) /\ r.val = e
  BY <1>1, ResultParts DEF Last
<1>10. Onward(mem, env, h)
  <2>1. -1 \in Int
    OBVIOUS
  <2> HIDE DEF h, e
  <2> QED
    BY <1>2, <1>3, <1>5, <1>6, <1>7, <1>8, <2>1, RestockSound
<1> HIDE DEF h, e, s
<1>11. Onward(mem, env, AfterCall(h)) /\ \A o : Live(h, o) <=> Live(AfterCall(h), o)
  BY <1>2, <1>10, CallOnward
<1> QED
  BY <1>5, <1>9, <1>10, <1>11 DEF RightGood, Onward

LEMMA ShiftGood == ASSUME Running, NEW r \in ary_shift, r.cause = {} PROVE RightGood(r)
<1>1. PICK a \in Full : \E left \in {Front(mem.elems[a]), Tail(mem.elems[a])} : r = Shifted(a, left)
  BY DEF ary_shift
<1> DEFINE s == mem.elems[a]
           h == Add([mem EXCEPT !.elems[a] = Tail(s)], s[1], -1)
<1>2. /\ a \in Arrays /\ s # <<>> /\ mem \in Heap /\ Sound(mem, env) /\ Cur \in Block
  BY DEF Full, Running, Sound
<1>3. /\ a \in Ary /\ Live(mem, a) /\ s \in Seq(Str)
      /\ \A k \in DOMAIN s : s[k] \in Str /\ Live(mem, s[k])
  BY <1>2, ArraysLive
<1>4. r.m = AfterCall(h) /\ r.val = s[1]
  <2>1. PICK left : r = Shifted(a, left)
    BY <1>1
  <2>2. /\ r.m = AfterCall(Add([mem EXCEPT !.elems[a] = left], Head(s), -1)) /\ r.val = Head(s)
        /\ r.cause = IF left # Tail(s) THEN {"shifted"} ELSE {}
    <3>1. r = Result(AfterCall(Add([mem EXCEPT !.elems[a] = left], Head(s), -1)), Head(s),
                     IF left # Tail(s) THEN {"shifted"} ELSE {})
      BY <2>1 DEF Shifted
    <3> QED
      BY <3>1 DEF Result
  <2>3. left = Tail(s)
    BY <2>2
  <2>4. Head(s) = s[1]
    BY <1>2, <1>3
  <2> QED
    BY <2>2, <2>3, <2>4
<1>5. s[1] \in Str /\ Live(mem, s[1]) /\ s[1] \in Obj
  <2>1. 1 \in DOMAIN s
    BY <1>2, <1>3
  <2> QED
    BY <1>3, <2>1, Kinds
<1>6. Tail(s) \in Seq(Str) /\ Tail(s) \in Seq(Obj) /\ \A k \in DOMAIN Tail(s) : Live(mem, Tail(s)[k])
  <2>1. Tail(s) \in Seq(Str) /\ \A k \in DOMAIN Tail(s) : k + 1 \in DOMAIN s /\ Tail(s)[k] = s[k + 1]
    BY <1>2, <1>3, TailPairs
  <2> QED
    BY <1>3, <2>1, Kinds
<1>7. Differs(a, Tail(s), s, s[1], -1)
  BY <1>2, <1>3, TailPairs
<1> DEFINE e == s[1]
<1>8. Restocked(mem, a, Tail(s), e, -1, h)
  <2>1. -1 \in Int
    OBVIOUS
  <2> HIDE DEF s
  <2> QED
    BY <1>2, <1>3, <1>5, <1>6, <2>1, RestockParts
<1>9. r.val = e /\ e \in Str /\ Live(mem, e) /\ e \in Obj
  BY <1>4, <1>5
<1>10. Onward(mem, env, h)
  <2>1. -1 \in Int
    OBVIOUS
  <2>2. Differs(a, Tail(s), s, e, -1)
    BY <1>7
  <2> HIDE DEF h, e
  <2> QED
    BY <1>2, <1>3, <1>9, <1>6, <1>8, <2>1, <2>2, RestockSound
<1> HIDE DEF h, e, s
<1>11. Onward(mem, env, AfterCall(h)) /\ \A o : Live(h, o) <=> Live(AfterCall(h), o)
  BY <1>2, <1>10, CallOnward
<1> QED
  BY <1>4, <1>9, <1>10, <1>11 DEF RightGood, Onward

\* One element more, behind or in front.
Grows(a, S, t, s, e) ==
  /\ t \in Seq(S) /\ \A k \in DOMAIN t : t[k] = e \/ \E i \in DOMAIN s : t[k] = s[i]
  /\ Differs(a, t, s, e, 1)

LEMMA GrownPairs ==
  ASSUME NEW a, NEW S, NEW s \in Seq(S), NEW e \in S
  PROVE  Grows(a, S, <<e>> \o s, s, e) /\ Grows(a, S, Append(s, e), s, e)
<1>1. \A o : Cardinality(Pairs(a, s, 0, o)) \in Nat
  BY PairsFinite, FS_CardinalityType
<1>2. Grows(a, S, <<e>> \o s, s, e)
  <2> DEFINE t == <<e>> \o s
  <2>1. /\ t \in Seq(S) /\ t # <<>> /\ Tail(t) = s /\ t[1] = e
        /\ \A k \in DOMAIN t : t[k] = e \/ \E i \in DOMAIN s : t[k] = s[i]
    <3>1. /\ t \in Seq(S) /\ Len(t) = Len(s) + 1 /\ t[1] = e
          /\ \A k \in 2..Len(t) : t[k] = s[k-1] /\ k - 1 \in DOMAIN s
      OBVIOUS
    <3>2. Tail(t) = s
      <4>1. Tail(t) \in Seq(S) /\ Len(Tail(t)) = Len(s) /\ \A k \in 1..Len(s) : Tail(t)[k] = t[k+1]
        BY <3>1
      <4> QED
        BY <3>1, <4>1
    <3>3. ASSUME NEW k \in DOMAIN t PROVE t[k] = e \/ \E i \in DOMAIN s : t[k] = s[i]
      <4>1. k = 1 \/ k \in 2..Len(t)
        BY <3>1
      <4> QED
        BY <3>1, <4>1
    <3> QED
      BY <3>1, <3>2, <3>3
  <2> HIDE DEF t
  <2>2. \A o : Cardinality(Pairs(a, t, 0, o)) \in Nat
    BY <2>1, PairsFinite, FS_CardinalityType
  <2>3. \A o : Cardinality(Pairs(a, s, 0, o))
                 = Cardinality(Pairs(a, t, 0, o)) + (IF o = e THEN -1 ELSE 0)
    <3>1. Differs(a, Tail(t), t, t[1], -1)
      BY <2>1, TailPairs
    <3> QED
      BY <2>1, <3>1 DEF Differs
  <2>4. \A o : Cardinality(Pairs(a, t, 0, o))
                 = Cardinality(Pairs(a, s, 0, o)) + (IF o = e THEN 1 ELSE 0)
    BY <1>1, <2>2, <2>3
  <2> QED
    BY <2>1, <2>4 DEF t, Grows, Differs
<1>3. Grows(a, S, Append(s, e), s, e)
  <2> DEFINE t == Append(s, e)
  <2>1. /\ t \in Seq(S) /\ t # <<>> /\ Front(t) = s /\ t[Len(t)] = e
        /\ \A k \in DOMAIN t : t[k] = e \/ \E i \in DOMAIN s : t[k] = s[i]
    <3>1. /\ t \in Seq(S) /\ Len(t) = Len(s) + 1 /\ t[Len(t)] = e
          /\ \A k \in 1..Len(s) : t[k] = s[k] /\ k \in DOMAIN s
      OBVIOUS
    <3>2. Front(t) = s
      <4>1. Front(t) \in Seq(S) /\ Len(Front(t)) = Len(s) /\ \A k \in 1..Len(s) : Front(t)[k] = t[k]
        BY <3>1 DEF Front
      <4> QED
        BY <3>1, <4>1
    <3>3. ASSUME NEW k \in DOMAIN t PROVE t[k] = e \/ \E i \in DOMAIN s : t[k] = s[i]
      <4>1. k = Len(t) \/ k \in 1..Len(s)
        BY <3>1
      <4> QED
        BY <3>1, <4>1
    <3> QED
      BY <3>1, <3>2, <3>3
  <2> HIDE DEF t
  <2>2. \A o : Cardinality(Pairs(a, t, 0, o)) \in Nat
    BY <2>1, PairsFinite, FS_CardinalityType
  <2>3. \A o : Cardinality(Pairs(a, s, 0, o))
                 = Cardinality(Pairs(a, t, 0, o)) + (IF o = e THEN -1 ELSE 0)
    <3>1. Differs(a, Front(t), t, t[Len(t)], -1)
      BY <2>1, FrontPairs
    <3> QED
      BY <2>1, <3>1 DEF Differs
  <2>4. \A o : Cardinality(Pairs(a, t, 0, o))
                 = Cardinality(Pairs(a, s, 0, o)) + (IF o = e THEN 1 ELSE 0)
    BY <1>1, <2>2, <2>3
  <2> QED
    BY <2>1, <2>4 DEF t, Grows, Differs
<1> QED
  BY <1>2, <1>3

LEMMA PushGood == ASSUME Running, NEW r \in ary_push, r.cause = {} PROVE RightGood(r)
<1>1. PICK a \in Arrays, front \in BOOLEAN, g \in Arg : r = Pushed(a, g, front)
  BY DEF ary_push
<1>2. /\ mem \in Heap /\ Sound(mem, env) /\ Cur \in Block
      /\ a \in Ary /\ Live(mem, a) /\ mem.elems[a] \in Seq(Str)
      /\ \A k \in DOMAIN mem.elems[a] : mem.elems[a][k] \in Str /\ Live(mem, mem.elems[a][k])
  BY ArraysLive DEF Running, Sound
<1> DEFINE m == g.m
           e == g.val
           s == mem.elems[a]
           t == IF front THEN <<e>> \o s ELSE Append(s, e)
           h == Add([m EXCEPT !.elems[a] = t], e, 1)
<1>3. RightGood(g) /\ g.val \notin Ary /\ m.elems = mem.elems
  BY LiteralGood, ReadGood, NewGood DEF Arg
<1>4. Sound(m, env) /\ m \in Heap /\ e \in Obj /\ Live(m, e) /\ Onward(mem, env, m)
  BY <1>3 DEF RightGood, Onward, Sound
<1>5. /\ r.m = AfterCall(Add(Grown(m, a, e, front), e, 1)) /\ r.val = a
      /\ r.cause = IF m.rc[e] = GC_NEVER_FREE THEN {"unpinned"} ELSE {}
  BY <1>1 DEF Pushed, Result
<1>6. Grown(m, a, e, front) = [m EXCEPT !.elems[a] = t]
  <2>1. m.elems[a] = s
    BY <1>3
  <2> HIDE DEF m, e
  <2> QED
    BY <1>2, <1>4, <2>1 DEF Grown, Heap
<1>7. e \in Str
  <2>1. e \notin Lit
    BY <1>4, <1>5 DEF Sound, Pinned
  <2> QED
    BY <1>3, <1>4, <2>1, Kinds
<1>8. /\ t \in Seq(Str) /\ \A k \in DOMAIN t : t[k] = e \/ \E i \in DOMAIN s : t[k] = s[i]
      /\ Differs(a, t, s, e, 1)
  <2>1. Grows(a, Str, <<e>> \o s, s, e) /\ Grows(a, Str, Append(s, e), s, e)
    <3>1. s \in Seq(Str)
      BY <1>2
    <3> HIDE DEF s, e
    <3> QED
      BY <1>7, <3>1, GrownPairs
  <2> HIDE DEF s, e
  <2>2. t = <<e>> \o s \/ t = Append(s, e)
    OBVIOUS
  <2> HIDE DEF t
  <2>3. Grows(a, Str, t, s, e)
    BY <2>1, <2>2
  <2> QED
    BY <2>3 DEF Grows
<1> HIDE DEF t, e
<1>9. \A k \in DOMAIN t : Live(m, t[k])
  <2>1. \A i \in DOMAIN s : Live(m, s[i])
    BY <1>2, <1>4, Kinds DEF Onward
  <2> QED
    BY <1>4, <1>8, <2>1
<1>10. Live(m, a)
  BY <1>2, <1>4, Kinds DEF Onward
<1>11. t \in Seq(Obj)
  BY <1>8, Kinds
<1>12. Differs(a, t, m.elems[a], e, 1)
  BY <1>3, <1>8
<1> HIDE DEF m, s
<1>13. Restocked(m, a, t, e, 1, h)
  <2>1. 1 \in Int
    OBVIOUS
  <2> QED
    BY <1>2, <1>4, <1>11, <2>1, RestockParts
<1> HIDE DEF h
<1>14. Onward(m, env, h)
  <2>1. 1 \in Int
    OBVIOUS
  <2> QED
    BY <1>2, <1>4, <1>7, <1>8, <1>9, <1>10, <1>12, <1>13, <2>1, RestockSound
<1>15. Onward(mem, env, h)
  BY <1>4, <1>14, OnwardStill
<1>16. Onward(mem, env, AfterCall(h)) /\ \A o : Live(h, o) <=> Live(AfterCall(h), o)
  BY <1>2, <1>15, CallOnward
<1>17. r.m = AfterCall(h) /\ r.val = a /\ a \in Obj
  BY <1>2, <1>5, <1>6, Kinds DEF h
<1> QED
  BY <1>10, <1>14, <1>16, <1>17 DEF RightGood, Onward

LEMMA RhsGood == ASSUME Running, NEW r \in Rhs, r.cause = {} PROVE RightGood(r)
BY NewGood, LiteralGood, ReadGood, FirstGood, PopGood, ShiftGood, PushGood DEF Rhs

----------------------------------------------------------------------------
(***************************************************************************)
(* An assignment.                                                          *)
(***************************************************************************)
\* No object in the list is uncounted, as after a sweep.
Neat(m, b)    == \A o \in On(m, b) : Kept(m, o)
NeatStill(m, n) == \A b \in Block : Neat(m, b) => Neat(n, b)

LEMMA AlikeNeat == ASSUME NEW m, NEW en, Sound(m, en), NEW h, Alike(m, h) PROVE NeatStill(m, h)
BY AlikeSound DEF NeatStill, Neat

LEMMA FallenNeat ==
  ASSUME NEW m, NEW cur, NEW n, Fallen(m, n, cur), NEW en, Sound(n, en) PROVE NeatStill(m, n)
<1> SUFFICES ASSUME NEW b \in Block, Neat(m, b), NEW o \in On(n, b) PROVE Kept(n, o)
  BY DEF NeatStill, Neat
<1>1. Live(n, o) /\ o \in On(m, b)
  BY DEF Sound, Listed, Fallen
<1>2. o \in Obj
  <2>1. n.stk[b] \in Seq(Obj)
    BY HeapParts DEF Sound
  <2> QED
    BY <2>1 DEF On, In
<1> QED
  BY <1>1, <1>2 DEF Fallen, Neat

LEMMA OldFalls ==
  ASSUME NEW m, NEW en, Sound(m, en), NEW cur \in Block, NEW t \in Block, NEW v \in Var,
         NEW n, n = IF en[t][v] = None THEN m ELSE object_refcount_down(m, en[t][v], cur),
         v = Parm => en[t][v] \notin Made,
         \A o \in Gone(m, n) : Maker(m, o) = {cur},
         NEW en0, Given(en, t, v, None, en0)
  PROVE  /\ Sound(n, en0)
         /\ \A o \in Obj : Live(m, o) => Live(n, o) \/ o \in Gone(m, n)
         /\ NeatStill(m, n)
         /\ t = cur => \A q : Safe(m, en, cur, q) => Safe(n, en0, cur, q)
<1>1. m \in Heap /\ en \in Tabled /\ None \in Obj \cup {None}
  BY DEF Sound, Tables
<1>2. en0 = [en EXCEPT ![t][v] = None]
  <2>1. [en EXCEPT ![t][v] = None] \in Tabled
    BY <1>1 DEF Tabled
  <2>2. \A u \in Block, y \in Var : [en EXCEPT ![t][v] = None][u][y] = en0[u][y]
    BY <1>1 DEF Tabled, Given
  <2>3. en0 \in Tabled
    BY DEF Given
  <2> QED
    BY <2>1, <2>2, <2>3 DEF Tabled
<1>3. en[t][v] = None \/ en[t][v] \in Lit \/ en[t][v] \in Made
  BY <1>1 DEF Tabled, Obj
<1>4. CASE en[t][v] = None
  <2>1. n = m
    BY <1>4
  <2>2. en0 = en
    <3>1. \A u \in Block, y \in Var : en0[u][y] = en[u][y]
      BY <1>4 DEF Given
    <3>2. en0 \in Tabled
      BY DEF Given
    <3> QED
      BY <1>1, <3>1, <3>2 DEF Tabled
  <2> QED
    BY <2>1, <2>2 DEF NeatStill
<1>5. CASE en[t][v] \in Lit
  <2>1. n = object_refcount_down(m, en[t][v], cur)
    BY <1>5, Kinds
  <2> DEFINE k == object_refcount_down(m, en[t][v], cur)
             e0 == [en EXCEPT ![t][v] = None]
  <2>2. /\ k = m /\ Sound(k, e0)
        /\ t = cur => \A q : Safe(m, en, cur, q) => Safe(k, e0, cur, q)
    <3>1. Sound(m, en) /\ v \in Var /\ cur \in Block /\ t \in Block
      OBVIOUS
    <3> QED
      BY ONLY <1>5, <3>1, LiteralFalls
  <2> HIDE DEF k, e0
  <2> QED
    BY <1>2, <2>1, <2>2 DEF k, e0, NeatStill
<1>6. CASE en[t][v] \in Made
  <2>1. n = object_refcount_down(m, en[t][v], cur) /\ v \in Var \ {Parm}
    BY <1>6, Kinds
  <2>2. /\ Fallen(m, n, cur) /\ Sound(n, en0)
        /\ t = cur => \A q : Safe(m, en, cur, q) => Safe(n, en0, cur, q)
    <3> DEFINE k == object_refcount_down(m, en[t][v], cur)
               e0 == [en EXCEPT ![t][v] = None]
    <3>1. /\ Sound(m, en) /\ v \in Var \ {Parm} /\ cur \in Block /\ t \in Block
          /\ \A o \in Gone(m, object_refcount_down(m, en[t][v], cur)) : Maker(m, o) = {cur}
      BY <2>1
    <3>2. /\ Fallen(m, k, cur) /\ Sound(k, e0)
          /\ t = cur => \A q : Safe(m, en, cur, q) => Safe(k, e0, cur, q)
      BY ONLY <1>6, <3>1, DownFalls
    <3>3. n = k /\ en0 = e0
      BY <1>2, <2>1
    <3> HIDE DEF k, e0
    <3> QED
      BY ONLY <3>2, <3>3
  <2> QED
    BY <2>2, FallenNeat DEF Fallen, Live, Gone
<1> QED
  BY <1>3, <1>4, <1>5, <1>6

LEMMA Stored ==
  ASSUME NEW m, NEW en, Sound(m, en), NEW cur \in Block, NEW t \in Block, NEW v \in Var,
         NEW x \in Obj, Live(m, x), v = Parm => t = "method",
         NEW n, n = IF en[t][v] = None THEN m ELSE object_refcount_down(m, en[t][v], cur),
         x \notin Gone(m, n), v = Parm => en[t][v] \notin Made,
         \A o \in Gone(m, n) : Maker(m, o) = {cur},
         NEW g, Alike(n, g), v = Parm => x \in Lit \/ x \in g.kept,
         NEW en1, Given(en, t, v, x, en1)
  PROVE  /\ Sound(CountUp(g, x), en1) /\ Live(CountUp(g, x), x) /\ NeatStill(m, CountUp(g, x))
         /\ v = Parm => Safe(CountUp(g, x), en1, "method", x)
         /\ v # Parm /\ t = cur => \A q : Safe(m, en, cur, q) => Safe(CountUp(g, x), en1, cur, q)
<1> DEFINE en0 == [en EXCEPT ![t][v] = None]
<1>1. Given(en, t, v, None, en0)
  BY VarGiven DEF Sound, Tables
<1> HIDE DEF en0
<1>2. Given(en0, t, v, x, en1) /\ en0[t][v] = None
  BY <1>1 DEF Given
<1>3. /\ Sound(n, en0) /\ (Live(m, x) => Live(n, x) \/ x \in Gone(m, n)) /\ NeatStill(m, n)
      /\ t = cur => \A q : Safe(m, en, cur, q) => Safe(n, en0, cur, q)
  BY <1>1, OldFalls
<1>4. /\ Sound(g, en0) /\ (Live(g, x) <=> Live(n, x))
      /\ \A q : Safe(n, en0, cur, q) => Safe(g, en0, cur, q)
  BY <1>3, AlikeSound
<1>5. Live(g, x)
  BY <1>3, <1>4
<1>6. /\ Sound(CountUp(g, x), en1) /\ CountUp(g, x).st = g.st /\ Fallen(g, CountUp(g, x), t)
      /\ v = Parm => Safe(CountUp(g, x), en1, "method", x)
      /\ v # Parm => \A q : Safe(g, en0, t, q) => Safe(CountUp(g, x), en1, t, q)
  BY <1>2, <1>4, <1>5, UpSound
<1>7. NeatStill(m, CountUp(g, x))
  <2>1. NeatStill(n, g)
    BY <1>3, AlikeNeat
  <2>2. NeatStill(g, CountUp(g, x))
    BY <1>6, FallenNeat
  <2> QED
    BY <1>3, <2>1, <2>2 DEF NeatStill
<1> QED
  BY <1>3, <1>4, <1>5, <1>6, <1>7 DEF Live

----------------------------------------------------------------------------
(***************************************************************************)
(* The blocks that run: main first, a method only on top; a block that is  *)
(* not the program has a value once it has run a cell.                     *)
(***************************************************************************)
Assigns   == [var : Var \ {Parm}, thr : Block, last : Obj \cup {None}]
FrameType == [blk : Block, val : Obj \cup {None}, assign : Assigns \cup {None}]

Waits(fs) ==
  /\ fs \in Seq(FrameType) /\ fs # <<>> /\ fs[1].blk = "main"
  /\ \A k \in 1..Len(fs) : /\ fs[k].blk = "main" => k = 1 /\ fs[k].val = None
                           /\ fs[k].blk = "method" => k = Len(fs)

Sane(m, en, fs) == /\ Sound(m, en) /\ Waits(fs)
                   /\ Last(fs).val # None => Live(m, Last(fs).val)
                   /\ Last(fs).blk = "method" => Holds(m, en)

\* The invariant: nothing of this is known once something in causes was done.
IInv == Going => Sane(mem, env, frames) /\ oldest \in Tabled

LEMMA WaitsTop ==
  ASSUME NEW fs, Waits(fs)
  PROVE  /\ Len(fs) \in Nat \ {0} /\ Last(fs) = fs[Len(fs)] /\ Last(fs) \in FrameType
         /\ Last(fs).blk \in Block /\ Last(fs).val \in Obj \cup {None}
         /\ Last(fs).assign \in Assigns \cup {None}
         /\ Last(fs).blk = "main" => Last(fs).val = None
<1>1. Len(fs) \in Nat \ {0} /\ fs[Len(fs)] \in FrameType
  BY DEF Waits
<1>2. Last(fs) = fs[Len(fs)]
  BY DEF Last
<1>3. fs[Len(fs)].blk = "main" => fs[Len(fs)].val = None
  BY <1>1 DEF Waits
<1> QED
  BY <1>1, <1>2, <1>3 DEF FrameType

\* The end of a cell in the block on top of waiting.
Ended(m, val, waiting, m1, fs1) ==
  /\ m1 = IF Last(waiting).blk = "main" THEN m ELSE [m EXCEPT !.last[Last(waiting).blk] = val]
  /\ fs1 = IF Last(waiting).blk = "main" THEN waiting
           ELSE [waiting EXCEPT ![Len(waiting)] = [@ EXCEPT !.val = val]]

LEMMA EndedSane ==
  ASSUME NEW m, NEW en, Sound(m, en), NEW val \in Obj, Live(m, val),
         NEW waiting, Waits(waiting), Last(waiting).blk = "method" => Holds(m, en),
         NEW m1, NEW fs1, Ended(m, val, waiting, m1, fs1)
  PROVE  Sane(m1, en, fs1) /\ NeatStill(m, m1) /\ Len(fs1) = Len(waiting)
<1> DEFINE n == Len(waiting)
           top == Last(waiting)
<1>1. /\ n \in Nat \ {0} /\ top = waiting[n] /\ top \in FrameType /\ top.blk \in Block
      /\ top.blk = "main" => top.val = None
  BY WaitsTop
<1>2. CASE top.blk = "main"
  BY <1>1, <1>2 DEF Ended, Sane, NeatStill
<1>3. CASE top.blk # "main"
  <2> DEFINE f == [top EXCEPT !.val = val]
  <2>1. Alike(m, m1)
    <3>1. m \in Heap /\ val \in Obj \cup {None} /\ m1 = [m EXCEPT !.last[top.blk] = val]
      BY <1>3 DEF Ended, Sound
    <3> HIDE DEF top
    <3> QED
      BY <1>1, <3>1, LastAlike
  <2>2. /\ Sound(m1, en) /\ Live(m1, val)
        /\ \A q : Safe(m, en, "method", q) => Safe(m1, en, "method", q)
    BY <2>1, AlikeSound, Kinds
  <2>3. f \in FrameType /\ f.val = val /\ f.blk = top.blk
    BY <1>1 DEF FrameType
  <2>4. fs1 = [waiting EXCEPT ![n] = f]
    BY <1>1, <1>3 DEF Ended
  <2> HIDE DEF f
  <2>5. /\ fs1 \in Seq(FrameType) /\ Len(fs1) = n /\ fs1[n] = f
        /\ \A k \in 1..n : k # n => fs1[k] = waiting[k]
    BY <1>1, <2>3, <2>4 DEF Waits
  <2>6. Last(fs1) = f
    BY <2>5 DEF Last
  <2>7. Waits(fs1)
    <3>1. \A k \in 1..n : fs1[k].blk = waiting[k].blk
      BY <1>1, <2>3, <2>5
    <3>2. fs1[1].blk = "main"
      BY <1>1, <3>1 DEF Waits
    <3>3. ASSUME NEW k \in 1..n
          PROVE  /\ fs1[k].blk = "main" => k = 1 /\ fs1[k].val = None
                 /\ fs1[k].blk = "method" => k = n
      <4>1. CASE k = n
        BY <1>1, <1>3, <2>3, <2>5, <4>1
      <4>2. CASE k # n
        BY <2>5, <4>2 DEF Waits
      <4> QED
        BY <4>1, <4>2
    <3> QED
      BY <1>1, <2>5, <3>2, <3>3 DEF Waits
  <2> QED
    BY <2>1, <2>2, <2>3, <2>5, <2>6, <2>7, AlikeNeat DEF Sane, Holds
<1> QED
  BY <1>2, <1>3

\* What an assignment comes to: the state is as it should be, and a list that
\* was neat still is.
Carried(m, m1, en1, fs1, n) == Sane(m1, en1, fs1) /\ NeatStill(m, m1) /\ Len(fs1) = n

LEMMA StoreSane ==
  ASSUME NEW m, NEW en, Sound(m, en), NEW x \in Obj, Live(m, x),
         NEW cur \in Block, NEW waiting, Waits(waiting), Last(waiting).blk = cur,
         NEW v \in Var, NEW thr \in Block, NEW t \in Block,
         v = Parm => t = "method", cur = "method" => t = "method" /\ Holds(m, en),
         NEW back, Alike(m, back),
         NEW less, less = IF en[t][v] = None THEN back
                          ELSE object_refcount_down(back, en[t][v], cur),
         x \notin Gone(back, less), v = Parm => en[t][v] \notin Made,
         \A o \in Gone(back, less) : Maker(back, o) = {cur},
         NEW K \in SUBSET Obj, v = Parm => x \in Lit \/ x \in K,
         NEW g, Noted(less, thr, x, K, g),
         NEW en1, Given(en, t, v, x, en1),
         NEW m1, NEW fs1, Ended(CountUp(g, x), x, waiting, m1, fs1)
  PROVE  Carried(m, m1, en1, fs1, Len(waiting))
<1>1. m \in Heap /\ en \in Tabled /\ x \in Obj \cup {None} /\ None \in Obj \cup {None}
  BY DEF Sound, Tables
<1>3. /\ Sound(back, en) /\ Live(back, x)
      /\ \A q : Safe(m, en, "method", q) => Safe(back, en, "method", q)
  BY AlikeSound, Kinds
<1>4. Given(en, t, v, None, [en EXCEPT ![t][v] = None])
  BY <1>1, VarGiven
<1>5. less \in Heap
  <2>1. Sound(less, [en EXCEPT ![t][v] = None])
    BY <1>3, <1>4, OldFalls
  <2> QED
    BY <2>1 DEF Sound
<1>6. Given(en, t, v, x, en1)
  OBVIOUS
<1>7. Alike(less, g) /\ (v = Parm => x \in Lit \/ x \in g.kept)
  <2>1. Alike(less, g) /\ g.kept = less.kept \cup K
    BY <1>1, <1>5, KeptAlike
  <2> QED
    BY <2>1
<1> DEFINE h == CountUp(g, x)
<1>8. /\ Sound(h, en1) /\ Live(h, x) /\ NeatStill(back, h)
      /\ v = Parm => Safe(h, en1, "method", x)
      /\ v # Parm /\ t = cur => \A q : Safe(back, en, cur, q) => Safe(h, en1, cur, q)
  <2>1. /\ x \in Obj /\ cur \in Block /\ v \in Var /\ t \in Block /\ (v = Parm => t = "method")
        /\ less = IF en[t][v] = None THEN back ELSE object_refcount_down(back, en[t][v], cur)
        /\ x \notin Gone(back, less) /\ (v = Parm => en[t][v] \notin Made)
        /\ \A o \in Gone(back, less) : Maker(back, o) = {cur}
    OBVIOUS
  <2> QED
    BY ONLY <1>3, <1>6, <1>7, <2>1, Stored
<1> HIDE DEF h
<1>9. ASSUME cur = "method" PROVE Holds(h, en1)
  <2>1. CASE v = Parm
    <3>1. en1["method"][Parm] = x
      BY <1>9, <2>1, <1>6 DEF Given
    <3> QED
      BY <1>8, <2>1, <3>1 DEF Holds
  <2>2. CASE v # Parm
    <3>1. en1["method"][Parm] = en["method"][Parm]
      BY <1>6, <2>2, Kinds DEF Given
    <3> QED
      BY <1>3, <1>8, <1>9, <2>2, <3>1 DEF Holds
  <2> QED
    BY <2>1, <2>2
<1>10. Sane(m1, en1, fs1) /\ NeatStill(h, m1) /\ Len(fs1) = Len(waiting)
  BY <1>8, <1>9, EndedSane DEF h
<1>11. NeatStill(m, back)
  BY AlikeNeat
<1> QED
  BY <1>8, <1>10, <1>11 DEF NeatStill, Carried

----------------------------------------------------------------------------
(***************************************************************************)
(* The chains: a table that grows without a cause has the same variables.  *)
(***************************************************************************)
Chain == [found : Tabled, oldest : Tabled, cause : SUBSET {"grown"}]

LEMMA ChainsType == ASSUME env \in Tabled, oldest \in Tabled PROVE Chains \in Chain
BY DEF Chains, Chain

LEMMA TurnedStill ==
  ASSUME NEW c \in Chain, NEW t \in Block, NEW names \in SUBSET Var,
         NEW d, d = Turned(c, t, names)
  PROVE  /\ d \in Chain
         /\ d.cause = {} =>
              /\ c.cause = {} /\ \A w \in names : d.found[t][w] = c.found[t][w]
              /\ \A u \in Block \ {t} : d.found[u] = c.found[u]
<1>1. c.found \in Tabled /\ c.oldest \in Tabled /\ c.cause \in SUBSET {"grown"}
  BY DEF Chain
<1>2. /\ d.found = [c.found EXCEPT ![t] = c.oldest[t]]
      /\ d.oldest = [c.oldest EXCEPT ![t] = c.found[t]]
      /\ d.cause = IF \E w \in names : c.oldest[t][w] # c.found[t][w] THEN {"grown"} ELSE c.cause
  BY DEF Turned
<1>3. d.found \in Tabled /\ d.oldest \in Tabled /\ d.cause \in SUBSET {"grown"}
  BY <1>1, <1>2 DEF Tabled
<1>4. d \in Chain
  BY <1>2, <1>3 DEF Chain, Turned
<1>5. d.found[t] = c.oldest[t] /\ \A u \in Block \ {t} : d.found[u] = c.found[u]
  BY <1>1, <1>2 DEF Tabled
<1> QED
  BY <1>2, <1>4, <1>5

LEMMA AddedStill ==
  ASSUME NEW c \in Chain, NEW t \in Block, NEW v \in Var, NEW x \in Obj, NEW d, d = Added(c, t, v, x)
  PROVE  /\ d \in Chain /\ d.cause = c.cause /\ d.found = [c.found EXCEPT ![t][v] = x]
<1>1. /\ c.found \in Tabled /\ c.oldest \in Tabled /\ c.cause \in SUBSET {"grown"}
      /\ c = [found |-> c.found, oldest |-> c.oldest, cause |-> c.cause]
  BY DEF Chain
<1> DEFINE f == [c.found EXCEPT ![t][v] = x]
           o == [c.oldest EXCEPT ![t][v] = IF @ = None THEN x ELSE @]
<1>2. d = [found |-> f, oldest |-> o, cause |-> c.cause]
  BY <1>1 DEF Added
<1>3. f \in Tabled /\ o \in Tabled
  BY <1>1 DEF Tabled
<1> QED
  BY <1>1, <1>2, <1>3 DEF Chain

LEMMA AddDirectGives ==
  ASSUME NEW c \in Chain, NEW t \in Block, NEW v \in Var, NEW x \in Obj,
         NEW d \in AddDirect(c, t, v, x)
  PROVE  /\ d \in Chain
         /\ d.cause = {} => d.found = [c.found EXCEPT ![t][v] = x]
<1>1. CASE d = Added(c, t, v, x)
  BY <1>1, AddedStill
<1>2. CASE d = Added(Turned(c, t, Var \ {v}), t, v, x)
  <2>4. PICK others : others = Var \ {v}
    OBVIOUS
  <2>6. PICK e : e = Turned(c, t, others)
    OBVIOUS
  <2>5. others \in SUBSET Var /\ d = Added(e, t, v, x)
    BY <1>2, <2>4, <2>6
  <2>1. /\ e \in Chain
        /\ e.cause = {} => /\ \A w \in others : e.found[t][w] = c.found[t][w]
                           /\ \A u \in Block \ {t} : e.found[u] = c.found[u]
    BY <2>5, <2>6, TurnedStill
  <2>2. d \in Chain /\ d.cause = e.cause /\ d.found = [e.found EXCEPT ![t][v] = x]
    BY ONLY <2>1, <2>5, t \in Block, v \in Var, x \in Obj, AddedStill
  <2>3. ASSUME e.cause = {} PROVE [e.found EXCEPT ![t][v] = x] = [c.found EXCEPT ![t][v] = x]
    <3>1. e.found \in Tabled /\ c.found \in Tabled
      BY <2>1 DEF Chain
    <3>2. [e.found[t] EXCEPT ![v] = x] = [c.found[t] EXCEPT ![v] = x]
      BY <2>1, <2>3, <2>4, <3>1 DEF Tabled
    <3> QED
      BY <2>1, <2>3, <3>1, <3>2 DEF Tabled
  <2> QED
    BY <2>2, <2>3
<1> QED
  BY <1>1, <1>2 DEF AddDirect

\* The two additions of a call: the second is of a name that is not modelled.
LEMMA CallGives ==
  ASSUME NEW c \in Chain, NEW x \in Obj,
         NEW b \in AddDirect(c, "method", Parm, x),
         NEW d \in {b, Turned(b, "method", Var)}
  PROVE  /\ d \in Chain
         /\ d.cause = {} => d.found = [c.found EXCEPT !["method"][Parm] = x]
<1>1. b \in Chain /\ (b.cause = {} => b.found = [c.found EXCEPT !["method"][Parm] = x])
  BY AddDirectGives, Kinds
<1>2. CASE d = Turned(b, "method", Var)
  <2>1. /\ d \in Chain
        /\ d.cause = {} => /\ b.cause = {} /\ \A w \in Var : d.found["method"][w] = b.found["method"][w]
                           /\ \A u \in Block \ {"method"} : d.found[u] = b.found[u]
    BY <1>1, <1>2, TurnedStill, Kinds
  <2>2. d.found \in Tabled /\ b.found \in Tabled
    BY <1>1, <2>1 DEF Chain
  <2>3. d.cause = {} => d.found = b.found
    BY <2>1, <2>2 DEF Tabled
  <2> QED
    BY <1>1, <2>1, <2>3
<1> QED
  BY <1>1, <1>2

----------------------------------------------------------------------------
(***************************************************************************)
(* The actions.                                                            *)
(***************************************************************************)
LEMMA StoreKeepsSane ==
  ASSUME NEW r, Sound(r.m, env), r.val \in Obj, Live(r.m, r.val),
         NEW a, a.var \in Var, a.thr \in Block, a.last \in Obj \cup {None},
         NEW cur \in Block, NEW waiting, Waits(waiting), Last(waiting).blk = cur,
         a.var = Parm => Table(a.thr) = "method",
         cur = "method" => Table(a.thr) = "method" /\ Holds(r.m, env),
         Store(r, a, cur, waiting), causes' = {}, oldest \in Tabled
  PROVE  /\ Sane(mem', env', frames') /\ NeatStill(r.m, mem') /\ Len(frames') = Len(waiting)
         /\ oldest' \in Tabled
<1> DEFINE t    == Table(a.thr)
           v    == a.var
           x    == r.val
           back == [r.m EXCEPT !.last[a.thr] = a.last]
           less == IF env[t][v] = None THEN back ELSE object_refcount_down(back, env[t][v], cur)
           K    == {o \in {x} \cap Made : v = Parm}
           g    == [less EXCEPT !.last[a.thr] = x, !.kept = @ \cup K]
<1>11. /\ EndOfCell(CountUp(g, x), x, waiting)
       /\ \E c \in AddDirect(Chains, t, v, x) :
            /\ env' = c.found /\ oldest' = c.oldest
            /\ causes' = causes \cup r.cause \cup c.cause
                 \cup (IF x \in Gone(back, less) THEN {"itself"} ELSE {})
                 \cup (IF v = Parm /\ env[t][v] \in Made THEN {"parameter"} ELSE {})
                 \cup (IF \E o \in Gone(back, less) : Maker(back, o) # {cur} THEN {"foreign"} ELSE {})
  BY DEF Store
<1>1. /\ EndOfCell(CountUp(g, x), x, waiting)
      /\ env' = [env EXCEPT ![t][v] = x] /\ oldest' \in Tabled
      /\ causes' = causes \cup r.cause
           \cup (IF x \in Gone(back, less) THEN {"itself"} ELSE {})
           \cup (IF v = Parm /\ env[t][v] \in Made THEN {"parameter"} ELSE {})
           \cup (IF \E o \in Gone(back, less) : Maker(back, o) # {cur} THEN {"foreign"} ELSE {})
  <2> HIDE DEF t, v, x, g, less, back
  <2>1. PICK c \in AddDirect(Chains, t, v, x) :
          /\ env' = c.found /\ oldest' = c.oldest
          /\ causes' = causes \cup r.cause \cup c.cause
               \cup (IF x \in Gone(back, less) THEN {"itself"} ELSE {})
               \cup (IF v = Parm /\ env[t][v] \in Made THEN {"parameter"} ELSE {})
               \cup (IF \E o \in Gone(back, less) : Maker(back, o) # {cur} THEN {"foreign"} ELSE {})
    BY <1>11
  <2>2. c.cause = {}
    BY <2>1
  <2>3. t \in Block /\ v \in Var /\ x \in Obj
    BY Kinds DEF t, v, x, Table
  <2>4. Chains \in Chain /\ Chains.found = env
    BY ChainsType DEF Chains, Sound, Tables
  <2>5. c \in Chain /\ c.found = [env EXCEPT ![t][v] = x]
    BY <2>2, <2>3, <2>4, AddDirectGives
  <2> QED
    BY <1>11, <2>1, <2>2, <2>5 DEF Chain
<1>8. K \in SUBSET Obj /\ (v = Parm => x \in Lit \/ x \in K)
  BY DEF Obj
<1> HIDE DEF K, g, less, back
<1>2. /\ x \notin Gone(back, less) /\ (v = Parm => env[t][v] \notin Made)
      /\ \A o \in Gone(back, less) : Maker(back, o) = {cur}
  BY <1>1
<1>3. Ended(CountUp(g, x), x, waiting, mem', frames')
  BY <1>1 DEF EndOfCell, Ended
<1>4. t \in Block
  BY Kinds DEF Table
<1>5. /\ Alike(r.m, back)
      /\ less = IF env[t][v] = None THEN back ELSE object_refcount_down(back, env[t][v], cur)
      /\ Noted(less, a.thr, x, K, g)
  <2>1. r.m \in Heap
    BY DEF Sound
  <2>2. Alike(r.m, back)
    BY <2>1, LastAlike DEF back
  <2> QED
    BY <2>2 DEF less, g, Noted
<1>6. /\ Sound(r.m, env) /\ x \in Obj /\ Live(r.m, x) /\ v \in Var /\ a.thr \in Block
      /\ a.last \in Obj \cup {None} /\ cur \in Block /\ Waits(waiting) /\ Last(waiting).blk = cur
      /\ (v = Parm => t = "method") /\ (cur = "method" => t = "method" /\ Holds(r.m, env))
  OBVIOUS
<1>7. Given(env, t, v, x, env')
  <2>1. env \in Tabled /\ x \in Obj \cup {None}
    BY DEF Sound, Tables
  <2> HIDE DEF t, v, x
  <2>2. Given(env, t, v, x, [env EXCEPT ![t][v] = x])
    BY <1>4, <1>6, <2>1, VarGiven
  <2> QED
    BY <1>1, <2>2
<1> DEFINE m == r.m
<1>9. /\ Alike(m, back) /\ Sound(m, env) /\ Live(m, x)
      /\ (cur = "method" => t = "method" /\ Holds(m, env))
  BY <1>5, <1>6
<1> HIDE DEF t, v, x, m
<1>10. Carried(m, mem', env', frames', Len(waiting))
  BY ONLY <1>2, <1>3, <1>4, <1>5, <1>6, <1>7, <1>8, <1>9, StoreSane
<1> QED
  BY <1>1, <1>10 DEF m, Carried

LEMMA StoreClean ==
  ASSUME Going', NEW r, NEW a, NEW cur, NEW waiting, Store(r, a, cur, waiting)
  PROVE  r.cause = {}
BY DEF Going, Store

LEMMA SaneRunning ==
  ASSUME IInv, Going
  PROVE  /\ Running /\ Sane(mem, env, frames) /\ Waits(frames) /\ Last(frames).blk = Cur
         /\ Sound(mem, env) /\ mem \in Heap /\ oldest \in Tabled
BY WaitsTop DEF IInv, Sane, Running, Cur, Sound

LEMMA TargetIs ==
  ASSUME Running, NEW v \in Var
  PROVE  /\ Begun(v).var = v /\ Begun(v).thr = Target(v) /\ Begun(v).last \in Obj \cup {None}
         /\ Target(v) \in Block /\ (Cur = "method" => Table(Target(v)) = "method")
         /\ v # Parm => Begun(v) \in Assigns
<1>1. Target(v) \in Block /\ (Cur = "method" => Table(Target(v)) = "method")
  BY Kinds DEF Running, Target, Around, Table
<1>2. mem.last[Target(v)] \in Obj \cup {None}
  BY <1>1, HeapParts DEF Running, Sound
<1> QED
  BY <1>1, <1>2 DEF Begun, Assigns

LEMMA AssignSane ==
  ASSUME IInv, Going', NEW v \in Var, Assign(v)
  PROVE  Sane(mem', env', frames') /\ Len(frames') = Len(frames) /\ oldest' \in Tabled
<1>1. Going /\ v \in Named(Cur)
  BY DEF Assign
<1>2. PICK r \in Rhs : Store(r, Begun(v), Cur, frames)
  BY DEF Assign
<1>3. causes' = {} /\ r.cause = {}
  BY <1>2 DEF Going, Store
<1>4. /\ Running /\ Waits(frames) /\ Last(frames).blk = Cur /\ Cur \in Block
      /\ oldest \in Tabled
  BY <1>1, SaneRunning DEF Running
<1>5. RightGood(r)
  BY <1>2, <1>3, <1>4, RhsGood
<1>6. /\ Sound(r.m, env) /\ r.val \in Obj /\ Live(r.m, r.val)
      /\ (Cur = "method" => Holds(r.m, env))
  BY <1>4, <1>5 DEF RightGood, Onward, Running, Holds
<1>7. v = Parm => Cur = "method"
  BY <1>1, Kinds DEF Named
<1> DEFINE a == Begun(v)
<1>8. /\ a.var \in Var /\ a.thr \in Block /\ a.last \in Obj \cup {None}
      /\ (a.var = Parm => Table(a.thr) = "method")
      /\ (Cur = "method" => Table(a.thr) = "method")
  BY <1>4, <1>7, TargetIs
<1> HIDE DEF a
<1>9. Store(r, a, Cur, frames)
  BY <1>2 DEF a
<1> QED
  BY ONLY <1>3, <1>4, <1>6, <1>8, <1>9, StoreKeepsSane

LEMMA EndedHere ==
  ASSUME NEW m, NEW val \in Obj, Onward(mem, env, m), Live(m, val), IInv, Going,
         EndOfCell(m, val, frames)
  PROVE  Sane(mem', env, frames') /\ Len(frames') = Len(frames)
<1>1. Running /\ Waits(frames) /\ Last(frames).blk = Cur /\ Sound(m, env)
  BY SaneRunning DEF Onward
<1>2. Last(frames).blk = "method" => Holds(m, env)
  BY <1>1 DEF Onward, Running, Holds
<1>3. Ended(m, val, frames, mem', frames')
  BY DEF EndOfCell, Ended
<1> QED
  BY <1>1, <1>2, <1>3, EndedSane

LEMMA StatementSane ==
  ASSUME IInv, Going', Statement
  PROVE  Sane(mem', env', frames') /\ Len(frames') = Len(frames) /\ oldest' \in Tabled
<1>1. PICK r \in ary_pop \cup ary_shift \cup ary_push \cup New :
        EndOfCell(r.m, r.val, frames) /\ causes' = causes \cup r.cause
  BY DEF Statement
<1>2. Going /\ env' = env /\ r.cause = {} /\ r \in Rhs
  BY <1>1 DEF Statement, Going, Rhs
<1>3. RightGood(r)
  BY <1>2, SaneRunning, RhsGood
<1>4. r.val \in Obj /\ Onward(mem, env, r.m) /\ Live(r.m, r.val)
  BY <1>3 DEF RightGood
<1>5. Sane(mem', env, frames') /\ Len(frames') = Len(frames)
  BY <1>1, <1>2, <1>4, EndedHere
<1>6. oldest' \in Tabled
  BY <1>2, SaneRunning DEF Statement
<1> QED
  BY <1>2, <1>5, <1>6

LEMMA GcRunSane ==
  ASSUME IInv, Going', GcRun
  PROVE  /\ Sane(mem', env', frames') /\ Len(frames') = Len(frames) /\ oldest' \in Tabled
         /\ \A b \in Around(Cur) : Neat(mem', b)
<1> DEFINE own   == Sweep(mem, Cur)
           swept == IF Cur = "inner" THEN Sweep(own, "main") ELSE own
<1>1. /\ Going /\ env' = env /\ oldest' = oldest
      /\ \E nil \in Lit : EndOfCell(AfterCall(swept), nil, frames)
      /\ causes' = causes \cup SweepCauses(mem, Cur)
           \cup (IF Cur = "inner" THEN SweepCauses(own, "main") ELSE {})
  BY DEF GcRun
<1>2. /\ Running /\ Sound(mem, env) /\ Waits(frames) /\ Last(frames).blk = Cur /\ Cur \in Block
      /\ oldest \in Tabled
  BY <1>1, SaneRunning DEF Running
<1> HIDE DEF own
<1>3. /\ SweepCauses(mem, Cur) = {} /\ (Cur = "inner" => SweepCauses(own, "main") = {})
  BY <1>1 DEF Going
<1>4. Done(mem, env, Cur, own)
  BY <1>2, <1>3, SweepSound DEF own
<1>5. Cur = "inner" => Done(own, env, "main", Sweep(own, "main"))
  <2>1. Sound(own, env)
    BY <1>4 DEF Done
  <2> QED
    BY <1>3, <2>1, Kinds, SweepSound
<1>6. Sound(swept, env) /\ (Cur = "method" => Holds(swept, env))
  BY <1>2, <1>4, <1>5 DEF Done, Running, Holds
<1>12. \A b \in Around(Cur) : Neat(swept, b)
  <2>1. Neat(own, Cur)
    BY <1>4 DEF Done, Neat
  <2>2. CASE Cur = "inner"
    <3>1. swept = Sweep(own, "main") /\ Done(own, env, "main", swept)
      BY <1>5, <2>2
    <3>2. Neat(swept, "main")
      BY <3>1 DEF Done, Neat
    <3>3. NeatStill(own, swept)
      BY <3>1, TakenFalls, FallenNeat, Kinds DEF Done
    <3> QED
      BY <1>2, <2>1, <2>2, <3>2, <3>3 DEF Around, NeatStill
  <2>3. CASE Cur # "inner"
    BY <2>1, <2>3 DEF Around
  <2> QED
    BY <2>2, <2>3
<1> HIDE DEF swept
<1>7. Alike(swept, AfterCall(swept))
  BY <1>2, <1>6, AfterCallAlike DEF Sound
<1>8. /\ Sound(AfterCall(swept), env) /\ (Cur = "method" => Holds(AfterCall(swept), env))
  BY <1>6, <1>7, AlikeSound, Kinds DEF Holds
<1>9. PICK nil \in Lit : EndOfCell(AfterCall(swept), nil, frames)
  BY <1>1
<1>10. nil \in Obj /\ Live(AfterCall(swept), nil)
  BY <1>8, Kinds DEF Sound, Pinned
<1>11. Ended(AfterCall(swept), nil, frames, mem', frames')
  BY <1>9 DEF EndOfCell, Ended
<1>13. Sane(mem', env, frames') /\ NeatStill(AfterCall(swept), mem') /\ Len(frames') = Len(frames)
  BY <1>2, <1>8, <1>10, <1>11, EndedSane
<1>14. NeatStill(swept, AfterCall(swept))
  BY <1>6, <1>7, AlikeNeat
<1>15. Around(Cur) \subseteq Block
  BY <1>2, Kinds DEF Around
<1> QED
  BY <1>1, <1>2, <1>12, <1>13, <1>14, <1>15 DEF NeatStill

\* A block more.
LEMMA WaitsMore ==
  ASSUME NEW fs, Waits(fs), Last(fs).blk # "method", NEW b \in {"inner", "method"},
         NEW a \in Assigns \cup {None}
  PROVE  /\ Waits(Append(fs, Frame(b, a))) /\ Len(Append(fs, Frame(b, a))) = Len(fs) + 1
         /\ Last(Append(fs, Frame(b, a))).blk = b /\ Last(Append(fs, Frame(b, a))).val = None
<1> DEFINE f == Frame(b, a)
           gs == Append(fs, f)
<1>1. f \in FrameType /\ f.blk = b /\ f.val = None
  BY Kinds DEF Frame, FrameType, Block
<1> HIDE DEF f
<1>2. /\ fs \in Seq(FrameType) /\ Len(fs) \in Nat \ {0}
  BY DEF Waits
<1>3. /\ gs \in Seq(FrameType) /\ Len(gs) = Len(fs) + 1 /\ gs # <<>> /\ gs[Len(fs) + 1] = f
      /\ \A k \in 1..Len(fs) : gs[k] = fs[k]
  BY <1>1, <1>2
<1> HIDE DEF gs
<1>4. \A k \in 1..Len(fs) : fs[k].blk # "method"
  BY <1>2 DEF Waits, Last
<1>5. ASSUME NEW k \in 1..Len(gs)
      PROVE  /\ gs[k].blk = "main" => k = 1 /\ gs[k].val = None
             /\ gs[k].blk = "method" => k = Len(gs)
  <2>1. CASE k \in 1..Len(fs)
    BY <1>3, <1>4, <2>1 DEF Waits
  <2>2. CASE k = Len(fs) + 1
    BY <1>1, <1>3, <2>2
  <2> QED
    BY <1>2, <1>3, <2>1, <2>2
<1>6. gs[1].blk = "main"
  BY <1>2, <1>3 DEF Waits
<1>7. Last(gs) = f
  BY <1>3 DEF Last
<1> QED
  BY <1>1, <1>3, <1>5, <1>6, <1>7 DEF Waits, gs, f

LEMMA EnterSane ==
  ASSUME IInv, Enter
  PROVE  Sane(mem', env', frames') /\ Len(frames') = Len(frames) + 1 /\ oldest' \in Tabled
<1>1. /\ Going /\ Cur = "main" /\ frames' = Append(frames, Frame("inner", None))
      /\ mem' = mem /\ env' = env /\ oldest' = oldest
  BY DEF Enter
<1>2. Waits(frames) /\ Last(frames).blk = "main" /\ Sound(mem, env) /\ oldest \in Tabled
  BY <1>1, SaneRunning
<1>3. /\ Waits(frames') /\ Last(frames').blk = "inner" /\ Last(frames').val = None
      /\ Len(frames') = Len(frames) + 1
  BY <1>1, <1>2, WaitsMore
<1> QED
  BY <1>1, <1>2, <1>3 DEF Sane

LEMMA CallSane ==
  ASSUME IInv, Going', NEW a \in Assigns \cup {None}, Call(a)
  PROVE  Sane(mem', env', frames') /\ Len(frames') = Len(frames) + 1 /\ oldest' \in Tabled
<1>1. /\ Going /\ Cur # "method" /\ frames' = Append(frames, Frame("method", a))
  BY DEF Call
<1>12. PICK r \in Literal \cup Read \cup New :
         /\ mem' = r.m
         /\ \E bound \in AddDirect(Chains, "method", Parm, r.val) :
              \E c \in {bound, Turned(bound, "method", Var)} :
                env' = c.found /\ oldest' = c.oldest /\ causes' = causes \cup c.cause
  BY DEF Call
<1>3. /\ Running /\ Waits(frames) /\ Last(frames).blk = Cur /\ Sound(mem, env)
      /\ oldest \in Tabled
  BY <1>1, SaneRunning
<1>4. /\ Waits(frames') /\ Last(frames').blk = "method" /\ Last(frames').val = None
      /\ Len(frames') = Len(frames) + 1
  BY <1>1, <1>3, WaitsMore
<1> DEFINE m == r.m
           x == r.val
<1>5. RightGood(r)
  BY <1>3, LiteralGood, ReadGood, NewGood
<1>6. Sound(m, env) /\ x \in Obj /\ Live(m, x)
  BY <1>5 DEF RightGood, Onward
<1>2. mem' = m /\ env' = [env EXCEPT !["method"][Parm] = x] /\ oldest' \in Tabled
  <2> HIDE DEF m, x
  <2>1. PICK bound \in AddDirect(Chains, "method", Parm, x) :
          \E c \in {bound, Turned(bound, "method", Var)} :
            env' = c.found /\ oldest' = c.oldest /\ causes' = causes \cup c.cause
    BY <1>12 DEF x
  <2>2. PICK c \in {bound, Turned(bound, "method", Var)} :
          env' = c.found /\ oldest' = c.oldest /\ causes' = causes \cup c.cause
    BY <2>1
  <2>3. c.cause = {}
    BY <2>2 DEF Going
  <2>4. Chains \in Chain /\ Chains.found = env
    BY <1>3, ChainsType DEF Chains, Sound, Tables
  <2>5. c \in Chain /\ c.found = [env EXCEPT !["method"][Parm] = x]
    BY <1>6, <2>3, <2>4, CallGives
  <2> QED
    BY <1>12, <2>2, <2>5 DEF Chain, m
<1>7. \/ x \in Lit
      \/ \E p \in VarsOf(env, x) : p[1] # "method"
      \/ x \notin On(m, "method")
  <2>1. CASE r \in Literal
    BY <1>3, <2>1, LiteralGood
  <2>2. CASE r \in Read
    BY <1>1, <1>3, <2>2, ReadGood
  <2>3. CASE r \in New
    BY <1>1, <1>3, <2>3, NewGood, Kinds
  <2> QED
    BY <2>1, <2>2, <2>3
<1> HIDE DEF m, x
<1>8. Given(env, "method", Parm, x, env')
  <2>1. env \in Tabled /\ x \in Obj \cup {None}
    BY <1>6 DEF Sound, Tables
  <2>2. Given(env, "method", Parm, x, [env EXCEPT !["method"][Parm] = x])
    BY <2>1, Kinds, VarGiven
  <2> QED
    BY <1>2, <2>2
<1>9. \A o : PlacesIn(m, env', o) = PlacesIn(m, env, o)
  BY <1>8, Kinds, PlacesOfParm
<1>10. Sound(m, env')
  <2>1. Counted(m, env')
    BY <1>6, <1>9 DEF Sound, Counted
  <2>2. Tables(m, env')
    BY <1>6, <1>8, Kinds DEF Sound, Tables, Given
  <2>3. m \in Heap
    BY <1>6 DEF Sound
  <2> QED
    BY <1>6, <2>1, <2>2, <2>3, SoundWith
<1>11. Holds(m, env')
  <2>1. env'["method"][Parm] = x
    BY <1>8 DEF Given
  <2>2. \A p \in VarsOf(env, x) : p \in VarsOf(env', x)
    BY <1>8, Kinds DEF VarsOf, Given
  <2> QED
    BY <1>6, <1>7, <2>1, <2>2 DEF Holds, Safe
<1> QED
  BY <1>2, <1>4, <1>10, <1>11 DEF Sane

\* A block less.
LEMMA WaitsLess ==
  ASSUME NEW fs, Waits(fs), Last(fs).blk # "main"
  PROVE  Waits(Front(fs)) /\ Last(Front(fs)).blk # "method" /\ Len(Front(fs)) = Len(fs) - 1
<1> DEFINE n == Len(fs)
           gs == Front(fs)
<1>1. fs \in Seq(FrameType) /\ n \in Nat \ {0} /\ n # 1
  BY DEF Waits, Last
<1>2. gs \in Seq(FrameType) /\ Len(gs) = n - 1 /\ gs # <<>> /\ \A k \in 1..(n-1) : gs[k] = fs[k]
  <2>1. gs = SubSeq(fs, 1, n - 1)
    BY DEF Front
  <2>2. n - 1 \in Nat \ {0} /\ n - 1 <= Len(fs)
    BY <1>1
  <2>3. /\ SubSeq(fs, 1, n - 1) \in Seq(FrameType) /\ Len(SubSeq(fs, 1, n - 1)) = n - 1
        /\ \A k \in 1..(n-1) : SubSeq(fs, 1, n - 1)[k] = fs[k]
    <3> DEFINE l == n - 1
    <3>1. fs \in Seq(FrameType) /\ l \in Nat \ {0} /\ l <= Len(fs)
      BY <1>1, <2>2
    <3>2. /\ SubSeq(fs, 1, l) \in Seq(FrameType) /\ Len(SubSeq(fs, 1, l)) = l
          /\ \A k \in 1..l : SubSeq(fs, 1, l)[k] = fs[k]
      <4> HIDE DEF l
      <4>1. \A i \in 1..l : i \in 1..Len(fs) /\ fs[i] \in FrameType
        BY <3>1
      <4> QED
        BY ONLY <3>1, <4>1
    <3> QED
      BY <3>2
  <2> HIDE DEF gs, n
  <2> QED
    BY <2>1, <2>2, <2>3
<1> HIDE DEF gs
<1>3. \A k \in 1..(n-1) : /\ k \in 1..n /\ gs[k].blk # "method"
                          /\ gs[k].blk = "main" => k = 1 /\ gs[k].val = None
  BY <1>1, <1>2 DEF Waits
<1>4. gs[1].blk = "main"
  BY <1>1, <1>2 DEF Waits
<1>5. n - 1 \in 1..(n-1)
  <2> HIDE DEF n
  <2> QED
    BY <1>1
<1> QED
  BY <1>1, <1>2, <1>3, <1>4, <1>5 DEF Waits, Last, gs

LEMMA ReturnSane ==
  ASSUME IInv, Going', Return
  PROVE  /\ Sane(mem', env', frames') /\ Len(frames') = Len(frames) - 1 /\ Neat(mem', Cur)
         /\ oldest' \in Tabled
<1> DEFINE f       == Last(frames)
           waiting == Front(frames)
           caller  == Last(waiting).blk
           swept   == Sweep(mem, f.blk)
           back    == IF f.blk = "method" THEN [swept EXCEPT !.last[caller] = None] ELSE swept
           cause   == SweepCauses(mem, f.blk)
                        \cup (IF f.val \in Gone(mem, swept) THEN {"returned"} ELSE {})
<1>1. /\ Going /\ Cur # "main" /\ f.val # None
      /\ IF f.assign # None
         THEN Store(Result(back, f.val, cause), f.assign, caller, waiting)
         ELSE /\ EndOfCell(back, f.val, waiting) /\ causes' = causes \cup cause
              /\ env' = env /\ oldest' = oldest
  BY DEF Return
<1>2. /\ Sane(mem, env, frames) /\ Waits(frames) /\ f.blk = Cur /\ Sound(mem, env)
      /\ oldest \in Tabled
  BY <1>1, SaneRunning
<1>3. /\ f.blk \in Block /\ f.val \in Obj /\ f.assign \in Assigns \cup {None} /\ Live(mem, f.val)
  BY <1>1, <1>2, WaitsTop DEF Sane
<1>4. Waits(waiting) /\ caller # "method" /\ caller \in Block /\ Len(waiting) = Len(frames) - 1
  BY <1>1, <1>2, WaitsLess, WaitsTop
<1> HIDE DEF f, waiting, caller, swept, back, cause
<1>5. cause = {}
  <2>1. CASE f.assign # None
    <3>1. PICK r : r = Result(back, f.val, cause)
      OBVIOUS
    <3>2. r.cause = {}
      BY <1>1, <2>1, <3>1, StoreClean
    <3> QED
      BY <3>1, <3>2 DEF Result
  <2>2. CASE f.assign = None
    BY <1>1, <2>2 DEF Going
  <2> QED
    BY <2>1, <2>2
<1>6. SweepCauses(mem, f.blk) = {} /\ f.val \notin Gone(mem, swept)
  BY <1>5 DEF cause
<1>7. Done(mem, env, f.blk, swept)
  BY <1>2, <1>3, <1>6, SweepSound DEF swept
<1>8. Sound(swept, env) /\ Live(swept, f.val)
  BY <1>3, <1>6, <1>7 DEF Done, Taken, Gone, Live
<1>12. Neat(swept, Cur) /\ Cur \in Block
  BY <1>2, <1>3, <1>7 DEF Done, Neat
<1>9. Sound(back, env) /\ Live(back, f.val) /\ NeatStill(swept, back)
  <2>1. CASE f.blk = "method"
    <3>1. swept \in Heap /\ None \in Obj \cup {None}
      BY <1>8 DEF Sound
    <3>2. Alike(swept, back)
      BY <1>4, <2>1, <3>1, LastAlike DEF back
    <3> QED
      BY <1>8, <3>2, AlikeSound, AlikeNeat
  <2>2. CASE f.blk # "method"
    BY <1>8, <2>2 DEF back, NeatStill
  <2> QED
    BY <2>1, <2>2
<1>10. CASE f.assign # None
  <2> DEFINE r == Result(back, f.val, cause)
  <2>1. r.m = back /\ r.val = f.val
    BY DEF Result
  <2>2. Store(r, f.assign, caller, waiting) /\ causes' = {}
    BY <1>1, <1>10 DEF Going
  <2> HIDE DEF r
  <2>3. Sound(r.m, env) /\ r.val \in Obj /\ Live(r.m, r.val)
    BY <1>3, <1>9, <2>1
  <2>4. /\ f.assign.var \in Var /\ f.assign.thr \in Block /\ f.assign.last \in Obj \cup {None}
        /\ f.assign.var # Parm
    BY <1>3, <1>10 DEF Assigns
  <2>5. Last(waiting).blk = caller
    BY DEF caller
  <2>6. /\ Sane(mem', env', frames') /\ NeatStill(r.m, mem') /\ Len(frames') = Len(waiting)
        /\ oldest' \in Tabled
    BY <1>2, <1>4, <2>2, <2>3, <2>4, <2>5, StoreKeepsSane
  <2> QED
    BY <1>4, <1>9, <1>12, <2>1, <2>6 DEF NeatStill
<1>11. CASE f.assign = None
  <2>1. EndOfCell(back, f.val, waiting) /\ env' = env /\ oldest' \in Tabled
    BY <1>1, <1>2, <1>11
  <2>2. Ended(back, f.val, waiting, mem', frames')
    BY <2>1 DEF EndOfCell, Ended
  <2>3. Last(waiting).blk # "method"
    BY <1>4 DEF caller
  <2>4. Sane(mem', env, frames') /\ NeatStill(back, mem') /\ Len(frames') = Len(waiting)
    BY <1>3, <1>4, <1>9, <2>2, <2>3, EndedSane
  <2> QED
    BY <1>4, <1>9, <1>12, <2>1, <2>4 DEF NeatStill
<1> QED
  BY <1>10, <1>11

----------------------------------------------------------------------------
(***************************************************************************)
(* The start: the literals are listed by the block "inner", each once.     *)
(***************************************************************************)
LEMMA SetAsSeq ==
  ASSUME NEW S, IsFiniteSet(S)
  PROVE  SetToSeq(S) \in Seq(S) /\ IsInjective(SetToSeq(S)) /\ In(SetToSeq(S)) = S
<1> DEFINE n == Cardinality(S)
           f == SetToSeq(S)
<1>1. n \in Nat /\ ExistsBijection(1..n, S)
  BY FS_CardinalityType
<1>2. \E g \in [1..n -> S] : IsInjective(g)
  BY <1>1 DEF ExistsBijection, Bijection, Injection
<1>3. f \in [1..n -> S] /\ IsInjective(f)
  BY <1>2 DEF SetToSeq
<1> HIDE DEF f
<1>4. f \in Injection(1..n, S)
  BY <1>3 DEF Injection
<1>5. IsFiniteSet(1..n) /\ Cardinality(1..n) = n
  <2> HIDE DEF n
  <2>1. 1 \in Int /\ n \in Int
    BY <1>1
  <2>2. IsFiniteSet(1..n) /\ Cardinality(1..n) = IF 1 > n THEN 0 ELSE n - 1 + 1
    BY ONLY <2>1, FS_Interval
  <2> QED
    BY <1>1, <2>2
<1>6. f \in Surjection(1..n, S)
  BY <1>4, <1>5, FS_Injection
<1>7. In(f) = S
  BY <1>3, <1>6 DEF In, Surjection
<1>8. f \in Seq(S)
  <2> HIDE DEF n
  <2> QED
    BY <1>1, <1>3
<1> QED
  BY <1>3, <1>7, <1>8 DEF f

LEMMA InitHeap ==
  ASSUME Init
  PROVE  /\ mem \in Heap /\ Listed(mem)
         /\ \A o \in Obj : Live(mem, o) <=> o \in Lit
         /\ \A o \in Obj : mem.rc[o] = IF o \in Lit THEN GC_NEVER_FREE ELSE 0
         /\ \A a \in Ary : mem.elems[a] = <<>>
<1> DEFINE f == SetToSeq(Lit)
           st == [o \in Obj |-> IF o \in Lit THEN "live" ELSE "unborn"]
           rc == [o \in Obj |-> IF o \in Lit THEN GC_NEVER_FREE ELSE 0]
           elems == [a \in Ary |-> <<>>]
           stk   == [b \in Block |-> IF b = "inner" THEN f ELSE <<>>]
           last  == [b \in Block |-> None]
<1>1. mem = [st |-> st, rc |-> rc, elems |-> elems, stk |-> stk, last |-> last, kept |-> {}]
  BY DEF Init
<1>2. IsFiniteSet(Lit)
  BY SizesAssumption, Kinds, FS_Subset
<1>3. f \in Seq(Lit) /\ IsInjective(f) /\ In(f) = Lit
  BY <1>2, SetAsSeq
<1> HIDE DEF f
<1>4. f \in Seq(Obj)
  <2>1. Lit \subseteq Obj
    BY Kinds
  <2> QED
    BY <1>3, <2>1
<1>5. st \in [Obj -> {"unborn", "live", "freed"}]
  OBVIOUS
<1>6. rc \in [Obj -> Int]
  BY DEF GC_NEVER_FREE
<1>7. elems \in [Ary -> Seq(Obj)]
  OBVIOUS
<1>8. stk \in [Block -> Seq(Obj)] /\ stk["inner"] = f /\ \A b \in Block : b # "inner" => stk[b] = <<>>
  BY <1>4, Kinds
<1>9. last \in [Block -> Obj \cup {None}]
  OBVIOUS
<1>10. /\ \A o \in Obj : st[o] = "live" <=> o \in Lit
       /\ \A o \in Obj : rc[o] = IF o \in Lit THEN GC_NEVER_FREE ELSE 0
       /\ \A a \in Ary : elems[a] = <<>>
  OBVIOUS
<1> HIDE DEF st, rc, elems, stk, last
<1>11. mem \in Heap
  BY <1>1, <1>5, <1>6, <1>7, <1>8, <1>9 DEF Heap
<1>12. mem.st = st /\ mem.rc = rc /\ mem.elems = elems /\ mem.stk = stk
  BY <1>1
<1>13. /\ On(mem, "inner") = Lit /\ IsInjective(mem.stk["inner"])
       /\ \A b \in Block : b # "inner" => On(mem, b) = {} /\ IsInjective(mem.stk[b])
  <2>1. In(<<>>) = {} /\ IsInjective(<<>>)
    BY DEF In, IsInjective
  <2> QED
    BY <1>3, <1>8, <1>12, <2>1 DEF On
<1>14. Listed(mem)
  <2>1. Apart(mem)
    BY <1>13 DEF Apart
  <2>2. \A b \in Block : \A o \in On(mem, b) : Live(mem, o)
    BY <1>10, <1>12, <1>13, Kinds DEF Live
  <2>3. \A o \in Obj : Live(mem, o) => \E b \in Block : o \in On(mem, b)
    BY <1>10, <1>12, <1>13, Kinds DEF Live
  <2> QED
    BY <2>1, <2>2, <2>3 DEF Listed
<1> QED
  BY <1>10, <1>11, <1>12, <1>14 DEF Live

LEMMA InitSane == Init => IInv
<1> SUFFICES ASSUME Init PROVE Sane(mem, env, frames) /\ oldest \in Tabled
  BY DEF IInv
<1>1. /\ mem \in Heap /\ Listed(mem)
      /\ \A o \in Obj : Live(mem, o) <=> o \in Lit
      /\ \A o \in Obj : mem.rc[o] = IF o \in Lit THEN GC_NEVER_FREE ELSE 0
      /\ \A a \in Ary : mem.elems[a] = <<>>
  BY InitHeap
<1>2. env = [t \in Block |-> [v \in Var |-> None]] /\ frames = <<Frame("main", None)>>
  BY DEF Init
<1>3. Tables(mem, env) /\ oldest \in Tabled
  BY <1>2, Kinds DEF Tables, Tabled, Init
<1>4. Pinned(mem) /\ Fresh(mem)
  BY <1>1, Kinds DEF Pinned, Fresh
<1>5. Filled(mem)
  BY <1>1 DEF Filled
<1>6. Counted(mem, env)
  BY <1>1, Kinds DEF Counted
<1>7. Sound(mem, env)
  BY <1>1, <1>3, <1>4, <1>5, <1>6 DEF Sound
<1> DEFINE f == Frame("main", None)
<1>8. f \in FrameType /\ f.blk = "main" /\ f.val = None
  BY Kinds DEF Frame, FrameType
<1> HIDE DEF f
<1>9. frames = <<f>> /\ frames \in Seq(FrameType) /\ Len(frames) = 1 /\ frames[1] = f
  BY <1>2, <1>8 DEF f
<1>10. Last(frames) = f
  BY <1>9 DEF Last
<1>11. Waits(frames)
  BY <1>8, <1>9 DEF Waits
<1> QED
  BY <1>3, <1>7, <1>8, <1>10, <1>11 DEF Sane

----------------------------------------------------------------------------
(***************************************************************************)
(* The steps.                                                              *)
(***************************************************************************)
LEMMA BegunIs ==
  ASSUME IInv, Going, NEW v \in Var \ {Parm} PROVE Begun(v) \in Assigns
BY TargetIs, SaneRunning

LEMMA IInvStep == IInv /\ [Next]_vars => IInv'
<1> SUFFICES ASSUME IInv, [Next]_vars, Going' PROVE Sane(mem', env', frames') /\ oldest' \in Tabled
  BY DEF IInv
<1>1. ASSUME NEW v \in Var, Assign(v) PROVE Sane(mem', env', frames') /\ oldest' \in Tabled
  BY <1>1, AssignSane
<1>2. ASSUME NEW v \in Var \ {Parm}, Call(Begun(v)) PROVE Sane(mem', env', frames') /\ oldest' \in Tabled
  <2>1. Begun(v) \in Assigns
    BY <1>2, BegunIs DEF Call
  <2> QED
    BY <1>2, <2>1, CallSane
<1>3. CASE Call(None)
  BY <1>3, CallSane
<1>4. CASE Statement
  BY <1>4, StatementSane
<1>5. CASE GcRun
  BY <1>5, GcRunSane
<1>6. CASE Return
  BY <1>6, ReturnSane
<1>7. CASE Enter
  BY <1>7, EnterSane
<1>8. CASE UNCHANGED vars
  BY <1>8 DEF vars, IInv, Going
<1> QED
  BY <1>1, <1>2, <1>3, <1>4, <1>5, <1>6, <1>7, <1>8 DEF Next

\* The invariant: the heap, the tables and the blocks are in order, and the
\* parameter of a method that runs is live and no sweep or drop takes it; as long
\* as the script does nothing of what causes names, which includes that no table
\* grows while a name in it has older, different entries (eval.c:143-148).
THEOREM Invariant == Spec => []IInv
BY InitSane, IInvStep, PTL DEF Spec

----------------------------------------------------------------------------
(***************************************************************************)
(* What the invariant says.                                                *)
(***************************************************************************)
LEMMA NothingDanglesHolds == IInv => NothingDangles
<1> SUFFICES ASSUME IInv, Going, NEW o \in Held \ {None} PROVE mem.st[o] = "live"
  BY DEF NothingDangles
<1>1. Sane(mem, env, frames) /\ Sound(mem, env) /\ mem \in Heap /\ Waits(frames)
  BY SaneRunning
<1>2. CASE o \in Lit
  BY <1>1, <1>2 DEF Sound, Pinned, Live
<1>3. CASE o \in {env[t][v] : t \in Block, v \in Var \ {Parm}}
  BY <1>1, <1>3 DEF Sound, Tables, Live
<1>4. ASSUME NEW f \in {g \in Range(frames) : g.blk = "method"}, o = env["method"][Parm]
      PROVE  mem.st[o] = "live"
  <2>1. PICK k \in 1..Len(frames) : f = frames[k] /\ f.blk = "method"
    BY <1>1 DEF Range, Waits
  <2>2. Last(frames).blk = "method"
    BY <1>1, <2>1, WaitsTop DEF Waits
  <2> QED
    BY <1>1, <1>4, <2>2 DEF Sane, Holds, Safe, Live
<1>5. ASSUME NEW a \in Ary, Live(mem, a), o \in Range(mem.elems[a]) PROVE mem.st[o] = "live"
  BY <1>1, <1>5 DEF Sound, Filled, Range, Live
<1>6. ASSUME NEW b \in Block, o \in Range(mem.stk[b]) PROVE mem.st[o] = "live"
  BY <1>1, <1>6 DEF Sound, Listed, On, In, Range, Live
<1>7. CASE o = Last(frames).val
  BY <1>1, <1>7 DEF Sane, Live
<1>8. \/ o \in Lit
      \/ o \in {env[t][v] : t \in Block, v \in Var \ {Parm}}
      \/ \E f \in {g \in Range(frames) : g.blk = "method"} : o = env["method"][Parm]
      \/ \E a \in Ary : Live(mem, a) /\ o \in Range(mem.elems[a])
      \/ \E b \in Block : o \in Range(mem.stk[b])
      \/ o = Last(frames).val
  <2> DEFINE T == {env[t][v] : t \in Block, v \in Var \ {Parm}}
             P == {env["method"][Parm] : f \in {g \in Range(frames) : g.blk = "method"}}
             E == UNION {Range(mem.elems[a]) : a \in {b \in Ary : mem.st[b] = "live"}}
             L == UNION {Range(mem.stk[b]) : b \in Block}
  <2>1. Held = Lit \cup T \cup P \cup E \cup L \cup {Last(frames).val}
    BY DEF Held
  <2>2. o \in P => \E f \in {g \in Range(frames) : g.blk = "method"} : o = env["method"][Parm]
    OBVIOUS
  <2>3. o \in E => \E a \in Ary : Live(mem, a) /\ o \in Range(mem.elems[a])
    BY DEF Live
  <2>4. o \in L => \E b \in Block : o \in Range(mem.stk[b])
    OBVIOUS
  <2> HIDE DEF T, P, E, L
  <2>5. o \in Lit \/ o \in T \/ o \in P \/ o \in E \/ o \in L \/ o = Last(frames).val
    BY <2>1
  <2> QED
    BY <2>2, <2>3, <2>4, <2>5 DEF T
<1> QED
  BY <1>2, <1>3, <1>4, <1>5, <1>6, <1>7, <1>8

LEMMA PlacesAre ==
  ASSUME NEW m \in Heap, NEW en, NEW o
  PROVE  {p \in Block \X (Var \ {Parm}) : en[p[1]][p[2]] = o}
           \cup UNION {{<<a, k>> : k \in {j \in DOMAIN m.elems[a] : m.elems[a][j] = o}}
                        : a \in {b \in Ary : m.st[b] = "live"}}
         = PlacesIn(m, en, o)
<1>1. ASSUME NEW a \in Ary
      PROVE  {<<a, k>> : k \in {j \in DOMAIN m.elems[a] : m.elems[a][j] = o}}
               = Pairs(a, m.elems[a], 0, o)
  <2>1. m.elems[a] \in Seq(Obj)
    BY HeapParts
  <2>2. \A j \in DOMAIN m.elems[a] : 0 < j
    BY <2>1
  <2> QED
    BY <2>2 DEF Pairs
<1>2. {p \in Block \X (Var \ {Parm}) : en[p[1]][p[2]] = o} = VarsOf(en, o)
  BY DEF VarsOf
<1>3. UNION {{<<a, k>> : k \in {j \in DOMAIN m.elems[a] : m.elems[a][j] = o}}
               : a \in {b \in Ary : m.st[b] = "live"}}
      = UNION {Pairs(a, m.elems[a], 0, o) : a \in {b \in Ary : m.st[b] = "live"}}
  BY <1>1
<1> QED
  BY <1>2, <1>3 DEF PlacesIn, Live

LEMMA CountsMatchHolds == IInv => CountsMatch
<1> SUFFICES ASSUME IInv, Going, NEW o \in Made, mem.st[o] = "live"
             PROVE  /\ mem.rc[o] >= Cardinality(Places(o))
                    /\ mem.rc[o] > Cardinality(Places(o)) => o \in mem.kept
  BY DEF CountsMatch
<1>1. Sound(mem, env) /\ mem \in Heap
  BY SaneRunning
<1>2. Due(mem.rc[o], Cardinality(PlacesIn(mem, env, o)), o \in mem.kept)
  BY <1>1 DEF Sound, Counted, Live
<1>3. Places(o) = PlacesIn(mem, env, o)
  BY <1>1, PlacesAre DEF Places
<1> QED
  BY <1>2, <1>3 DEF Due

LEMMA ListedOnceHolds == IInv => ListedOnce
<1> SUFFICES ASSUME IInv, Going
             PROVE  /\ \A o \in Obj : mem.st[o] = "live" => Cardinality(Maker(mem, o)) = 1
                    /\ \A b \in Block : IsInjective(mem.stk[b])
  BY DEF ListedOnce
<1>1. mem \in Heap /\ Listed(mem)
  BY SaneRunning DEF Sound
<1>2. ASSUME NEW o \in Obj, mem.st[o] = "live" PROVE Cardinality(Maker(mem, o)) = 1
  <2>1. PICK b \in Block : o \in On(mem, b)
    BY <1>1, <1>2 DEF Listed, Live
  <2>2. Maker(mem, o) = {b}
    BY <1>1, <2>1, MakerIs
  <2> QED
    BY <2>2, FS_Singleton
<1> QED
  BY <1>1, <1>2 DEF Listed, Apart

\* As long as the script does nothing of what causes names, no variable,
\* parameter of a running method, live array, list of a block or value of the
\* running block refers to a freed object: not after an assignment has dropped
\* the last reference, nor after the end of a block, nor after GC.run(), nor
\* after the growth of a table whose names have had one value each.
THEOREM NothingDanglesAlways == Spec => []NothingDangles
BY Invariant, NothingDanglesHolds, PTL

\* As long as nothing of what causes names is done, the count of a live object
\* is the number of its references, or higher for one of the two reasons kept
\* has: never lower.  A reference is what a lookup finds: the older entries of a
\* name, which a growth would bring back, are not counted (eval.c:143-148).
THEOREM CountsMatchAlways == Spec => []CountsMatch
BY Invariant, CountsMatchHolds, PTL

\* Each live object is in the list of one block, once.
THEOREM ListedOnceAlways == Spec => []ListedOnce
BY Invariant, ListedOnceHolds, PTL

----------------------------------------------------------------------------
LEMMA NeatSwept ==
  ASSUME NEW m, NEW en, Sound(m, en), NEW b \in Block, Neat(m, b),
         NEW o \in Range(m.stk[b]), o \notin Lit \cup m.kept
  PROVE  m \in Heap /\ PlacesIn(m, en, o) # {}
<1>1. m \in Heap
  BY DEF Sound
<1>2. o \in On(m, b) /\ o \in Obj
  <2>1. m.stk[b] \in Seq(Obj)
    BY <1>1, HeapParts
  <2> QED
    BY <2>1 DEF Range, On, In
<1>3. o \in Made /\ Live(m, o) /\ Kept(m, o)
  BY <1>1, <1>2 DEF Obj, Sound, Listed, Neat
<1>4. Due(m.rc[o], Cardinality(PlacesIn(m, en, o)), o \in m.kept)
  BY <1>1, <1>3 DEF Sound, Counted
<1>5. m.rc[o] = Cardinality(PlacesIn(m, en, o)) /\ Cardinality(PlacesIn(m, en, o)) \in Nat
  <2>1. Cardinality(PlacesIn(m, en, o)) \in Nat /\ m.rc[o] \in Int
    BY <1>1, <1>2, PlacesFinite, HeapParts
  <2> QED
    BY <1>4, <2>1 DEF Due
<1>6. Cardinality(PlacesIn(m, en, o)) > 0
  BY <1>3, <1>5 DEF Kept, GC_NEVER_FREE
<1> QED
  BY <1>1, <1>6, FS_EmptySet

LEMMA ShorterReturns ==
  ASSUME IInv, [Next]_vars, Going', Len(frames') < Len(frames) PROVE Return
<1>1. Len(frames) \in Nat
  <2>1. CASE Going
    BY <2>1, SaneRunning, WaitsTop
  <2>2. CASE ~Going
    BY <2>2 DEF Next, vars, Going, Assign, Call, Statement, GcRun, Return, Enter
  <2> QED
    BY <2>1, <2>2
<1> SUFFICES ASSUME ~Return PROVE Len(frames') \in Nat /\ Len(frames') >= Len(frames)
  BY <1>1
<1>2. ASSUME NEW v \in Var, Assign(v) PROVE Len(frames') = Len(frames)
  BY <1>2, AssignSane
<1>3. ASSUME NEW v \in Var \ {Parm}, Call(Begun(v)) PROVE Len(frames') = Len(frames) + 1
  <2>1. Begun(v) \in Assigns
    BY <1>3, BegunIs DEF Call
  <2> QED
    BY <1>3, <2>1, CallSane
<1>4. CASE Call(None)
  BY <1>1, <1>4, CallSane
<1>5. CASE Statement
  BY <1>1, <1>5, StatementSane
<1>6. CASE GcRun
  BY <1>1, <1>6, GcRunSane
<1>7. CASE Enter
  BY <1>1, <1>7, EnterSane
<1>8. CASE UNCHANGED vars
  BY <1>1, <1>8 DEF vars
<1> QED
  BY <1>1, <1>2, <1>3, <1>4, <1>5, <1>6, <1>7, <1>8 DEF Next

\* The step of the property, its blocks by what lists them.
LEMMA SweepsStep ==
  ASSUME IInv, [Next]_vars
  PROVE  [ Going' =>
             \A b \in IF Len(frames') < Len(frames) THEN {Cur}
                       ELSE IF Len(frames') = Len(frames) /\ env' = env /\ GcRun
                       THEN Around(Cur) ELSE {} : Swept(b)' ]_vars
<1> SUFFICES ASSUME Going'
             PROVE  \A b \in IF Len(frames') < Len(frames) THEN {Cur}
                             ELSE IF Len(frames') = Len(frames) /\ env' = env /\ GcRun
                             THEN Around(Cur) ELSE {} : Swept(b)'
  OBVIOUS
<1>1. ASSUME NEW b \in Block, Sane(mem', env', frames'), Neat(mem', b) PROVE Swept(b)'
  <2> SUFFICES ASSUME NEW o \in Range(mem'.stk[b]), o \notin Lit \cup mem'.kept
               PROVE  Places(o)' # {}
    BY DEF Swept
  <2>1. mem' \in Heap /\ PlacesIn(mem', env', o) # {}
    BY <1>1, NeatSwept DEF Sane
  <2> QED
    BY <2>1, PlacesAre DEF Places
<1>2. CASE Len(frames') < Len(frames)
  <2>1. Return
    BY <1>2, ShorterReturns
  <2>2. Cur \in Block
    BY <2>1, SaneRunning DEF Return, Running
  <2> QED
    BY <1>1, <1>2, <2>1, <2>2, ReturnSane
<1>3. CASE ~(Len(frames') < Len(frames)) /\ GcRun
  <2>1. Around(Cur) \subseteq Block
    BY <1>3, SaneRunning, Kinds DEF GcRun, Running, Around
  <2> QED
    BY <1>1, <1>3, <2>1, GcRunSane
<1>4. CASE ~(Len(frames') < Len(frames)) /\ ~GcRun
  BY <1>4
<1> QED
  BY <1>2, <1>3, <1>4

\* The end of a block leaves in its list only literals, what something refers
\* to, and what is counted too high; GC.run() does so to each list it walks.
THEOREM SweepsLeaveNothingAlways == Spec => SweepsLeaveNothing
BY Invariant, SweepsStep, PTL DEF Spec, SweepsLeaveNothing
=============================================================================
