---------------------------- MODULE VectorProofs ----------------------------
(***************************************************************************)
(* Theorems about Vector, for every set of elements, every default size    *)
(* and every size and index its callers use.                               *)
(***************************************************************************)
EXTENDS Vector, FiniteSetTheorems, SequenceTheorems, TLAPS

USE SizesAssumption

\* A vector whose elements are all stored ones.
Sound(v) == /\ IsVector(v) /\ v.num <= v.cap
            /\ \A k \in 0..(v.num - 1) : At(v, k) \in Elem

----------------------------------------------------------------------------
\* The operations on one vector.

LEMMA ReallocType ==
  ASSUME NEW v, IsVector(v), NEW n \in Nat
  PROVE  realloc(v.data, n) \in [0..(n-1) -> Elem \cup {Junk}]
BY DEF IsVector, realloc

LEMMA ResizedSound ==
  ASSUME NEW v, Sound(v), NEW n \in Nat, NEW m \in Nat, m <= n, m <= v.num
  PROVE  Sound([data |-> realloc(v.data, n), num |-> m, cap |-> n])
<1> DEFINE u == [data |-> realloc(v.data, n), num |-> m, cap |-> n]
<1>1. IsVector(u)
  BY ReallocType DEF IsVector, Sound
<1>2. ASSUME NEW k \in 0..(m - 1) PROVE At(u, k) = At(v, k)
  BY DEF At, realloc, Sound, IsVector
<1> QED
  BY <1>1, <1>2 DEF Sound, IsVector

LEMMA CapacitySound ==
  ASSUME NEW v, Sound(v)
  PROVE  /\ Sound(update_capacity(v))
         /\ update_capacity(v).num = v.num
         /\ v.cap > 0 => update_capacity(v).cap > v.num
<1>1. CASE v.cap > v.num
  BY <1>1 DEF update_capacity, Sound, IsVector
<1>2. CASE ~(v.cap > v.num)
  <2>1. update_capacity(v) = [data |-> realloc(v.data, 2 * v.cap),
                              num |-> v.num, cap |-> 2 * v.cap]
    BY <1>2 DEF update_capacity, Sound, IsVector
  <2>2. /\ v.num \in Nat /\ v.cap \in Nat /\ 2 * v.cap \in Nat
        /\ v.num = v.cap /\ v.num <= 2 * v.cap
    BY <1>2 DEF Sound, IsVector
  <2>3. Sound([data |-> realloc(v.data, 2 * v.cap), num |-> v.num,
               cap |-> 2 * v.cap])
    BY <2>2, ResizedSound
  <2> QED
    BY <2>1, <2>2, <2>3
<1> QED
  BY <1>1, <1>2

LEMMA WriteRecord ==
  ASSUME NEW v, IsVector(v), NEW k, NEW x
  PROVE  Write(v, k, x) = [data |-> [j \in DOMAIN v.data |->
                                       IF j = k THEN x ELSE v.data[j]],
                           num |-> v.num, cap |-> v.cap]
BY DEF Write, IsVector

LEMMA PushSound ==
  ASSUME NEW v, Sound(v), NEW x \in Elem
  PROVE  /\ IsVector(vector_push(v, x))
         /\ update_capacity(v).cap > v.num => Sound(vector_push(v, x))
<1> DEFINE u == update_capacity(v)
           w == vector_push(v, x)
<1>1. Sound(u) /\ u.num = v.num
  BY CapacitySound
<1>2. w = [data |-> [j \in DOMAIN u.data |-> IF j = u.num THEN x ELSE u.data[j]],
           num |-> u.num + 1, cap |-> u.cap]
  <2>1. IsVector(u)
    BY <1>1 DEF Sound
  <2>2. w = [Write(u, u.num, x) EXCEPT !.num = u.num + 1]
    BY DEF vector_push
  <2> QED
    BY <2>1, <2>2, WriteRecord
<1>3. IsVector(w)
  BY <1>1, <1>2 DEF Sound, IsVector
<1>4. ASSUME u.cap > v.num, NEW k \in 0..(w.num - 1) PROVE At(w, k) \in Elem
  BY <1>1, <1>2, <1>4 DEF At, Sound, IsVector
<1> QED
  BY <1>1, <1>2, <1>3, <1>4 DEF Sound, IsVector

LEMMA UnshiftSound ==
  ASSUME NEW v, Sound(v), NEW x \in Elem
  PROVE  /\ IsVector(vector_unshift(v, x))
         /\ update_capacity(v).cap > v.num => Sound(vector_unshift(v, x))
<1> DEFINE u == update_capacity(v)
           w == vector_unshift(v, x)
<1>1. Sound(u) /\ u.num = v.num
  BY CapacitySound
<1> DEFINE d == [k \in DOMAIN u.data |->
                   IF k = 0 THEN x
                   ELSE IF k <= u.num THEN At(u, k-1) ELSE At(u, k)]
<1>2. w = [num |-> u.num + 1, cap |-> u.cap, data |-> d]
  BY DEF vector_unshift
<1>3. d \in [0..(u.cap - 1) -> Elem \cup {Junk}]
  <2>1. ASSUME NEW k \in Int PROVE At(u, k) \in Elem \cup {Junk}
    BY <1>1 DEF Sound, IsVector, At
  <2> QED
    BY <1>1, <2>1 DEF Sound, IsVector
<1>4. IsVector(w)
  BY <1>1, <1>2, <1>3 DEF Sound, IsVector
<1>5. ASSUME u.cap > v.num, NEW k \in 0..u.num PROVE At(w, k) \in Elem
  <2>1. k \in DOMAIN d /\ At(w, k) = d[k]
    BY <1>1, <1>2, <1>5 DEF At, Sound, IsVector
  <2>2. k # 0 => At(u, k-1) \in Elem
    BY <1>1 DEF Sound, IsVector
  <2> QED
    BY <1>1, <2>1, <2>2 DEF Sound, IsVector
<1> QED
  BY <1>1, <1>2, <1>4, <1>5 DEF Sound, IsVector

LEMMA DeleteSound ==
  ASSUME NEW v, Sound(v), NEW idx \in Int
  PROVE  /\ Sound(vector_delete_at(v, idx))
         /\ vector_delete_at(v, idx).cap = v.cap
         /\ vector_delete_at(v, idx).num <= v.num
<1> DEFINE o == Offset(v, idx)
           w == vector_delete_at(v, idx)
<1>1. CASE ~InBounds(v, idx)
  BY <1>1 DEF vector_delete_at, Sound, IsVector
<1>2. CASE InBounds(v, idx)
  <2>1. o \in 0..(v.num - 1)
    BY <1>2 DEF InBounds
  <2> DEFINE d == [k \in DOMAIN v.data |->
                     IF k \in o..(v.num-2) THEN At(v, k+1) ELSE v.data[k]]
  <2>2. w = [data |-> d, num |-> v.num - 1, cap |-> v.cap]
    BY <1>2 DEF vector_delete_at, Sound, IsVector
  <2>3. d \in [0..(v.cap - 1) -> Elem \cup {Junk}]
    <3>1. ASSUME NEW k \in Int PROVE At(v, k) \in Elem \cup {Junk}
      BY DEF Sound, IsVector, At
    <3>2. DOMAIN v.data = 0..(v.cap - 1) /\ \A k \in DOMAIN v.data : v.data[k] \in Elem \cup {Junk}
      BY DEF Sound, IsVector
    <3>3. o..(v.num - 2) \subseteq Int
      BY <2>1 DEF Sound, IsVector
    <3>4. ASSUME NEW k \in DOMAIN v.data
          PROVE  (IF k \in o..(v.num-2) THEN At(v, k+1) ELSE v.data[k]) \in Elem \cup {Junk}
      <4>1. k \in Int => k + 1 \in Int
        OBVIOUS
      <4> HIDE DEF o
      <4> QED
        BY ONLY <3>1, <3>2, <3>3, <4>1
    <3> HIDE DEF o
    <3> QED
      BY ONLY <3>2, <3>4
  <2>4. IsVector(w)
    BY <2>1, <2>2, <2>3 DEF Sound, IsVector
  <2>5. ASSUME NEW k \in 0..(v.num - 2) PROVE At(w, k) \in Elem
    <3>1. k \in DOMAIN d /\ At(w, k) = d[k]
      <4>1. v.num \in Nat /\ v.cap \in Nat /\ v.num <= v.cap
        BY DEF Sound, IsVector
      <4>2. k \in 0..(v.cap - 1)
        BY ONLY <4>1, k \in 0..(v.num - 2)
      <4> HIDE DEF d, w
      <4>3. k \in DOMAIN d /\ w.data = d
        BY ONLY <2>2, <2>3, <4>2
      <4> QED
        BY ONLY <4>3 DEF At
    <3>2. At(v, k) \in Elem /\ At(v, k+1) \in Elem
      <4>1. v.num \in Nat /\ \A j \in 0..(v.num - 1) : At(v, j) \in Elem
        BY DEF Sound, IsVector
      <4>2. k \in 0..(v.num - 1) /\ k+1 \in 0..(v.num - 1)
        BY ONLY <4>1, k \in 0..(v.num - 2)
      <4> QED
        BY ONLY <4>1, <4>2
    <3>3. v.data[k] = At(v, k)
      BY <3>1 DEF At
    <3> QED
      BY <3>1, <3>2, <3>3
  <2>6. v.num \in Nat /\ v.cap \in Nat /\ v.num <= v.cap
    BY DEF Sound, IsVector
  <2>7. w.num = v.num - 1 /\ w.cap = v.cap /\ w.num <= w.cap /\ w.num <= v.num
    BY <2>2, <2>6
  <2>8. \A k \in 0..(w.num - 1) : At(w, k) \in Elem
    BY <2>5, <2>6, <2>7
  <2> QED
    BY ONLY <2>4, <2>7, <2>8 DEF Sound
<1> QED
  BY <1>1, <1>2

LEMMA PopSound ==
  ASSUME NEW v, Sound(v)
  PROVE  Sound(vector_pop(v)) /\ vector_pop(v).data = v.data
BY DEF vector_pop, Sound, IsVector, At

LEMMA AsetSound ==
  ASSUME NEW v, Sound(v), NEW idx \in Int, NEW x \in Elem
  PROVE  Sound(vector_aset(v, idx, x))
BY DEF vector_aset, Write, Sound, IsVector, At

----------------------------------------------------------------------------
\* The inductive invariant: both properties at once, because a call reads
\* back what the vector holds.
IInv == TypeOK /\ ContentsStored

LEMMA SoundWhenDefined ==
  ASSUME IInv, pc # "undefined" PROVE Sound(vec)
BY DEF IInv, TypeOK, ContentsStored, Sound

LEMMA InitInvariant == Init => IInv
<1> SUFFICES ASSUME Init PROVE IInv
  OBVIOUS
<1>1. PICK n \in NewSizes : vec = vector_new_with_size(n)
  BY DEF Init
<1>2. IsVector(vec) /\ vec.num = 0
  BY <1>1 DEF vector_new_with_size, malloc, IsVector
<1>3. pc = "ready" /\ i = 0 /\ stray = FALSE
  BY DEF Init
<1>4. TypeOK
  <2>1. vec.num <= vec.cap
    BY <1>2 DEF IsVector
  <2>2. i \in Nat /\ stray \in BOOLEAN
    BY <1>3
  <2> QED
    BY <1>2, <1>3, <2>1, <2>2 DEF TypeOK
<1>5. ContentsStored
  BY <1>2 DEF ContentsStored
<1> QED
  BY <1>4, <1>5 DEF IInv

\* A step that leaves a sound vector and no running loop, or that ends in
\* undefined behaviour with a vector_t still.
LEMMA Establish ==
  ASSUME IsVector(vec'), i' \in Nat, stray' \in BOOLEAN,
         \/ pc' = "undefined"
         \/ pc' \in {"ready", "delete", "foreach"} /\ Sound(vec')
         \/ pc' = "shrink" /\ Sound(vec') /\ 2 * (i' \div 2) >= vec.num'
         \/ pc' = "optimize" /\ Sound(vec') /\ i' > 0
  PROVE  IInv'
BY DEF IInv, TypeOK, ContentsStored, Sound, IsVector, At

LEMMA StepInvariant == IInv /\ [Next]_vars => IInv'
<1> SUFFICES ASSUME IInv, [Next]_vars PROVE IInv'
  OBVIOUS
<1>0. CASE UNCHANGED vars
  BY <1>0 DEF vars, IInv, TypeOK, ContentsStored, IsVector, At
<1> SUFFICES ASSUME Next PROVE IInv'
  BY <1>0
<1> USE DEF Call, Goes
<1>a. IsVector(vec) /\ i \in Nat /\ stray \in BOOLEAN
  BY DEF IInv, TypeOK
<1>1. ASSUME NEW x \in Elem, Push(x) PROVE IInv'
  <2>1. Sound(vec)
    BY <1>1, SoundWhenDefined DEF Push
  <2> QED
    BY <1>1, <2>1, PushSound, Establish DEF Push, Grows
<1>2. ASSUME NEW x \in Elem, Unshift(x) PROVE IInv'
  <2>1. Sound(vec)
    BY <1>2, SoundWhenDefined DEF Unshift
  <2> QED
    BY <1>2, <2>1, UnshiftSound, Establish DEF Unshift, Grows
<1>3. CASE Pop
  <2>1. Sound(vec)
    BY <1>3, SoundWhenDefined DEF Pop
  <2> QED
    BY <1>3, <2>1, PopSound, Establish DEF Pop, Sound
<1>4. CASE ShiftSafe
  <2>1. Sound(vec)
    BY <1>4, SoundWhenDefined DEF ShiftSafe
  <2>2. /\ vec' = vector_delete_at(vec, 0)
        /\ pc' = "ready" /\ i' = 0 /\ stray' = FALSE
    BY <1>4 DEF ShiftSafe, vector_shift_safe
  <2>3. Sound(vec')
    BY <2>1, <2>2, DeleteSound
  <2> QED
    BY <2>2, <2>3, Establish DEF Sound
<1>5. CASE Shift
  <2>1. Sound(vec)
    BY <1>5, SoundWhenDefined DEF Shift
  <2>2. Sound(vector_pop(vec)) /\ vector_pop(vec).data = vec.data
    BY <2>1, PopSound
  <2> DEFINE d == [k \in DOMAIN vec.data |->
                     IF k < vec.num THEN At(vec, k + 1) ELSE vec.data[k]]
  <2>3. CASE vec' = vector_pop(vec)
    BY <1>5, <2>1, <2>2, <2>3, Establish DEF Shift, Sound
  <2>4. CASE vec' = [vector_pop(vec) EXCEPT !.data = d]
    <3>1. vec' = [data |-> d, num |-> vector_pop(vec).num,
                  cap |-> vector_pop(vec).cap]
      BY <2>2, <2>4 DEF Sound, IsVector
    <3>2. /\ vector_pop(vec).cap = vec.cap
          /\ vector_pop(vec).num = IF vec.num = 0 THEN 0 ELSE vec.num - 1
      BY <2>1 DEF vector_pop, Sound, IsVector
    <3>3. d \in [0..(vec.cap - 1) -> Elem \cup {Junk}]
      <4>1. ASSUME NEW k \in Int PROVE At(vec, k) \in Elem \cup {Junk}
        BY <2>1 DEF Sound, IsVector, At
      <4> QED
        BY <2>1, <4>1 DEF Sound, IsVector
    <3>4. IsVector(vec')
      BY <2>1, <3>1, <3>2, <3>3 DEF Sound, IsVector
    <3>5. ASSUME NEW k \in 0..(vec'.num - 1) PROVE At(vec', k) \in Elem
      <4>1. k \in DOMAIN d /\ At(vec', k) = d[k] /\ k + 1 \in 0..(vec.num - 1)
        BY <2>1, <3>1, <3>2 DEF At, Sound, IsVector
      <4> QED
        BY <2>1, <4>1 DEF Sound, IsVector
    <3>6. Sound(vec')
      BY <2>1, <3>1, <3>2, <3>4, <3>5 DEF Sound, IsVector
    <3> QED
      BY <1>5, <3>4, <3>6, Establish DEF Shift
  <2> QED
    BY <1>5, <2>3, <2>4 DEF Shift
<1>6. ASSUME NEW k \in Index, Aref(k) PROVE IInv'
  <2>1. Sound(vec)
    BY <1>6, SoundWhenDefined DEF Aref
  <2> QED
    BY <1>6, <2>1, Establish DEF Aref, Sound
<1>7. ASSUME NEW k \in Index, NEW x \in Elem, Aset(k, x) PROVE IInv'
  <2>1. Sound(vec)
    BY <1>7, SoundWhenDefined DEF Aset
  <2> QED
    BY <1>7, <2>1, AsetSound, Establish DEF Aset, Sound
<1>8. ASSUME NEW k \in Index, DeleteAt(k) PROVE IInv'
  <2>1. Sound(vec)
    BY <1>8, SoundWhenDefined DEF DeleteAt
  <2> QED
    BY <1>8, <2>1, DeleteSound, Establish DEF DeleteAt, Sound
<1>9. CASE Clear
  <2>1. Sound(vec)
    BY <1>9, SoundWhenDefined DEF Clear
  <2>2. Sound(vec')
    BY <1>9, <2>1, ResizedSound DEF Clear, Sound, IsVector
  <2> QED
    BY <1>9, <2>2, Establish DEF Clear, Sound
<1>10. ASSUME NEW lo \in Index, NEW hi \in Index, Slice(lo, hi) PROVE IInv'
  <2>1. Sound(vec)
    BY <1>10, SoundWhenDefined DEF Slice
  <2>2. UNCHANGED vec /\ pc' = "ready" /\ i' = 0 /\ stray' \in BOOLEAN
    BY <1>10 DEF Slice
  <2> QED
    BY <2>1, <2>2, Establish DEF Sound
<1>11. ASSUME NEW n \in Index, Resize(n) PROVE IInv'
  <2> DEFINE size == IF n <= 0 THEN vec.num + n ELSE n
  <2>1. /\ Sound(vec) /\ i' = 0 /\ stray' = FALSE
        /\ pc' \in {"undefined", "ready"}
    BY <1>11, SoundWhenDefined DEF Resize
  <2>2. Sound(vec')
    <3>1. size \in Int /\ vec.num \in Nat
      BY <2>1 DEF Sound, IsVector
    <3>2. CASE size <= 0
      BY <1>11, <2>1, <3>2 DEF Resize
    <3>3. CASE size > 0
      <4> DEFINE m == IF size < vec.num THEN size ELSE vec.num
      <4>1. size \in Nat /\ m \in Nat /\ m <= size /\ m <= vec.num
        BY <3>1, <3>3
      <4>2. vec' = [data |-> realloc(vec.data, size), num |-> m, cap |-> size]
        BY <1>11, <3>1, <3>3 DEF Resize
      <4> QED
        BY <2>1, <4>1, <4>2, ResizedSound
    <3> QED
      BY <3>1, <3>2, <3>3
  <2> QED
    BY <2>1, <2>2, Establish DEF Sound
<1>12. ASSUME NEW op, Shrink(op) PROVE IInv'
  <2>1. Sound(vec)
    BY <1>12, SoundWhenDefined DEF Shrink, Begin
  <2>2. CASE Roomy /\ Begin(op, <<NULL>>, "shrink", vec.cap)
    <3>1. vec.cap \div 2 >= vec.num
      BY <2>1, <2>2 DEF Roomy, Sound, IsVector
    <3>2. 2 * (vec.cap \div 2) >= vec.num
      BY <2>1, <3>1 DEF Sound, IsVector
    <3> QED
      BY <2>1, <2>2, <3>2, Establish DEF Begin, Sound, IsVector
  <2>3. CASE ~Roomy /\ Call(op, <<NULL>>) /\ Goes /\ UNCHANGED vec
    BY <2>1, <2>3, Establish DEF Sound
  <2> QED
    BY <1>12, <2>2, <2>3 DEF Shrink
<1>13. CASE ShrinkStep
  <2>1. Sound(vec) /\ 2 * (i \div 2) >= vec.num /\ vec.num \in Nat
    BY <1>13, SoundWhenDefined DEF ShrinkStep, IInv, TypeOK, IsVector
  <2>2. CASE i \div 2 > vec.num
    <3>1. /\ i' = i \div 2 /\ i' \in Nat
          /\ UNCHANGED <<vec, stray, pc>>
      BY <1>a, <1>13, <2>2 DEF ShrinkStep
    <3>2. 2 * (i' \div 2) >= i' - 1
      BY <3>1
    <3> QED
      BY <1>a, <1>13, <2>1, <2>2, <3>1, <3>2, Establish DEF ShrinkStep
  <2>3. CASE ~(i \div 2 > vec.num)
    <3>1. /\ vec' = Resized(vec, 2 * (i \div 2)) /\ pc' = "ready"
          /\ UNCHANGED <<i, stray>>
      BY <1>13, <2>3 DEF ShrinkStep, Finish
    <3>2. 2 * (i \div 2) \in Nat
      BY <1>a
    <3>3. vec' = [data |-> realloc(vec.data, 2 * (i \div 2)),
                  num |-> vec.num, cap |-> 2 * (i \div 2)]
      BY <1>a, <3>1 DEF Resized, IsVector
    <3>4. Sound(vec')
      BY <2>1, <3>2, <3>3, ResizedSound
    <3> QED
      BY <1>a, <3>1, <3>4, Establish DEF Sound
  <2> QED
    BY <2>2, <2>3
<1>14. CASE Optimize
  <2>1. Sound(vec)
    BY <1>14, SoundWhenDefined DEF Optimize, Begin
  <2>2. /\ UNCHANGED vec /\ pc' = "optimize" /\ stray' = FALSE
        /\ i' \in {VECTOR_DEFAULT_SIZE, ManySize}
    BY <1>14 DEF Optimize, Begin
  <2>3. i' \in Nat /\ i' > 0
    BY <2>2
  <2>4. Sound(vec') /\ IsVector(vec') /\ stray' \in BOOLEAN
    BY <2>1, <2>2 DEF Sound
  <2> QED
    BY <2>2, <2>3, <2>4, Establish
<1>15. CASE OptimizeStep
  <2>1. Sound(vec) /\ i > 0 /\ vec.num \in Nat
    BY <1>15, SoundWhenDefined DEF OptimizeStep, IInv, TypeOK, IsVector
  <2>2. CASE vec.num > i
    BY <1>a, <1>15, <2>1, <2>2, Establish DEF OptimizeStep
  <2>3. CASE ~(vec.num > i)
    <3>1. vec' = Resized(vec, i) /\ pc' = "ready" /\ UNCHANGED <<i, stray>>
      BY <1>15, <2>3 DEF OptimizeStep, Finish
    <3>2. vec' = [data |-> realloc(vec.data, i), num |-> vec.num, cap |-> i]
      BY <1>a, <3>1 DEF Resized, IsVector
    <3>3. Sound(vec')
      BY <1>a, <2>1, <2>3, <3>2, ResizedSound
    <3> QED
      BY <1>a, <3>1, <3>3, Establish DEF Sound
  <2> QED
    BY <2>2, <2>3
<1>16. ASSUME NEW x \in Elem, Delete(x) PROVE IInv'
  <2>1. Sound(vec)
    BY <1>16, SoundWhenDefined DEF Delete, Begin
  <2> QED
    BY <1>16, <2>1, Establish DEF Delete, Begin, Sound
<1>17. CASE DeleteStep
  <2>1. Sound(vec) /\ pc = "delete"
    BY <1>17, SoundWhenDefined DEF DeleteStep
  <2>2. /\ vec' \in {vec, vector_delete_at(vec, i)}
        /\ i' \in {i, i + 1} /\ stray' = stray /\ pc' \in {"delete", "ready"}
    BY <1>17, <2>1 DEF DeleteStep, Finish
  <2>3. Sound(vec')
    BY <1>a, <2>1, <2>2, DeleteSound
  <2> QED
    BY <1>a, <2>2, <2>3, Establish DEF Sound
<1>18. CASE Foreach
  <2>1. Sound(vec)
    BY <1>18, SoundWhenDefined DEF Foreach, Begin
  <2> QED
    BY <1>18, <2>1, Establish DEF Foreach, Begin, Sound
<1>19. ASSUME NEW verdict \in Verdicts, ForeachStep(verdict) PROVE IInv'
  <2>1. Sound(vec) /\ pc = "foreach"
    BY <1>19, SoundWhenDefined DEF ForeachStep
  <2>2. /\ vec' \in {vec, vector_delete_at(vec, i)}
        /\ i' \in {i, i + 1} /\ stray' = stray /\ pc' \in {"foreach", "ready"}
    BY <1>19, <2>1 DEF ForeachStep, Verdicts
  <2>3. Sound(vec')
    BY <1>a, <2>1, <2>2, DeleteSound
  <2> QED
    BY <1>a, <2>2, <2>3, Establish DEF Sound
<1>20. CASE ForeachEnd
  <2>1. Sound(vec)
    BY <1>20, SoundWhenDefined DEF ForeachEnd
  <2>2. pc' = "ready" /\ UNCHANGED <<vec, i, stray>>
    BY <1>20 DEF ForeachEnd, Finish
  <2> QED
    BY <1>a, <2>1, <2>2, Establish DEF Sound
<1> QED
  BY <1>1, <1>2, <1>3, <1>4, <1>5, <1>6, <1>7, <1>8, <1>9, <1>10, <1>11,
     <1>12, <1>13, <1>14, <1>15, <1>16, <1>17, <1>18, <1>19, <1>20
     DEF Next, Loops

\* Vectors keep to their capacity, whatever is called in whatever order
\* (vector.c).
THEOREM TypeCorrect == Spec => []TypeOK
BY InitInvariant, StepInvariant, PTL DEF Spec, IInv

\* Callers find only what callers have stored (vector_aref, vector_pop,
\* vector_foreach).
THEOREM OnlyStored == Spec => []ContentsStored
BY InitInvariant, StepInvariant, PTL DEF Spec, IInv

----------------------------------------------------------------------------
\* A loop stays in the memory of its vector.
Clean == pc \in {"shrink", "optimize", "delete", "foreach"} => ~stray

LEMMA StepClean == Clean /\ [Next]_vars => Clean'
<1> SUFFICES ASSUME Clean, [Next]_vars PROVE Clean'
  OBVIOUS
<1> USE DEF Clean
<1>1. CASE UNCHANGED vars
  BY <1>1 DEF vars
<1>2. ASSUME NEW x \in Elem, Push(x) \/ Unshift(x) \/ Delete(x) PROVE Clean'
  BY <1>2 DEF Push, Unshift, Delete, Grows, Goes, Begin
<1>3. CASE Pop \/ ShiftSafe \/ Shift \/ Clear \/ Optimize \/ Foreach
  BY <1>3 DEF Pop, ShiftSafe, Shift, Clear, Optimize, Foreach, Goes, Begin
<1>4. ASSUME NEW k \in Index, Aref(k) \/ DeleteAt(k) \/ Resize(k) PROVE Clean'
  BY <1>4 DEF Aref, DeleteAt, Resize, Goes
<1>5. ASSUME NEW k \in Index, NEW x \in Elem, Aset(k, x) PROVE Clean'
  BY <1>5 DEF Aset, Goes
<1>6. ASSUME NEW lo \in Index, NEW hi \in Index, Slice(lo, hi) PROVE Clean'
  BY <1>6 DEF Slice
<1>7. ASSUME NEW op, Shrink(op) PROVE Clean'
  BY <1>7 DEF Shrink, Begin, Goes
<1>8. CASE Loops
  <2>1. pc \in {"shrink", "optimize", "delete", "foreach"} /\ stray' = stray
    BY <1>8 DEF Loops, ShrinkStep, OptimizeStep, DeleteStep, ForeachStep,
                ForeachEnd, Finish
  <2> QED
    BY <2>1
<1> QED
  BY <1>1, <1>2, <1>3, <1>4, <1>5, <1>6, <1>7, <1>8 DEF Next

LEMMA StepInside == IInv /\ Clean /\ [Next]_vars => [Inside]_vars
<1> SUFFICES ASSUME IInv, Clean, Next PROVE Inside
  OBVIOUS
<1>1. ASSUME NEW x \in Elem, Push(x) \/ Unshift(x) PROVE Inside
  <2>1. Sound(vec)
    BY <1>1, SoundWhenDefined DEF Push, Unshift, Call
  <2>2. /\ stray' => ~(update_capacity(vec).cap > vec.num)
    BY <1>1 DEF Push, Unshift, Grows, Goes
  <2> QED
    BY <2>1, <2>2, CapacitySound DEF Inside, Sound, IsVector
<1>2. CASE Pop \/ ShiftSafe \/ Clear
  BY <1>2 DEF Pop, ShiftSafe, Clear, Goes, Inside
<1>3. CASE Shift
  BY <1>3 DEF Shift, Call, Inside
<1>4. CASE Optimize \/ Foreach
  BY <1>4 DEF Optimize, Foreach, Begin, Inside
<1>5. ASSUME NEW x \in Elem, Delete(x) PROVE Inside
  BY <1>5 DEF Delete, Begin, Inside
<1>6. ASSUME NEW k \in Index, Aref(k) \/ DeleteAt(k) \/ Resize(k) PROVE Inside
  BY <1>6 DEF Aref, DeleteAt, Resize, Goes, Inside
<1>7. ASSUME NEW k \in Index, NEW x \in Elem, Aset(k, x) PROVE Inside
  BY <1>7 DEF Aset, Goes, Inside
<1>8. ASSUME NEW lo \in Index, NEW hi \in Index, Slice(lo, hi) PROVE Inside
  BY <1>8 DEF Slice, Call, Inside
<1>9. ASSUME NEW op, Shrink(op) PROVE Inside
  BY <1>9 DEF Shrink, Begin, Goes, Inside
<1>10. CASE Loops
  BY <1>10 DEF Loops, ShrinkStep, OptimizeStep, DeleteStep, ForeachStep,
               ForeachEnd, Finish, Clean, Inside
<1> QED
  BY <1>1, <1>2, <1>3, <1>4, <1>5, <1>6, <1>7, <1>8, <1>9, <1>10 DEF Next

\* No call touches memory behind its vector but vector_shift, vector_range
\* and what grows a vector of capacity 0 (vector.c:23, 82, 212, 352).
THEOREM OnlyOwnMemory == Spec => StaysInside
<1>1. Init => Clean
  BY DEF Init, Clean
<1> QED
  BY <1>1, InitInvariant, StepInvariant, StepClean, StepInside, PTL
     DEF Spec, StaysInside

----------------------------------------------------------------------------
\* How many of a set of places there are up to a place.

LEMMA RankType ==
  ASSUME NEW P, IsFiniteSet(P), NEW p
  PROVE  /\ Rank(P, p) \in Nat /\ IsFiniteSet(P \cap 1..p) /\ Cardinality(P) \in Nat
         /\ Rank(P, p) <= Cardinality(P)
<1>1. P \cap 1..p \in SUBSET P
  OBVIOUS
<1>2. IsFiniteSet(P \cap 1..p) /\ Cardinality(P \cap 1..p) <= Cardinality(P)
  BY <1>1, FS_Subset
<1> QED
  BY <1>2, FS_CardinalityType DEF Rank

LEMMA RankNext ==
  ASSUME NEW P, IsFiniteSet(P), NEW q \in Nat \ {0}
  PROVE  Rank(P, q) = IF q \in P THEN Rank(P, q-1) + 1 ELSE Rank(P, q-1)
<1>1. q \notin P \cap 1..(q-1) /\ IsFiniteSet(P \cap 1..(q-1))
  <2>1. q \notin 1..(q-1)
    OBVIOUS
  <2> QED
    BY <2>1, RankType
<1>2. CASE q \in P
  <2>1. P \cap 1..q = (P \cap 1..(q-1)) \cup {q}
    BY <1>2
  <2> QED
    BY <1>1, <1>2, <2>1, FS_AddElement DEF Rank
<1>3. CASE q \notin P
  <2>1. P \cap 1..q = P \cap 1..(q-1)
    BY <1>3
  <2> QED
    BY <1>3, <2>1 DEF Rank
<1> QED
  BY <1>2, <1>3

LEMMA RankGrows ==
  ASSUME NEW P, IsFiniteSet(P), NEW p \in Nat, NEW q \in Nat, p <= q
  PROVE  Rank(P, p) <= Rank(P, q)
<1>1. P \cap 1..p \in SUBSET (P \cap 1..q)
  OBVIOUS
<1> QED
  BY <1>1, RankType, FS_Subset DEF Rank

LEMMA RankAll ==
  ASSUME NEW n \in Nat, NEW P \in SUBSET (1..n)
  PROVE  IsFiniteSet(P) /\ \A p \in Nat : p >= n => Rank(P, p) = Cardinality(P)
<1>1. IsFiniteSet(P)
  <2>1. IsFiniteSet(1..n)
    BY FS_Interval
  <2> QED
    BY <2>1, FS_Subset
<1>2. ASSUME NEW p \in Nat, p >= n PROVE P \cap 1..p = P
  <2>1. \A x \in P : x \in 1..p
    BY <1>2
  <2> QED
    BY <2>1
<1> QED
  BY <1>1, <1>2 DEF Rank

\* Two places have two ranks, in their order.
LEMMA RankOrder ==
  ASSUME NEW P, IsFiniteSet(P), NEW p \in Nat, NEW q \in P, q \in Nat, p < q
  PROVE  Rank(P, p) < Rank(P, q)
<1>1. Rank(P, q) = Rank(P, q-1) + 1
  BY RankNext
<1>2. q-1 \in Nat /\ p <= q-1
  OBVIOUS
<1>3. Rank(P, p) <= Rank(P, q-1)
  BY <1>2, RankGrows
<1>4. Rank(P, p) \in Nat /\ Rank(P, q-1) \in Nat
  BY RankType
<1> QED
  BY <1>1, <1>3, <1>4

LEMMA RankWithout ==
  ASSUME NEW P, IsFiniteSet(P), NEW q \in P, q \in Nat \ {0}
  PROVE  /\ Cardinality(P \ {q}) = Cardinality(P) - 1
         /\ \A p \in Nat : Rank(P \ {q}, p) = IF p < q THEN Rank(P, p) ELSE Rank(P, p) - 1
<1>1. Cardinality(P \ {q}) = Cardinality(P) - 1
  BY FS_RemoveElement
<1>2. ASSUME NEW p \in Nat, p < q PROVE Rank(P \ {q}, p) = Rank(P, p)
  <2>1. (P \ {q}) \cap 1..p = P \cap 1..p
    BY <1>2
  <2> QED
    BY <2>1 DEF Rank
<1>3. ASSUME NEW p \in Nat, ~(p < q) PROVE Rank(P \ {q}, p) = Rank(P, p) - 1
  <2>1. (P \ {q}) \cap 1..p = (P \cap 1..p) \ {q} /\ q \in P \cap 1..p
    BY <1>3
  <2>2. IsFiniteSet(P \cap 1..p)
    BY RankType
  <2>3. Cardinality((P \cap 1..p) \ {q}) = Cardinality(P \cap 1..p) - 1
    BY <2>1, <2>2, FS_RemoveElement
  <2> QED
    BY <2>1, <2>3 DEF Rank
<1> QED
  BY <1>1, <1>2, <1>3

----------------------------------------------------------------------------
\* Vectors as lists.

LEMMA SameSeq ==
  ASSUME NEW S, NEW s \in Seq(S), NEW t \in Seq(S), Len(s) = Len(t),
         \A k \in 1..Len(s) : s[k] = t[k]
  PROVE  s = t
OBVIOUS

LEMMA ItemsType ==
  ASSUME NEW v, Sound(v)
  PROVE  /\ Items(v) \in Seq(Elem) /\ Len(Items(v)) = v.num /\ DOMAIN Items(v) = 1..v.num
         /\ v.num \in Nat
         /\ \A k \in 1..v.num : Items(v)[k] = v.data[k-1] /\ Items(v)[k] \in Elem
         /\ \A k \in 0..(v.num - 1) : At(v, k) = Items(v)[k+1]
<1>1. v.num \in Nat
  BY DEF Sound, IsVector
<1>2. \A k \in 1..v.num : At(v, k-1) \in Elem /\ k-1 \in DOMAIN v.data
  BY <1>1 DEF Sound, IsVector
<1> QED
  BY <1>1, <1>2 DEF Items, At

\* A removal moves the elements behind up.
LEMMA DeleteItems ==
  ASSUME NEW v, Sound(v), NEW k \in 0..(v.num - 1)
  PROVE  LET w == vector_delete_at(v, k)
         IN  /\ Sound(w) /\ w.num = v.num - 1
             /\ \A j \in 1..w.num : Items(w)[j] = IF j <= k THEN Items(v)[j] ELSE Items(v)[j+1]
<1> DEFINE w == vector_delete_at(v, k)
           d == [j \in DOMAIN v.data |-> IF j \in k..(v.num-2) THEN At(v, j+1) ELSE v.data[j]]
<1>1. v.num \in Nat /\ k \in Int /\ Offset(v, k) = k /\ InBounds(v, k)
  BY DEF Sound, IsVector, Offset, InBounds
<1>2. w = [v EXCEPT !.num = v.num - 1, !.data = d]
  BY <1>1 DEF vector_delete_at
<1>3. w.num = v.num - 1 /\ w.data = d
  BY <1>2 DEF Sound, IsVector
<1>4. Sound(w)
  BY <1>1, DeleteSound
<1>5. ASSUME NEW j \in 1..w.num
      PROVE  Items(w)[j] = IF j <= k THEN Items(v)[j] ELSE Items(v)[j+1]
  <2>1. Items(w)[j] = d[j-1]
    BY <1>3, <1>4, ItemsType
  <2>2. /\ j \in 1..v.num /\ j+1 \in 1..v.num /\ j-1 \in DOMAIN v.data
        /\ j-1 \in 0..(v.num-1) /\ j \in 0..(v.num-1)
    <3>1. /\ v.num \in Nat /\ v.cap \in Nat /\ v.num <= v.cap /\ DOMAIN v.data = 0..(v.cap - 1)
      BY DEF Sound, IsVector
    <3>2. j \in 1..(v.num - 1)
      BY <1>3
    <3> QED
      BY ONLY <3>1, <3>2
  <2>3. At(v, j) = Items(v)[j+1] /\ v.data[j-1] = Items(v)[j]
    BY <2>2, ItemsType
  <2>4. j-1 \in k..(v.num-2) <=> ~(j <= k)
    BY <1>1, <1>3
  <2>5. d[j-1] = IF j-1 \in k..(v.num-2) THEN At(v, j) ELSE v.data[j-1]
    BY <1>1, <2>2
  <2> QED
    BY <2>1, <2>3, <2>4, <2>5
<1> QED
  BY <1>3, <1>4, <1>5

----------------------------------------------------------------------------
\* The loops over the elements.  What is left of list b is what was at P.
LeftOf(v, b, P) == /\ v.num = Cardinality(P)
                   /\ \A p \in P : Items(v)[Rank(P, p)] = b[p]

\* Removing the element that stands for place q.
LEMMA LeftWithout ==
  ASSUME NEW v, Sound(v), NEW b, NEW n \in Nat, NEW P \in SUBSET (1..n),
         LeftOf(v, b, P), NEW q \in P, NEW k \in Nat, k + 1 = Rank(P, q)
  PROVE  /\ k < v.num
         /\ LeftOf(vector_delete_at(v, k), b, P \ {q})
<1> DEFINE w == vector_delete_at(v, k)
           R == P \ {q}
<1>1. IsFiniteSet(P) /\ q \in Nat \ {0} /\ R \in SUBSET (1..n) /\ IsFiniteSet(R)
  BY RankAll
<1>2. v.num = Cardinality(P) /\ v.num \in Nat /\ Rank(P, q) <= v.num
  BY <1>1, RankType DEF LeftOf
<1>3. k \in 0..(v.num - 1)
  BY <1>2
<1>4. /\ w.num = v.num - 1
      /\ \A j \in 1..w.num : Items(w)[j] = IF j <= k THEN Items(v)[j] ELSE Items(v)[j+1]
  BY <1>3, DeleteItems
<1>5. w.num = Cardinality(R)
  BY <1>1, <1>2, <1>4, RankWithout
<1>6. ASSUME NEW p \in R PROVE Items(w)[Rank(R, p)] = b[p]
  <2>1. p \in P /\ p \in Nat \ {0} /\ p # q
    BY <1>1
  <2>2. Items(v)[Rank(P, p)] = b[p]
    BY <2>1 DEF LeftOf
  <2>3. Rank(R, p) = IF p < q THEN Rank(P, p) ELSE Rank(P, p) - 1
    BY <1>1, <2>1, RankWithout
  <2>4. Rank(R, p) \in 1..w.num
    <3>1. Rank(R, p) = Rank(R, p-1) + 1
      BY <1>1, <2>1, RankNext
    <3>2. Rank(R, p-1) \in Nat /\ Rank(R, p) \in Nat /\ Rank(R, p) <= Cardinality(R)
      BY <1>1, RankType
    <3> QED
      BY <1>5, <3>1, <3>2
  <2>5. Rank(P, p) \in Nat
    BY <1>1, RankType
  <2>6. CASE p < q
    <3>1. Rank(P, p) < Rank(P, q)
      BY <1>1, <2>1, <2>6, RankOrder
    <3>2. Rank(R, p) <= k
      BY <2>3, <2>5, <2>6, <3>1
    <3> QED
      BY <1>4, <2>2, <2>3, <2>4, <2>6, <3>2
  <2>7. CASE ~(p < q)
    <3>1. Rank(P, q) < Rank(P, p)
      BY <1>1, <2>1, <2>7, RankOrder
    <3>2. ~(Rank(R, p) <= k) /\ Rank(R, p) + 1 = Rank(P, p)
      BY <2>3, <2>5, <2>7, <3>1
    <3>3. Items(w)[Rank(R, p)] = Items(v)[Rank(R, p) + 1]
      BY <1>4, <2>4, <3>2
    <3> QED
      BY <2>2, <3>2, <3>3
  <2> QED
    BY <2>6, <2>7
<1>7. LeftOf(w, b, R)
  BY <1>5, <1>6 DEF LeftOf
<1> QED
  BY <1>2, <1>3, <1>7

\* What stands behind the first k elements, if those stand for the places of
\* P up to m and everything behind m is in P.
LEMMA NextLeft ==
  ASSUME NEW n \in Nat, NEW P \in SUBSET (1..n), NEW m \in Nat, (m+1)..n \subseteq P, m <= n
  PROVE  /\ Rank(P, m) < Cardinality(P) => m < n
         /\ m < n => /\ m + 1 \in P /\ Rank(P, m+1) = Rank(P, m) + 1
                     /\ Rank(P, m) < Cardinality(P)
<1>1. IsFiniteSet(P)
  BY RankAll
<1>2. Rank(P, m) \in Nat /\ Cardinality(P) \in Nat
  BY <1>1, RankType
<1>3. m = n => Rank(P, m) = Cardinality(P)
  BY RankAll
<1>4. ASSUME m < n PROVE /\ m + 1 \in P /\ Rank(P, m+1) = Rank(P, m) + 1
                         /\ Rank(P, m) < Cardinality(P)
  <2>1. m + 1 \in P /\ m + 1 \in Nat \ {0} /\ (m + 1) - 1 = m
    BY <1>4
  <2>2. Rank(P, m+1) = Rank(P, m) + 1
    BY <1>1, <2>1, RankNext
  <2>3. Rank(P, m+1) <= Cardinality(P)
    BY <1>1, RankType
  <2> QED
    BY <1>2, <2>1, <2>2, <2>3
<1> QED
  BY <1>2, <1>3, <1>4

LEMMA LeftIsLeftOf == \A P : Left(P) <=> LeftOf(vec, before, P)
BY DEF Left, LeftOf

\* At the start of a loop everything is left.
LEMMA LeftAtFirst ==
  ASSUME NEW v, Sound(v)
  PROVE  LeftOf(v, Items(v), 1..v.num)
<1>1. v.num \in Nat
  BY ItemsType
<1>2. Cardinality(1..v.num) = v.num /\ IsFiniteSet(1..v.num)
  <2> DEFINE n == v.num
  <2>1. n \in Int /\ n \in Nat /\ 1 \in Int
    BY <1>1
  <2> HIDE DEF n
  <2>2. IsFiniteSet(1..n) /\ Cardinality(1..n) = IF 1 > n THEN 0 ELSE n - 1 + 1
    BY ONLY <2>1, FS_Interval
  <2>3. IsFiniteSet(1..n) /\ Cardinality(1..n) = n
    BY <2>1, <2>2
  <2> QED
    BY <2>3 DEF n
<1>3. ASSUME NEW p \in 1..v.num PROVE Rank(1..v.num, p) = p
  <2>1. (1..v.num) \cap 1..p = 1..p
    BY <1>1
  <2>2. Cardinality(1..p) = p
    BY FS_Interval
  <2> QED
    BY <2>1, <2>2 DEF Rank
<1> QED
  BY <1>2, <1>3 DEF LeftOf

\* A walk has asked about the first Len(seen) places; i stands behind those of
\* them that are left.
WalkInv ==
  /\ pc = "foreach" => call.op = "foreach"
  /\ call.op = "foreach" =>
       /\ before \in Seq(Elem) /\ seen \in Seq(Verdicts) /\ Len(seen) <= Len(before)
       /\ pc \in {"foreach", "ready"}
       /\ Left(Survivors)
       /\ pc = "foreach" => i = Rank(Survivors, Len(seen))
       /\ pc = "ready" => Len(seen) = Len(before) \/ (seen # <<>> /\ Last(seen) = "STOP")

LEMMA WalkBegins == IInv /\ Foreach => WalkInv'
<1> SUFFICES ASSUME IInv, Foreach PROVE WalkInv'
  OBVIOUS
<1>1. /\ Sound(vec) /\ vec' = vec /\ call'.op = "foreach" /\ pc' = "foreach" /\ i' = 0
      /\ before' = Items(vec) /\ seen' = <<>>
  BY SoundWhenDefined DEF Foreach, Begin
<1>2. before' \in Seq(Elem) /\ DOMAIN before' = 1..vec.num /\ Len(before') = vec.num /\ vec.num \in Nat
  BY <1>1, ItemsType
<1>3. seen' \in Seq(Verdicts) /\ Len(seen') = 0 /\ DOMAIN seen' = {}
  BY <1>1
<1>4. Survivors' = 1..vec.num
  BY <1>2, <1>3 DEF Survivors
<1>5. Left(Survivors)'
  BY <1>1, <1>4, LeftAtFirst DEF Left, LeftOf
<1>6. Rank(Survivors', 0) = 0
  <2>1. Survivors' \cap 1..0 = {}
    OBVIOUS
  <2> QED
    BY <2>1, FS_EmptySet DEF Rank
<1> QED
  BY <1>1, <1>2, <1>3, <1>5, <1>6 DEF WalkInv, Rank

LEMMA WalkGoesOn ==
  ASSUME IInv, WalkInv, NEW verdict \in Verdicts, ForeachStep(verdict)
  PROVE  WalkInv'
<1> DEFINE S == Survivors
           n == Len(before)
           m == Len(seen)
<1>1. /\ Sound(vec) /\ call.op = "foreach" /\ pc = "foreach" /\ i < vec.num /\ call' = call
      /\ before' = before /\ seen' = Append(seen, verdict)
      /\ pc' = (IF verdict = "STOP" THEN "ready" ELSE "foreach")
  BY SoundWhenDefined DEF ForeachStep, WalkInv
<1>2. /\ before \in Seq(Elem) /\ seen \in Seq(Verdicts) /\ m <= n /\ Left(S) /\ i = Rank(S, m)
      /\ m \in Nat /\ n \in Nat /\ DOMAIN before = 1..n /\ DOMAIN seen = 1..m
  BY <1>1, LenProperties DEF WalkInv
<1>3. S \in SUBSET (1..n) /\ (m+1)..n \subseteq S
  BY <1>2 DEF Survivors
<1>4. IsFiniteSet(S) /\ vec.num = Cardinality(S) /\ LeftOf(vec, before, S)
  BY <1>2, <1>3, RankAll, LeftIsLeftOf DEF Left
<1>5. m < n /\ m + 1 \in S /\ Rank(S, m+1) = i + 1
  <2> HIDE DEF S, n, m
  <2>1. Rank(S, m) < Cardinality(S)
    BY <1>1, <1>2, <1>4
  <2>2. /\ Rank(S, m) < Cardinality(S) => m < n
        /\ m < n => m + 1 \in S /\ Rank(S, m+1) = Rank(S, m) + 1
    BY ONLY <1>2, <1>3, NextLeft
  <2> QED
    BY <1>2, <2>1, <2>2
<1>6. /\ seen' \in Seq(Verdicts) /\ Len(seen') = m + 1 /\ seen'[m+1] = verdict
      /\ DOMAIN seen' = 1..(m+1) /\ \A p \in 1..m : seen'[p] = seen[p]
      /\ Last(seen') = verdict /\ seen' # <<>>
  BY <1>1, <1>2, AppendProperties DEF Last
<1>7. Survivors' = IF verdict = "DELETE" THEN S \ {m+1} ELSE S
  <2>1. Survivors' = {p \in 1..n : p \in 1..(m+1) => seen'[p] # "DELETE"}
    BY <1>1, <1>2, <1>6 DEF Survivors
  <2>2. S = {p \in 1..n : p \in 1..m => seen[p] # "DELETE"}
    BY <1>2 DEF Survivors
  <2>3. \A p \in 1..n : p \in 1..(m+1) <=> p \in 1..m \/ p = m+1
    BY <1>2
  <2>4. m+1 \in 1..n /\ m+1 \notin 1..m
    BY <1>2, <1>5
  <2>5. CASE verdict = "DELETE"
    <3>1. \A p : p \in Survivors' <=> p \in S /\ p # m+1
      BY <1>6, <2>1, <2>2, <2>3, <2>4, <2>5
    <3> QED
      BY <2>5, <3>1
  <2>6. CASE verdict # "DELETE"
    <3>1. \A p : p \in Survivors' <=> p \in S
      BY <1>6, <2>1, <2>2, <2>3, <2>4, <2>6
    <3> QED
      BY <2>6, <3>1
  <2> QED
    BY <2>5, <2>6
<1>8. i \in Nat
  BY DEF IInv, TypeOK
<1>9. Left(Survivors)'
  <2>1. CASE verdict = "DELETE"
    <3>1. vec' = vector_delete_at(vec, i)
      BY <2>1 DEF ForeachStep
    <3>2. LeftOf(vec', before, S \ {m+1})
      BY <1>1, <1>2, <1>3, <1>4, <1>5, <1>8, <3>1, LeftWithout
    <3> QED
      BY <1>1, <1>7, <2>1, <3>2 DEF Left, LeftOf
  <2>2. CASE verdict # "DELETE"
    <3>1. vec' = vec
      BY <2>2 DEF ForeachStep
    <3> QED
      BY <1>1, <1>2, <1>7, <2>2, <3>1 DEF Left, Rank
  <2> QED
    BY <2>1, <2>2
<1>10. verdict # "STOP" => i' = Rank(Survivors', m+1)
  <2>1. CASE verdict = "DELETE"
    <3>1. i' = i
      BY <2>1 DEF ForeachStep
    <3>2. Rank(S \ {m+1}, m+1) = Rank(S, m+1) - 1
      <4> HIDE DEF S, m
      <4>1. m + 1 \in Nat \ {0} /\ ~(m + 1 < m + 1) /\ m + 1 \in Nat
        BY <1>2
      <4> QED
        BY ONLY <1>4, <1>5, <4>1, RankWithout
    <3> QED
      BY <1>5, <1>7, <1>8, <2>1, <3>1, <3>2
  <2>2. CASE verdict = "CONTINUE"
    <3>1. i' = i + 1
      BY <2>2 DEF ForeachStep
    <3> QED
      BY <1>5, <1>7, <2>2, <3>1
  <2> QED
    BY <2>1, <2>2 DEF Verdicts
<1>11. Len(seen') <= Len(before')
  BY <1>1, <1>2, <1>5, <1>6
<1>12. pc' = "foreach" => i' = Rank(Survivors', Len(seen'))
  BY <1>1, <1>6, <1>10
<1>13. pc' = "ready" => seen' # <<>> /\ Last(seen') = "STOP"
  BY <1>1, <1>6
<1> HIDE DEF S, n, m
<1>14. before' \in Seq(Elem) /\ call'.op = "foreach" /\ pc' \in {"foreach", "ready"}
  BY <1>1, <1>2
<1>15. WalkInv' = /\ pc' = "foreach" => call'.op = "foreach"
                  /\ call'.op = "foreach" =>
                       /\ before' \in Seq(Elem) /\ seen' \in Seq(Verdicts)
                       /\ Len(seen') <= Len(before') /\ pc' \in {"foreach", "ready"}
                       /\ Left(Survivors)'
                       /\ pc' = "foreach" => i' = Rank(Survivors', Len(seen'))
                       /\ pc' = "ready" => Len(seen') = Len(before')
                                           \/ (seen' # <<>> /\ Last(seen') = "STOP")
  BY DEF WalkInv, Rank
<1> QED
  BY ONLY <1>6, <1>9, <1>11, <1>12, <1>13, <1>14, <1>15

LEMMA WalkEnds == IInv /\ WalkInv /\ ForeachEnd => WalkInv'
<1> SUFFICES ASSUME IInv, WalkInv, ForeachEnd PROVE WalkInv'
  OBVIOUS
<1>1. /\ pc = "foreach" /\ call.op = "foreach" /\ i >= vec.num /\ pc' = "ready"
      /\ UNCHANGED <<vec, call, before, seen>>
  BY DEF ForeachEnd, Finish, WalkInv
<1> DEFINE n == Len(before)
           m == Len(seen)
<1>2. /\ before \in Seq(Elem) /\ seen \in Seq(Verdicts) /\ m <= n /\ Left(Survivors)
      /\ i = Rank(Survivors, m) /\ m \in Nat /\ n \in Nat
      /\ DOMAIN before = 1..n /\ DOMAIN seen = 1..m
  BY <1>1, LenProperties DEF WalkInv
<1>3. Survivors \in SUBSET (1..n) /\ (m+1)..n \subseteq Survivors
  BY <1>2 DEF Survivors
<1>4. ~(Rank(Survivors, m) < Cardinality(Survivors))
  BY <1>1, <1>2, SoundWhenDefined DEF Left, Sound, IsVector, IInv, TypeOK
<1>5. m = n
  <2> HIDE DEF n, m
  <2>1. m < n => Rank(Survivors, m) < Cardinality(Survivors)
    BY ONLY <1>2, <1>3, NextLeft
  <2> QED
    BY <1>2, <1>4, <2>1
<1> QED
  BY <1>1, <1>2, <1>5 DEF WalkInv, Left, Survivors, Rank

\* The other steps have nothing to do with a walk.
LEMMA StepWalkInv == IInv /\ WalkInv /\ [Next]_vars => WalkInv'
<1> SUFFICES ASSUME IInv, WalkInv, [Next]_vars PROVE WalkInv'
  OBVIOUS
<1>1. CASE call'.op # "foreach" /\ pc' # "foreach"
  BY <1>1 DEF WalkInv
<1>2. ASSUME pc \in {"shrink", "optimize", "delete"}, call' = call, pc' # "foreach" PROVE WalkInv'
  BY <1>2 DEF WalkInv
<1>3. ASSUME NEW x \in Elem, Push(x) \/ Unshift(x) \/ Delete(x) PROVE WalkInv'
  BY <1>1, <1>3 DEF Push, Unshift, Delete, Grows, Goes, Begin, Call
<1>4. CASE Pop \/ ShiftSafe \/ Shift \/ Clear \/ Optimize
  BY <1>1, <1>4 DEF Pop, ShiftSafe, Shift, Clear, Optimize, Goes, Begin, Call
<1>5. ASSUME NEW k \in Index, Aref(k) \/ DeleteAt(k) \/ Resize(k) PROVE WalkInv'
  BY <1>1, <1>5 DEF Aref, DeleteAt, Resize, Goes, Call
<1>6. ASSUME NEW k \in Index, NEW x \in Elem, Aset(k, x) PROVE WalkInv'
  BY <1>1, <1>6 DEF Aset, Goes, Call
<1>7. ASSUME NEW lo \in Index, NEW hi \in Index, Slice(lo, hi) PROVE WalkInv'
  BY <1>1, <1>7 DEF Slice, Call
<1>8. ASSUME NEW op \in {"shrink", "reverse"}, Shrink(op) PROVE WalkInv'
  BY <1>1, <1>8 DEF Shrink, Begin, Goes, Call
<1>9. CASE ShrinkStep \/ OptimizeStep \/ DeleteStep
  BY <1>2, <1>9 DEF ShrinkStep, OptimizeStep, DeleteStep, Finish
<1>10. CASE UNCHANGED vars
  <2>1. /\ vec' = vec /\ call' = call /\ pc' = pc /\ i' = i /\ before' = before /\ seen' = seen
    BY <1>10 DEF vars
  <2>2. Survivors' = Survivors
    BY <2>1 DEF Survivors
  <2>3. Left(Survivors)' <=> Left(Survivors)
    BY <2>1, <2>2 DEF Left, Items, At, Rank
  <2>4. Rank(Survivors, Len(seen))' = Rank(Survivors, Len(seen))
    BY <2>1, <2>2 DEF Rank
  <2> QED
    BY <2>1, <2>3, <2>4 DEF WalkInv
<1> QED
  BY <1>3, <1>4, <1>5, <1>6, <1>7, <1>8, <1>9, <1>10, WalkBegins, WalkGoesOn, WalkEnds
     DEF Next, Loops

\* The callback is called once for each element there was when the walk began,
\* and what it had removed is what is gone, for vectors of any length and
\* whatever it answers (vector.c:57, eval.c:245).
THEOREM WalkComplete == Spec => []WalkVisitsEach
<1>1. Init => WalkInv
  BY DEF Init, WalkInv
<1>2. WalkInv => WalkVisitsEach
  BY DEF WalkInv, WalkVisitsEach
<1> QED
  BY <1>1, <1>2, StepWalkInv, InitInvariant, StepInvariant, PTL DEF Spec

----------------------------------------------------------------------------
\* vector_delete.  No two neighbours of the list match.
Spread == ~\E p \in 2..Len(before) : before[p-1] = call.args[1] /\ before[p] = call.args[1]

\* The places of the old list that the search has left behind: those of the
\* elements before i, and those that are gone.
Passed == i + (Len(before) - vec.num)
\* The places of what is left, as long as no two neighbours match.
Unmatched == {p \in DOMAIN before : p <= Passed => before[p] # call.args[1]}

\* What is left, and what was found so far.
Removing == Left(Unmatched) /\ (Passed <= Len(before) => i = Rank(Unmatched, Passed))
Finding  == \/ /\ ret = NULL /\ vec.num = Len(before) /\ i <= vec.num
               /\ Items(vec) = before /\ \A p \in 1..i : before[p] # call.args[1]
            \/ ret = call.args[1] /\ \E p \in DOMAIN before : before[p] = call.args[1]

DeleteInv ==
  /\ pc = "delete" => call.op = "delete"
  /\ call.op = "delete" =>
       /\ before \in Seq(Elem) /\ call = [op |-> "delete", args |-> <<call.args[1]>>]
       /\ call.args[1] \in Elem /\ pc \in {"delete", "ready"}
       /\ pc = "delete" => (Spread => Removing) /\ Finding
       /\ DeleteRemoves

LEMMA DeleteBegins ==
  ASSUME IInv, NEW x \in Elem, Delete(x) PROVE DeleteInv'
<1>1. /\ Sound(vec) /\ vec' = vec /\ call' = [op |-> "delete", args |-> <<x>>]
      /\ pc' = "delete" /\ i' = 0 /\ before' = Items(vec) /\ ret' = NULL
  BY SoundWhenDefined DEF Delete, Begin
<1>2. before' \in Seq(Elem) /\ DOMAIN before' = 1..vec.num /\ Len(before') = vec.num /\ vec.num \in Nat
  BY <1>1, ItemsType
<1>3. Passed' = 0
  BY <1>1, <1>2 DEF Passed
<1>4. Unmatched' = 1..vec.num
  BY <1>2, <1>3 DEF Unmatched
<1>5. Left(Unmatched)'
  BY <1>1, <1>4, LeftAtFirst DEF Left, LeftOf
<1>6. Rank(Unmatched', 0) = 0
  <2>1. Unmatched' \cap 1..0 = {}
    OBVIOUS
  <2> QED
    BY <2>1, FS_EmptySet DEF Rank
<1>7. Removing'
  BY <1>1, <1>3, <1>5, <1>6 DEF Removing, Rank
<1>8. Finding'
  BY <1>1, <1>2 DEF Finding, Items, At
<1>9. DeleteRemoves'
  BY <1>1 DEF DeleteRemoves
<1> QED
  BY <1>1, <1>2, <1>7, <1>8, <1>9 DEF DeleteInv

LEMMA DeleteGoesOn ==
  ASSUME IInv, DeleteInv, DeleteStep, i < vec.num
  PROVE  DeleteInv'
<1> DEFINE x == call.args[1]
           n == Len(before)
           m == Passed
           P == Unmatched
<1>1. /\ Sound(vec) /\ pc = "delete" /\ pc' = "delete" /\ i' = i + 1
      /\ UNCHANGED <<call, before>>
      /\ IF At(vec, i) = x THEN vec' = vector_delete_at(vec, i) /\ ret' = At(vec, i)
                           ELSE vec' = vec /\ ret' = ret
  BY SoundWhenDefined DEF DeleteStep
<1>2. /\ before \in Seq(Elem) /\ n \in Nat /\ DOMAIN before = 1..n /\ x \in Elem /\ x # NULL
      /\ call = [op |-> "delete", args |-> <<x>>] /\ Finding
  BY <1>1, LenProperties, DistinctAssumption DEF DeleteInv
<1>3. i \in Nat /\ vec.num \in Nat /\ i + 1 \in 1..vec.num /\ i \in 0..(vec.num - 1)
  BY <1>1 DEF IInv, TypeOK, Sound, IsVector
<1>4. At(vec, i) = Items(vec)[i+1]
  BY <1>1, <1>3, ItemsType
<1>5. At(vec, i) = x => vec'.num = vec.num - 1
  BY <1>1, <1>3, DeleteItems
<1>6. Finding'
  <2>1. CASE At(vec, i) = x
    <3>1. ret' = x
      BY <1>1, <2>1
    <3>2. \E p \in DOMAIN before : before[p] = x
      <4>1. CASE vec.num = n /\ Items(vec) = before
        BY <1>2, <1>3, <1>4, <2>1, <4>1
      <4> QED
        BY <1>2, <4>1 DEF Finding
    <3> QED
      BY <1>1, <3>1, <3>2 DEF Finding
  <2>2. CASE At(vec, i) # x
    <3>1. vec' = vec /\ ret' = ret /\ Items(vec') = Items(vec)
      BY <1>1, <2>2
    <3>2. ASSUME ret = NULL, vec.num = n, Items(vec) = before, \A p \in 1..i : before[p] # x
          PROVE  \A p \in 1..(i+1) : before[p] # x
      BY <1>3, <1>4, <2>2, <3>2
    <3> QED
      BY <1>1, <1>2, <1>3, <3>1, <3>2 DEF Finding
  <2> QED
    BY <2>1, <2>2
<1>7. ASSUME Spread PROVE Removing'
  <2>1. Left(P) /\ (m <= n => i = Rank(P, m))
    BY <1>1, <1>7 DEF DeleteInv, Removing
  <2>2. P \in SUBSET (1..n)
    BY <1>2 DEF Unmatched
  <2>3. IsFiniteSet(P) /\ vec.num = Cardinality(P) /\ LeftOf(vec, before, P)
    BY <1>2, <2>1, <2>2, RankAll, LeftIsLeftOf DEF Left
  <2>4. vec.num <= n
    <3>1. IsFiniteSet(1..n) /\ Cardinality(1..n) = n
      <4> HIDE DEF n
      <4>1. n \in Nat
        BY <1>2
      <4> QED
        BY ONLY <4>1, FS_Interval
    <3>2. Cardinality(P) <= Cardinality(1..n)
      BY <2>2, <3>1, FS_Subset
    <3> QED
      BY <2>3, <3>1, <3>2
  <2>5. m = i + (n - vec.num) /\ m \in Nat /\ m < n
    <3>1. m = i + (n - vec.num)
      BY DEF Passed
    <3>2. n \in Nat /\ i \in Nat /\ vec.num \in Nat /\ i + 1 <= vec.num
      BY <1>2, <1>3
    <3> HIDE DEF m, n
    <3> QED
      BY ONLY <3>1, <3>2, <2>4
  <2>6. (m+1)..n \subseteq P
    BY <1>2, <2>5 DEF Unmatched
  <2>7. m + 1 \in P /\ Rank(P, m+1) = i + 1
    <3> HIDE DEF m, n, P
    <3>1. n \in Nat /\ m \in Nat /\ m <= n /\ m < n
      BY <1>2, <2>5
    <3>2. m + 1 \in P /\ Rank(P, m+1) = Rank(P, m) + 1
      BY ONLY <2>2, <2>6, <3>1, NextLeft
    <3>3. Rank(P, m) = i
      BY <2>1, <3>1
    <3> QED
      BY <3>2, <3>3
  <2>8. At(vec, i) = before[m+1]
    BY <1>4, <2>3, <2>7 DEF LeftOf
  <2>9. P = {p \in 1..n : p <= m => before[p] # x}
    BY <1>2 DEF Unmatched
  <2>10. CASE At(vec, i) = x
    <3>1. Passed' = m + 2
      <4>1. Passed' = i' + (Len(before') - vec'.num)
        BY DEF Passed
      <4>2. i' = i + 1 /\ Len(before') = n /\ vec'.num = vec.num - 1
        BY <1>1, <1>5, <2>10
      <4> HIDE DEF m, n
      <4>3. n \in Nat /\ i \in Nat /\ vec.num \in Nat /\ m = i + (n - vec.num)
        BY <1>2, <1>3, <2>5
      <4> QED
        <5>1. Passed' = (i + 1) + (n - (vec.num - 1))
          BY ONLY <4>1, <4>2
        <5> QED
          BY ONLY <5>1, <4>3
    <3>2. m + 2 <= n => before[m+2] # x
      <4>1. m + 2 <= n => m + 2 \in 2..n /\ (m + 2) - 1 = m + 1
        BY <1>2, <2>5
      <4> QED
        BY <1>7, <2>8, <2>10, <4>1 DEF Spread
    <3>3. Unmatched' = P \ {m+1}
      <4>1. Unmatched' = {p \in 1..n : p <= m + 2 => before[p] # x}
        BY <1>1, <1>2, <3>1 DEF Unmatched
      <4>2. \A p \in 1..n : p <= m + 2 <=> p <= m \/ p = m + 1 \/ p = m + 2
        BY <2>5
      <4>3. before[m+1] = x
        BY <2>8, <2>10
      <4> DEFINE N == Unmatched'
      <4> HIDE DEF m, n, P, x, N
      <4>4. \A p \in 1..n : p \in P <=> (p <= m => before[p] # x)
        BY ONLY <2>9
      <4>5. \A p \in 1..n : p \in N <=> (p <= m + 2 => before[p] # x)
        BY ONLY <4>1 DEF N
      <4>6. ASSUME NEW p \in 1..n PROVE p \in N <=> p \in P /\ p # m + 1
        <5>1. CASE p <= m
          BY ONLY <1>2, <2>5, <4>2, <4>4, <4>5, <5>1
        <5>2. CASE p = m + 1
          BY ONLY <1>2, <2>5, <4>2, <4>3, <4>5, <5>2
        <5>3. CASE p = m + 2
          BY ONLY <1>2, <2>5, <3>2, <4>4, <4>5, <5>3
        <5>4. CASE ~(p <= m + 2)
          BY ONLY <1>2, <2>5, <4>2, <4>4, <4>5, <5>4
        <5> QED
          BY ONLY <1>2, <2>5, <4>2, <5>1, <5>2, <5>3, <5>4
      <4>7. N \subseteq 1..n
        BY ONLY <4>1 DEF N
      <4>8. N = P \ {m+1}
        BY ONLY <2>2, <4>6, <4>7
      <4> QED
        BY <4>8 DEF N
    <3>4. LeftOf(vec', before, P \ {m+1})
      <4> HIDE DEF m, n, P
      <4>1. vec' = vector_delete_at(vec, i)
        BY <1>1, <2>10
      <4> QED
        BY <1>1, <1>2, <1>3, <2>2, <2>3, <2>7, <4>1, LeftWithout
    <3>5. Left(Unmatched)'
      BY <1>1, <3>3, <3>4 DEF Left, LeftOf
    <3>6. m + 2 <= n => Rank(P \ {m+1}, m + 2) = i + 1
      <4> HIDE DEF m, n, P, x
      <4>1. m + 2 <= n => m + 2 \in P
        BY <2>5, <2>6
      <4>2. /\ m + 1 \in Nat \ {0} /\ m + 2 \in Nat \ {0} /\ (m + 2) - 1 = m + 1
            /\ ~(m + 2 < m + 1) /\ m + 2 \in Nat
        BY <2>5
      <4>3. m + 2 <= n => Rank(P, m+2) = Rank(P, m+1) + 1
        BY <2>3, <4>1, <4>2, RankNext
      <4>4. Rank(P \ {m+1}, m+2) = Rank(P, m+2) - 1
        BY ONLY <2>3, <2>7, <4>2, RankWithout
      <4> QED
        BY <1>3, <2>7, <4>3, <4>4
    <3> QED
      BY <1>1, <3>1, <3>3, <3>5, <3>6 DEF Removing, Rank
  <2>11. CASE At(vec, i) # x
    <3>1. vec' = vec /\ Passed' = m + 1
      <4>1. Passed' = i' + (Len(before') - vec'.num)
        BY DEF Passed
      <4>2. i' = i + 1 /\ Len(before') = n /\ vec' = vec
        BY <1>1, <2>11
      <4> HIDE DEF m, n
      <4>3. n \in Nat /\ i \in Nat /\ vec.num \in Nat /\ m = i + (n - vec.num)
        BY <1>2, <1>3, <2>5
      <4> QED
        BY ONLY <4>1, <4>2, <4>3
    <3>2. Unmatched' = P
      <4>1. Unmatched' = {p \in 1..n : p <= m + 1 => before[p] # x}
        BY <1>1, <1>2, <3>1 DEF Unmatched
      <4>2. \A p \in 1..n : p <= m + 1 <=> p <= m \/ p = m + 1
        BY <2>5
      <4> QED
        BY <2>8, <2>9, <2>11, <4>1, <4>2
    <3>3. Left(Unmatched)'
      BY <1>1, <2>1, <3>1, <3>2 DEF Left, Rank
    <3> QED
      BY <1>1, <2>7, <3>1, <3>2, <3>3 DEF Removing, Rank
  <2> QED
    BY <2>10, <2>11
<1>8. Spread' <=> Spread
  BY <1>1 DEF Spread
<1>9. DeleteRemoves'
  BY <1>1 DEF DeleteRemoves
<1> QED
  BY <1>1, <1>2, <1>6, <1>7, <1>8, <1>9 DEF DeleteInv

LEMMA DeleteEnds ==
  ASSUME IInv, DeleteInv, DeleteStep, ~(i < vec.num)
  PROVE  DeleteInv'
<1> DEFINE x == call.args[1]
           n == Len(before)
<1>1. /\ Sound(vec) /\ pc = "delete" /\ pc' = "ready"
      /\ UNCHANGED <<call, before, vec, ret, i>>
  BY SoundWhenDefined DEF DeleteStep, Finish
<1>2. /\ before \in Seq(Elem) /\ n \in Nat /\ DOMAIN before = 1..n /\ x \in Elem /\ x # NULL
      /\ call = [op |-> "delete", args |-> <<x>>] /\ Finding /\ (Spread => Removing)
  BY <1>1, LenProperties, DistinctAssumption DEF DeleteInv
<1>3. i \in Nat /\ vec.num \in Nat /\ i >= vec.num
  BY <1>1 DEF IInv, TypeOK, Sound, IsVector
<1>4. ret = IF x \in Range(before) THEN x ELSE NULL
  <2>1. x \in Range(before) <=> \E p \in 1..n : before[p] = x
    BY <1>2 DEF Range
  <2>2. CASE ret = NULL /\ vec.num = n /\ \A p \in 1..i : before[p] # x
    <3>1. \A p \in 1..n : p \in 1..i
      BY <1>3, <2>2
    <3> QED
      BY <2>1, <2>2, <3>1
  <2> QED
    BY <1>2, <2>1, <2>2 DEF Finding
<1>5. ASSUME Spread PROVE Left({p \in DOMAIN before : before[p] # x})
  <2>1. Passed >= n
    BY <1>2, <1>3 DEF Passed
  <2>2. Unmatched = {p \in DOMAIN before : before[p] # x}
    BY <1>2, <1>3, <2>1 DEF Unmatched, Passed
  <2> QED
    BY <1>2, <1>5, <2>2 DEF Removing
<1>6. DeleteRemoves
  BY <1>4, <1>5 DEF DeleteRemoves, Spread
<1>7. DeleteRemoves'
  BY <1>1, <1>4, <1>5 DEF DeleteRemoves, Spread, Left, Rank
<1> QED
  BY <1>1, <1>2, <1>7 DEF DeleteInv

LEMMA StepDeleteInv == IInv /\ DeleteInv /\ [Next]_vars => DeleteInv'
<1> SUFFICES ASSUME IInv, DeleteInv, [Next]_vars PROVE DeleteInv'
  OBVIOUS
<1>1. CASE call'.op # "delete" /\ pc' # "delete"
  BY <1>1 DEF DeleteInv
<1>2. ASSUME pc \in {"shrink", "optimize", "foreach"}, call' = call, pc' # "delete" PROVE DeleteInv'
  BY <1>2 DEF DeleteInv
<1>3. ASSUME NEW x \in Elem, Push(x) \/ Unshift(x) PROVE DeleteInv'
  BY <1>1, <1>3 DEF Push, Unshift, Grows, Goes, Call
<1>4. CASE Pop \/ ShiftSafe \/ Shift \/ Clear \/ Optimize \/ Foreach
  BY <1>1, <1>4 DEF Pop, ShiftSafe, Shift, Clear, Optimize, Foreach, Goes, Begin, Call
<1>5. ASSUME NEW k \in Index, Aref(k) \/ DeleteAt(k) \/ Resize(k) PROVE DeleteInv'
  BY <1>1, <1>5 DEF Aref, DeleteAt, Resize, Goes, Call
<1>6. ASSUME NEW k \in Index, NEW x \in Elem, Aset(k, x) PROVE DeleteInv'
  BY <1>1, <1>6 DEF Aset, Goes, Call
<1>7. ASSUME NEW lo \in Index, NEW hi \in Index, Slice(lo, hi) PROVE DeleteInv'
  BY <1>1, <1>7 DEF Slice, Call
<1>8. ASSUME NEW op \in {"shrink", "reverse"}, Shrink(op) PROVE DeleteInv'
  BY <1>1, <1>8 DEF Shrink, Begin, Goes, Call
<1>9. CASE ShrinkStep \/ OptimizeStep \/ ForeachEnd \/ \E verdict \in Verdicts : ForeachStep(verdict)
  BY <1>2, <1>9 DEF ShrinkStep, OptimizeStep, ForeachStep, ForeachEnd, Finish
<1>10. CASE UNCHANGED vars
  <2>1. UNCHANGED <<vec, call, ret, pc, i, before>>
    BY <1>10 DEF vars
  <2>2. Passed' = Passed /\ Items(vec)' = Items(vec) /\ (Spread' <=> Spread)
    BY <2>1 DEF Passed, Items, At, Spread
  <2>3. Unmatched' = Unmatched
    BY <2>1, <2>2 DEF Unmatched
  <2>4. Removing' <=> Removing
    BY <2>1, <2>2, <2>3 DEF Removing, Left, Rank
  <2>5. Finding' <=> Finding
    BY <2>1, <2>2 DEF Finding
  <2>6. DeleteRemoves' <=> DeleteRemoves
    BY <2>1, <2>2 DEF DeleteRemoves, Left, Rank
  <2> QED
    BY <2>1, <2>2, <2>4, <2>5, <2>6 DEF DeleteInv
<1>11. CASE DeleteStep
  BY <1>11, DeleteGoesOn, DeleteEnds
<1> QED
  BY <1>3, <1>4, <1>5, <1>6, <1>7, <1>8, <1>9, <1>10, <1>11, DeleteBegins DEF Next, Loops

\* vector_delete takes away every element that matches if no two of them are
\* neighbours, and returns one if there was any in every case (vector.c:314,
\* gc.c:27), though its index moves on over what a removal moves up.
THEOREM MatchesRemoved == Spec => []DeleteRemoves
<1>1. Init => DeleteInv
  BY DEF Init, DeleteInv
<1>2. DeleteInv => DeleteRemoves
  BY DEF DeleteInv, DeleteRemoves
<1> QED
  BY <1>1, <1>2, StepDeleteInv, InitInvariant, StepInvariant, PTL DEF Spec

----------------------------------------------------------------------------
\* What the operations do to the list.

LEMMA CutItems ==
  ASSUME NEW v, Sound(v), NEW n \in Nat, NEW m \in Nat, m <= n, m <= v.num
  PROVE  LET w == [data |-> realloc(v.data, n), num |-> m, cap |-> n]
         IN  Sound(w) /\ Items(w) = SubSeq(Items(v), 1, m)
<1> DEFINE w == [data |-> realloc(v.data, n), num |-> m, cap |-> n]
<1>1. Sound(w)
  BY ResizedSound
<1>2. /\ Items(w) \in Seq(Elem) /\ Len(Items(w)) = m
      /\ \A k \in 1..m : Items(w)[k] = w.data[k-1]
  BY <1>1, ItemsType
<1>3. /\ Items(v) \in Seq(Elem) /\ Len(Items(v)) = v.num /\ v.num \in Nat
      /\ \A k \in 1..v.num : Items(v)[k] = v.data[k-1] /\ Items(v)[k] \in Elem
  BY ItemsType
<1>4. \A k \in 1..m : w.data[k-1] = v.data[k-1]
  <2>1. ASSUME NEW k \in 1..m PROVE k-1 \in 0..(n-1) /\ k-1 \in DOMAIN v.data
    BY DEF Sound, IsVector
  <2> QED
    BY <2>1 DEF realloc
<1>5. \A k \in 1..m : k \in 1..v.num
  BY <1>3
<1> DEFINE t == SubSeq(Items(v), 1, m)
<1>6. t \in Seq(Elem) /\ Len(t) = m /\ \A k \in 1..m : t[k] = Items(v)[k]
  BY <1>3, <1>5
<1> HIDE DEF t, w
<1>7. \A k \in 1..m : Items(w)[k] = t[k]
  BY ONLY <1>2, <1>3, <1>4, <1>5, <1>6
<1>8. Items(w) = t
  BY ONLY <1>2, <1>6, <1>7, SameSeq
<1> QED
  BY <1>1, <1>8 DEF t, w

LEMMA WholeList ==
  ASSUME NEW v, Sound(v) PROVE SubSeq(Items(v), 1, v.num) = Items(v)
BY ItemsType

LEMMA CapacityItems ==
  ASSUME NEW v, Sound(v)
  PROVE  Items(update_capacity(v)) = Items(v)
<1>1. CASE v.cap > v.num
  BY <1>1 DEF update_capacity
<1>2. CASE ~(v.cap > v.num)
  <2>1. update_capacity(v) = [data |-> realloc(v.data, 2 * v.cap),
                              num |-> v.num, cap |-> 2 * v.cap]
    BY <1>2 DEF update_capacity, Sound, IsVector
  <2> DEFINE n == 2 * v.cap
  <2>2. v.num \in Nat /\ n \in Nat /\ v.num <= n /\ v.num <= v.num
    BY DEF Sound, IsVector
  <2>3. update_capacity(v) = [data |-> realloc(v.data, n), num |-> v.num, cap |-> n]
    BY <2>1
  <2> HIDE DEF n
  <2>4. Items([data |-> realloc(v.data, n), num |-> v.num, cap |-> n]) = SubSeq(Items(v), 1, v.num)
    BY ONLY <2>2, Sound(v), CutItems
  <2> QED
    BY <2>3, <2>4, WholeList
<1> QED
  BY <1>1, <1>2

LEMMA PushItems ==
  ASSUME NEW v, Sound(v), NEW x \in Elem, update_capacity(v).cap > v.num
  PROVE  Items(vector_push(v, x)) = Append(Items(v), x)
<1> DEFINE u == update_capacity(v)
           w == vector_push(v, x)
<1>1. Sound(u) /\ u.num = v.num /\ Items(u) = Items(v) /\ Sound(w)
  BY CapacitySound, CapacityItems, PushSound
<1>2. w.num = u.num + 1 /\ w.data = [j \in DOMAIN u.data |-> IF j = u.num THEN x ELSE u.data[j]]
  <2>1. w = [Write(u, u.num, x) EXCEPT !.num = u.num + 1]
    BY DEF vector_push
  <2>2. Write(u, u.num, x) = [data |-> [j \in DOMAIN u.data |-> IF j = u.num THEN x ELSE u.data[j]],
                              num |-> u.num, cap |-> u.cap]
    BY <1>1, WriteRecord DEF Sound
  <2> QED
    BY <2>1, <2>2
<1>3. /\ Items(u) \in Seq(Elem) /\ Len(Items(u)) = u.num /\ u.num \in Nat
      /\ \A k \in 1..u.num : Items(u)[k] = u.data[k-1] /\ Items(u)[k] \in Elem
  BY <1>1, ItemsType
<1>4. /\ Items(w) \in Seq(Elem) /\ Len(Items(w)) = u.num + 1
      /\ \A k \in 1..(u.num + 1) : Items(w)[k] = w.data[k-1]
  <2> HIDE DEF u, w
  <2>1. Sound(w) /\ w.num = u.num + 1
    BY <1>1, <1>2
  <2> QED
    BY ONLY <2>1, ItemsType
<1>5. \A k \in 1..(u.num + 1) : k-1 \in DOMAIN u.data
  <2>1. u.cap > u.num
    BY <1>1
  <2> HIDE DEF u
  <2>2. DOMAIN u.data = 0..(u.cap - 1) /\ u.num \in Nat /\ u.cap \in Nat
    BY ONLY <1>1 DEF Sound, IsVector
  <2> QED
    BY ONLY <2>1, <2>2
<1>6. ASSUME NEW k \in 1..(u.num + 1)
      PROVE  Items(w)[k] = IF k = u.num + 1 THEN x ELSE Items(u)[k]
  <2> HIDE DEF u, w
  <2>1. Items(w)[k] = IF k-1 = u.num THEN x ELSE u.data[k-1]
    BY ONLY <1>2, <1>4, <1>5
  <2>2. (k-1 = u.num <=> k = u.num + 1) /\ (k # u.num + 1 => k \in 1..u.num)
    BY <1>3
  <2> QED
    BY <1>3, <2>1, <2>2
<1>7. /\ Append(Items(u), x) \in Seq(Elem) /\ Len(Append(Items(u), x)) = u.num + 1
      /\ \A k \in 1..(u.num + 1) :
           Append(Items(u), x)[k] = IF k = u.num + 1 THEN x ELSE Items(u)[k]
  <2> HIDE DEF u
  <2> QED
    BY <1>3
<1>8. Items(w) = Append(Items(u), x)
  <2> HIDE DEF u, w
  <2> QED
    BY ONLY <1>4, <1>6, <1>7, SameSeq
<1> QED
  BY <1>1, <1>8

LEMMA UnshiftItems ==
  ASSUME NEW v, Sound(v), NEW x \in Elem, update_capacity(v).cap > v.num
  PROVE  Items(vector_unshift(v, x)) = <<x>> \o Items(v)
<1> DEFINE u == update_capacity(v)
           w == vector_unshift(v, x)
           t == <<x>> \o Items(u)
<1>1. Sound(u) /\ u.num = v.num /\ Items(u) = Items(v) /\ Sound(w)
  BY CapacitySound, CapacityItems, UnshiftSound
<1>2. w.num = u.num + 1 /\ w.data = [k \in DOMAIN u.data |->
                                       IF k = 0 THEN x
                                       ELSE IF k <= u.num THEN At(u, k-1) ELSE At(u, k)]
  BY DEF vector_unshift
<1>3. /\ Items(u) \in Seq(Elem) /\ Len(Items(u)) = u.num /\ u.num \in Nat
      /\ \A k \in 0..(u.num - 1) : At(u, k) = Items(u)[k+1]
      /\ \A k \in 1..u.num : Items(u)[k] \in Elem
  BY <1>1, ItemsType
<1>4. /\ Items(w) \in Seq(Elem) /\ Len(Items(w)) = u.num + 1
      /\ \A k \in 1..(u.num + 1) : Items(w)[k] = w.data[k-1]
  <2> HIDE DEF u, w
  <2>1. Sound(w) /\ w.num = u.num + 1
    BY <1>1, <1>2
  <2> QED
    BY ONLY <2>1, ItemsType
<1>5. \A k \in 1..(u.num + 1) : k-1 \in DOMAIN u.data
  <2>1. u.cap > u.num
    BY <1>1
  <2> HIDE DEF u
  <2>2. DOMAIN u.data = 0..(u.cap - 1) /\ u.num \in Nat /\ u.cap \in Nat
    BY ONLY <1>1 DEF Sound, IsVector
  <2> QED
    BY ONLY <2>1, <2>2
<1>6. ASSUME NEW k \in 1..(u.num + 1)
      PROVE  Items(w)[k] = IF k = 1 THEN x ELSE Items(u)[k-1]
  <2> HIDE DEF u, w
  <2>1. Items(w)[k] = IF k-1 = 0 THEN x
                      ELSE IF k-1 <= u.num THEN At(u, (k-1)-1) ELSE At(u, k-1)
    BY ONLY <1>2, <1>4, <1>5
  <2>2. k # 1 => (k-1)-1 \in 0..(u.num - 1) /\ ((k-1)-1)+1 = k-1 /\ k-1 <= u.num /\ k-1 # 0
    BY <1>3
  <2>3. k # 1 => At(u, (k-1)-1) = Items(u)[k-1]
    BY <1>3, <2>2
  <2> QED
    BY <2>1, <2>2, <2>3
<1>7. /\ t \in Seq(Elem) /\ Len(t) = u.num + 1
      /\ \A k \in 1..(u.num + 1) : t[k] = IF k = 1 THEN x ELSE Items(u)[k-1]
  <2> HIDE DEF u
  <2>1. <<x>> \in Seq(Elem) /\ Len(<<x>>) = 1 /\ <<x>>[1] = x
    OBVIOUS
  <2> QED
    BY <1>3, <2>1, ConcatProperties
<1>8. Items(w) = t
  <2> HIDE DEF u, w, t
  <2> QED
    BY ONLY <1>4, <1>6, <1>7, SameSeq
<1> QED
  BY <1>1, <1>8

LEMMA RemoveItems ==
  ASSUME NEW v, Sound(v), NEW k \in 0..(v.num - 1)
  PROVE  Items(vector_delete_at(v, k)) = SubSeq(Items(v), 1, k) \o SubSeq(Items(v), k+2, Len(Items(v)))
<1> DEFINE w == vector_delete_at(v, k)
           s == Items(v)
           r == SubSeq(s, 1, k)
           t == SubSeq(s, k+2, Len(s))
<1>1. /\ Items(v) \in Seq(Elem) /\ Len(Items(v)) = v.num /\ v.num \in Nat
      /\ \A j \in 1..v.num : Items(v)[j] \in Elem
  BY ItemsType
<1>2. /\ Sound(w) /\ w.num = v.num - 1
      /\ \A j \in 1..w.num : Items(w)[j] = IF j <= k THEN s[j] ELSE s[j+1]
  BY DeleteItems
<1>3. Items(w) \in Seq(Elem) /\ Len(Items(w)) = w.num
  BY <1>2, ItemsType
<1> HIDE DEF s, w
<1>4. k \in Nat /\ k < v.num /\ Len(s) = v.num /\ s \in Seq(Elem)
  BY <1>1 DEF s
<1>5. /\ r \in Seq(Elem) /\ Len(r) = k /\ \A j \in 1..k : r[j] = s[j]
      /\ t \in Seq(Elem) /\ Len(t) = v.num - k - 1
      /\ \A j \in 1..(v.num - k - 1) : t[j] = s[k+1+j]
  <2>1. \A j \in 1..v.num : s[j] \in Elem
    BY <1>1 DEF s
  <2> QED
    <3>1. /\ 1 \in Int /\ k \in Int /\ k + 2 \in Int /\ Len(s) \in Int
          /\ \A j \in 1..k : s[j] \in Elem
          /\ \A j \in (k+2)..Len(s) : s[j] \in Elem
      BY <1>1, <1>4, <2>1
    <3>2. /\ r \in Seq(Elem) /\ Len(r) = (IF 1 <= k THEN k-1+1 ELSE 0)
          /\ \A j \in 1..(k-1+1) : r[j] = s[1+j-1]
      BY ONLY <3>1, SubSeqProperties
    <3>3. /\ t \in Seq(Elem)
          /\ Len(t) = (IF k+2 <= Len(s) THEN Len(s)-(k+2)+1 ELSE 0)
          /\ \A j \in 1..(Len(s)-(k+2)+1) : t[j] = s[(k+2)+j-1]
      <4> DEFINE lo == k + 2
                 hi == Len(s)
      <4>1. lo \in Int /\ hi \in Int /\ \A j \in lo..hi : s[j] \in Elem
        BY <3>1
      <4> HIDE DEF lo, hi
      <4>2. /\ SubSeq(s, lo, hi) \in Seq(Elem)
            /\ Len(SubSeq(s, lo, hi)) = IF lo <= hi THEN hi - lo + 1 ELSE 0
            /\ \A j \in 1..(hi - lo + 1) : SubSeq(s, lo, hi)[j] = s[lo + j - 1]
        BY ONLY <4>1, SubSeqProperties
      <4>3. t = SubSeq(s, lo, hi)
        BY DEF lo, hi
      <4> HIDE DEF t
      <4> QED
        BY ONLY <4>2, <4>3 DEF lo, hi
    <3> HIDE DEF r, t
    <3>4. v.num \in Nat
      BY <1>1
    <3>5. Len(r) = k /\ \A j \in 1..k : r[j] = s[j]
      BY ONLY <1>4, <3>2
    <3>6. Len(t) = v.num - k - 1 /\ \A j \in 1..(v.num - k - 1) : t[j] = s[k+1+j]
      BY ONLY <1>4, <3>3, <3>4
    <3> QED
      BY ONLY <3>2, <3>3, <3>5, <3>6
<1> HIDE DEF r, t
<1>6. /\ r \o t \in Seq(Elem) /\ Len(r \o t) = v.num - 1
      /\ \A j \in 1..(v.num - 1) : (r \o t)[j] = IF j <= k THEN s[j] ELSE s[j+1]
  <2>1. /\ r \o t \in Seq(Elem) /\ Len(r \o t) = Len(r) + Len(t)
        /\ \A j \in 1..(Len(r) + Len(t)) : (r \o t)[j] = IF j <= Len(r) THEN r[j] ELSE t[j - Len(r)]
    BY <1>5, ConcatProperties
  <2>2. Len(r) + Len(t) = v.num - 1
    BY <1>1, <1>4, <1>5
  <2>3. ASSUME NEW j \in 1..(v.num - 1) PROVE (r \o t)[j] = IF j <= k THEN s[j] ELSE s[j+1]
    <3>1. CASE j <= k
      BY <1>4, <1>5, <2>1, <2>2, <3>1
    <3>2. CASE ~(j <= k)
      <4>1. j - k \in 1..(v.num - k - 1) /\ k+1+(j-k) = j+1
        BY <1>1, <1>4, <3>2
      <4> QED
        BY <1>4, <1>5, <2>1, <2>2, <3>2, <4>1
    <3> QED
      BY <3>1, <3>2
  <2> QED
    BY <2>1, <2>2, <2>3
<1>7. Items(w) = r \o t
  <2>1. w.num = v.num - 1
    BY <1>2
  <2>2. Len(Items(w)) = v.num - 1 /\ \A j \in 1..(v.num - 1) : Items(w)[j] = (r \o t)[j]
    BY ONLY <2>1, <1>2, <1>3, <1>6
  <2> QED
    BY ONLY <2>2, <1>3, <1>6, SameSeq
<1> QED
  BY <1>7 DEF w, r, t, s

LEMMA PopItems ==
  ASSUME NEW v, Sound(v), v.num > 0
  PROVE  Items(vector_pop(v)) = SubSeq(Items(v), 1, v.num - 1)
<1> DEFINE w == vector_pop(v)
           t == SubSeq(Items(v), 1, v.num - 1)
<1>1. Sound(w) /\ w.data = v.data
  BY PopSound
<1>2. w.num = v.num - 1 /\ v.num - 1 \in Nat
  BY DEF vector_pop, Sound, IsVector
<1>3. /\ Items(w) \in Seq(Elem) /\ Len(Items(w)) = v.num - 1
      /\ \A k \in 1..(v.num - 1) : Items(w)[k] = v.data[k-1]
  <2> HIDE DEF w
  <2>1. /\ Items(w) \in Seq(Elem) /\ Len(Items(w)) = w.num
        /\ \A k \in 1..w.num : Items(w)[k] = w.data[k-1]
    BY ONLY <1>1, ItemsType
  <2> QED
    BY ONLY <2>1, <1>1, <1>2
<1>4. /\ Items(v) \in Seq(Elem) /\ Len(Items(v)) = v.num /\ v.num \in Nat
      /\ \A k \in 1..v.num : Items(v)[k] = v.data[k-1] /\ Items(v)[k] \in Elem
  BY ItemsType
<1>5. t \in Seq(Elem) /\ Len(t) = v.num - 1 /\ \A k \in 1..(v.num - 1) : t[k] = v.data[k-1]
  BY <1>2, <1>4
<1> HIDE DEF w, t
<1>6. Items(w) = t
  BY ONLY <1>3, <1>5, SameSeq
<1> QED
  BY <1>6 DEF w, t

LEMMA AsetItems ==
  ASSUME NEW v, Sound(v), NEW idx \in Int, InBounds(v, idx), NEW x \in Elem
  PROVE  Items(vector_aset(v, idx, x)) = [Items(v) EXCEPT ![Offset(v, idx) + 1] = x]
<1> DEFINE w == vector_aset(v, idx, x)
           o == Offset(v, idx)
           t == [Items(v) EXCEPT ![o + 1] = x]
<1>1. Sound(w)
  BY AsetSound
<1>2. w.num = v.num /\ w.data = [j \in DOMAIN v.data |-> IF j = o THEN x ELSE v.data[j]]
  <2>1. w = Write(v, o, x)
    BY DEF vector_aset
  <2> QED
    BY <2>1, WriteRecord DEF Sound
<1>3. /\ Items(v) \in Seq(Elem) /\ Len(Items(v)) = v.num /\ v.num \in Nat
      /\ \A k \in 1..v.num : Items(v)[k] = v.data[k-1] /\ Items(v)[k] \in Elem
  BY ItemsType
<1>4. /\ Items(w) \in Seq(Elem) /\ Len(Items(w)) = v.num
      /\ \A k \in 1..v.num : Items(w)[k] = w.data[k-1]
  BY <1>1, <1>2, ItemsType
<1>5. o \in 0..(v.num - 1) /\ \A k \in 1..v.num : k-1 \in DOMAIN v.data
  BY <1>3 DEF InBounds, Sound, IsVector
<1> HIDE DEF o, w
<1>6. /\ t \in Seq(Elem) /\ Len(t) = v.num
      /\ \A k \in 1..v.num : t[k] = IF k = o + 1 THEN x ELSE v.data[k-1]
  <2> HIDE DEF o
  <2>1. o + 1 \in 1..v.num
    BY <1>3, <1>5
  <2>2. Items(v) \in [1..v.num -> Elem]
    BY <1>3
  <2>3. t \in [1..v.num -> Elem] /\ \A k \in 1..v.num : t[k] = IF k = o + 1 THEN x ELSE Items(v)[k]
    BY <2>1, <2>2
  <2> HIDE DEF t
  <2>4. t \in Seq(Elem) /\ Len(t) = v.num
    BY ONLY <1>3, <2>3
  <2> QED
    BY <1>3, <2>3, <2>4
<1>7. \A k \in 1..v.num : w.data[k-1] = IF k = o + 1 THEN x ELSE v.data[k-1]
  BY <1>2, <1>5
<1> HIDE DEF t
<1>8. Items(w) = t
  BY ONLY <1>4, <1>6, <1>7, SameSeq
<1> QED
  BY <1>8 DEF t, w, o

----------------------------------------------------------------------------
\* A vector is a list.

\* While a capacity is looked for there is nothing to return.
Quiet == pc \in {"shrink", "optimize"} => ret = NULL

LEMMA StepQuiet == Quiet /\ [Next]_vars => Quiet'
<1> SUFFICES ASSUME Quiet, [Next]_vars PROVE Quiet'
  OBVIOUS
<1> USE DEF Quiet
<1>1. CASE UNCHANGED vars
  BY <1>1 DEF vars
<1>2. ASSUME NEW x \in Elem, Push(x) \/ Unshift(x) \/ Delete(x) PROVE Quiet'
  BY <1>2 DEF Push, Unshift, Delete, Grows, Goes, Begin
<1>3. CASE Pop \/ ShiftSafe \/ Shift \/ Clear \/ Optimize \/ Foreach
  BY <1>3 DEF Pop, ShiftSafe, Shift, Clear, Optimize, Foreach, Goes, Begin
<1>4. ASSUME NEW k \in Index, Aref(k) \/ DeleteAt(k) \/ Resize(k) PROVE Quiet'
  BY <1>4 DEF Aref, DeleteAt, Resize, Goes
<1>5. ASSUME NEW k \in Index, NEW x \in Elem, Aset(k, x) PROVE Quiet'
  BY <1>5 DEF Aset, Goes
<1>6. ASSUME NEW lo \in Index, NEW hi \in Index, Slice(lo, hi) PROVE Quiet'
  BY <1>6 DEF Slice
<1>7. ASSUME NEW op, Shrink(op) PROVE Quiet'
  BY <1>7 DEF Shrink, Begin, Goes
<1>8. CASE Loops
  BY <1>8 DEF Loops, ShrinkStep, OptimizeStep, DeleteStep, ForeachStep, ForeachEnd, Finish
<1> QED
  BY <1>1, <1>2, <1>3, <1>4, <1>5, <1>6, <1>7, <1>8 DEF Next

\* Indices of the vector and of the list.
LEMMA IndexList ==
  ASSUME Sound(vec), NEW k \in Int
  PROVE  /\ L!InRange(k) <=> InBounds(vec, k)
         /\ L!Place(k) = Offset(vec, k) + 1 /\ Offset(vec, k) \in Int
         /\ L!At(k) = vector_aref(vec, k)
<1>1. /\ Len(Items(vec)) = vec.num /\ DOMAIN Items(vec) = 1..vec.num /\ vec.num \in Nat
      /\ \A j \in 0..(vec.num - 1) : At(vec, j) = Items(vec)[j+1]
  BY ItemsType
<1>2. L!Place(k) = Offset(vec, k) + 1 /\ Offset(vec, k) \in Int
  BY <1>1 DEF L!Place, Offset
<1>3. L!InRange(k) <=> InBounds(vec, k)
  BY <1>1, <1>2 DEF L!InRange, InBounds
<1>4. L!At(k) = vector_aref(vec, k)
  BY <1>1, <1>2, <1>3 DEF L!At, vector_aref, InBounds
<1> QED
  BY <1>2, <1>3, <1>4

\* The place that an index stands for is taken away.
LEMMA DeleteAtItems ==
  ASSUME Sound(vec), NEW k \in Int
  PROVE  Items(vector_delete_at(vec, k)) =
           IF L!InRange(k) THEN L!RemoveAt(Items(vec), L!Place(k)) ELSE Items(vec)
<1> DEFINE o == Offset(vec, k)
<1>1. L!InRange(k) <=> InBounds(vec, k)
  BY IndexList
<1>2. CASE InBounds(vec, k)
  <2>1. o \in 0..(vec.num - 1) /\ L!Place(k) = o + 1 /\ vec.num \in Nat
    BY <1>2, IndexList, ItemsType DEF InBounds
  <2>2. vector_delete_at(vec, k) = vector_delete_at(vec, o)
    <3>1. Offset(vec, o) = o /\ InBounds(vec, o)
      BY <2>1 DEF Offset, InBounds
    <3> QED
      BY <1>2, <3>1 DEF vector_delete_at
  <2>3. Items(vector_delete_at(vec, o)) = SubSeq(Items(vec), 1, o) \o SubSeq(Items(vec), o+2, Len(Items(vec)))
    <3> HIDE DEF o
    <3> QED
      BY <2>1, RemoveItems
  <2>4. L!RemoveAt(Items(vec), o + 1)
          = SubSeq(Items(vec), 1, o) \o SubSeq(Items(vec), o+2, Len(Items(vec)))
    <3>1. (o + 1) - 1 = o /\ (o + 1) + 1 = o + 2
      BY <2>1
    <3> QED
      BY <3>1 DEF L!RemoveAt
  <2> QED
    BY <1>1, <1>2, <2>1, <2>2, <2>3, <2>4
<1>3. CASE ~InBounds(vec, k)
  BY <1>1, <1>3 DEF vector_delete_at
<1> QED
  BY <1>2, <1>3

Stutters == UNCHANGED <<Items(vec), call, ret>>

LEMMA SameItems == UNCHANGED vec => UNCHANGED Items(vec)
BY DEF Items, At

\* The calls of one step.
LEMMA CallRefines ==
  ASSUME IInv, Kept, pc = "ready",
         \/ \E x \in Elem : Push(x) \/ Unshift(x)
         \/ Pop \/ ShiftSafe \/ Shift \/ Clear
         \/ \E k \in Index : Aref(k) \/ DeleteAt(k)
         \/ \E k \in Index, x \in Elem : Aset(k, x)
  PROVE  L!Next
<1>1. Sound(vec)
  BY SoundWhenDefined
<1>2. /\ Items(vec) \in Seq(Elem) /\ Len(Items(vec)) = vec.num /\ vec.num \in Nat
      /\ DOMAIN Items(vec) = 1..vec.num
  BY <1>1, ItemsType
<1>3. ASSUME NEW x \in Elem, Push(x) PROVE L!Push(x)
  <2>1. update_capacity(vec).cap > vec.num
    BY <1>3 DEF Push, Grows, Kept
  <2> QED
    BY <1>1, <1>3, <2>1, PushItems DEF Push, Call, L!Push, L!Called
<1>4. ASSUME NEW x \in Elem, Unshift(x) PROVE L!Unshift(x)
  <2>1. update_capacity(vec).cap > vec.num
    BY <1>4 DEF Unshift, Grows, Kept
  <2> QED
    BY <1>1, <1>4, <2>1, UnshiftItems DEF Unshift, Call, L!Unshift, L!Called
<1>5. CASE Pop
  <2>1. ret' = L!At(-1) /\ vec' = vector_pop(vec) /\ call' = [op |-> "pop", args |-> <<>>]
    BY <1>1, <1>5, IndexList DEF Pop, Call
  <2>2. Items(vec)' = IF Items(vec) = <<>> THEN Items(vec) ELSE L!Front(Items(vec))
    <3>1. CASE vec.num = 0
      <4>1. Items(vec) = <<>> /\ vec' = vec
        BY <1>2, <2>1, <3>1, EmptySeq DEF vector_pop
      <4> QED
        BY <4>1, SameItems
    <3>2. CASE vec.num > 0
      <4>1. Items(vec') = SubSeq(Items(vec), 1, vec.num - 1) /\ Items(vec) # <<>>
        BY <1>1, <1>2, <2>1, <3>2, PopItems, EmptySeq
      <4>2. Items(vec)' = Items(vec')
        BY DEF Items, At
      <4> QED
        BY <1>2, <4>1, <4>2 DEF L!Front
    <3> QED
      BY <1>2, <3>1, <3>2
  <2> QED
    BY <2>1, <2>2 DEF L!Next, L!Pop, L!Called
<1>6. CASE ShiftSafe
  <2>1. /\ ret' = L!At(0) /\ vec' = vector_delete_at(vec, 0)
        /\ call' = [op |-> "shift_safe", args |-> <<>>]
    BY <1>1, <1>6, IndexList DEF ShiftSafe, Call, vector_shift_safe
  <2>2. Items(vec)' = IF Items(vec) = <<>> THEN Items(vec) ELSE Tail(Items(vec))
    <3>1. CASE vec.num = 0
      <4>1. Items(vec) = <<>>
        BY <1>2, <3>1, EmptySeq
      <4>2. vec' = vec
        BY <2>1, <3>1 DEF vector_delete_at, InBounds
      <4> QED
        BY <4>1, <4>2, SameItems
    <3>2. CASE vec.num > 0
      <4>1. 0 \in 0..(vec.num - 1) /\ 0 + 2 = 2
        BY <1>2, <3>2
      <4>2. Items(vec') = SubSeq(Items(vec), 1, 0) \o SubSeq(Items(vec), 2, Len(Items(vec)))
        BY <1>1, <2>1, <4>1, RemoveItems
      <4>3. SubSeq(Items(vec), 1, 0) = <<>> /\ SubSeq(Items(vec), 2, Len(Items(vec))) = Tail(Items(vec))
        BY <1>2, <3>2
      <4>4. Tail(Items(vec)) \in Seq(Elem) /\ Items(vec) # <<>>
        BY <1>2, <3>2, EmptySeq, HeadTailProperties
      <4>5. Items(vec)' = Items(vec')
        BY DEF Items, At
      <4> QED
        BY <4>2, <4>3, <4>4, <4>5, ConcatEmptySeq
    <3> QED
      BY <1>2, <3>1, <3>2
  <2>3. call' \in [op : {"shift", "shift_safe"}, args : {<<>>}]
    BY <2>1
  <2> QED
    BY <2>1, <2>2, <2>3 DEF L!Next, L!Shift
<1>7. ~Shift
  BY DEF Shift, Call, Kept
<1>8. CASE Clear
  <2>1. Items(vec') = <<>>
    BY <1>8 DEF Clear, Items
  <2>2. Items(vec)' = Items(vec')
    BY DEF Items, At
  <2> QED
    BY <1>8, <2>1, <2>2 DEF Clear, Call, L!Next, L!Clear, L!Called
<1>9. ASSUME NEW k \in Index, Aref(k) PROVE L!Aref(k)
  BY <1>1, <1>9, IndexList, SameItems DEF Aref, Call, L!Aref, L!Called
<1>10. ASSUME NEW k \in Index, DeleteAt(k) PROVE L!DeleteAt(k)
  <2>1. k \in Int /\ vec' = vector_delete_at(vec, k) /\ ret' = vector_aref(vec, k)
        /\ call' = [op |-> "delete_at", args |-> <<k>>]
    BY <1>10 DEF DeleteAt, Call
  <2>2. Items(vec)' = Items(vec')
    BY DEF Items, At
  <2> QED
    BY <1>1, <2>1, <2>2, IndexList, DeleteAtItems DEF L!DeleteAt, L!Called
<1>11. ASSUME NEW k \in Index, NEW x \in Elem, Aset(k, x) PROVE L!Aset(k, x)
  <2>1. k \in Int /\ vec' = vector_aset(vec, k, x) /\ ret' = NULL
        /\ call' = [op |-> "aset", args |-> <<k, x>>]
    BY <1>11 DEF Aset, Call
  <2>2. Items(vec)' = Items(vec')
    BY DEF Items, At
  <2>3. L!Place(k) = Offset(vec, k) + 1 /\ (L!InRange(k) <=> InBounds(vec, k))
    BY <1>1, <2>1, IndexList
  <2>4. CASE InBounds(vec, k)
    <3>1. Items(vec') = [Items(vec) EXCEPT ![Offset(vec, k) + 1] = x]
      BY <1>1, <2>1, <2>4, AsetItems
    <3> QED
      BY <2>1, <2>2, <2>3, <2>4, <3>1 DEF L!Aset, L!Called
  <2>5. CASE ~InBounds(vec, k)
    BY <2>1, <2>2, <2>3, <2>5 DEF vector_aset, L!Aset, L!Called
  <2> QED
    BY <2>4, <2>5
<1> QED
  BY <1>3, <1>4, <1>5, <1>6, <1>7, <1>8, <1>9, <1>10, <1>11 DEF L!Next

\* vector_range, with both bounds in the list.
LEMMA SliceRefines ==
  ASSUME IInv, Kept, NEW lo \in Index, NEW hi \in Index, Slice(lo, hi)
  PROVE  L!Slice(lo, hi)
<1> DEFINE from == IF Cut(lo) <= Cut(hi) THEN Cut(lo) ELSE Cut(hi)
           to   == IF Cut(lo) <= Cut(hi) THEN Cut(hi) ELSE Cut(lo)
           s    == Items(vec)
<1>1. /\ Sound(vec) /\ vec' = vec /\ call' = [op |-> "range", args |-> <<lo, hi>>]
      /\ lo \in Int /\ hi \in Int
  BY SoundWhenDefined DEF Slice, Call
<1>2. vec.num > 0 /\ L!InRange(lo) /\ L!InRange(hi)
  BY <1>1 DEF Kept
<1>3. ret' = [k \in 1..(to - from + 1) |-> At(vec, from + k - 1)]
  BY <1>2 DEF Slice
<1>4. /\ s \in Seq(Elem) /\ Len(s) = vec.num /\ vec.num \in Nat
      /\ \A k \in 0..(vec.num - 1) : At(vec, k) = s[k+1]
      /\ \A k \in 1..vec.num : s[k] \in Elem
  BY <1>1, ItemsType
<1>5. /\ InBounds(vec, lo) /\ InBounds(vec, hi)
      /\ L!Place(lo) = Offset(vec, lo) + 1 /\ L!Place(hi) = Offset(vec, hi) + 1
  BY <1>1, <1>2, IndexList
<1>6. /\ Cut(lo) = Offset(vec, lo) /\ Cut(hi) = Offset(vec, hi)
      /\ Cut(lo) \in 0..(vec.num - 1) /\ Cut(hi) \in 0..(vec.num - 1)
  BY <1>4, <1>5 DEF InBounds, Cut
<1>7. from \in 0..(vec.num - 1) /\ to \in 0..(vec.num - 1) /\ from <= to
  BY <1>4, <1>6
<1> HIDE DEF from, to
<1>8. ret' = SubSeq(s, from + 1, to + 1)
  <2> DEFINE r == [k \in 1..(to - from + 1) |-> At(vec, from + k - 1)]
             t == SubSeq(s, from + 1, to + 1)
             n == to - from + 1
  <2>1. n \in Nat /\ \A k \in 1..n : from + k - 1 \in 0..(vec.num - 1) /\ (from + k - 1) + 1 = from + k
                                     /\ from + k \in 1..vec.num
    BY <1>4, <1>7
  <2>2. \A k \in 1..n : At(vec, from + k - 1) = s[from + k] /\ s[from + k] \in Elem
    BY <1>4, <2>1
  <2>3. r \in Seq(Elem) /\ Len(r) = n /\ \A k \in 1..n : r[k] = s[from + k]
    <3>1. r \in [1..n -> Elem] /\ \A k \in 1..n : r[k] = s[from + k]
      BY <2>2
    <3>2. n \in Nat
      BY <2>1
    <3> HIDE DEF r, n
    <3> QED
      BY ONLY <3>1, <3>2
  <2>4. t \in Seq(Elem) /\ Len(t) = n /\ \A k \in 1..n : t[k] = s[from + k]
    <3> HIDE DEF s
    <3>1. from \in Nat /\ to \in Nat /\ to + 1 <= Len(s) /\ from + 1 \in Nat /\ to + 1 \in Nat
      BY <1>4, <1>7
    <3> QED
      BY <1>4, <1>7, <2>1, <3>1
  <2> HIDE DEF r, t, n, s
  <2>5. r = t
    BY ONLY <2>3, <2>4, SameSeq
  <2> QED
    BY <1>3, <2>5 DEF r, t
<1>9. SubSeq(s, from + 1, to + 1) = IF L!Place(lo) <= L!Place(hi)
                                    THEN SubSeq(s, L!Place(lo), L!Place(hi))
                                    ELSE SubSeq(s, L!Place(hi), L!Place(lo))
  <2>1. L!Place(lo) = Cut(lo) + 1 /\ L!Place(hi) = Cut(hi) + 1 /\ Cut(lo) \in Int /\ Cut(hi) \in Int
    BY <1>4, <1>5, <1>6
  <2>2. L!Place(lo) <= L!Place(hi) <=> Cut(lo) <= Cut(hi)
    BY ONLY <2>1
  <2> HIDE DEF s
  <2>3. CASE Cut(lo) <= Cut(hi)
    BY ONLY <2>1, <2>2, <2>3 DEF from, to
  <2>4. CASE ~(Cut(lo) <= Cut(hi))
    BY ONLY <2>1, <2>2, <2>4 DEF from, to
  <2> QED
    BY ONLY <2>3, <2>4
<1> QED
  BY <1>1, <1>2, <1>8, <1>9, SameItems DEF L!Slice, L!Called

\* Calls about memory, and those that begin a loop.
LEMMA MemoryRefines ==
  ASSUME IInv, Kept, pc = "ready",
         \/ \E x \in Elem : Delete(x)
         \/ Optimize \/ Foreach
         \/ \E k \in Index : Resize(k)
         \/ \E op \in {"shrink", "reverse"} : Shrink(op)
  PROVE  L!Next
<1>1. Sound(vec)
  BY SoundWhenDefined
<1>2. ASSUME NEW x \in Elem, Delete(x) PROVE L!Walk
  <2>1. call' = [op |-> "delete", args |-> <<x>>] /\ ret' = NULL /\ UNCHANGED Items(vec)
    BY <1>2, SameItems DEF Delete, Begin
  <2> QED
    BY <2>1 DEF L!Walk
<1>3. CASE Foreach
  <2>1. call' = [op |-> "foreach", args |-> <<>>] /\ ret' = NULL /\ UNCHANGED Items(vec)
    BY <1>3, SameItems DEF Foreach, Begin
  <2> QED
    BY <2>1 DEF L!Walk, L!Next
<1>4. CASE Optimize
  <2>1. call' = [op |-> "optimize", args |-> <<NULL>>] /\ ret' = NULL /\ UNCHANGED Items(vec)
    BY <1>4, SameItems DEF Optimize, Begin
  <2>2. L!Memory("optimize", NULL)
    BY <2>1 DEF L!Memory, L!Called
  <2> QED
    BY <2>2 DEF L!Next
<1>5. ASSUME NEW op \in {"shrink", "reverse"}, Shrink(op) PROVE L!Next
  <2>1. call' = [op |-> op, args |-> <<NULL>>] /\ UNCHANGED Items(vec)
    BY <1>5, SameItems DEF Shrink, Begin, Call
  <2>2. op = "shrink"
    BY <2>1 DEF Kept
  <2>3. ret' = NULL
    BY <1>5, <2>2 DEF Shrink, Begin
  <2>4. L!Memory("shrink", NULL)
    BY <2>1, <2>2, <2>3 DEF L!Memory, L!Called
  <2> QED
    BY <2>4 DEF L!Next
<1>6. ASSUME NEW n \in Index, Resize(n) PROVE L!Memory("resize", n)
  <2> DEFINE size == IF n <= 0 THEN vec.num + n ELSE n
  <2>1. call' = [op |-> "resize", args |-> <<n>>] /\ ret' = NULL
    BY <1>6 DEF Resize, Call
  <2>2. size \in Int /\ vec.num \in Nat
    BY <1>1 DEF Sound, IsVector
  <2>3. CASE size <= 0
    <3>1. vec' = vec
      BY <1>6, <2>3 DEF Resize
    <3> QED
      BY <2>1, <3>1, SameItems DEF L!Memory, L!Called
  <2>4. CASE size > 0
    <3> DEFINE m == IF size < vec.num THEN size ELSE vec.num
    <3>1. size \in Nat /\ m \in Nat /\ m <= size /\ m <= vec.num
      BY <2>2, <2>4
    <3>2. vec' = [data |-> realloc(vec.data, size), num |-> m, cap |-> size]
      BY <1>6, <2>2, <2>4 DEF Resize
    <3>3. Items(vec') = SubSeq(Items(vec), 1, m)
      <4> HIDE DEF size, m
      <4> QED
        BY ONLY <1>1, <3>1, <3>2, CutItems
    <3>4. Items(vec)' = Items(vec')
      BY DEF Items, At
    <3>5. CASE vec.num <= size
      <4>1. m = vec.num
        BY <2>2, <3>5
      <4>2. Items(vec)' = Items(vec)
        BY <1>1, <3>3, <3>4, <4>1, WholeList
      <4> QED
        BY <2>1, <4>2 DEF L!Memory, L!Called
    <3>6. CASE size < vec.num
      <4>1. m = size /\ size \in DOMAIN Items(vec)
        BY <1>1, <2>2, <2>4, <3>6, ItemsType
      <4>2. \E k \in DOMAIN Items(vec) : Items(vec)' = SubSeq(Items(vec), 1, k)
        BY <3>3, <3>4, <4>1
      <4> QED
        BY <2>1, <4>2 DEF L!Memory, L!Called
    <3> QED
      BY <2>2, <3>5, <3>6
  <2> QED
    BY <2>2, <2>3, <2>4
<1> QED
  BY <1>2, <1>3, <1>4, <1>5, <1>6 DEF L!Next

\* What a loop takes away.
LEMMA DropRefines ==
  ASSUME IInv, pc # "undefined", i < vec.num, vec' = vector_delete_at(vec, i), call' = call,
         \/ call.op = "foreach" /\ ret' = ret
         \/ call = [op |-> "delete", args |-> <<At(vec, i)>>] /\ ret' = At(vec, i)
  PROVE  L!Next
<1>1. Sound(vec) /\ i \in Nat
  BY SoundWhenDefined DEF IInv, TypeOK
<1>2. i \in 0..(vec.num - 1) /\ i + 1 \in 1..vec.num /\ i \in Int
  BY <1>1 DEF Sound, IsVector
<1>3. i + 1 \in DOMAIN Items(vec) /\ At(vec, i) = Items(vec)[i+1]
  BY <1>1, <1>2, ItemsType
<1>4. L!InRange(i) /\ L!Place(i) = i + 1
  BY <1>1, <1>2, IndexList DEF InBounds, Offset
<1>5. Items(vec)' = Items(vec')
  BY DEF Items, At
<1>6. Items(vec)' = L!RemoveAt(Items(vec), i + 1)
  BY <1>1, <1>2, <1>4, <1>5, DeleteAtItems
<1>7. L!Drop(i + 1)
  BY <1>3, <1>6 DEF L!Drop
<1> QED
  BY <1>3, <1>7 DEF L!Next

LEMMA LoopRefines ==
  ASSUME IInv, WalkInv, DeleteInv, Quiet, Kept, Loops
  PROVE  L!Next \/ Stutters
<1>1. CASE ShrinkStep
  <2>1. Sound(vec) /\ ret = NULL /\ call' = call /\ call.op # "reverse"
    BY <1>1, SoundWhenDefined DEF ShrinkStep, Finish, Quiet, Kept
  <2>2. CASE vec' = vec /\ ret' = ret
    BY <2>1, <2>2, SameItems DEF Stutters
  <2>3. CASE vec' = Resized(vec, 2 * (i \div 2)) /\ Shrunk
    <3> DEFINE n == 2 * (i \div 2)
    <3>1. n \in Nat /\ vec.num \in Nat /\ vec.num <= n /\ vec.num <= vec.num
      BY <1>1 DEF IInv, TypeOK, IsVector, ShrinkStep
    <3>2. vec' = [data |-> realloc(vec.data, n), num |-> vec.num, cap |-> n]
      BY <2>1, <2>3 DEF Resized, Sound, IsVector
    <3>3. Items(vec') = Items(vec)
      <4> HIDE DEF n
      <4> QED
        BY <2>1, <3>1, <3>2, CutItems, WholeList
    <3>4. Items(vec)' = Items(vec')
      BY DEF Items, At
    <3>5. ret' = ret
      BY <2>1, <2>3 DEF Shrunk
    <3> QED
      BY <2>1, <3>3, <3>4, <3>5 DEF Stutters
  <2> QED
    BY <1>1, <2>2, <2>3 DEF ShrinkStep
<1>2. CASE OptimizeStep
  <2>1. Sound(vec) /\ ret = NULL /\ call' = call
    BY <1>2, SoundWhenDefined DEF OptimizeStep, Finish, Quiet
  <2>2. CASE vec' = vec /\ ret' = ret
    BY <2>1, <2>2, SameItems DEF Stutters
  <2>3. CASE vec' = Resized(vec, i) /\ ret' = NULL /\ ~(vec.num > i)
    <3>1. i \in Nat /\ vec.num \in Nat /\ vec.num <= i /\ vec.num <= vec.num
      BY <2>3 DEF IInv, TypeOK, IsVector
    <3>2. vec' = [data |-> realloc(vec.data, i), num |-> vec.num, cap |-> i]
      BY <2>1, <2>3 DEF Resized, Sound, IsVector
    <3>3. Items(vec') = Items(vec)
      BY <2>1, <3>1, <3>2, CutItems, WholeList
    <3>4. Items(vec)' = Items(vec')
      BY DEF Items, At
    <3> QED
      BY <2>1, <2>3, <3>3, <3>4 DEF Stutters
  <2> QED
    BY <1>2, <2>2, <2>3 DEF OptimizeStep
<1>3. CASE DeleteStep
  <2>1. pc = "delete" /\ call = [op |-> "delete", args |-> <<call.args[1]>>] /\ call' = call
    BY <1>3 DEF DeleteStep, Finish, DeleteInv
  <2>2. CASE vec' = vec /\ ret' = ret
    BY <2>1, <2>2, SameItems DEF Stutters
  <2>3. CASE i < vec.num /\ At(vec, i) = call.args[1] /\ vec' = vector_delete_at(vec, i) /\ ret' = At(vec, i)
    BY <2>1, <2>3, DropRefines
  <2> QED
    BY <1>3, <2>2, <2>3 DEF DeleteStep
<1>4. ASSUME NEW verdict \in Verdicts, ForeachStep(verdict) PROVE L!Next \/ Stutters
  <2>1. pc = "foreach" /\ call.op = "foreach" /\ call' = call /\ ret' = ret /\ i < vec.num
    BY <1>4 DEF ForeachStep, WalkInv
  <2>2. CASE vec' = vec
    BY <2>1, <2>2, SameItems DEF Stutters
  <2>3. CASE vec' = vector_delete_at(vec, i)
    BY <2>1, <2>3, DropRefines
  <2> QED
    BY <1>4, <2>2, <2>3 DEF ForeachStep
<1>5. CASE ForeachEnd
  BY <1>5, SameItems DEF ForeachEnd, Finish, Stutters
<1> QED
  BY <1>1, <1>2, <1>3, <1>4, <1>5 DEF Loops

LEMMA StepRefines ==
  IInv /\ WalkInv /\ DeleteInv /\ Quiet /\ [Next]_vars => [Kept => L!Next]_<<Items(vec), call, ret>>
<1> SUFFICES ASSUME IInv, WalkInv, DeleteInv, Quiet, [Next]_vars, Kept PROVE L!Next \/ Stutters
  BY DEF Stutters
<1>1. CASE UNCHANGED vars
  <2>1. UNCHANGED <<vec, call, ret>>
    BY <1>1 DEF vars
  <2> QED
    BY <2>1, SameItems DEF Stutters
<1>2. CASE \/ \E x \in Elem : Push(x) \/ Unshift(x)
           \/ Pop \/ ShiftSafe \/ Shift \/ Clear
           \/ \E k \in Index : Aref(k) \/ DeleteAt(k)
           \/ \E k \in Index, x \in Elem : Aset(k, x)
  <2>1. pc = "ready"
    BY <1>2 DEF Push, Unshift, Pop, ShiftSafe, Shift, Clear, Aref, DeleteAt, Aset, Call
  <2> QED
    BY <1>2, <2>1, CallRefines
<1>3. CASE \/ \E x \in Elem : Delete(x)
           \/ Optimize \/ Foreach
           \/ \E k \in Index : Resize(k)
           \/ \E op \in {"shrink", "reverse"} : Shrink(op)
  <2>1. pc = "ready"
    BY <1>3 DEF Delete, Optimize, Foreach, Resize, Shrink, Begin, Call
  <2> QED
    BY <1>3, <2>1, MemoryRefines
<1>4. ASSUME NEW lo \in Index, NEW hi \in Index, Slice(lo, hi) PROVE L!Next
  BY <1>4, SliceRefines DEF L!Next
<1>5. CASE Loops
  BY <1>5, LoopRefines
<1> QED
  BY <1>1, <1>2, <1>3, <1>4, <1>5 DEF Next

\* A vector is the list that its callers take it for: each call has the effect
\* its comment promises, wherever the elements moved in memory (vector.c), but
\* for the calls that Kept leaves out.
THEOREM VectorIsList == Spec => ImplementsList
<1>1. Init => L!Init /\ WalkInv /\ DeleteInv /\ Quiet
  <2> SUFFICES ASSUME Init PROVE L!Init /\ WalkInv /\ DeleteInv /\ Quiet
    OBVIOUS
  <2>1. PICK n \in NewSizes : vec = vector_new_with_size(n)
    BY DEF Init
  <2>2. Items(vec) = <<>>
    BY <2>1 DEF vector_new_with_size, Items
  <2> QED
    BY <2>2 DEF Init, L!Init, WalkInv, DeleteInv, Quiet
<1> QED
  BY <1>1, StepWalkInv, StepDeleteInv, StepQuiet, StepRefines, InitInvariant, StepInvariant, PTL
     DEF Spec, ImplementsList
=============================================================================
