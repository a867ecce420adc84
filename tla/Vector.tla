------------------------------- MODULE Vector -------------------------------
(***************************************************************************)
(* The growing arrays of vector.c, which hold the cells of a block, the    *)
(* elements of an array and the objects a block has made.                  *)
(*                                                                         *)
(* A vector is what vector_t says: data, the memory behind it as a         *)
(* function from offsets, num and cap.  A call is one step, apart from     *)
(* those with a loop: vector_foreach calls back for each element, and      *)
(* vector_shrink and vector_optimize look for a capacity.  Memory that     *)
(* was never written, or that the vector does not own, reads as Junk.      *)
(***************************************************************************)
EXTENDS Integers, Sequences, FiniteSets, SequencesExt

CONSTANTS Elem,          \* the pointers callers store
          NULL, Junk,
          VECTOR_DEFAULT_SIZE,
          Many, ManySize, \* 1024 and 2048 in vector_optimize
          NewSizes,      \* the sizes vector_new_with_size is asked for
          Index,         \* the indices and sizes callers use
          MaxLen         \* bound: vectors longer than this do not grow

ASSUME DistinctAssumption == NULL \notin Elem /\ Junk \notin Elem \cup {NULL}
ASSUME SizesAssumption == /\ VECTOR_DEFAULT_SIZE \in Nat \ {0}
                          /\ ManySize \in Nat \ {0} /\ Many \in Nat
                          /\ NewSizes \subseteq Int /\ Index \subseteq Int
                          /\ MaxLen \in Nat

VARIABLES vec,    \* the vector_t: data, num, cap
          call,   \* the last call and its arguments
          ret,    \* the element it returned, or the contents of a new vector
          stray,  \* it touched memory that is not the vector's
          pc,     \* the loop that runs, "ready", or "undefined"
          i,      \* the register of that loop
          before, \* history: the contents when the loop began
          seen    \* history: what vector_foreach's callback said, in order

vars == <<vec, call, ret, stray, pc, i, before, seen>>

----------------------------------------------------------------------------
\* Memory and the operations on it.
malloc(n) == [k \in 0..(n-1) |-> Junk]
At(v, k)  == IF k \in DOMAIN v.data THEN v.data[k] ELSE Junk

realloc(data, n) == [k \in 0..(n-1) |->
                       IF k \in DOMAIN data THEN data[k] ELSE Junk]
Write(v, k, x)   == [v EXCEPT !.data = [j \in DOMAIN v.data |->
                                          IF j = k THEN x ELSE v.data[j]]]

\* The contents, as the list they stand for.
Items(v) == [k \in 1..v.num |-> At(v, k - 1)]

vector_new_with_size(n) ==
  LET size == IF n <= 0 THEN 2 ELSE n
  IN  [data |-> malloc(size), num |-> 0, cap |-> size]

\* mutant: one more element than there is room for
UpdateCapacityLate(v) ==
  IF v.cap >= v.num THEN v
  ELSE [v EXCEPT !.data = realloc(v.data, 2 * v.cap), !.cap = 2 * v.cap]

update_capacity(v) ==
  IF v.cap > v.num THEN v
  ELSE [v EXCEPT !.data = realloc(v.data, 2 * v.cap), !.cap = 2 * v.cap]

vector_push(v, x) ==
  LET u == update_capacity(v) IN [Write(u, u.num, x) EXCEPT !.num = u.num + 1]

vector_unshift(v, x) ==
  LET u == update_capacity(v)
  IN  [num |-> u.num + 1, cap |-> u.cap,
       data |-> [k \in DOMAIN u.data |->
                   IF k = 0 THEN x
                   ELSE IF k <= u.num THEN At(u, k-1) ELSE At(u, k)]]

\* idx counts from the end if it is negative.
Offset(v, idx)   == IF idx < 0 THEN v.num + idx ELSE idx
InBounds(v, idx) == Offset(v, idx) \in 0..(v.num - 1)

vector_aref(v, idx) == IF InBounds(v, idx) THEN At(v, Offset(v, idx)) ELSE NULL

vector_aset(v, idx, x) ==
  IF InBounds(v, idx) THEN Write(v, Offset(v, idx), x) ELSE v

\* mutant: the element after the removed one is not moved
DeleteAtShort(v, idx) ==
  LET o == Offset(v, idx)
  IN  IF ~InBounds(v, idx) THEN v
      ELSE [v EXCEPT !.num = v.num - 1,
                     !.data = [k \in DOMAIN v.data |->
                                 IF k \in (o+1)..(v.num-2) THEN At(v, k+1)
                                                           ELSE v.data[k]]]

vector_delete_at(v, idx) ==
  LET o == Offset(v, idx)
  IN  IF ~InBounds(v, idx) THEN v
      ELSE [v EXCEPT !.num = v.num - 1,
                     !.data = [k \in DOMAIN v.data |->
                                 IF k \in o..(v.num-2) THEN At(v, k+1)
                                                       ELSE v.data[k]]]

vector_shift_safe(v) == vector_delete_at(v, 0)
vector_pop(v)        == IF v.num = 0 THEN v ELSE [v EXCEPT !.num = v.num - 1]

----------------------------------------------------------------------------
Init == /\ \E n \in NewSizes : vec = vector_new_with_size(n)
        /\ call = [op |-> "new", args |-> <<>>]
        /\ ret = NULL /\ stray = FALSE
        /\ pc = "ready" /\ i = 0 /\ before = <<>> /\ seen = <<>>

\* A call that is one step.
Call(op, args) == /\ pc = "ready"
                  /\ call' = [op |-> op, args |-> args]
                  /\ i' = 0 /\ before' = <<>> /\ seen' = <<>>
Goes   == pc' = "ready" /\ stray' = FALSE
\* A call that begins a loop at register n.
Begin(op, args, where, n) == /\ pc = "ready"
                             /\ call' = [op |-> op, args |-> args]
                             /\ pc' = where /\ i' = n
                             /\ before' = Items(vec) /\ seen' = <<>>
                             /\ ret' = NULL /\ stray' = FALSE
                             /\ UNCHANGED vec

\* The new element goes behind the last: outside, if cap is stuck at 0.
Grows(v) == IF update_capacity(v).cap > v.num
            THEN Goes
            ELSE pc' = "undefined" /\ stray' = TRUE

Push(x) == /\ vec.num < MaxLen
           /\ Call("push", <<x>>) /\ Grows(vec)
           /\ vec' = vector_push(vec, x) /\ ret' = NULL
Unshift(x) == /\ vec.num < MaxLen
              /\ Call("unshift", <<x>>) /\ Grows(vec)
              /\ vec' = vector_unshift(vec, x) /\ ret' = NULL

Pop       == /\ Call("pop", <<>>) /\ Goes
             /\ ret' = vector_aref(vec, -1) /\ vec' = vector_pop(vec)
ShiftSafe == /\ Call("shift_safe", <<>>) /\ Goes
             /\ ret' = vector_aref(vec, 0) /\ vec' = vector_shift_safe(vec)

\* v->data[i] = v->data[++i]: C leaves open whether the left i is the old
\* or the new one.  In the second case nothing moves.
Shift == /\ Call("shift", <<>>) /\ pc' = "ready"
         /\ ret' = vector_aref(vec, 0)
         /\ stray' = (vec.num > 0 /\ vec.num \notin DOMAIN vec.data)
         /\ \/ vec' = vector_pop(vec)
            \/ vec' = [vector_pop(vec) EXCEPT
                         !.data = [k \in DOMAIN vec.data |->
                                     IF k < vec.num THEN At(vec, k + 1)
                                                    ELSE vec.data[k]]]

Aref(k)     == /\ Call("aref", <<k>>) /\ Goes
               /\ ret' = vector_aref(vec, k) /\ UNCHANGED vec
Aset(k, x)  == /\ Call("aset", <<k, x>>) /\ Goes
               /\ vec' = vector_aset(vec, k, x) /\ ret' = NULL
DeleteAt(k) == /\ Call("delete_at", <<k>>) /\ Goes
               /\ ret' = vector_aref(vec, k)
               /\ vec' = vector_delete_at(vec, k)

Clear == /\ Call("clear", <<>>) /\ Goes
         /\ vec' = [data |-> realloc(vec.data, VECTOR_DEFAULT_SIZE),
                    num |-> 0, cap |-> VECTOR_DEFAULT_SIZE]
         /\ ret' = NULL

\* vector_range: both bounds are offsets that may be out of bounds below;
\* above they are cut to num, one past the last element, which is copied too.
Cut(k) == IF Offset(vec, k) > vec.num THEN vec.num ELSE Offset(vec, k)
Slice(lo, hi) ==
  LET from == IF Cut(lo) <= Cut(hi) THEN Cut(lo) ELSE Cut(hi)
      to   == IF Cut(lo) <= Cut(hi) THEN Cut(hi) ELSE Cut(lo)
  IN  /\ Call("range", <<lo, hi>>) /\ pc' = "ready"
      /\ UNCHANGED vec
      /\ IF vec.num = 0
         THEN ret' = NULL /\ stray' = FALSE
         ELSE /\ ret' = [k \in 1..(to - from + 1) |-> At(vec, from + k - 1)]
              /\ stray' = ~(from..to \subseteq DOMAIN vec.data)

----------------------------------------------------------------------------
\* Capacity.  realloc() to nothing frees the memory that data still points
\* to; a negative size is too large, and the call fails.
Resize(n) ==
  LET size == IF n <= 0 THEN vec.num + n ELSE n
  IN  /\ Call("resize", <<n>>)
      /\ ret' = NULL /\ stray' = FALSE
      /\ pc' = IF size = 0 THEN "undefined" ELSE "ready"
      /\ vec' = IF size <= 0 THEN vec
                ELSE [data |-> realloc(vec.data, size), cap |-> size,
                      num |-> IF size < vec.num THEN size ELSE vec.num]

Resized(v, n) == [v EXCEPT !.data = realloc(v.data, n), !.cap = n]
Finish == pc' = "ready" /\ UNCHANGED <<call, stray, i, before, seen>>
\* What vector_shrink's caller does next: vector_reverse copies the elements.
Shrunk == ret' = IF call.op = "reverse" THEN Items(vec) ELSE NULL

Roomy == ~(vec.cap \div 2 < vec.num \/ vec.cap <= VECTOR_DEFAULT_SIZE)
Shrink(op) == \/ Roomy /\ Begin(op, <<NULL>>, "shrink", vec.cap)
              \/ /\ ~Roomy
                 /\ Call(op, <<NULL>>) /\ Goes
                 /\ UNCHANGED vec
                 /\ ret' = IF op = "reverse" THEN Items(vec) ELSE NULL

\* mutant: halves until there is no room left
ShrinkStepPast ==
  /\ pc = "shrink"
  /\ IF i \div 2 >= vec.num
     THEN i' = i \div 2 /\ UNCHANGED <<vec, call, ret, stray, pc, before, seen>>
     ELSE /\ vec' = Resized(vec, 2 * (i \div 2))
          /\ Shrunk /\ Finish

\* while ( (v->cap /= 2) > v->num ); v->cap *= 2
ShrinkStep ==
  /\ pc = "shrink"
  /\ IF i \div 2 > vec.num
     THEN i' = i \div 2 /\ UNCHANGED <<vec, call, ret, stray, pc, before, seen>>
     ELSE /\ vec' = Resized(vec, 2 * (i \div 2))
          /\ Shrunk /\ Finish

Optimize == Begin("optimize", <<NULL>>, "optimize",
                  IF vec.num < Many THEN VECTOR_DEFAULT_SIZE ELSE ManySize)

OptimizeStep ==
  /\ pc = "optimize"
  /\ IF vec.num > i
     THEN i' = 2 * i /\ UNCHANGED <<vec, call, ret, stray, pc, before, seen>>
     ELSE /\ vec' = Resized(vec, i)
          /\ ret' = NULL /\ Finish

----------------------------------------------------------------------------
\* mutant: the first match ends the loop
DeleteStepFirst ==
  /\ pc = "delete"
  /\ IF i < vec.num
     THEN /\ IF At(vec, i) = call.args[1]
             THEN /\ vec' = vector_delete_at(vec, i) /\ ret' = At(vec, i)
                  /\ pc' = "ready" /\ UNCHANGED i
             ELSE i' = i + 1 /\ UNCHANGED <<vec, ret, pc>>
          /\ UNCHANGED <<call, stray, before, seen>>
     ELSE Finish /\ UNCHANGED <<vec, ret>>

\* vector_delete counts on after a removal, over the element that moved up.
DeleteStep ==
  /\ pc = "delete"
  /\ IF i < vec.num
     THEN /\ i' = i + 1
          /\ IF At(vec, i) = call.args[1]
             THEN vec' = vector_delete_at(vec, i) /\ ret' = At(vec, i)
             ELSE UNCHANGED <<vec, ret>>
          /\ UNCHANGED <<call, stray, pc, before, seen>>
     ELSE Finish /\ UNCHANGED <<vec, ret>>

Delete(x) == Begin("delete", <<x>>, "delete", 0)
Foreach   == Begin("foreach", <<>>, "foreach", 0)

\* mutant: i is not decreased after a removal
ForeachStepSkips(verdict) ==
  /\ pc = "foreach" /\ i < vec.num
  /\ seen' = Append(seen, verdict)
  /\ i' = i + 1
  /\ vec' = IF verdict = "DELETE" THEN vector_delete_at(vec, i) ELSE vec
  /\ pc' = IF verdict = "STOP" THEN "ready" ELSE pc
  /\ UNCHANGED <<call, ret, stray, before>>

ForeachStep(verdict) ==
  /\ pc = "foreach" /\ i < vec.num
  /\ seen' = Append(seen, verdict)
  /\ i' = CASE verdict = "DELETE" -> i
            [] verdict = "STOP" -> i
            [] OTHER -> i + 1
  /\ vec' = IF verdict = "DELETE" THEN vector_delete_at(vec, i) ELSE vec
  /\ pc' = IF verdict = "STOP" THEN "ready" ELSE pc
  /\ UNCHANGED <<call, ret, stray, before>>
ForeachEnd == /\ pc = "foreach" /\ i >= vec.num
              /\ Finish /\ UNCHANGED <<vec, ret>>

Verdicts == {"DELETE", "CONTINUE", "STOP"}

Loops == \/ ShrinkStep \/ OptimizeStep \/ DeleteStep \/ ForeachEnd
         \/ \E verdict \in Verdicts : ForeachStep(verdict)

Next == \/ \E x \in Elem : Push(x) \/ Unshift(x) \/ Delete(x)
        \/ Pop \/ ShiftSafe \/ Shift \/ Clear \/ Optimize \/ Foreach
        \/ \E k \in Index : Aref(k) \/ DeleteAt(k) \/ Resize(k)
        \/ \E k \in Index, x \in Elem : Aset(k, x)
        \/ \E lo, hi \in Index : Slice(lo, hi)
        \/ \E op \in {"shrink", "reverse"} : Shrink(op)
        \/ Loops

Spec     == Init /\ [][Next]_vars
FairSpec == Spec /\ WF_vars(Loops)

----------------------------------------------------------------------------
\* A vector_t: it owns cap places, which hold elements or were not written.
IsVector(v) == /\ v = [data |-> v.data, num |-> v.num, cap |-> v.cap]
               /\ v.num \in Nat /\ v.cap \in Nat
               /\ v.data \in [0..(v.cap - 1) -> Elem \cup {Junk}]

\* A vector never uses more places than it owns, and the loop that looks for
\* a smaller capacity (vector.c:82) never goes below what is in use.
TypeOK ==
  /\ IsVector(vec)
  /\ pc # "undefined" => vec.num <= vec.cap
  /\ i \in Nat /\ stray \in BOOLEAN
  /\ pc \in {"ready", "undefined", "shrink", "optimize", "delete", "foreach"}
  /\ pc = "shrink" => 2 * (i \div 2) >= vec.num
  /\ pc = "optimize" => i > 0

\* What a caller finds in a vector was stored there by a caller: growing,
\* shrinking and moving elements never brings up memory that was not written.
ContentsStored ==
  pc # "undefined" => \A k \in 0..(vec.num - 1) : At(vec, k) \in Elem

\* A call reads and writes its own memory only, apart from vector_shift and
\* vector_range, which look at the place behind the last element
\* (vector.c:212, 352), and from any growth of a vector of capacity 0, which
\* an empty vector has after vector_shrink (vector.c:82) and then for ever:
\* twice 0 is 0 (vector.c:23).
Inside      == stray' => call'.op \in {"shift", "range"} \/ vec.cap = 0
StaysInside == [][Inside]_vars

L == INSTANCE List WITH items <- Items(vec)

\* Every call has the effect its comment promises, however often the vector
\* moved in memory before; the calls for which that is not so are left out:
\* vector_shift, vector_reverse, and vector_range with a bound outside.
Kept == /\ pc' # "undefined"
        /\ call'.op \notin {"shift", "reverse"}
        /\ call'.op = "range" => vec.num > 0 /\ L!InRange(call'.args[1])
                                             /\ L!InRange(call'.args[2])
ImplementsList == L!Init /\ [][Kept => L!Next]_<<Items(vec), call, ret>>

\* What is left of the contents before the loop is what was at places P, in
\* the same order.
Rank(P, p) == Cardinality(P \cap 1..p)
Left(P)    == /\ vec.num = Cardinality(P)
              /\ \A p \in P : Items(vec)[Rank(P, p)] = before[p]

\* vector_foreach calls back once for each element there was at its start,
\* until it is told to stop, and exactly those whose callback answered
\* VECTOR_DELETE are gone (eval_stack sweeps obj_stk this way, eval.c:245).
Survivors == {p \in DOMAIN before : p \in DOMAIN seen => seen[p] # "DELETE"}
WalkVisitsEach ==
  call.op = "foreach" =>
    /\ Left(Survivors)
    /\ Len(seen) <= Len(before)
    /\ pc = "ready" => \/ Len(seen) = Len(before)
                       \/ seen # <<>> /\ Last(seen) = "STOP"

\* vector_delete removes an element from any place, which is what
\* object_refcount_down relies on (gc.c:27) -- unless two matches are
\* neighbours, of which it misses one.
DeleteRemoves ==
  call.op = "delete" /\ pc = "ready" =>
    LET x == call.args[1]
        neighbours == \E p \in 2..Len(before) : before[p-1] = x /\ before[p] = x
    IN  /\ ret = IF x \in Range(before) THEN x ELSE NULL
        /\ ~neighbours => Left({p \in DOMAIN before : before[p] # x})

\* The loops end: the search for a capacity at the boundaries 0 and cap, and
\* the walks whose length their own removals change.
LoopsEnd == pc \in {"shrink", "optimize", "delete", "foreach"}
              ~> pc \notin {"shrink", "optimize", "delete", "foreach"}
=============================================================================
