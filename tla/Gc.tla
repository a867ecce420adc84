-------------------------------- MODULE Gc --------------------------------
(***************************************************************************)
(* The reference counts and the collector.  Every object that the running  *)
(* script makes is listed in the obj_stk of the block it is made in.       *)
(* Assignments and arrays count their references; the end of a block, and  *)
(* GC.run(), frees what is listed and not counted.  An object also goes    *)
(* when its last counted reference is dropped.  Literals are pinned: their *)
(* count is GC_NEVER_FREE.                                                 *)
(*                                                                         *)
(* The script is any: the running block may assign, push, pop, run the     *)
(* collector, enter a block, call the method or return.  causes names what *)
(* it did of the things after which this code leaves a freed object in     *)
(* use: nothing is said of what comes then, which C does not define.       *)
(*                                                                         *)
(* Left out: arrays in arrays, hashes (no method of the language stores in *)
(* one), the temporary integers of the array methods, and what the parser  *)
(* makes: of that only the cells of begin blocks are ever freed, which     *)
(* Evaluator does.                                                         *)
(***************************************************************************)
EXTENDS Integers, Sequences, FiniteSets, SequencesExt, FiniteSetsExt

CONSTANTS Str, Ary, Lit,    \* strings and arrays to be made; literals
          Var, Parm,        \* names; the parameter of the method
          None,             \* no object, no name
          Shares,           \* the inner block uses main's table
          MaxRc, MaxLen,    \* bounds: counts, lengths of arrays,
          MaxDepth          \* blocks entered at a time

GC_NEVER_FREE == -32767

Made  == Str \cup Ary
Obj   == Made \cup Lit
Block == {"main", "inner", "method"}

ASSUME NamesAssumption == Parm \in Var /\ None \notin Obj \cup Var
ASSUME KindsAssumption == Str \cap Ary = {} /\ Made \cap Lit = {} /\ Lit # {} /\ Ary \cap Block = {}
ASSUME SizesAssumption == IsFiniteSet(Obj) /\ IsFiniteSet(Var)
ASSUME BoundsAssumption == {MaxRc, MaxLen, MaxDepth} \subseteq Nat
ASSUME SharesAssumption == Shares \in BOOLEAN

VARIABLES mem,     \* the heap, see below
          env,     \* the variables of each table: the entry a lookup finds,
          oldest,  \* ... and the first that was made for the name
          frames,  \* the running block, on top, and those that wait for it
          causes   \* history: what the script did that is known to go wrong

vars == <<mem, env, oldest, frames, causes>>

\* The heap is a record of functions: st ("unborn", "live", "freed") and rc of
\* each object, elems of each array, stk (obj_stk) and last of each block.
\* kept is history: the objects whose count may stay too high, because they
\* were `last' when they should have been counted down, or because the method
\* gave them to its parameter, which the next call binds anew.

Cur == Last(frames).blk

\* The inner block is an if or a while body, which uses main's table, or a
\* begin body, which has its own; it finds main through `up'.  A method has no
\* `up'.
Table(b)  == IF b = "inner" /\ Shares THEN "main" ELSE b
Around(b) == IF b = "inner" THEN {b, "main"} ELSE {b}

----------------------------------------------------------------------------
\* object_refcount_up, and what ary_push does
CountUp(m, o) == IF m.rc[o] = GC_NEVER_FREE THEN m ELSE [m EXCEPT !.rc[o] = @ + 1]
Add(m, o, n)  == [m EXCEPT !.rc[o] = @ + n]

Freed(m, o) == [m EXCEPT !.st[o] = "freed"]

\* object_refcount_down: the count, the test for the last reference, and the
\* list of the running block, from which the freed object is taken.
Lowered(m, o, cur) == IF m.rc[o] = GC_NEVER_FREE THEN m
                      ELSE IF m.last[cur] = o THEN [m EXCEPT !.kept = @ \cup {o}]
                      ELSE Add(m, o, -1)
Spent(m, o, cur) == m.rc[o] # GC_NEVER_FREE /\ m.last[cur] # o /\ m.rc[o] <= 1
Without(s, o) == IF \E k \in DOMAIN s : s[k] = o
                 THEN RemoveAt(s, CHOOSE k \in DOMAIN s : s[k] = o) ELSE s
Unlisted(m, o, cur) == [m EXCEPT !.stk[cur] = Without(@, o)]

\* The elements of an array that goes are counted down; they are no arrays.
Dropped(m, e, cur) == IF Spent(m, e, cur)
                      THEN Unlisted(Freed(Lowered(m, e, cur), e), e, cur)
                      ELSE Lowered(m, e, cur)
ary_reap(m, a, cur) ==
  LET reap[k \in 0..Len(m.elems[a])] == IF k = 0 THEN m
                                         ELSE Dropped(reap[k - 1], m.elems[a][k], cur)
  IN  reap[Len(m.elems[a])]

memdealloc(m, o, cur) == Freed(IF o \in Ary THEN ary_reap(m, o, cur) ELSE m, o)

object_refcount_down(m, o, cur) ==
  IF Spent(m, o, cur) THEN Unlisted(memdealloc(Lowered(m, o, cur), o, cur), o, cur)
  ELSE Lowered(m, o, cur)

\* object_refcount_check
Kept(m, o) == m.rc[o] = GC_NEVER_FREE \/ m.rc[o] > 0

\* mutant: the entry behind the freed one is deleted
SweepNext(b, walk) ==
  IF walk.i > Len(walk.m.stk[b]) THEN walk
  ELSE LET o == walk.m.stk[b][walk.i]
       IN  IF Kept(walk.m, o) THEN [walk EXCEPT !.i = @ + 1]
           ELSE LET gone == memdealloc(walk.m, o, b)
                IN  [walk EXCEPT !.m = IF walk.i + 1 > Len(gone.stk[b]) THEN gone
                                       ELSE [gone EXCEPT !.stk[b] = RemoveAt(@, walk.i + 1)]]

\* vector_foreach(obj_stk, object_refcount_check): the walk deletes the entry
\* at its own place, whatever reaping did to the list meanwhile.
SweepStep(b, walk) ==
  IF walk.i > Len(walk.m.stk[b]) THEN walk
  ELSE LET o == walk.m.stk[b][walk.i]
       IN  IF Kept(walk.m, o) THEN [walk EXCEPT !.i = @ + 1]
           ELSE LET gone == memdealloc(walk.m, o, b)
                IN  [walk EXCEPT !.m = IF walk.i > Len(gone.stk[b]) THEN gone
                                       ELSE [gone EXCEPT !.stk[b] = RemoveAt(@, walk.i)]]

\* mutant: the walk goes on after a deletion and misses the entry that moved up
SweepSkips(m, b) ==
  FoldLeft(LAMBDA walk, k : [SweepStep(b, walk) EXCEPT !.i = walk.i + 1],
           [m |-> m, i |-> 1], m.stk[b]).m

Sweep(m, b) ==
  LET walk[k \in 0..Len(m.stk[b])] == IF k = 0 THEN [m |-> m, i |-> 1]
                                      ELSE SweepStep(b, walk[k - 1])
  IN  walk[Len(m.stk[b])].m

----------------------------------------------------------------------------
\* What a right side or a statement may be: the heap after it, its value.

Result(m, val, cause) == [m |-> m, val |-> val, cause |-> cause]

\* A call of a method written in C leaves no value in `last'.
AfterCall(m) == [m EXCEPT !.last[Cur] = None]

\* OBJ_SETUP: the new object is listed in the running block.
New == LET Born(o) == [mem EXCEPT !.st[o] = "live", !.stk[Cur] = Append(@, o)]
       IN  {Result(AfterCall(Born(o)), o, {}) : o \in {p \in Made : mem.st[p] = "unborn"}}

\* The table sym2ref finds a name in: through `up', and then main's.
Finds(b, v) == env[Table(b)][v] # None
Seen(v)  == IF Finds(Cur, v) THEN Cur ELSE "main"
Value(v) == env[Table(Seen(v))][v]
Bound    == {v \in Var : Value(v) # None}

Read == {Result([mem EXCEPT !.last[Cur] = Value(v)], Value(v), {}) : v \in Bound}

\* Arrays a variable holds.
Arrays == {Value(v) : v \in Bound} \cap Ary
Full   == {a \in Arrays : mem.elems[a] # <<>>}

ary_first == {Result(AfterCall(mem), Head(mem.elems[a]), {}) : a \in Full}

\* mutant: the array keeps its count of an element it gives away
PopCounted == {Result(AfterCall([mem EXCEPT !.elems[a] = Front(@)]),
                      Last(mem.elems[a]), {}) : a \in Full}

ary_pop == {Result(AfterCall(Add([mem EXCEPT !.elems[a] = Front(@)],
                                 Last(mem.elems[a]), -1)),
                   Last(mem.elems[a]), {}) : a \in Full}

\* Which elements are left is the compiler's choice (vector_shift).
Shifted(a, left) ==
  Result(AfterCall(Add([mem EXCEPT !.elems[a] = left], Head(mem.elems[a]), -1)),
         Head(mem.elems[a]), IF left # Tail(mem.elems[a]) THEN {"shifted"} ELSE {})
ary_shift == UNION {{Shifted(a, left) : left \in {Front(mem.elems[a]), Tail(mem.elems[a])}}
                      : a \in Full}

\* The arguments of push and unshift: a literal, what a variable holds, or a
\* new string.
Literal == {Result(mem, l, {}) : l \in Lit}
Arg == {r \in Literal \cup Read \cup New : r.val \notin Ary}

Grown(m, a, o, front) == [m EXCEPT !.elems[a] = IF front THEN <<o>> \o @ ELSE Append(@, o)]

\* ary_push and ary_unshift count even what is pinned.
Pushed(a, r, front) ==
  Result(AfterCall(Add(Grown(r.m, a, r.val, front), r.val, 1)), a,
         IF r.m.rc[r.val] = GC_NEVER_FREE THEN {"unpinned"} ELSE {})
ary_push ==
  UNION {{Pushed(a, r, front) : front \in BOOLEAN, r \in {g \in Arg : mem.rc[g.val] < MaxRc}}
           : a \in {b \in Arrays : Len(mem.elems[b]) < MaxLen}}

Rhs == New \cup Literal \cup Read \cup ary_first \cup ary_pop \cup ary_shift \cup ary_push

----------------------------------------------------------------------------
\* The end of a cell: a block, not the program, notes its value.
EndOfCell(m, val, waiting) ==
  LET top == Last(waiting) IN
  /\ mem' = IF top.blk = "main" THEN m ELSE [m EXCEPT !.last[top.blk] = val]
  /\ frames' = IF top.blk = "main" THEN waiting
               ELSE [waiting EXCEPT ![Len(waiting)] = [@ EXCEPT !.val = val]]

\* The names a block gives values to.
Named(b) == IF b = "method" THEN {Parm} ELSE Var \ {Parm}

Going == causes = {}

\* assign0: whose table, and its `last', are chosen before the right side.
Target(v) == IF ~Finds(Cur, v) /\ "main" \in Around(Cur) /\ Finds("main", v)
             THEN "main" ELSE Cur
Begun(v) == [var |-> v, thr |-> Target(v), last |-> mem.last[Target(v)]]

\* The entries of a name are a chain: every assignment adds one at its head,
\* where lookups find it.
Chains == [found |-> env, oldest |-> oldest, cause |-> {}]

\* mutant: the new entry is the last of its chain
AddedLast(c, t, v, o) == [c EXCEPT !.found[t][v]  = IF @ = None THEN o ELSE @,
                                    !.oldest[t][v] = o]
Added(c, t, v, o) == [c EXCEPT !.found[t][v]  = o,
                               !.oldest[t][v] = IF @ = None THEN o ELSE @]

\* rehash turns the chains of the table around: if any of these names has had
\* different values, it may have an older one again.
Turned(c, t, names) ==
  [found  |-> [c.found  EXCEPT ![t] = c.oldest[t]],
   oldest |-> [c.oldest EXCEPT ![t] = c.found[t]],
   cause  |-> IF \E w \in names : c.oldest[t][w] # c.found[t][w] THEN {"grown"} ELSE c.cause]

\* Any addition may make the table grow, before the entry is added.
AddDirect(c, t, v, o) == {Added(d, t, v, o) : d \in {c, Turned(c, t, Var \ {v})}}

\* Who made an object, and what it lists.
Maker(m, o) == {b \in Block : Contains(m.stk[b], o)}
Gone(m, n)  == {o \in Obj : m.st[o] = "live" /\ n.st[o] = "freed"}

\* The rest of assign0, in the block cur: what a lookup finds is counted down.
Store(r, a, cur, waiting) ==
  LET old  == env[Table(a.thr)][a.var]
      back == [r.m EXCEPT !.last[a.thr] = a.last]
      less == IF old = None THEN back ELSE object_refcount_down(back, old, cur)
      lost == Gone(back, less)
  IN  /\ r.m.rc[r.val] < MaxRc
      /\ EndOfCell(CountUp([less EXCEPT !.last[a.thr] = r.val,
                                         !.kept = @ \cup {o \in {r.val} \cap Made : a.var = Parm}],
                           r.val), r.val, waiting)
      /\ \E c \in AddDirect(Chains, Table(a.thr), a.var, r.val) :
           /\ env' = c.found /\ oldest' = c.oldest
           /\ causes' = causes \cup r.cause \cup c.cause
                \cup (IF r.val \in lost THEN {"itself"} ELSE {})
                \cup (IF a.var = Parm /\ old \in Made THEN {"parameter"} ELSE {})
                \cup (IF \E o \in lost : Maker(back, o) # {cur} THEN {"foreign"} ELSE {})

Assign(v) == /\ Going /\ v \in Named(Cur)
             /\ \E r \in Rhs : Store(r, Begun(v), Cur, frames)

\* An expression as a statement.
Statement == /\ Going
             /\ \E r \in ary_pop \cup ary_shift \cup ary_push \cup New :
                  /\ EndOfCell(r.m, r.val, frames)
                  /\ causes' = causes \cup r.cause
             /\ UNCHANGED <<env, oldest>>

----------------------------------------------------------------------------
\* A sweep of b takes an array and an element made before it.
InsideOut(m, b) ==
  \E j \in DOMAIN m.stk[b], i \in DOMAIN m.stk[b] :
    /\ i < j /\ m.stk[b][j] \in Ary /\ ~Kept(m, m.stk[b][j])
    /\ Kept(m, m.stk[b][i]) /\ Sweep(m, b).st[m.stk[b][i]] = "freed"
\* ... or an element that another block has made.
TakesForeign(m, b) ==
  \E o \in Gone(m, Sweep(m, b)) : Maker(m, o) # {b}

SweepCauses(m, b) == (IF InsideOut(m, b) THEN {"inside out"} ELSE {})
                       \cup (IF TakesForeign(m, b) THEN {"foreign"} ELSE {})

\* gc_s_run: the running block and those around it, each as cur_thr.
GcRun ==
  /\ Going
  /\ LET own   == Sweep(mem, Cur)
         swept == IF Cur = "inner" THEN Sweep(own, "main") ELSE own
     IN  /\ \E nil \in Lit : EndOfCell(AfterCall(swept), nil, frames)
         /\ causes' = causes \cup SweepCauses(mem, Cur)
              \cup (IF Cur = "inner" THEN SweepCauses(own, "main") ELSE {})
  /\ UNCHANGED <<env, oldest>>

Frame(b, a) == [blk |-> b, val |-> None, assign |-> a]

\* eval_cell of a branch or of a begin block.
Enter == /\ Going /\ Cur = "main"
         /\ frames' = Append(frames, Frame("inner", None))
         /\ UNCHANGED <<mem, env, oldest, causes>>

\* mcall_call, eval_thread: the parameter is bound, and not counted; "self" is
\* added after it, and may make the table grow too.
Call(a) == /\ Going /\ Cur # "method" /\ Len(frames) <= MaxDepth
           /\ \E r \in Literal \cup Read \cup New :
                /\ mem' = r.m
                /\ \E bound \in AddDirect(Chains, "method", Parm, r.val) :
                     \E c \in {bound, Turned(bound, "method", Var)} :
                        /\ env' = c.found /\ oldest' = c.oldest
                        /\ causes' = causes \cup c.cause
           /\ frames' = Append(frames, Frame("method", a))

\* The end of eval_stack: the sweep; then the rest of the caller's cell.
Return ==
  /\ Going /\ Cur # "main" /\ Last(frames).val # None
  /\ LET f       == Last(frames)
         waiting == Front(frames)
         caller  == Last(waiting).blk
         swept   == Sweep(mem, f.blk)
         back    == IF f.blk = "method" THEN [swept EXCEPT !.last[caller] = None]
                    ELSE swept
         cause   == SweepCauses(mem, f.blk)
                      \cup (IF f.val \in Gone(mem, swept) THEN {"returned"} ELSE {})
     IN  IF f.assign # None
         THEN Store(Result(back, f.val, cause), f.assign, caller, waiting)
         ELSE /\ EndOfCell(back, f.val, waiting)
              /\ causes' = causes \cup cause
              /\ UNCHANGED <<env, oldest>>

Init == /\ mem = [st     |-> [o \in Obj |-> IF o \in Lit THEN "live" ELSE "unborn"],
                  rc     |-> [o \in Obj |-> IF o \in Lit THEN GC_NEVER_FREE ELSE 0],
                  elems  |-> [a \in Ary |-> <<>>],
                  stk    |-> [b \in Block |-> IF b = "inner" THEN SetToSeq(Lit) ELSE <<>>],
                  last   |-> [b \in Block |-> None],
                  kept |-> {}]
        /\ env = [t \in Block |-> [v \in Var |-> None]]
        /\ oldest = env
        /\ frames = <<Frame("main", None)>>
        /\ causes = {}

Next == \/ \E v \in Var : Assign(v)
        \/ \E v \in Var \ {Parm} : Call(Begun(v))
        \/ Call(None) \/ Statement \/ GcRun \/ Return
        \/ Enter

Spec == Init /\ [][Next]_vars

----------------------------------------------------------------------------
\* How often an object is referred to by what counts: the variables, but for
\* the bound parameter, and the elements of live arrays.
Places(o) ==
  {p \in Block \X (Var \ {Parm}) : env[p[1]][p[2]] = o}
    \cup UNION {{<<a, k>> : k \in {j \in DOMAIN mem.elems[a] : mem.elems[a][j] = o}}
                 : a \in {b \in Ary : mem.st[b] = "live"}}

\* Objects the program can still reach, or that a sweep will look at: values
\* of variables and arrays, literals, lists, the value of the block that runs
\* (a block that waits replaces its own).  Not `last': a block that does not
\* run keeps it when the object goes.
Held == Lit
  \cup {env[t][v] : t \in Block, v \in Var \ {Parm}}
  \cup {env["method"][Parm] : f \in {g \in Range(frames) : g.blk = "method"}}
  \cup (UNION {Range(mem.elems[a]) : a \in {b \in Ary : mem.st[b] = "live"}})
  \cup (UNION {Range(mem.stk[b]) : b \in Block})
  \cup {Last(frames).val}

\* What is in use has not been freed, as long as the script does none of the
\* things listed in causes: neither the drops of an assignment, nor the end of
\* a block, nor GC.run() leave a pointer to freed memory behind.
NothingDangles == Going => \A o \in Held \ {None} : mem.st[o] = "live"

\* The count of a live object is the number of its references; it is higher
\* only for an object that was let go while it was `last', or that the method
\* gave to its parameter: such an object is never freed.
CountsMatch ==
  Going =>
    \A o \in Made : mem.st[o] = "live" =>
      /\ mem.rc[o] >= Cardinality(Places(o))
      /\ mem.rc[o] > Cardinality(Places(o)) => o \in mem.kept

\* Every live object is listed by one block, once: else no sweep could find
\* it, or two would.
ListedOnce ==
  Going => /\ \A o \in Obj : mem.st[o] = "live" => Cardinality(Maker(mem, o)) = 1
           /\ \A b \in Block : IsInjective(mem.stk[b])

\* The end of a block leaves nothing in its list that nothing refers to, and
\* GC.run() nothing in the lists of the blocks it goes through.
Swept(b) == \A o \in Range(mem.stk[b]) :
              o \in Lit \cup mem.kept \/ Places(o) # {}
SweepsLeaveNothing ==
  [][ Going' =>
        \A b \in IF Len(frames') < Len(frames) THEN {Cur}
                  ELSE IF Len(frames') = Len(frames) /\ env' = env /\ GcRun
                  THEN Around(Cur) ELSE {} : Swept(b)' ]_vars
=============================================================================
