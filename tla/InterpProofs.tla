---------------------------- MODULE InterpProofs ----------------------------
(***************************************************************************)
(* Theorems about Parser and Interp, for scripts of any length over any    *)
(* method names and a C stack of any size.                                 *)
(*                                                                         *)
(* First the parser alone.  The blocks it is in, outermost first, are the  *)
(* sequence Written: the thread each open block was opened in, and the one *)
(* it writes now.  Then what it hands to the evaluator, and what the       *)
(* evaluator keeps of it.                                                  *)
(***************************************************************************)
EXTENDS Interp, Induction

Written == Append(opener, cur_thr)

EndFn == {"end_begin", "end_if", "end_define"}

CellRec == [kind : SimpleKinds \cup {"call", "branch", "exc", "exit"},
            ref : Nat \cup Name \cup {NoName}]
Thread  == [up : Nat, branch : Nat, excobj : Nat, callsym : Name \cup {NoName},
            ip : Nat, stack : Seq(CellRec)]
Branch  == [cond_true : Nat, cond_false : Nat, loop : BOOLEAN, always : BOOLEAN]
Exc     == [thr : Nat, body_thr : Nat, rescue_thr : Nat, retry : BOOLEAN]

\* Every pointer is to an object that there is, or null where it may be.
Refers(T, B, X, M) ==
  /\ \A t \in DOMAIN T : /\ T[t].up \in 0..Len(T)
                         /\ T[t].branch \in 0..Len(B)
                         /\ T[t].excobj \in 0..Len(X)
  /\ \A b \in DOMAIN B : B[b].cond_true \in 1..Len(T) /\ B[b].cond_false \in 0..Len(T)
  /\ \A x \in DOMAIN X : /\ X[x].thr \in 1..Len(T) /\ X[x].body_thr \in 1..Len(T)
                         /\ X[x].rescue_thr \in 0..Len(T)
                         /\ X[x].thr < X[x].body_thr
  /\ \A n \in Name : M[n] \in 0..Len(T)

Typed ==
  /\ threads \in Seq(Thread) /\ branches \in Seq(Branch) /\ excs \in Seq(Exc)
  /\ methods \in [Name -> Nat]
  /\ Refers(threads, branches, excs, methods)
  /\ cur_thr \in DOMAIN threads
  /\ phase \in {"parse", "eval", "yyerror", "fail", "crash"}
  /\ end_vector \in Seq(EndFn) /\ opener \in Seq(DOMAIN threads)
  /\ Len(end_vector) = Len(opener)
  /\ script \in Scripts /\ input \in Seq(Token)

\* Each block was opened in the thread `up' says, and later than that.
Chain(T, W) ==
  /\ W \in Seq(DOMAIN T) /\ W # <<>> /\ W[1] = 1
  /\ T[1].up = 0 /\ T[1].branch = 0
  /\ \A j \in 1..Len(W), k \in 1..Len(W) : j < k => W[j] < W[k]
  /\ \A k \in 1..Len(W) : k > 1 => T[W[k]].up = W[k-1]

\* The exception object noted in a thread: one of a begin that is open in
\* it, or none, or the one whose body or rescue it is.
Own(X, t, x)    == x # 0 /\ X[x].thr = t
Around(X, u, x) == x # 0 => X[x].thr = u
Notes(T, X, ev, W) ==
  /\ Len(W) = Len(ev) + 1
  /\ \A k \in 1..Len(ev) : ev[k] = "end_begin" => Own(X, W[k], T[W[k]].excobj)
  /\ \A k \in 1..Len(W) : (k = Len(W) \/ ev[k] # "end_begin")
                            => Around(X, T[W[k]].up, T[W[k]].excobj)

PInv == Typed /\ (phase = "parse" => /\ Chain(threads, Written)
                                     /\ Notes(threads, excs, end_vector, Written))
-----------------------------------------------------------------------------
(* How a step changes the blocks the parser is in *)

\* The threads of T but, perhaps, c are as before in U.
Keeps(T, U, c) ==
  /\ Len(U) >= Len(T)
  /\ \A t \in 1..Len(T) : t # c => U[t].up = T[t].up /\ U[t].branch = T[t].branch

LEMMA Pushed ==
  ASSUME NEW S, NEW s \in Seq(S), NEW x \in S
  PROVE  /\ Append(s, x) \in Seq(S) /\ Len(Append(s, x)) = Len(s) + 1
         /\ \A k \in 1..Len(s) : Append(s, x)[k] = s[k]
         /\ Append(s, x)[Len(s) + 1] = x
         /\ Len(s) \in Nat /\ DOMAIN s = 1..Len(s)
OBVIOUS

LEMMA Popped ==
  ASSUME NEW S, NEW s \in Seq(S), s # <<>>
  PROVE  /\ Front(s) \in Seq(S) /\ Len(Front(s)) = Len(s) - 1
         /\ \A k \in 1..(Len(s)-1) : Front(s)[k] = s[k]
         /\ Last(s) = s[Len(s)] /\ Last(s) \in S /\ Len(s) \in Nat \ {0}
<1>1. Len(s) \in Nat \ {0} /\ DOMAIN s = 1..Len(s)
  OBVIOUS
<1>2. \A p \in 1..Len(s) : /\ SubSeq(s, 1, p-1) \in Seq(S)
                           /\ Len(SubSeq(s, 1, p-1)) = p-1
                           /\ \A q \in 1..(p-1) : SubSeq(s, 1, p-1)[q] = s[q]
  OBVIOUS
<1>3. Len(s) \in 1..Len(s) /\ s[Len(s)] \in S
  BY <1>1
<1> QED
  BY <1>1, <1>2, <1>3 DEF Front, Last

LEMMA ChainFacts ==
  ASSUME NEW T \in Seq(Thread), NEW W, Chain(T, W)
  PROVE  /\ Len(W) \in Nat \ {0} /\ DOMAIN W = 1..Len(W) /\ W \in Seq(1..Len(T))
         /\ \A k \in 1..Len(W) : W[k] \in 1..Len(T)
         /\ 1 \in 1..Len(T) /\ Len(T) \in Nat /\ DOMAIN T = 1..Len(T)
<1>1. DOMAIN T = 1..Len(T) /\ Len(T) \in Nat
  OBVIOUS
<1>2. W \in Seq(1..Len(T)) /\ W # <<>> /\ W[1] = 1
  BY <1>1 DEF Chain
<1>3. Len(W) \in Nat \ {0} /\ DOMAIN W = 1..Len(W) /\ \A k \in 1..Len(W) : W[k] \in 1..Len(T)
  BY <1>2
<1> QED
  BY <1>1, <1>2, <1>3

LEMMA SameChain ==
  ASSUME NEW T \in Seq(Thread), NEW U \in Seq(Thread), NEW W,
         Chain(T, W), Keeps(T, U, 0)
  PROVE  Chain(U, W)
<1>1. DOMAIN U = 1..Len(U) /\ Len(U) \in Nat
  OBVIOUS
<1>2. /\ Len(W) \in Nat \ {0} /\ DOMAIN W = 1..Len(W) /\ Len(T) \in Nat
      /\ \A k \in 1..Len(W) : W[k] \in 1..Len(T) /\ W[k] # 0 /\ W[k] \in DOMAIN U
  BY <1>1, ChainFacts DEF Keeps
<1>3. W \in Seq(DOMAIN U)
  <2>1. W \in Seq(1..Len(T)) /\ 1..Len(T) \subseteq DOMAIN U
    <3>1. W \in Seq(1..Len(T))
      BY ChainFacts, Zenon
    <3>2. Len(T) <= Len(U)
      BY DEF Keeps
    <3>3. 1..Len(T) \subseteq DOMAIN U
      BY ONLY <1>1, <1>2, <3>2
    <3> QED
      BY ONLY <3>1, <3>3
  <2>2. W \in [1..Len(W) -> 1..Len(T)]
    BY ONLY <2>1, <1>2
  <2>3. W \in [1..Len(W) -> DOMAIN U]
    BY ONLY <2>1, <2>2
  <2> QED
    BY ONLY <1>2, <2>3
<1>4. W # <<>> /\ W[1] = 1 /\ T[1].up = 0 /\ T[1].branch = 0 /\ 1 \in 1..Len(T)
  BY ChainFacts DEF Chain
<1>5. U[1].up = 0 /\ U[1].branch = 0
  BY <1>4 DEF Keeps
<1>6. \A j \in 1..Len(W), k \in 1..Len(W) : j < k => W[j] < W[k]
  BY DEF Chain
<1>7. \A k \in 1..Len(W) : k > 1 => U[W[k]].up = W[k-1]
  BY <1>2 DEF Chain, Keeps
<1> QED
  BY <1>3, <1>4, <1>5, <1>6, <1>7 DEF Chain

LEMMA PushChain ==
  ASSUME NEW T \in Seq(Thread), NEW U \in Seq(Thread), NEW W,
         Chain(T, W), Keeps(T, U, 0),
         NEW n \in DOMAIN U, n > Len(T), U[n].up = W[Len(W)]
  PROVE  Chain(U, Append(W, n))
<1>1. Chain(U, W)
  BY SameChain
<1>2. DOMAIN T = 1..Len(T) /\ DOMAIN U = 1..Len(U) /\ Len(T) \in Nat /\ Len(U) \in Nat
  OBVIOUS
<1>3. Len(W) \in Nat \ {0} /\ \A k \in 1..Len(W) : W[k] \in 1..Len(T)
  BY ChainFacts
<1> DEFINE V == Append(W, n)
<1>4. /\ V \in Seq(DOMAIN U) /\ Len(V) = Len(W) + 1
      /\ \A k \in 1..Len(W) : V[k] = W[k]
      /\ V[Len(W) + 1] = n
  BY <1>1, Pushed DEF Chain
<1>5. V # <<>> /\ V[1] = 1 /\ U[1].up = 0 /\ U[1].branch = 0
  BY <1>1, <1>3, <1>4 DEF Chain
<1> HIDE DEF V
<1>6. ASSUME NEW j \in 1..Len(V), NEW k \in 1..Len(V), j < k PROVE V[j] < V[k]
  <2>1. j \in 1..Len(W) /\ V[j] = W[j] /\ W[j] \in 1..Len(T)
    BY <1>3, <1>4, <1>6
  <2>2. CASE k = Len(W) + 1
    BY <1>2, <1>4, <2>1, <2>2
  <2>3. CASE k # Len(W) + 1
    <3>1. k \in 1..Len(W)
      BY <1>3, <1>4, <2>3
    <3> QED
      BY <1>1, <1>4, <1>6, <2>1, <3>1 DEF Chain
  <2> QED
    BY <2>2, <2>3
<1>7. ASSUME NEW k \in 1..Len(V), k > 1 PROVE U[V[k]].up = V[k-1]
  <2>1. CASE k = Len(W) + 1
    BY <1>3, <1>4, <2>1
  <2>2. CASE k # Len(W) + 1
    <3>1. k \in 1..Len(W) /\ k-1 \in 1..Len(W)
      BY <1>3, <1>4, <1>7, <2>2
    <3> QED
      BY <1>1, <1>4, <1>7, <3>1 DEF Chain
  <2> QED
    BY <2>1, <2>2
<1> QED
  BY <1>4, <1>5, <1>6, <1>7 DEF Chain, V

LEMMA SwapChain ==
  ASSUME NEW T \in Seq(Thread), NEW U \in Seq(Thread), NEW W,
         Chain(T, W), Keeps(T, U, 0), Len(W) > 1,
         NEW n \in DOMAIN U, n > Len(T), U[n].up = W[Len(W)-1],
         NEW V \in Seq(DOMAIN U), Len(V) = Len(W), V[Len(W)] = n,
         \A k \in 1..(Len(W)-1) : V[k] = W[k]
  PROVE  Chain(U, V)
<1>1. Chain(U, W)
  BY SameChain
<1>2. DOMAIN T = 1..Len(T) /\ DOMAIN U = 1..Len(U) /\ Len(T) \in Nat /\ Len(U) \in Nat
  OBVIOUS
<1>3. Len(W) \in Nat \ {0} /\ \A k \in 1..Len(W) : W[k] \in 1..Len(T)
  BY ChainFacts
<1>4. V # <<>> /\ V[1] = 1 /\ U[1].up = 0 /\ U[1].branch = 0
  BY <1>1, <1>3, SMTT(30) DEF Chain
<1>5. ASSUME NEW j \in 1..Len(V), NEW k \in 1..Len(V), j < k PROVE V[j] < V[k]
  <2>1. j \in 1..(Len(W)-1) /\ j \in 1..Len(W) /\ V[j] = W[j] /\ W[j] \in 1..Len(T)
    BY <1>3, <1>5
  <2>2. CASE k = Len(W)
    BY <1>2, <2>1, <2>2
  <2>3. CASE k # Len(W)
    <3>1. k \in 1..(Len(W)-1) /\ k \in 1..Len(W)
      BY <1>3, <2>3
    <3> QED
      BY <1>1, <1>5, <2>1, <3>1 DEF Chain
  <2> QED
    BY <2>2, <2>3
<1>6. ASSUME NEW k \in 1..Len(V), k > 1 PROVE U[V[k]].up = V[k-1]
  <2>1. k-1 \in 1..(Len(W)-1)
    BY <1>3, <1>6
  <2>2. CASE k = Len(W)
    BY <1>3, <2>1, <2>2
  <2>3. CASE k # Len(W)
    <3>1. k \in 1..(Len(W)-1) /\ k \in 1..Len(W)
      BY <1>3, <2>3
    <3> QED
      BY <1>1, <1>6, <2>1, <3>1 DEF Chain
  <2> QED
    BY <2>2, <2>3
<1> QED
  BY <1>4, <1>5, <1>6 DEF Chain

\* A block that is closed may lose its `up'.
LEMMA PopChain ==
  ASSUME NEW T \in Seq(Thread), NEW U \in Seq(Thread), NEW W,
         Chain(T, W), Len(W) > 1, Keeps(T, U, W[Len(W)]),
         NEW V, V \in Seq(DOMAIN T), Len(V) = Len(W) - 1,
         \A k \in 1..(Len(W)-1) : V[k] = W[k]
  PROVE  Chain(U, V)
<1>1. DOMAIN T = 1..Len(T) /\ DOMAIN U = 1..Len(U) /\ Len(T) \in Nat /\ Len(U) \in Nat
  OBVIOUS
<1>2. Len(W) \in Nat \ {0} /\ \A k \in 1..Len(W) : W[k] \in 1..Len(T)
  BY ChainFacts
<1>3. \A k \in 1..(Len(W)-1) : k \in 1..Len(W) /\ W[k] # W[Len(W)]
  BY <1>2, SMTT(30) DEF Chain
<1>4. \A k \in 1..(Len(W)-1) : U[W[k]].up = T[W[k]].up /\ U[W[k]].branch = T[W[k]].branch
  BY <1>2, <1>3 DEF Keeps
<1>5. V # <<>> /\ V[1] = 1 /\ U[1].up = 0 /\ U[1].branch = 0
  <2>1. 1 \in 1..(Len(W)-1) /\ W[1] = 1 /\ T[1].up = 0 /\ T[1].branch = 0
    BY <1>2 DEF Chain
  <2>2. V[1] = 1 /\ U[1].up = 0 /\ U[1].branch = 0
    BY <1>4, <2>1
  <2>3. Len(W) - 1 # 0
    BY ONLY <1>2, Len(W) > 1
  <2>4. V # <<>>
    BY <2>3
  <2> QED
    BY <2>2, <2>4
<1>6. V \in Seq(DOMAIN U)
  <2>1. DOMAIN V = 1..Len(V) /\ \A k \in 1..Len(V) : V[k] \in DOMAIN U
    BY <1>1, <1>2, <1>3 DEF Keeps
  <2> QED
    BY <2>1
<1>7. \A j \in 1..Len(V), k \in 1..Len(V) : j < k => V[j] < V[k]
  BY <1>2, <1>3 DEF Chain
<1>8. ASSUME NEW k \in 1..Len(V), k > 1 PROVE U[V[k]].up = V[k-1]
  <2>1. k \in 1..(Len(W)-1) /\ k-1 \in 1..(Len(W)-1)
    BY <1>2, <1>8
  <2>2. \A j \in 1..Len(W) : j > 1 => T[W[j]].up = W[j-1]
    BY DEF Chain
  <2>3. U[W[k]].up = T[W[k]].up /\ V[k] = W[k] /\ V[k-1] = W[k-1] /\ k \in 1..Len(W)
    BY <1>3, <1>4, <2>1
  <2> QED
    BY ONLY <1>8, <2>2, <2>3
<1> QED
  BY <1>5, <1>6, <1>7, <1>8 DEF Chain

\* The threads of T but, perhaps, c have the exception object noted as before.
SameNotes(T, U, c) ==
  \A t \in 1..Len(T) : /\ U[t].up = T[t].up
                       /\ t # c => U[t].excobj = T[t].excobj

\* An exception object stays in the thread of its begin.
SameThr(X, Y) == Len(X) <= Len(Y) /\ \A x \in 1..Len(X) : Y[x].thr = X[x].thr

NotesIn(T, X) == \A t \in 1..Len(T) : T[t].excobj \in 0..Len(X)

\* What the notes of the blocks further out need.
LEMMA NoteKept ==
  ASSUME NEW T \in Seq(Thread), NEW U, NEW X \in Seq(Exc), NEW Y, NEW c,
         NotesIn(T, X), SameNotes(T, U, c), SameThr(X, Y), NEW t \in 1..Len(T), t # c
  PROVE  /\ Own(X, t, T[t].excobj) => Own(Y, t, U[t].excobj)
         /\ Around(X, T[t].up, T[t].excobj) => Around(Y, U[t].up, U[t].excobj)
<1>1. t # 0 /\ Len(X) \in Nat
  OBVIOUS
<1>2. U[t].up = T[t].up /\ U[t].excobj = T[t].excobj /\ T[t].excobj \in 0..Len(X)
  BY <1>1 DEF SameNotes, NotesIn
<1>3. T[t].excobj # 0 => Y[T[t].excobj].thr = X[T[t].excobj].thr
  BY <1>1, <1>2 DEF SameThr
<1> QED
  BY <1>2, <1>3 DEF Own, Around

LEMMA SameNote ==
  ASSUME NEW T \in Seq(Thread), NEW U, NEW X \in Seq(Exc), NEW Y,
         NotesIn(T, X), SameNotes(T, U, 0), SameThr(X, Y), NEW t \in 1..Len(T)
  PROVE  /\ Own(X, t, T[t].excobj) => Own(Y, t, U[t].excobj)
         /\ Around(X, T[t].up, T[t].excobj) => Around(Y, U[t].up, U[t].excobj)
<1>1. t # 0
  OBVIOUS
<1> QED
  BY <1>1, NoteKept

LEMMA NotesSame ==
  ASSUME NEW T \in Seq(Thread), NEW U, NEW X \in Seq(Exc), NEW Y, NEW ev, NEW W,
         Chain(T, W), Notes(T, X, ev, W),
         NotesIn(T, X), SameNotes(T, U, 0), SameThr(X, Y)
  PROVE  Notes(U, Y, ev, W)
<1>1. /\ Len(W) = Len(ev) + 1 /\ Len(W) \in Nat \ {0} /\ \A k \in 1..Len(W) : W[k] \in 1..Len(T)
      /\ \A k \in 1..Len(ev) : k \in 1..Len(W)
  BY ChainFacts DEF Notes
<1>2. \A k \in 1..Len(ev) : ev[k] = "end_begin" => Own(Y, W[k], U[W[k]].excobj)
  BY <1>1, SameNote DEF Notes
<1>3. \A k \in 1..Len(W) : (k = Len(W) \/ ev[k] # "end_begin")
                            => Around(Y, U[W[k]].up, U[W[k]].excobj)
  BY <1>1, SameNote DEF Notes
<1> QED
  BY <1>1, <1>2, <1>3 DEF Notes

LEMMA NotesPush ==
  ASSUME NEW T \in Seq(Thread), NEW U, NEW X \in Seq(Exc), NEW Y,
         NEW ev \in Seq(EndFn), NEW W, NEW c, NEW n, NEW f \in EndFn,
         Chain(T, W), Notes(T, X, ev, W), c = W[Len(W)],
         NotesIn(T, X), SameNotes(T, U, c), SameThr(X, Y),
         f = "end_begin" => Own(Y, c, U[c].excobj),
         f # "end_begin" => U[c].excobj = T[c].excobj,
         Around(Y, U[n].up, U[n].excobj)
  PROVE  Notes(U, Y, Append(ev, f), Append(W, n))
<1> DEFINE V == Append(W, n)
           dv == Append(ev, f)
<1>1. /\ Len(W) = Len(ev) + 1 /\ Len(W) \in Nat \ {0} /\ Len(ev) \in Nat
      /\ \A k \in 1..Len(W) : W[k] \in 1..Len(T)
      /\ \A k \in 1..Len(ev) : k \in 1..Len(W)
  BY ChainFacts DEF Notes
<1>2. /\ Len(dv) = Len(W) /\ dv[Len(W)] = f /\ \A k \in 1..Len(ev) : dv[k] = ev[k]
  BY <1>1
<1>3. W \in Seq(Nat)
  BY <1>1, ChainFacts
<1>4. /\ Len(V) = Len(W) + 1 /\ V[Len(W)+1] = n /\ \A k \in 1..Len(W) : V[k] = W[k]
  BY <1>3
<1> HIDE DEF V, dv
<1>5. \A k \in 1..Len(ev) : W[k] # c
  <2>1. \A k \in 1..Len(ev) : k < Len(W) /\ k \in 1..Len(W) /\ Len(W) \in 1..Len(W)
    BY <1>1
  <2>2. \A k \in 1..Len(ev) : W[k] < W[Len(W)]
    BY <2>1 DEF Chain
  <2> QED
    BY <1>1, <2>1, <2>2
<1>6. Around(X, T[c].up, T[c].excobj) /\ c \in 1..Len(T)
  BY <1>1 DEF Notes
<1>7. f # "end_begin" => Around(Y, U[c].up, U[c].excobj)
  <2>1. SUFFICES ASSUME f # "end_begin" PROVE Around(Y, U[c].up, U[c].excobj)
    OBVIOUS
  <2>2. SameNotes(T, U, 0)
    BY <2>1 DEF SameNotes
  <2> QED
    BY <1>6, <2>2, SameNote
<1>8. \A k \in 1..Len(dv) : dv[k] = "end_begin" => Own(Y, V[k], U[V[k]].excobj)
  <2>1. ASSUME NEW k \in 1..Len(ev), ev[k] = "end_begin" PROVE Own(Y, W[k], U[W[k]].excobj)
    BY <1>1, <1>5, <2>1, NoteKept DEF Notes
  <2>2. \A k \in 1..Len(dv) : k \in 1..Len(W) /\ (k \in 1..Len(ev) \/ k = Len(W))
    BY <1>1, <1>2
  <2> QED
    BY <1>1, <1>2, <1>4, <2>1, <2>2
<1>9. \A k \in 1..Len(V) : (k = Len(V) \/ dv[k] # "end_begin")
                            => Around(Y, U[V[k]].up, U[V[k]].excobj)
  <2>1. ASSUME NEW k \in 1..Len(ev), ev[k] # "end_begin"
        PROVE  Around(Y, U[W[k]].up, U[W[k]].excobj)
    BY <1>1, <1>5, <2>1, NoteKept DEF Notes
  <2>2. \A k \in 1..Len(V) : k \in 1..Len(ev) \/ k = Len(W) \/ k = Len(W) + 1
    BY <1>1, <1>4
  <2>3. Len(W) + 1 # Len(W) /\ Len(W) \in 1..Len(W)
    BY <1>1
  <2>4. \A k \in 1..Len(ev) : k # Len(V)
    BY <1>1, <1>4
  <2> QED
    BY <1>1, <1>2, <1>4, <1>7, <2>1, <2>2, <2>3, <2>4
<1> QED
  BY <1>2, <1>4, <1>8, <1>9 DEF Notes, V, dv

LEMMA NotesSwap ==
  ASSUME NEW T \in Seq(Thread), NEW U, NEW X \in Seq(Exc), NEW Y, NEW ev, NEW W,
         NEW V, Len(V) = Len(W), \A k \in 1..(Len(W)-1) : V[k] = W[k],
         Chain(T, W), Notes(T, X, ev, W),
         NotesIn(T, X), SameNotes(T, U, 0), SameThr(X, Y),
         Around(Y, U[V[Len(W)]].up, U[V[Len(W)]].excobj)
  PROVE  Notes(U, Y, ev, V)
<1>1. Notes(U, Y, ev, W)
  BY NotesSame
<1>2. Len(W) = Len(ev) + 1 /\ Len(W) \in Nat \ {0} /\ Len(W) - 1 = Len(ev)
  BY ChainFacts DEF Notes
<1>3. \A k \in 1..Len(ev) : ev[k] = "end_begin" => Own(Y, V[k], U[V[k]].excobj)
  BY <1>1, <1>2 DEF Notes
<1>4. \A k \in 1..Len(W) : k \in 1..(Len(W)-1) \/ k = Len(W)
  BY <1>2
<1>5. \A k \in 1..Len(V) : (k = Len(V) \/ ev[k] # "end_begin")
                            => Around(Y, U[V[k]].up, U[V[k]].excobj)
  BY <1>1, <1>4 DEF Notes
<1> QED
  BY <1>2, <1>3, <1>5 DEF Notes

LEMMA NotesPop ==
  ASSUME NEW T \in Seq(Thread), NEW U, NEW X \in Seq(Exc),
         NEW ev, NEW W, NEW V, NEW dv,
         Chain(T, W), Notes(T, X, ev, W), Len(W) > 1,
         Len(V) = Len(W) - 1, \A k \in 1..(Len(W)-1) : V[k] = W[k],
         Len(dv) = Len(ev) - 1, \A k \in 1..(Len(ev)-1) : dv[k] = ev[k],
         \A k \in 1..(Len(ev)-1) : /\ U[W[k]].up = T[W[k]].up
                                   /\ U[W[k]].excobj = T[W[k]].excobj,
         Around(X, U[W[Len(ev)]].up, U[W[Len(ev)]].excobj)
  PROVE  Notes(U, X, dv, V)
<1>1. Len(W) = Len(ev) + 1 /\ Len(W) \in Nat \ {0} /\ Len(W) - 1 = Len(ev) /\ Len(ev) \in Nat
  BY ChainFacts DEF Notes
<1>2. \A k \in 1..(Len(ev)-1) : k \in 1..(Len(W)-1) /\ k \in 1..Len(W) /\ k \in 1..Len(ev)
  BY <1>1
<1>3. \A k \in 1..Len(dv) : dv[k] = "end_begin" => Own(X, V[k], U[V[k]].excobj)
  BY <1>2 DEF Notes
<1>4. \A k \in 1..Len(V) : k \in 1..(Len(ev)-1) \/ (k = Len(V) /\ k = Len(ev) /\ V[k] = W[Len(ev)])
  BY <1>1
<1>5. \A k \in 1..(Len(ev)-1) : k # Len(V) /\ k # Len(W)
  BY <1>1
<1>6. \A k \in 1..Len(V) : (k = Len(V) \/ dv[k] # "end_begin")
                            => Around(X, U[V[k]].up, U[V[k]].excobj)
  BY <1>2, <1>4, <1>5, SMTT(30) DEF Notes
<1>7. Len(V) = Len(dv) + 1
  BY <1>1
<1> QED
  BY <1>3, <1>6, <1>7 DEF Notes

-----------------------------------------------------------------------------
(* The grammar actions *)

LEMMA Sizes ==
  ASSUME Typed
  PROVE  /\ Len(threads) \in Nat /\ DOMAIN threads = 1..Len(threads)
         /\ Len(branches) \in Nat /\ DOMAIN branches = 1..Len(branches)
         /\ Len(excs) \in Nat /\ DOMAIN excs = 1..Len(excs)
         /\ Len(opener) \in Nat /\ Len(end_vector) = Len(opener)
         /\ cur_thr \in 1..Len(threads)
         /\ threads \in Seq(Thread) /\ branches \in Seq(Branch) /\ excs \in Seq(Exc)
         /\ NotesIn(threads, excs)
BY DEF Typed, NotesIn, Refers

LEMMA WrittenFacts ==
  ASSUME Typed
  PROVE  /\ Written \in Seq(DOMAIN threads) /\ Len(Written) = Len(opener) + 1
         /\ Written[Len(opener) + 1] = cur_thr
         /\ \A k \in 1..Len(opener) : Written[k] = opener[k]
BY Pushed DEF Typed, Written

\* Where the parser is, seen from the thread it writes.
LEMMA CurFacts ==
  ASSUME PInv, phase = "parse"
  PROVE  /\ Cur \in Thread
         /\ opener = <<>> => Cur.up = 0 /\ cur_thr = 1 /\ Cur.branch = 0 /\ Cur.excobj = 0
         /\ opener # <<>> => /\ Cur.up = opener[Len(opener)] /\ Cur.up \in 1..Len(threads)
                             /\ Len(opener) \in 1..Len(opener)
                             /\ Cur.up < cur_thr
         /\ Cur.excobj # 0 => excs[Cur.excobj].thr = Cur.up /\ Cur.excobj \in 1..Len(excs)
<1> DEFINE n == Len(opener)
<1>1. Typed /\ Chain(threads, Written) /\ Notes(threads, excs, end_vector, Written)
  BY DEF PInv
<1>2. n \in Nat /\ cur_thr \in 1..Len(threads) /\ Cur \in Thread /\ threads \in Seq(Thread)
  BY <1>1, Sizes DEF Cur
<1>3. Len(Written) = n + 1 /\ Written[n + 1] = cur_thr /\ \A k \in 1..n : Written[k] = opener[k]
  BY <1>1, WrittenFacts
<1>4. n + 1 \in 1..Len(Written)
  BY <1>2, <1>3
<1>5. Around(excs, Cur.up, Cur.excobj)
  BY <1>1, <1>3, <1>4 DEF Notes, Cur
<1>6. Cur.excobj # 0 => excs[Cur.excobj].thr = Cur.up /\ Cur.excobj \in 1..Len(excs)
  <2>1. Cur.excobj \in 0..Len(excs) /\ Len(excs) \in Nat
    BY <1>1, <1>2, Sizes DEF NotesIn, Cur
  <2> QED
    BY <1>5, <2>1 DEF Around
<1>7. CASE opener = <<>>
  <2>1. n = 0
    BY <1>7
  <2>2. cur_thr = 1 /\ Cur.up = 0 /\ Cur.branch = 0
    BY <1>1, <1>3, <2>1 DEF Chain, Cur
  <2>3. Cur.excobj = 0
    <3>1. SUFFICES ASSUME Cur.excobj # 0 PROVE FALSE
      OBVIOUS
    <3>2. excs[Cur.excobj].thr = 0 /\ Cur.excobj \in DOMAIN excs
      BY <1>1, <1>6, <2>2, <3>1, Sizes
    <3> QED
      BY <1>1, <3>2 DEF Typed, Refers
  <2> QED
    BY <1>2, <1>6, <1>7, <2>2, <2>3
<1>8. CASE opener # <<>>
  <2>1. opener \in Seq(DOMAIN threads)
    BY <1>1 DEF Typed
  <2>2. n \in 1..n /\ n # 0
    BY <1>2, <1>8, <2>1
  <2>3. n \in 1..Len(Written) /\ n < n+1 /\ n + 1 > 1 /\ (n+1)-1 = n
    BY <1>2, <1>3, <2>2
  <2>4. Cur.up = opener[n]
    BY <1>1, <1>3, <1>4, <2>2, <2>3 DEF Chain, Cur
  <2>5. opener[n] < cur_thr
    BY <1>1, <1>3, <1>4, <2>2, <2>3 DEF Chain
  <2>6. opener[n] \in 1..Len(threads)
    BY <1>1, <2>1, <2>2, Sizes
  <2> QED
    BY <1>2, <1>6, <1>8, <2>2, <2>4, <2>5, <2>6
<1> QED
  BY <1>7, <1>8

LEMMA Reads ==
  ASSUME Typed, NEW K, Read(K)
  PROVE  /\ Head(input) \in Token /\ Head(input).tok \in K /\ input' \in Seq(Token)
         /\ phase = "parse" /\ script' = script
BY DEF Typed, Read

\* push_cell changes the cells of one thread and no more.
LEMMA CellPushed ==
  ASSUME NEW T \in Seq(Thread), NEW t \in DOMAIN T, NEW c \in CellRec
  PROVE  /\ push_cell(T, t, c) \in Seq(Thread) /\ Len(push_cell(T, t, c)) = Len(T)
         /\ \A k \in 1..Len(T) : /\ push_cell(T, t, c)[k].up = T[k].up
                                 /\ push_cell(T, t, c)[k].branch = T[k].branch
                                 /\ push_cell(T, t, c)[k].excobj = T[k].excobj
                                 /\ push_cell(T, t, c)[k].callsym = T[k].callsym
<1> DEFINE U == push_cell(T, t, c)
           r == [T[t] EXCEPT !.stack = Append(@, c)]
<1>1. T[t] \in Thread /\ t \in 1..Len(T) /\ DOMAIN T = 1..Len(T)
  OBVIOUS
<1>2. Append(T[t].stack, c) \in Seq(CellRec)
  BY <1>1 DEF Thread
<1>3. /\ r \in Thread /\ r.up = T[t].up /\ r.branch = T[t].branch
      /\ r.excobj = T[t].excobj /\ r.callsym = T[t].callsym
  BY <1>1, <1>2 DEF Thread
<1>4. U = [T EXCEPT ![t] = r]
  BY DEF push_cell
<1> HIDE DEF r, U
<1>5. U \in Seq(Thread) /\ Len(U) = Len(T) /\ \A k \in 1..Len(T) : U[k] = IF k = t THEN r ELSE T[k]
  BY <1>1, <1>3, <1>4
<1> QED
  BY <1>3, <1>5 DEF U

\* One thread gets a cell.
LEMMA StmtEffect ==
  ASSUME Typed, parse_stmt \/ parse_eof
  PROVE  /\ UNCHANGED <<branches, excs, cur_thr, methods, end_vector, opener>> /\ Written' = Written
         /\ threads' \in Seq(Thread) /\ Len(threads') = Len(threads)
         /\ \A k \in 1..Len(threads) : /\ threads'[k].up = threads[k].up
                                       /\ threads'[k].branch = threads[k].branch
                                       /\ threads'[k].excobj = threads[k].excobj
                                       /\ threads'[k].callsym = threads[k].callsym
<1>1. ASSUME parse_stmt PROVE Head(input) \in Token /\ Head(input).tok \in SimpleKinds \cup {"call"}
  BY <1>1, Reads DEF parse_stmt
<1>2. PICK c \in CellRec : threads' = push_cell(threads, cur_thr, c)
  <2>1. CASE parse_stmt
    <3>1. Cell("call", Head(input).name) \in CellRec
      BY <1>1, <2>1 DEF Cell, CellRec, Token
    <3>2. Cell(Head(input).tok, 0) \in CellRec
      BY <1>1, <2>1 DEF Cell, CellRec, Token, SimpleKinds
    <3> QED
      BY <2>1, <3>1, <3>2 DEF parse_stmt
  <2>2. CASE parse_eof
    <3>1. Cell("exit", 0) \in CellRec
      BY DEF Cell, CellRec
    <3> QED
      BY <2>2, <3>1 DEF parse_eof
  <2> QED
    BY <2>1, <2>2
<1>3. threads \in Seq(Thread) /\ cur_thr \in DOMAIN threads
  BY Sizes
<1>4. UNCHANGED <<branches, excs, cur_thr, methods, end_vector, opener>> /\ Written' = Written
  BY DEF parse_stmt, parse_eof, Written
<1> QED
  BY <1>2, <1>3, <1>4, CellPushed

LEMMA StmtStep ==
  ASSUME PInv, parse_stmt \/ parse_eof
  PROVE  PInv'
<1>1. Typed /\ phase = "parse"
  BY DEF PInv, parse_stmt, parse_eof, Read
<1>2. Chain(threads, Written) /\ Notes(threads, excs, end_vector, Written)
  BY <1>1 DEF PInv
<1>3. input' \in Seq(Token) /\ script' = script /\ phase' \in {"parse", "eval"}
  BY <1>1, Reads DEF parse_stmt, parse_eof, Typed
<1>4. /\ UNCHANGED <<branches, excs, cur_thr, methods, end_vector, opener>> /\ Written' = Written
      /\ threads' \in Seq(Thread) /\ Len(threads') = Len(threads)
      /\ \A k \in 1..Len(threads) : /\ threads'[k].up = threads[k].up
                                    /\ threads'[k].branch = threads[k].branch
                                    /\ threads'[k].excobj = threads[k].excobj
  BY <1>1, StmtEffect
<1>5. Keeps(threads, threads', 0) /\ SameNotes(threads, threads', 0) /\ SameThr(excs, excs')
  BY <1>1, <1>4, Sizes DEF Keeps, SameNotes, SameThr
<1>6. Chain(threads', Written')
  BY <1>1, <1>2, <1>4, <1>5, Sizes, SameChain
<1>7. Notes(threads', excs', end_vector', Written')
  BY <1>1, <1>2, <1>4, <1>5, Sizes, NotesSame
<1>8. DOMAIN threads' = DOMAIN threads /\ DOMAIN threads = 1..Len(threads)
  BY <1>1, <1>4, Sizes
<1>9. Refers(threads', branches', excs', methods')
  BY <1>1, <1>4, <1>8 DEF Refers, Typed
<1>10. Typed'
  BY <1>1, <1>3, <1>4, <1>8, <1>9 DEF Typed
<1> QED
  BY <1>6, <1>7, <1>10 DEF PInv

\* Assignments to fields.
LEMMA ExcobjField ==
  ASSUME NEW t \in Thread, NEW x \in Nat,
         NEW r, r = [t EXCEPT !.excobj = x]
  PROVE  /\ r \in Thread
         /\ r.up = t.up /\ r.branch = t.branch /\ r.excobj = x /\ r.callsym = t.callsym
BY DEF Thread

LEMMA BranchField ==
  ASSUME NEW t \in Thread, NEW x \in Nat,
         NEW r, r = [t EXCEPT !.branch = x]
  PROVE  /\ r \in Thread
         /\ r.up = t.up /\ r.branch = x /\ r.excobj = t.excobj /\ r.callsym = t.callsym
BY DEF Thread

LEMMA CallsymField ==
  ASSUME NEW t \in Thread, NEW c \in Name \cup {NoName},
         NEW r, r = [t EXCEPT !.callsym = c]
  PROVE  /\ r \in Thread
         /\ r.up = t.up /\ r.branch = t.branch /\ r.excobj = t.excobj /\ r.callsym = c
BY DEF Thread

LEMMA UpField ==
  ASSUME NEW t \in Thread,
         NEW r, r = [t EXCEPT !.up = 0]
  PROVE  /\ r \in Thread
         /\ r.up = 0 /\ r.branch = t.branch /\ r.excobj = t.excobj /\ r.callsym = t.callsym
BY DEF Thread

LEMMA ExcField ==
  ASSUME NEW e \in Exc, NEW b \in Nat, NEW d, d = [e EXCEPT !.rescue_thr = b]
  PROVE  d \in Exc /\ d.thr = e.thr /\ d.body_thr = e.body_thr /\ d.rescue_thr = b
BY DEF Exc

\* What thread_new fills in.
LEMMA NewThread ==
  ASSUME Typed, NEW u \in DOMAIN threads
  PROVE  /\ thread_new(u) \in Thread
         /\ thread_new(u).up = u /\ thread_new(u).branch = threads[u].branch
         /\ thread_new(u).branch \in 0..Len(branches)
         /\ thread_new(u).excobj = 0 /\ u \in Nat
<1>1. threads[u] \in Thread /\ u \in Nat /\ threads[u].branch \in 0..Len(branches)
  BY DEF Typed, Refers
<1>2. <<>> \in Seq(CellRec)
  OBVIOUS
<1> QED
  BY <1>1, <1>2 DEF Thread, thread_new

\* Open nests the block that is made.
LEMMA Opened ==
  ASSUME Typed, NEW f \in EndFn, Open(f), NEW n, cur_thr' = n,
         n \in DOMAIN threads', DOMAIN threads \subseteq DOMAIN threads'
  PROVE  /\ Written' = Append(Written, n)
         /\ end_vector' = Append(end_vector, f) /\ end_vector' \in Seq(EndFn)
         /\ opener' \in Seq(DOMAIN threads') /\ Len(end_vector') = Len(opener')
<1>1. opener' = Append(opener, cur_thr) /\ end_vector' = Append(end_vector, f)
  BY DEF Open
<1>2. /\ opener \in Seq(DOMAIN threads') /\ cur_thr \in DOMAIN threads'
      /\ end_vector \in Seq(EndFn) /\ Len(end_vector) = Len(opener)
  BY DEF Typed
<1> QED
  BY <1>1, <1>2 DEF Written

\* A begin block has a body and an exception object, which is noted in the
\* body and in the thread around.
LEMMA BeginEffect ==
  ASSUME Typed, parse_begin, NEW b, b = Len(threads) + 1, NEW x, x = Len(excs) + 1
  PROVE  /\ Open("end_begin") /\ UNCHANGED <<branches, methods, phase>> /\ cur_thr' = b
         /\ b \in Nat /\ x \in Nat /\ x # 0
         /\ threads' \in Seq(Thread) /\ Len(threads') = b /\ DOMAIN threads' = 1..b
         /\ threads'[b].up = cur_thr /\ threads'[b].branch \in 0..Len(branches)
         /\ threads'[b].excobj = x
         /\ \A t \in 1..Len(threads) :
              /\ threads'[t].up = threads[t].up /\ threads'[t].branch = threads[t].branch
              /\ threads'[t].callsym = threads[t].callsym
              /\ threads'[t].excobj = IF t = cur_thr THEN x ELSE threads[t].excobj
         /\ excs' \in Seq(Exc) /\ Len(excs') = x /\ DOMAIN excs' = 1..x
         /\ excs'[x].thr = cur_thr /\ excs'[x].body_thr = b /\ excs'[x].rescue_thr = 0
         /\ \A y \in 1..Len(excs) : excs'[y] = excs[y]
<1> DEFINE r == [thread_new(cur_thr) EXCEPT !.excobj = x]
           s == [threads[cur_thr] EXCEPT !.excobj = x]
<1>1. /\ excs' = Append(excs, NewExc(b)) /\ threads' = Append([threads EXCEPT ![cur_thr] = s], r)
      /\ cur_thr' = b /\ Open("end_begin") /\ UNCHANGED <<branches, methods, phase>>
  BY DEF parse_begin
<1>2. /\ x \in Nat /\ b \in Nat /\ x # 0 /\ cur_thr \in 1..Len(threads)
      /\ threads \in Seq(Thread) /\ excs \in Seq(Exc)
      /\ cur_thr \in DOMAIN threads /\ threads[cur_thr] \in Thread /\ cur_thr \in Nat
  BY Sizes
<1>3. r \in Thread /\ r.up = cur_thr /\ r.branch \in 0..Len(branches) /\ r.excobj = x
  BY <1>2, NewThread, ExcobjField
<1>4. /\ s \in Thread /\ s.up = threads[cur_thr].up /\ s.callsym = threads[cur_thr].callsym
      /\ s.branch = threads[cur_thr].branch /\ s.excobj = x
  BY <1>2, ExcobjField
<1> HIDE DEF r, s
<1>5. /\ threads' \in Seq(Thread) /\ Len(threads') = b /\ threads'[b] = r
      /\ \A t \in 1..Len(threads) : threads'[t] = IF t = cur_thr THEN s ELSE threads[t]
  <2>1. /\ [threads EXCEPT ![cur_thr] = s] \in Seq(Thread)
        /\ Len([threads EXCEPT ![cur_thr] = s]) = Len(threads)
        /\ \A t \in 1..Len(threads) :
             [threads EXCEPT ![cur_thr] = s][t] = IF t = cur_thr THEN s ELSE threads[t]
    BY <1>2, <1>4
  <2> QED
    BY <1>1, <1>3, <2>1, Pushed
<1>6. NewExc(b) \in Exc /\ NewExc(b).thr = cur_thr /\ NewExc(b).body_thr = b /\ NewExc(b).rescue_thr = 0
  BY <1>2 DEF NewExc, Exc
<1>7. /\ excs' \in Seq(Exc) /\ Len(excs') = x /\ excs'[x] = NewExc(b) /\ DOMAIN excs' = 1..x
      /\ \A y \in 1..Len(excs) : excs'[y] = excs[y]
  BY <1>1, <1>2, <1>6, Pushed
<1>8. \A t \in 1..Len(threads) :
              /\ threads'[t].up = threads[t].up /\ threads'[t].branch = threads[t].branch
              /\ threads'[t].callsym = threads[t].callsym
              /\ threads'[t].excobj = IF t = cur_thr THEN x ELSE threads[t].excobj
  BY <1>4, <1>5
<1>9. DOMAIN threads' = 1..b
  BY <1>5
<1> QED
  BY <1>1, <1>2, <1>3, <1>5, <1>6, <1>7, <1>8, <1>9

LEMMA BeginStep ==
  ASSUME PInv, parse_begin
  PROVE  PInv'
<1> DEFINE x == Len(excs) + 1
           b == Len(threads) + 1
<1>1. Typed /\ phase = "parse"
  BY DEF PInv, parse_begin, Read
<1>2. Chain(threads, Written) /\ Notes(threads, excs, end_vector, Written)
  BY <1>1 DEF PInv
<1>3. input' \in Seq(Token) /\ script' = script
  BY <1>1, Reads DEF parse_begin
<1>4. /\ Open("end_begin") /\ UNCHANGED <<branches, methods, phase>> /\ cur_thr' = b
      /\ b \in Nat /\ x \in Nat /\ x # 0
      /\ threads' \in Seq(Thread) /\ Len(threads') = b /\ DOMAIN threads' = 1..b
      /\ threads'[b].up = cur_thr /\ threads'[b].branch \in 0..Len(branches)
      /\ threads'[b].excobj = x
      /\ \A t \in 1..Len(threads) :
           /\ threads'[t].up = threads[t].up /\ threads'[t].branch = threads[t].branch
           /\ threads'[t].excobj = IF t = cur_thr THEN x ELSE threads[t].excobj
      /\ excs' \in Seq(Exc) /\ Len(excs') = x /\ DOMAIN excs' = 1..x
      /\ excs'[x].thr = cur_thr /\ excs'[x].body_thr = b /\ excs'[x].rescue_thr = 0
      /\ \A y \in 1..Len(excs) : excs'[y] = excs[y]
  BY <1>1, BeginEffect
<1>5. /\ cur_thr \in 1..Len(threads) /\ Len(threads) \in Nat /\ Len(excs) \in Nat
      /\ b > Len(threads) /\ cur_thr < b /\ b \in 1..b /\ 1..Len(threads) \subseteq 1..b
      /\ DOMAIN threads = 1..Len(threads) /\ DOMAIN excs = 1..Len(excs)
      /\ \A t \in 1..b : t \in 1..Len(threads) \/ t = b
      /\ \A y \in 1..x : y \in 1..Len(excs) \/ y = x
  BY <1>1, Sizes
<1>6. /\ Written' = Append(Written, b)
      /\ end_vector' = Append(end_vector, "end_begin") /\ end_vector' \in Seq(EndFn)
      /\ opener' \in Seq(DOMAIN threads') /\ Len(end_vector') = Len(opener')
  BY <1>1, <1>4, <1>5, Opened DEF EndFn
<1>7. Keeps(threads, threads', 0) /\ SameNotes(threads, threads', cur_thr)
  BY <1>4, <1>5 DEF Keeps, SameNotes
<1>8. SameThr(excs, excs')
  BY <1>4, <1>5 DEF SameThr
<1>9. Len(Written) = Len(opener) + 1 /\ Written[Len(Written)] = cur_thr
  BY <1>1, WrittenFacts
<1>10. Chain(threads', Written')
  BY <1>1, <1>2, <1>4, <1>5, <1>6, <1>7, <1>9, Sizes, PushChain
<1>11. Own(excs', cur_thr, threads'[cur_thr].excobj)
  BY <1>4, <1>5 DEF Own
<1>12. Around(excs', threads'[b].up, threads'[b].excobj)
  BY <1>4 DEF Around
<1>13. Notes(threads', excs', end_vector', Written')
  <2>1. end_vector \in Seq(EndFn) /\ "end_begin" \in EndFn
    BY <1>1 DEF Typed, EndFn
  <2> QED
    BY <1>1, <1>2, <1>6, <1>7, <1>8, <1>9, <1>11, <1>12, <2>1, Sizes, NotesPush
<1> HIDE DEF x, b
<1>14. Refers(threads', branches', excs', methods')
  <2>1. Refers(threads, branches, excs, methods)
    BY <1>1 DEF Typed
  <2>2. Len(threads) + 1 = b /\ Len(excs) + 1 = x
    BY DEF b, x
  <2>3. ASSUME NEW t \in DOMAIN threads'
        PROVE  /\ threads'[t].up \in 0..b /\ threads'[t].branch \in 0..Len(branches')
               /\ threads'[t].excobj \in 0..x
    <3>1. /\ branches' = branches /\ cur_thr \in 0..b /\ x \in 0..x /\ b \in Nat /\ x \in Nat
          /\ 0..Len(threads) \subseteq 0..b /\ 0..Len(excs) \subseteq 0..x
      BY <1>4, <1>5, <2>2
    <3>2. CASE t = b
      BY <1>4, <3>1, <3>2
    <3>3. CASE t \in 1..Len(threads)
      <4>1. /\ threads[t].up \in 0..Len(threads) /\ threads[t].branch \in 0..Len(branches)
            /\ threads[t].excobj \in 0..Len(excs)
        BY <1>5, <2>1, <3>3 DEF Refers
      <4> QED
        BY <1>4, <3>1, <3>3, <4>1
    <3> QED
      BY <1>4, <1>5, <3>2, <3>3
  <2>4. \A y \in DOMAIN excs' : /\ excs'[y].thr \in 1..b /\ excs'[y].body_thr \in 1..b
                                /\ excs'[y].rescue_thr \in 0..b /\ excs'[y].thr < excs'[y].body_thr
    BY <1>4, <1>5, <2>1, <2>2 DEF Refers
  <2>5. /\ \A c \in DOMAIN branches' : branches'[c].cond_true \in 1..b /\ branches'[c].cond_false \in 0..b
        /\ \A n \in Name : methods'[n] \in 0..b
    BY <1>4, <1>5, <2>1, <2>2 DEF Refers
  <2> QED
    BY <1>4, <2>3, <2>4, <2>5 DEF Refers
<1>15. Typed'
  <2>1. cur_thr' \in DOMAIN threads'
    BY <1>4, <1>5
  <2> QED
    BY <1>1, <1>3, <1>4, <1>6, <1>14, <2>1 DEF Typed
<1> QED
  BY <1>10, <1>13, <1>15 DEF PInv

\* A new block, in the threads that otherwise stay as they are.
LEMMA Appended ==
  ASSUME Typed, NEW U, NEW r \in Thread, U = Append(threads, r)
  PROVE  LET b == Len(threads) + 1
         IN  /\ U \in Seq(Thread) /\ Len(U) = b /\ DOMAIN U = 1..b /\ U[b] = r
             /\ \A t \in 1..Len(threads) : U[t] = threads[t]
             /\ 1..Len(threads) \subseteq 1..b /\ b \in 1..b /\ b > Len(threads) /\ b \in Nat
             /\ Keeps(threads, U, 0) /\ SameNotes(threads, U, 0)
<1> DEFINE b == Len(threads) + 1
<1>1. /\ U \in Seq(Thread) /\ Len(U) = b /\ U[b] = r
      /\ \A t \in 1..Len(threads) : U[t] = threads[t]
  BY Sizes, Pushed
<1>2. Len(threads) \in Nat /\ DOMAIN U = 1..Len(U)
  BY <1>1, Sizes
<1>3. 1..Len(threads) \subseteq 1..b /\ b \in 1..b /\ b > Len(threads) /\ b \in Nat
  BY <1>2
<1>4. Keeps(threads, U, 0) /\ SameNotes(threads, U, 0)
  BY <1>1, <1>2, <1>3 DEF Keeps, SameNotes
<1> QED
  BY <1>1, <1>2, <1>3, <1>4

\* A method is a thread of its own, with its name.
LEMMA DefineEffect ==
  ASSUME Typed, parse_define, NEW b, b = Len(threads) + 1
  PROVE  /\ Open("end_define") /\ UNCHANGED <<branches, excs, methods, phase>> /\ cur_thr' = b
         /\ threads' \in Seq(Thread) /\ Len(threads') = b /\ DOMAIN threads' = 1..b
         /\ \A t \in 1..Len(threads) : threads'[t] = threads[t]
         /\ 1..Len(threads) \subseteq 1..b /\ b \in 1..b /\ b > Len(threads) /\ b \in Nat
         /\ Keeps(threads, threads', 0) /\ SameNotes(threads, threads', 0)
         /\ threads'[b].up = cur_thr /\ threads'[b].branch \in 0..Len(branches)
         /\ threads'[b].excobj = 0 /\ threads'[b].callsym = Head(input).name
<1> DEFINE r == [thread_new(cur_thr) EXCEPT !.callsym = Head(input).name]
<1>1. Head(input) \in Token
  BY Reads DEF parse_define
<1>2. /\ threads' = Append(threads, r) /\ cur_thr' = b /\ Open("end_define")
      /\ UNCHANGED <<branches, excs, methods, phase>>
  BY DEF parse_define
<1>3. /\ r \in Thread /\ r.up = cur_thr /\ r.branch \in 0..Len(branches) /\ r.excobj = 0
      /\ r.callsym = Head(input).name
  <2>1. Head(input).name \in Name \cup {NoName}
    BY <1>1 DEF Token
  <2>2. cur_thr \in DOMAIN threads
    BY Sizes
  <2> DEFINE n == thread_new(cur_thr)
  <2>3. n \in Thread /\ n.up = cur_thr /\ n.branch \in 0..Len(branches) /\ n.excobj = 0
    BY <2>2, NewThread
  <2> HIDE DEF n
  <2>4. r = [n EXCEPT !.callsym = Head(input).name]
    BY DEF n
  <2> HIDE DEF r
  <2>5. r \in Thread /\ r.up = n.up /\ r.branch = n.branch /\ r.excobj = n.excobj
        /\ r.callsym = Head(input).name
    BY <2>1, <2>3, <2>4, CallsymField
  <2> QED
    BY <2>3, <2>5
<1> HIDE DEF r
<1>4. /\ threads' \in Seq(Thread) /\ Len(threads') = b /\ DOMAIN threads' = 1..b /\ threads'[b] = r
      /\ \A t \in 1..Len(threads) : threads'[t] = threads[t]
      /\ 1..Len(threads) \subseteq 1..b /\ b \in 1..b /\ b > Len(threads) /\ b \in Nat
      /\ Keeps(threads, threads', 0) /\ SameNotes(threads, threads', 0)
  BY <1>2, <1>3, Appended
<1> QED
  BY <1>2, <1>3, <1>4

LEMMA DefineStep ==
  ASSUME PInv, parse_define
  PROVE  PInv'
<1> DEFINE b == Len(threads) + 1
<1>1. Typed /\ phase = "parse"
  BY DEF PInv, parse_define, Read
<1>2. Chain(threads, Written) /\ Notes(threads, excs, end_vector, Written)
  BY <1>1 DEF PInv
<1>3. input' \in Seq(Token) /\ script' = script
  BY <1>1, Reads DEF parse_define
<1>4. /\ Open("end_define") /\ UNCHANGED <<branches, excs, methods, phase>> /\ cur_thr' = b
      /\ threads' \in Seq(Thread) /\ Len(threads') = b /\ DOMAIN threads' = 1..b
      /\ \A t \in 1..Len(threads) : threads'[t] = threads[t]
      /\ 1..Len(threads) \subseteq 1..b /\ b \in 1..b /\ b > Len(threads) /\ b \in Nat
      /\ Keeps(threads, threads', 0) /\ SameNotes(threads, threads', 0)
      /\ threads'[b].up = cur_thr /\ threads'[b].branch \in 0..Len(branches)
      /\ threads'[b].excobj = 0
  BY <1>1, DefineEffect
<1> HIDE DEF b
<1>5. /\ Written' = Append(Written, b)
      /\ end_vector' = Append(end_vector, "end_define") /\ end_vector' \in Seq(EndFn)
      /\ opener' \in Seq(DOMAIN threads') /\ Len(end_vector') = Len(opener')
  BY <1>1, <1>4, Opened, Sizes DEF EndFn
<1>6. SameThr(excs, excs') /\ excs' = excs
  BY <1>1, <1>4, Sizes DEF SameThr
<1>7. Len(Written) = Len(opener) + 1 /\ Written[Len(Written)] = cur_thr
  BY <1>1, WrittenFacts
<1>8. Chain(threads', Written')
  BY <1>1, <1>2, <1>4, <1>5, <1>7, Sizes, PushChain
<1>9. threads'[cur_thr].excobj = threads[cur_thr].excobj /\ cur_thr \in 1..Len(threads) /\ cur_thr # 0
  BY <1>1, <1>4, Sizes
<1>10. Around(excs', threads'[b].up, threads'[b].excobj) /\ SameNotes(threads, threads', cur_thr)
  BY <1>4 DEF Around, SameNotes
<1>11. Notes(threads', excs', end_vector', Written')
  <2>1. end_vector \in Seq(EndFn) /\ "end_define" \in EndFn /\ "end_define" # "end_begin"
    BY <1>1 DEF Typed, EndFn
  <2> QED
    BY <1>1, <1>2, <1>5, <1>6, <1>7, <1>9, <1>10, <2>1, Sizes, NotesPush
<1>12. Refers(threads', branches', excs', methods')
  <2>1. Refers(threads, branches, excs, methods) /\ Len(threads) \in Nat /\ Len(excs) \in Nat
    BY <1>1, Sizes DEF Typed
  <2>2. DOMAIN threads = 1..Len(threads) /\ Len(threads) + 1 = b /\ cur_thr \in 0..b
    BY <1>1, <1>4, <1>9, Sizes DEF b
  <2>3. \A t \in 1..b : t \in 1..Len(threads) \/ t = b
    BY <2>1, <2>2
  <2>4. \A t \in DOMAIN threads' : /\ threads'[t].up \in 0..b
                                   /\ threads'[t].branch \in 0..Len(branches)
                                   /\ threads'[t].excobj \in 0..Len(excs)
    BY <1>4, <2>1, <2>2, <2>3 DEF Refers
  <2> QED
    BY <1>4, <2>1, <2>2, <2>4 DEF Refers
<1>13. Typed'
  BY <1>1, <1>3, <1>4, <1>5, <1>12 DEF Typed
<1> QED
  BY <1>8, <1>11, <1>13 DEF PInv

\* The last of the blocks that are open is made anew, in its place.
LEMMA Swapped ==
  ASSUME PInv, phase = "parse", opener # <<>>,
         NEW b, b = Len(threads) + 1, cur_thr' = b, UNCHANGED <<opener, end_vector>>,
         NEW r \in Thread, threads' = Append(threads, r), r.up = Cur.up,
         SameThr(excs, excs'), excs' \in Seq(Exc), Around(excs', r.up, r.excobj)
  PROVE  /\ Chain(threads', Written') /\ Notes(threads', excs', end_vector', Written')
         /\ opener' \in Seq(DOMAIN threads')
<1>1. Typed /\ Chain(threads, Written) /\ Notes(threads, excs, end_vector, Written)
  BY DEF PInv
<1>2. Cur.up = opener[Len(opener)] /\ Len(opener) \in 1..Len(opener)
  BY CurFacts
<1>3. /\ threads' \in Seq(Thread) /\ Len(threads') = b /\ DOMAIN threads' = 1..b /\ threads'[b] = r
      /\ \A t \in 1..Len(threads) : threads'[t] = threads[t]
      /\ 1..Len(threads) \subseteq 1..b /\ b \in 1..b /\ b > Len(threads) /\ b \in Nat
      /\ Keeps(threads, threads', 0) /\ SameNotes(threads, threads', 0)
  BY <1>1, Appended
<1>4. /\ opener \in Seq(DOMAIN threads) /\ Len(Written) = Len(opener) + 1
      /\ \A k \in 1..Len(opener) : Written[k] = opener[k]
      /\ Len(opener) \in Nat
  BY <1>1, Sizes, WrittenFacts DEF Typed
<1>5. opener \in Seq(DOMAIN threads')
  BY <1>1, <1>3, <1>4, Sizes
<1>6. Written' = Append(opener, b)
  BY DEF Written
<1>7. /\ Written' \in Seq(DOMAIN threads') /\ Len(Written') = Len(opener) + 1
       /\ Written'[Len(opener) + 1] = b
       /\ \A k \in 1..Len(opener) : Written'[k] = opener[k]
  BY <1>3, <1>5, <1>6, Pushed
<1>8. /\ Len(Written') = Len(Written) /\ Len(Written) > 1 /\ Written'[Len(Written)] = b
       /\ Len(Written) - 1 = Len(opener)
       /\ \A k \in 1..(Len(Written)-1) : Written'[k] = Written[k]
  BY <1>2, <1>4, <1>7
<1>9. threads'[b].up = Written[Len(Written)-1]
  BY <1>2, <1>3, <1>4, <1>8
<1>10. Chain(threads', Written')
  BY <1>1, <1>3, <1>7, <1>8, <1>9, Sizes, SwapChain
<1>11. Around(excs', threads'[b].up, threads'[b].excobj)
  BY <1>3
<1>12. Notes(threads', excs', end_vector, Written')
  BY <1>1, <1>3, <1>8, <1>11, Sizes, NotesSwap
<1> QED
  BY <1>5, <1>10, <1>12

\* A rescue takes the place of the body, with the same exception object.
LEMMA RescueEffect ==
  ASSUME PInv, Typed, phase = "parse", parse_rescue, phase' # "crash",
         NEW b, b = Len(threads) + 1, NEW x, x = Cur.excobj, NEW r, r = NewRescue(x)
  PROVE  /\ x # 0 /\ cur_thr' = b /\ UNCHANGED <<branches, methods, phase, end_vector, opener>>
         /\ opener # <<>>
         /\ excs[x].thr = Cur.up /\ x \in 1..Len(excs) /\ Cur.up = opener[Len(opener)]
         /\ Cur.up \in 1..Len(threads)
         /\ r \in Thread /\ r.up = Cur.up /\ r.branch \in 0..Len(branches) /\ r.excobj = x
         /\ threads' \in Seq(Thread) /\ Len(threads') = b /\ DOMAIN threads' = 1..b
         /\ threads'[b] = r /\ \A t \in 1..Len(threads) : threads'[t] = threads[t]
         /\ 1..Len(threads) \subseteq 1..b /\ b \in 1..b /\ b > Len(threads) /\ b \in Nat
         /\ excs' \in Seq(Exc) /\ Len(excs') = Len(excs) /\ DOMAIN excs' = DOMAIN excs
         /\ \A y \in 1..Len(excs) :
              /\ excs'[y].thr = excs[y].thr /\ excs'[y].body_thr = excs[y].body_thr
              /\ excs'[y].rescue_thr = IF y = x THEN b ELSE excs[y].rescue_thr
<1>1. /\ x # 0 /\ threads' = Append(threads, r) /\ excs' = [excs EXCEPT ![x].rescue_thr = b]
      /\ cur_thr' = b /\ UNCHANGED <<branches, methods, phase, end_vector, opener>>
  BY DEF parse_rescue, Stop
<1>2. opener # <<>>
  BY <1>1, CurFacts
<1>3. /\ excs[x].thr = Cur.up /\ x \in 1..Len(excs) /\ Cur.up = opener[Len(opener)]
      /\ Cur.up \in 1..Len(threads) /\ Len(opener) \in 1..Len(opener)
  BY <1>2, <1>1, CurFacts
<1>4. /\ r \in Thread /\ r.up = Cur.up /\ r.branch \in 0..Len(branches) /\ r.excobj = x
  <2>1. x \in Nat /\ Cur.up \in DOMAIN threads
    BY <1>3, Sizes
  <2> QED
    BY <1>3, <2>1, ExcobjField, NewThread DEF NewRescue
<1>5. /\ threads' \in Seq(Thread) /\ Len(threads') = b /\ DOMAIN threads' = 1..b /\ threads'[b] = r
      /\ \A t \in 1..Len(threads) : threads'[t] = threads[t]
      /\ 1..Len(threads) \subseteq 1..b /\ b \in 1..b /\ b > Len(threads) /\ b \in Nat
      /\ Keeps(threads, threads', 0) /\ SameNotes(threads, threads', 0)
  BY <1>4, <1>1, Appended
<1>6. /\ excs' \in Seq(Exc) /\ Len(excs') = Len(excs) /\ DOMAIN excs' = DOMAIN excs
      /\ \A y \in 1..Len(excs) : /\ excs'[y].thr = excs[y].thr
                                 /\ excs'[y].body_thr = excs[y].body_thr
                                 /\ excs'[y].rescue_thr = IF y = x THEN b ELSE excs[y].rescue_thr
  <2>1. excs[x] \in Exc /\ excs \in Seq(Exc)
    BY <1>3, Sizes
  <2> DEFINE e == [excs[x] EXCEPT !.rescue_thr = b]
  <2>2. e \in Exc /\ e.thr = excs[x].thr /\ e.body_thr = excs[x].body_thr /\ e.rescue_thr = b
    BY <1>5, <2>1, ExcField
  <2>3. excs' = [excs EXCEPT ![x] = e]
    BY <1>1
  <2> HIDE DEF e
  <2>4. /\ excs' \in Seq(Exc) /\ Len(excs') = Len(excs) /\ DOMAIN excs' = DOMAIN excs
        /\ \A y \in 1..Len(excs) : excs'[y] = IF y = x THEN e ELSE excs[y]
    BY <1>3, <2>1, <2>2, <2>3
  <2> QED
    BY <2>2, <2>4
<1> QED
  BY <1>2, <1>3, <1>4, <1>5, <1>6, <1>1

LEMMA RescueStep ==
  ASSUME PInv, parse_rescue
  PROVE  PInv'
<1> DEFINE b == Len(threads) + 1
           x == Cur.excobj
           r == NewRescue(x)
<1>1. Typed /\ phase = "parse"
  BY DEF PInv, parse_rescue, Read
<1>2. Chain(threads, Written) /\ Notes(threads, excs, end_vector, Written)
  BY <1>1 DEF PInv
<1>3. input' \in Seq(Token) /\ script' = script
  BY <1>1, Reads DEF parse_rescue
<1>4. CASE x = 0 /\ Stop("crash")
  <2>1. UNCHANGED <<threads, branches, excs, cur_thr, methods, end_vector, opener>> /\ phase' = "crash"
    BY <1>4 DEF Stop, heap
  <2> QED
    BY <1>1, <1>3, <2>1 DEF Typed, PInv
<1>5. CASE phase' # "crash"
  <2>1. /\ x # 0 /\ cur_thr' = b /\ UNCHANGED <<branches, methods, phase, end_vector, opener>>
        /\ threads' = Append(threads, r)
        /\ opener # <<>>
        /\ excs[x].thr = Cur.up /\ x \in 1..Len(excs) /\ Cur.up = opener[Len(opener)]
        /\ Cur.up \in 1..Len(threads)
        /\ r \in Thread /\ r.up = Cur.up /\ r.branch \in 0..Len(branches) /\ r.excobj = x
        /\ threads' \in Seq(Thread) /\ Len(threads') = b /\ DOMAIN threads' = 1..b
        /\ threads'[b] = r /\ \A t \in 1..Len(threads) : threads'[t] = threads[t]
        /\ 1..Len(threads) \subseteq 1..b /\ b \in 1..b /\ b > Len(threads) /\ b \in Nat
        /\ excs' \in Seq(Exc) /\ Len(excs') = Len(excs) /\ DOMAIN excs' = DOMAIN excs
        /\ \A y \in 1..Len(excs) :
             /\ excs'[y].thr = excs[y].thr /\ excs'[y].body_thr = excs[y].body_thr
             /\ excs'[y].rescue_thr = IF y = x THEN b ELSE excs[y].rescue_thr
    BY <1>1, <1>5, RescueEffect DEF parse_rescue, Stop
  <2> HIDE DEF b, x, r
  <2>6. SameThr(excs, excs')
    BY <1>1, <2>1, Sizes DEF SameThr
  <2>7. excs' \in Seq(Exc) /\ Around(excs', r.up, r.excobj)
    BY <2>1 DEF Around
  <2>8. /\ Chain(threads', Written') /\ Notes(threads', excs', end_vector', Written')
        /\ opener' \in Seq(DOMAIN threads')
    BY <1>1, <2>1, <2>6, <2>7, Swapped DEF b
  <2>16. Refers(threads', branches', excs', methods')
    <3>1. Refers(threads, branches, excs, methods) /\ Len(threads) \in Nat /\ Len(excs) \in Nat
      BY <1>1, Sizes DEF Typed
    <3>2. DOMAIN threads = 1..Len(threads) /\ Len(threads) + 1 = b /\ DOMAIN excs = 1..Len(excs)
      BY <1>1, Sizes DEF b
    <3>3. \A t \in 1..b : t \in 1..Len(threads) \/ t = b
      BY <3>1, <3>2
    <3>4. \A t \in DOMAIN threads' : /\ threads'[t].up \in 0..b
                                     /\ threads'[t].branch \in 0..Len(branches)
                                     /\ threads'[t].excobj \in 0..Len(excs)
      BY <2>1, <3>1, <3>2, <3>3 DEF Refers
    <3>5. ASSUME NEW y \in DOMAIN excs'
          PROVE  /\ excs'[y].thr \in 1..b /\ excs'[y].body_thr \in 1..b
                 /\ excs'[y].rescue_thr \in 0..b /\ excs'[y].thr < excs'[y].body_thr
      <4>1. /\ excs[y].thr \in 1..Len(threads) /\ excs[y].body_thr \in 1..Len(threads)
            /\ excs[y].rescue_thr \in 0..Len(threads) /\ excs[y].thr < excs[y].body_thr
        BY <2>1, <3>1 DEF Refers
      <4>2. y \in 1..Len(excs) /\ 0..Len(threads) \subseteq 0..b /\ b \in 0..b
        BY <2>1, <3>1, <3>2
      <4> QED
        BY <2>1, <4>1, <4>2
    <3>6. /\ \A c \in DOMAIN branches' : branches'[c].cond_true \in 1..b /\ branches'[c].cond_false \in 0..b
          /\ \A n \in Name : methods'[n] \in 0..b
      BY <2>1, <3>1, <3>2 DEF Refers
    <3> QED
      BY <2>1, <3>4, <3>5, <3>6 DEF Refers
  <2>17. Typed'
    BY <1>1, <1>3, <2>1, <2>8, <2>16 DEF Typed
  <2> QED
    BY <2>8, <2>17 DEF PInv
<1>6. (x = 0 /\ Stop("crash")) \/ phase' # "crash"
  BY <1>1 DEF parse_rescue
<1> QED
  BY <1>4, <1>5, <1>6

\* A branch is a cell of the thread around, with a thread for its first side.
LEMMA IfEffect ==
  ASSUME Typed, parse_if, NEW b, b = Len(threads) + 1, NEW d, d = Len(branches) + 1
  PROVE  /\ Open("end_if") /\ UNCHANGED <<excs, methods, phase>> /\ cur_thr' = b
         /\ d # 0 /\ b \in Nat /\ cur_thr \in 1..Len(threads)
         /\ 1..Len(threads) \subseteq 1..b /\ b \in 1..b /\ b > Len(threads)
         /\ threads' \in Seq(Thread) /\ Len(threads') = b /\ DOMAIN threads' = 1..b
         /\ \A t \in 1..Len(threads) : /\ threads'[t].up = threads[t].up
                                       /\ threads'[t].branch = threads[t].branch
                                       /\ threads'[t].excobj = threads[t].excobj
                                       /\ threads'[t].callsym = threads[t].callsym
         /\ threads'[b].up = cur_thr /\ threads'[b].branch = d /\ threads'[b].excobj = 0
         /\ branches' \in Seq(Branch) /\ Len(branches') = d /\ DOMAIN branches' = 1..d
         /\ \A k \in 1..Len(branches) : branches'[k] = branches[k]
         /\ branches'[d].cond_true = b /\ branches'[d].cond_false = 0
<1> DEFINE c == Cell("branch", d)
           T == push_cell(threads, cur_thr, c)
           r == [thread_new(cur_thr) EXCEPT !.branch = d]
           br == [cond_true |-> b, cond_false |-> 0, loop |-> Head(input).tok # "if",
                  always |-> Head(input).tok = "loop"]
<1>1. /\ branches' = Append(branches, br) /\ threads' = Append(T, r) /\ cur_thr' = b
      /\ Open("end_if") /\ UNCHANGED <<excs, methods, phase>>
  BY DEF parse_if
<1>2. /\ d \in Nat /\ d # 0 /\ b \in Nat /\ b # 0 /\ cur_thr \in DOMAIN threads
      /\ cur_thr \in 1..Len(threads) /\ Len(threads) \in Nat /\ Len(branches) \in Nat
  BY Sizes
<1>3. r \in Thread /\ r.up = cur_thr /\ r.branch = d /\ r.excobj = 0
  BY <1>2, BranchField, NewThread
<1>4. c \in CellRec
  BY <1>2 DEF Cell, CellRec
<1>5. br \in Branch
  BY <1>2 DEF Branch
<1> HIDE DEF r, c
<1>6. /\ T \in Seq(Thread) /\ Len(T) = Len(threads)
      /\ \A k \in 1..Len(threads) : /\ T[k].up = threads[k].up
                                    /\ T[k].branch = threads[k].branch
                                    /\ T[k].excobj = threads[k].excobj
                                    /\ T[k].callsym = threads[k].callsym
  BY <1>2, <1>4, Sizes, CellPushed
<1> HIDE DEF T
<1>7. /\ threads' \in Seq(Thread) /\ Len(threads') = b /\ DOMAIN threads' = 1..b /\ threads'[b] = r
       /\ \A t \in 1..Len(threads) : threads'[t] = T[t]
  BY <1>1, <1>3, <1>6, Pushed
<1>8. /\ branches' \in Seq(Branch) /\ Len(branches') = d /\ DOMAIN branches' = 1..d
       /\ branches'[d] = br
       /\ \A k \in 1..Len(branches) : branches'[k] = branches[k]
  BY <1>1, <1>5, Pushed, Sizes
<1>9. br.cond_true = b /\ br.cond_false = 0
  OBVIOUS
<1> HIDE DEF br
<1>10. 1..Len(threads) \subseteq 1..b /\ b \in 1..b /\ b > Len(threads)
  BY <1>2
<1>11. \A t \in 1..Len(threads) : /\ threads'[t].up = threads[t].up
                                  /\ threads'[t].branch = threads[t].branch
                                  /\ threads'[t].excobj = threads[t].excobj
                                  /\ threads'[t].callsym = threads[t].callsym
  BY <1>6, <1>7
<1> QED
  BY <1>1, <1>2, <1>3, <1>7, <1>8, <1>9, <1>10, <1>11

LEMMA IfStep ==
  ASSUME PInv, parse_if
  PROVE  PInv'
<1> DEFINE d == Len(branches) + 1
           b == Len(threads) + 1
<1>1. Typed /\ phase = "parse"
  BY DEF PInv, parse_if, Read
<1>2. Chain(threads, Written) /\ Notes(threads, excs, end_vector, Written)
  BY <1>1 DEF PInv
<1>3. input' \in Seq(Token) /\ script' = script
  BY <1>1, Reads DEF parse_if
<1>4. /\ Open("end_if") /\ UNCHANGED <<excs, methods, phase>> /\ cur_thr' = b
      /\ d # 0 /\ b \in Nat /\ cur_thr \in 1..Len(threads)
      /\ 1..Len(threads) \subseteq 1..b /\ b \in 1..b /\ b > Len(threads)
      /\ threads' \in Seq(Thread) /\ Len(threads') = b /\ DOMAIN threads' = 1..b
      /\ \A t \in 1..Len(threads) : /\ threads'[t].up = threads[t].up
                                    /\ threads'[t].branch = threads[t].branch
                                    /\ threads'[t].excobj = threads[t].excobj
      /\ threads'[b].up = cur_thr /\ threads'[b].branch = d /\ threads'[b].excobj = 0
      /\ branches' \in Seq(Branch) /\ Len(branches') = d /\ DOMAIN branches' = 1..d
      /\ \A k \in 1..Len(branches) : branches'[k] = branches[k]
      /\ branches'[d].cond_true = b /\ branches'[d].cond_false = 0
  BY <1>1, IfEffect
<1>5. cur_thr \in DOMAIN threads /\ Len(threads) \in Nat /\ Len(branches) \in Nat
  BY <1>1, Sizes
<1>6. Keeps(threads, threads', 0) /\ SameNotes(threads, threads', 0)
  BY <1>4, <1>5 DEF Keeps, SameNotes
<1>7. /\ Written' = Append(Written, b)
       /\ end_vector' = Append(end_vector, "end_if") /\ end_vector' \in Seq(EndFn)
       /\ opener' \in Seq(DOMAIN threads') /\ Len(end_vector') = Len(opener')
  BY <1>1, <1>4, Opened, Sizes DEF EndFn
<1>8. SameThr(excs, excs') /\ excs' = excs
  BY <1>1, <1>4, Sizes DEF SameThr
<1>9. Len(Written) = Len(opener) + 1 /\ Written[Len(Written)] = cur_thr
  BY <1>1, WrittenFacts
<1>10. Chain(threads', Written')
  BY <1>1, <1>2, <1>4, <1>6, <1>7, <1>9, Sizes, PushChain
<1>11. threads'[cur_thr].excobj = threads[cur_thr].excobj
  BY <1>4, <1>5
<1>12. Around(excs', threads'[b].up, threads'[b].excobj) /\ SameNotes(threads, threads', cur_thr)
  BY <1>4, <1>5, <1>6 DEF Around, SameNotes
<1>13. Notes(threads', excs', end_vector', Written')
  <2>1. end_vector \in Seq(EndFn) /\ "end_if" \in EndFn /\ "end_if" # "end_begin"
    BY <1>1 DEF Typed, EndFn
  <2> QED
    BY <1>1, <1>2, <1>7, <1>8, <1>9, <1>11, <1>12, <2>1, Sizes, NotesPush
<1> HIDE DEF b, d
<1>14. Refers(threads', branches', excs', methods')
  <2>1. Refers(threads, branches, excs, methods) /\ Len(excs) \in Nat
    BY <1>1, Sizes DEF Typed
  <2>2. /\ DOMAIN threads = 1..Len(threads) /\ Len(threads) + 1 = b /\ cur_thr \in 0..b
        /\ DOMAIN branches = 1..Len(branches) /\ Len(branches) + 1 = d
    BY <1>1, <1>5, Sizes DEF b, d
  <2>3. /\ \A t \in 1..b : t \in 1..Len(threads) \/ t = b
        /\ \A t \in 1..d : t \in 1..Len(branches) \/ t = d
    BY <1>5, <2>2
  <2>4. \A t \in DOMAIN threads' : /\ threads'[t].up \in 0..b
                                   /\ threads'[t].branch \in 0..d
                                   /\ threads'[t].excobj \in 0..Len(excs)
    BY <1>4, <1>5, <2>1, <2>2, <2>3 DEF Refers
  <2>5. \A k \in DOMAIN branches' : branches'[k].cond_true \in 1..b /\ branches'[k].cond_false \in 0..b
    BY <1>4, <1>5, <2>1, <2>2, <2>3 DEF Refers
  <2>6. /\ \A y \in DOMAIN excs' : /\ excs'[y].thr \in 1..b /\ excs'[y].body_thr \in 1..b
                                   /\ excs'[y].rescue_thr \in 0..b /\ excs'[y].thr < excs'[y].body_thr
        /\ \A n \in Name : methods'[n] \in 0..b
    BY <1>4, <1>5, <2>1, <2>2 DEF Refers
  <2> QED
    BY <1>4, <2>4, <2>5, <2>6 DEF Refers
<1>15. Typed'
  BY <1>1, <1>3, <1>4, <1>7, <1>14 DEF Typed
<1> QED
  BY <1>10, <1>13, <1>15 DEF PInv

\* An else takes the place of the first side, with the same branch.
LEMMA ElseEffect ==
  ASSUME PInv, Typed, phase = "parse",
         NEW b, b = Len(threads) + 1, NEW d, d = Cur.branch, d # 0,
         NEW r, r = NewSide, threads' = Append(threads, r), branches' = WithSide(d, b)
  PROVE  /\ opener # <<>> /\ Cur.up \in 1..Len(threads) /\ d \in 1..Len(branches)
         /\ r \in Thread /\ r.up = Cur.up /\ r.branch = d /\ r.excobj = 0
         /\ threads' \in Seq(Thread) /\ Len(threads') = b /\ DOMAIN threads' = 1..b
         /\ threads'[b] = r /\ \A t \in 1..Len(threads) : threads'[t] = threads[t]
         /\ 1..Len(threads) \subseteq 1..b /\ b \in 1..b /\ b > Len(threads) /\ b \in Nat
         /\ branches' \in Seq(Branch) /\ Len(branches') = Len(branches)
         /\ DOMAIN branches' = DOMAIN branches
         /\ \A k \in 1..Len(branches) :
              /\ branches'[k].cond_true = branches[k].cond_true
              /\ branches'[k].cond_false = IF k = d THEN b ELSE branches[k].cond_false
<1>1. opener # <<>>
  BY CurFacts
<1>2. Cur.up \in 1..Len(threads) /\ Cur.up \in DOMAIN threads
  BY <1>1, CurFacts, Sizes
<1>3. d \in 1..Len(branches) /\ d \in Nat
  <2>1. d \in 0..Len(branches)
    BY DEF Typed, Refers, Cur
  <2> QED
    BY <2>1, Sizes
<1>4. r \in Thread /\ r.up = Cur.up /\ r.branch = d /\ r.excobj = 0
  BY <1>2, <1>3, BranchField, NewThread DEF NewSide
<1>5. /\ threads' \in Seq(Thread) /\ Len(threads') = b /\ DOMAIN threads' = 1..b /\ threads'[b] = r
      /\ \A t \in 1..Len(threads) : threads'[t] = threads[t]
      /\ 1..Len(threads) \subseteq 1..b /\ b \in 1..b /\ b > Len(threads) /\ b \in Nat
  BY <1>4, Appended
<1>6. /\ branches' \in Seq(Branch) /\ Len(branches') = Len(branches) /\ DOMAIN branches' = DOMAIN branches
      /\ \A k \in 1..Len(branches) : /\ branches'[k].cond_true = branches[k].cond_true
                                     /\ branches'[k].cond_false = IF k = d THEN b ELSE branches[k].cond_false
  <2> DEFINE e == [branches[d] EXCEPT !.cond_false = b]
  <2>1. branches[d] \in Branch /\ branches \in Seq(Branch)
    BY <1>3, Sizes
  <2>2. e \in Branch /\ e.cond_true = branches[d].cond_true /\ e.cond_false = b
    BY <1>5, <2>1 DEF Branch
  <2>3. branches' = [branches EXCEPT ![d] = e]
    BY DEF WithSide
  <2> HIDE DEF e
  <2>4. /\ branches' \in Seq(Branch) /\ Len(branches') = Len(branches) /\ DOMAIN branches' = DOMAIN branches
        /\ \A y \in 1..Len(branches) : branches'[y] = IF y = d THEN e ELSE branches[y]
    BY <1>3, <2>1, <2>2, <2>3
  <2> QED
    BY <2>2, <2>4
<1> QED
  BY <1>1, <1>2, <1>3, <1>4, <1>5, <1>6

LEMMA ElseStep ==
  ASSUME PInv, parse_else
  PROVE  PInv'
<1> DEFINE b == Len(threads) + 1
           r == NewSide
           d == Cur.branch
<1>1. Typed /\ phase = "parse"
  BY DEF PInv, parse_else, Read
<1>2. input' \in Seq(Token) /\ script' = script
  BY <1>1, Reads DEF parse_else
<1>3. CASE d = 0 /\ Stop("yyerror")
  <2>1. UNCHANGED <<threads, branches, excs, cur_thr, methods, end_vector, opener>> /\ phase' = "yyerror"
    BY <1>3 DEF Stop, heap
  <2> QED
    BY <1>1, <1>2, <2>1 DEF Typed, PInv
<1>4. CASE /\ d # 0 /\ threads' = Append(threads, r) /\ branches' = WithSide(d, b)
           /\ cur_thr' = b /\ UNCHANGED <<excs, methods, phase, end_vector, opener>>
  <2>1. /\ opener # <<>> /\ Cur.up \in 1..Len(threads) /\ d \in 1..Len(branches)
        /\ r \in Thread /\ r.up = Cur.up /\ r.branch = d /\ r.excobj = 0
        /\ threads' \in Seq(Thread) /\ Len(threads') = b /\ DOMAIN threads' = 1..b
        /\ threads'[b] = r /\ \A t \in 1..Len(threads) : threads'[t] = threads[t]
        /\ 1..Len(threads) \subseteq 1..b /\ b \in 1..b /\ b > Len(threads) /\ b \in Nat
        /\ branches' \in Seq(Branch) /\ Len(branches') = Len(branches)
        /\ DOMAIN branches' = DOMAIN branches
        /\ \A k \in 1..Len(branches) :
             /\ branches'[k].cond_true = branches[k].cond_true
             /\ branches'[k].cond_false = IF k = d THEN b ELSE branches[k].cond_false
    BY <1>1, <1>4, ElseEffect
  <2> HIDE DEF r, b, d
  <2>7. excs' = excs /\ SameThr(excs, excs') /\ excs' \in Seq(Exc) /\ Around(excs', r.up, r.excobj)
    BY <1>1, <1>4, <2>1, Sizes DEF SameThr, Around
  <2>8. /\ Chain(threads', Written') /\ Notes(threads', excs', end_vector', Written')
        /\ opener' \in Seq(DOMAIN threads')
    BY <1>1, <1>4, <2>1, <2>7, Swapped DEF b
  <2>9. Refers(threads', branches', excs', methods')
    <3>1. Refers(threads, branches, excs, methods) /\ Len(threads) \in Nat /\ Len(branches) \in Nat
      BY <1>1, Sizes DEF Typed
    <3>2. /\ DOMAIN threads = 1..Len(threads) /\ Len(threads) + 1 = b
          /\ DOMAIN branches = 1..Len(branches)
      BY <1>1, Sizes DEF b
    <3>3. \A t \in 1..b : t \in 1..Len(threads) \/ t = b
      BY <3>1, <3>2
    <3>4. \A t \in DOMAIN threads' : /\ threads'[t].up \in 0..b
                                     /\ threads'[t].branch \in 0..Len(branches)
                                     /\ threads'[t].excobj \in 0..Len(excs)
      BY <1>1, <2>1, <3>1, <3>2, <3>3, Sizes DEF Refers
    <3>5. ASSUME NEW k \in DOMAIN branches'
          PROVE  branches'[k].cond_true \in 1..b /\ branches'[k].cond_false \in 0..b
      <4>1. branches[k].cond_true \in 1..Len(threads) /\ branches[k].cond_false \in 0..Len(threads)
        BY <2>1, <3>1 DEF Refers
      <4>2. k \in 1..Len(branches) /\ 0..Len(threads) \subseteq 0..b /\ b \in 0..b
        BY <2>1, <3>1, <3>2
      <4> QED
        BY <2>1, <4>1, <4>2
    <3>6. /\ \A y \in DOMAIN excs' : /\ excs'[y].thr \in 1..b /\ excs'[y].body_thr \in 1..b
                                     /\ excs'[y].rescue_thr \in 0..b /\ excs'[y].thr < excs'[y].body_thr
          /\ \A n \in Name : methods'[n] \in 0..b
      BY <1>4, <2>1, <3>1, <3>2 DEF Refers
    <3> QED
      BY <1>4, <2>1, <3>4, <3>5, <3>6 DEF Refers
  <2>10. Typed'
    BY <1>1, <1>2, <1>4, <2>1, <2>8, <2>9 DEF Typed
  <2> QED
    BY <1>4, <2>8, <2>10 DEF PInv
<1> QED
  BY <1>3, <1>4 DEF parse_else

\* The block around the one that is written, and what is noted in it.
LEMMA Outer ==
  ASSUME PInv, phase = "parse", end_vector # <<>>
  PROVE  /\ opener # <<>> /\ Len(opener) \in 1..Len(opener) /\ Cur.up = opener[Len(opener)]
         /\ Cur.up \in 1..Len(threads) /\ Cur.up < cur_thr /\ Last(end_vector) \in EndFn
         /\ Written[Len(opener)] = Cur.up
         /\ Last(end_vector) = "end_begin" => Own(excs, Cur.up, threads[Cur.up].excobj)
         /\ Last(end_vector) # "end_begin"
              => Around(excs, threads[Cur.up].up, threads[Cur.up].excobj)
<1>1. /\ Typed /\ Notes(threads, excs, end_vector, Written) /\ end_vector \in Seq(EndFn)
      /\ opener \in Seq(DOMAIN threads) /\ Len(opener) = Len(end_vector)
  BY DEF PInv, Typed
<1>2. Last(end_vector) = end_vector[Len(opener)] /\ Last(end_vector) \in EndFn /\ Len(opener) \in Nat \ {0}
  BY <1>1, Popped
<1>3. opener # <<>>
  BY <1>1, <1>2
<1>4. /\ Len(opener) \in 1..Len(opener) /\ Cur.up = opener[Len(opener)]
      /\ Cur.up \in 1..Len(threads) /\ Cur.up < cur_thr
  BY <1>3, CurFacts
<1>5. Written[Len(opener)] = Cur.up /\ Len(Written) = Len(opener) + 1
  BY <1>1, <1>4, WrittenFacts
<1>6. Len(opener) \in 1..Len(Written) /\ Len(opener) \in 1..Len(end_vector)
  BY <1>1, <1>2, <1>5
<1> QED
  BY <1>1, <1>2, <1>3, <1>4, <1>5, <1>6 DEF Notes

\* What every `end' of a block does to the nest.
LEMMA EndsBlock ==
  ASSUME PInv, phase = "parse", end_vector # <<>>, Close, cur_thr' = Cur.up,
         threads' \in Seq(Thread), Len(threads') = Len(threads),
         Keeps(threads, threads', cur_thr),
         \A t \in 1..Len(threads) : t < Cur.up => /\ threads'[t].up = threads[t].up
                                                  /\ threads'[t].excobj = threads[t].excobj,
         Around(excs, threads'[Cur.up].up, threads'[Cur.up].excobj)
  PROVE  /\ Chain(threads', Written') /\ Notes(threads', excs, end_vector', Written')
         /\ opener' \in Seq(DOMAIN threads') /\ end_vector' \in Seq(EndFn)
         /\ Len(end_vector') = Len(opener') /\ cur_thr' \in DOMAIN threads'
<1> DEFINE n == Len(opener)
<1>1. /\ Typed /\ Chain(threads, Written) /\ Notes(threads, excs, end_vector, Written)
      /\ end_vector \in Seq(EndFn) /\ opener \in Seq(DOMAIN threads) /\ n = Len(end_vector)
      /\ threads \in Seq(Thread) /\ excs \in Seq(Exc)
  BY DEF PInv, Typed
<1>2. /\ opener # <<>> /\ n \in 1..n /\ Cur.up = opener[n] /\ Cur.up \in 1..Len(threads)
      /\ Written[n] = Cur.up
  BY Outer
<1>3. /\ opener' = Front(opener) /\ end_vector' = Front(end_vector)
  BY DEF Close
<1>4. DOMAIN threads' = DOMAIN threads /\ DOMAIN threads = 1..Len(threads)
  BY <1>1
<1>5. /\ opener' \in Seq(DOMAIN threads) /\ Len(opener') = n - 1 /\ n \in Nat \ {0}
      /\ \A k \in 1..(n-1) : opener'[k] = opener[k]
  BY <1>1, <1>2, <1>3, Popped
<1>6. /\ end_vector' \in Seq(EndFn) /\ Len(end_vector') = n - 1
      /\ \A k \in 1..(n-1) : end_vector'[k] = end_vector[k]
  BY <1>1, <1>3, Popped
<1>7. Written' = Append(opener', Cur.up)
  BY DEF Written
<1>8. /\ Written' \in Seq(DOMAIN threads) /\ Len(Written') = n
      /\ Written'[n] = Cur.up /\ \A k \in 1..(n-1) : Written'[k] = opener'[k]
  BY <1>2, <1>4, <1>5, <1>7, Pushed
<1>9. /\ Len(Written) = n + 1 /\ Written[n+1] = cur_thr /\ \A k \in 1..n : Written[k] = opener[k]
  BY <1>1, WrittenFacts
<1>10. \A k \in 1..n : Written'[k] = Written[k]
  <2>1. \A k \in 1..n : k \in 1..(n-1) \/ k = n
    BY <1>5
  <2> QED
    BY <1>2, <1>5, <1>8, <1>9, <2>1
<1>11. Len(Written) > 1 /\ Len(Written') = Len(Written) - 1 /\ Len(Written) - 1 = n
  BY <1>5, <1>8, <1>9
<1>12. Chain(threads', Written')
  BY <1>1, <1>8, <1>9, <1>10, <1>11, PopChain
<1>13. \A k \in 1..(n-1) : /\ threads'[Written[k]].up = threads[Written[k]].up
                           /\ threads'[Written[k]].excobj = threads[Written[k]].excobj
  <2>1. \A k \in 1..(n-1) : k \in 1..Len(Written) /\ n \in 1..Len(Written) /\ k < n
    BY <1>5, <1>9
  <2>2. \A k \in 1..(n-1) : Written[k] < Cur.up /\ Written[k] \in 1..Len(threads)
    BY <1>1, <1>2, <2>1, ChainFacts DEF Chain
  <2> QED
    BY <2>2
<1>14. Notes(threads', excs, end_vector', Written')
  BY <1>1, <1>2, <1>6, <1>10, <1>11, <1>13, NotesPop
<1> QED
  BY <1>2, <1>4, <1>5, <1>6, <1>12, <1>14

LEMMA IfEndStep ==
  ASSUME PInv, Read({"end"}), end_vector # <<>>, Close, end_if
  PROVE  PInv'
<1>1. Typed /\ phase = "parse" /\ input' \in Seq(Token) /\ script' = script
  BY Reads DEF PInv, Read
<1>2. /\ UNCHANGED <<threads, branches, excs, methods>> /\ cur_thr' = Cur.up
      /\ Last(end_vector) # "end_begin" /\ phase' \in {"parse", "yyerror"}
  BY <1>1 DEF end_if
<1>3. threads' \in Seq(Thread) /\ Keeps(threads, threads', cur_thr) /\ Len(threads) \in Nat
  BY <1>1, <1>2, Sizes DEF Keeps
<1>4. Around(excs, threads'[Cur.up].up, threads'[Cur.up].excobj)
  BY <1>1, <1>2, Outer
<1>5. /\ Chain(threads', Written') /\ Notes(threads', excs, end_vector', Written')
      /\ opener' \in Seq(DOMAIN threads') /\ end_vector' \in Seq(EndFn)
      /\ Len(end_vector') = Len(opener') /\ cur_thr' \in DOMAIN threads'
  BY <1>1, <1>2, <1>3, <1>4, EndsBlock
<1>6. Typed'
  BY <1>1, <1>2, <1>5 DEF Typed
<1> QED
  BY <1>2, <1>5, <1>6 DEF PInv

\* The thread of the method is left, and not changed but for its `up'.
LEMMA DefineEndEffect ==
  ASSUME Typed, end_define
  PROVE  /\ UNCHANGED <<branches, excs>> /\ cur_thr' = Cur.up /\ Last(end_vector) = "end_define"
         /\ threads' \in Seq(Thread) /\ Len(threads') = Len(threads)
         /\ \A t \in 1..Len(threads) : /\ t # cur_thr => threads'[t] = threads[t]
                                       /\ threads'[t].branch = threads[t].branch
                                       /\ threads'[t].excobj = threads[t].excobj
                                       /\ threads'[t].callsym = threads[t].callsym
         /\ threads'[cur_thr].up = 0
         /\ phase' = IF Cur.callsym = NoName THEN "fail" ELSE phase
         /\ methods' \in {methods, [methods EXCEPT ![Cur.callsym] = cur_thr]}
<1> DEFINE r == [threads[cur_thr] EXCEPT !.up = 0]
<1>1. /\ UNCHANGED <<branches, excs>> /\ threads' = [threads EXCEPT ![cur_thr] = r] /\ cur_thr' = Cur.up
      /\ Last(end_vector) = "end_define"
      /\ phase' = IF Cur.callsym = NoName THEN "fail" ELSE phase
      /\ methods' \in {methods, [methods EXCEPT ![Cur.callsym] = cur_thr]}
  BY DEF end_define
<1>2. /\ cur_thr \in 1..Len(threads) /\ threads \in Seq(Thread) /\ Len(threads) \in Nat
      /\ DOMAIN threads = 1..Len(threads) /\ threads[cur_thr] \in Thread
  BY Sizes
<1>3. r \in Thread /\ r.up = 0 /\ r.branch = threads[cur_thr].branch /\ r.excobj = threads[cur_thr].excobj
      /\ r.callsym = threads[cur_thr].callsym
  BY <1>2, UpField
<1> HIDE DEF r
<1>4. /\ threads' \in Seq(Thread) /\ Len(threads') = Len(threads) /\ DOMAIN threads' = DOMAIN threads
      /\ \A t \in 1..Len(threads) : threads'[t] = IF t = cur_thr THEN r ELSE threads[t]
  BY <1>1, <1>2, <1>3
<1> QED
  BY <1>1, <1>2, <1>3, <1>4

LEMMA DefineEndStep ==
  ASSUME PInv, Read({"end"}), end_vector # <<>>, Close, end_define
  PROVE  PInv'
<1>1. Typed /\ phase = "parse" /\ input' \in Seq(Token) /\ script' = script
  BY Reads DEF PInv, Read
<1>2. /\ UNCHANGED <<branches, excs>> /\ cur_thr' = Cur.up
      /\ Last(end_vector) # "end_begin" /\ phase' \in {"parse", "fail"}
      /\ threads' \in Seq(Thread) /\ Len(threads') = Len(threads)
      /\ \A t \in 1..Len(threads) : /\ t # cur_thr => threads'[t] = threads[t]
                                    /\ threads'[t].branch = threads[t].branch
                                    /\ threads'[t].excobj = threads[t].excobj
      /\ threads'[cur_thr].up = 0
      /\ \/ methods' = methods
         \/ methods' = [methods EXCEPT ![Cur.callsym] = cur_thr]
  BY <1>1, DefineEndEffect
<1>3. /\ cur_thr \in 1..Len(threads) /\ threads \in Seq(Thread) /\ Len(threads) \in Nat
      /\ DOMAIN threads = 1..Len(threads) /\ DOMAIN threads' = DOMAIN threads
  BY <1>1, <1>2, Sizes
<1>4. Keeps(threads, threads', cur_thr)
  BY <1>2, <1>3 DEF Keeps
<1>5. Cur.up \in 1..Len(threads) /\ Cur.up < cur_thr
  BY <1>1, Outer
<1>6. \A t \in 1..Len(threads) : t <= Cur.up => threads'[t] = threads[t]
  BY <1>2, <1>3, <1>5
<1>7. /\ \A t \in 1..Len(threads) : t < Cur.up => threads'[t] = threads[t]
      /\ threads'[Cur.up] = threads[Cur.up]
  BY <1>5, <1>6
<1>8. Around(excs, threads'[Cur.up].up, threads'[Cur.up].excobj)
  BY <1>1, <1>2, <1>7, Outer
<1>9. /\ Chain(threads', Written') /\ Notes(threads', excs, end_vector', Written')
       /\ opener' \in Seq(DOMAIN threads') /\ end_vector' \in Seq(EndFn)
       /\ Len(end_vector') = Len(opener') /\ cur_thr' \in DOMAIN threads'
  BY <1>1, <1>2, <1>4, <1>7, <1>8, EndsBlock
<1>10. methods' \in [Name -> Nat] /\ \A n \in Name : methods'[n] \in {methods[n], cur_thr}
  <2>1. methods \in [Name -> Nat] /\ cur_thr \in Nat
    BY <1>1, <1>3 DEF Typed
  <2>2. CASE methods' = methods
    BY <2>1, <2>2
  <2>3. CASE methods' = [methods EXCEPT ![Cur.callsym] = cur_thr]
    BY <2>1, <2>3
  <2> QED
    BY <1>2, <2>2, <2>3
<1>11. Refers(threads', branches', excs', methods')
  <2>1. Refers(threads, branches, excs, methods)
    BY <1>1 DEF Typed
  <2>2. \A t \in DOMAIN threads' : /\ threads'[t].up \in 0..Len(threads)
                                   /\ threads'[t].branch \in 0..Len(branches)
                                   /\ threads'[t].excobj \in 0..Len(excs)
    BY <1>2, <1>3, <2>1 DEF Refers
  <2>3. \A n \in Name : methods'[n] \in 0..Len(threads)
    BY <1>3, <1>10, <2>1 DEF Refers
  <2> QED
    BY <1>2, <2>1, <2>2, <2>3 DEF Refers
<1>12. Typed'
  BY <1>1, <1>2, <1>9, <1>10, <1>11 DEF Typed
<1> QED
  BY <1>2, <1>9, <1>12 DEF PInv

\* Where end_begin puts the note: from the thread of the begin to its body.
LEMMA NoteMoved ==
  ASSUME Typed, NEW u \in 1..Len(threads), NEW x, x = threads[u].excobj, Own(excs, u, x),
         NEW b, b = excs[x].body_thr, NEW M, M = MoveNote(u, x)
  PROVE  /\ x \in 1..Len(excs) /\ b \in 1..Len(threads) /\ u < b
         /\ M \in Seq(Thread) /\ Len(M) = Len(threads)
         /\ \A t \in 1..Len(threads) :
              /\ M[t].up = threads[t].up /\ M[t].branch = threads[t].branch
              /\ M[t].callsym = threads[t].callsym
              /\ M[t].excobj = IF t = u THEN 0 ELSE IF t = b THEN x ELSE threads[t].excobj
<1> DEFINE r == [threads[u] EXCEPT !.excobj = 0]
           s == [threads[b] EXCEPT !.excobj = x]
<1>1. /\ threads \in Seq(Thread) /\ Len(threads) \in Nat /\ DOMAIN threads = 1..Len(threads)
      /\ Len(excs) \in Nat /\ DOMAIN excs = 1..Len(excs)
  BY Sizes
<1>2. x \in 0..Len(excs) /\ x # 0 /\ excs[x].thr = u
  BY <1>1 DEF Own, Typed, Refers
<1>3. x \in 1..Len(excs) /\ x \in Nat
  BY <1>1, <1>2
<1>4. b \in 1..Len(threads) /\ u < b
  BY <1>1, <1>2, <1>3 DEF Typed, Refers
<1>5. threads[u] \in Thread /\ threads[b] \in Thread /\ u # b
  BY <1>1, <1>4
<1>6. /\ r \in Thread /\ r.up = threads[u].up /\ r.branch = threads[u].branch
      /\ r.callsym = threads[u].callsym /\ r.excobj = 0
  <2> DEFINE t == threads[u]
  <2>1. t \in Thread /\ 0 \in Nat
    BY <1>5
  <2>2. r = [t EXCEPT !.excobj = 0]
    OBVIOUS
  <2> HIDE DEF t, r
  <2>3. r \in Thread /\ r.up = t.up /\ r.branch = t.branch /\ r.callsym = t.callsym /\ r.excobj = 0
    BY <2>1, <2>2, ExcobjField
  <2> QED
    BY <2>3 DEF t
<1>7. /\ s \in Thread /\ s.up = threads[b].up /\ s.branch = threads[b].branch
      /\ s.callsym = threads[b].callsym /\ s.excobj = x
  BY <1>3, <1>5, ExcobjField
<1> DEFINE L == [threads EXCEPT ![u] = r]
<1>8. M = [L EXCEPT ![b] = s]
  <2>1. M = [L EXCEPT ![b].excobj = x]
    BY DEF MoveNote
  <2>2. L[b] = threads[b] /\ b \in DOMAIN L
    BY <1>1, <1>4, <1>5
  <2> QED
    BY <2>1, <2>2
<1> HIDE DEF r, s
<1>9. L \in Seq(Thread) /\ Len(L) = Len(threads) /\ \A t \in 1..Len(threads) : L[t] = IF t = u THEN r ELSE threads[t]
  BY <1>1, <1>6
<1> HIDE DEF L
<1>10. M \in Seq(Thread) /\ Len(M) = Len(L) /\ \A t \in 1..Len(threads) : M[t] = IF t = b THEN s ELSE L[t]
  BY <1>1, <1>4, <1>7, <1>8, <1>9
<1>11. \A t \in 1..Len(threads) :
                  /\ M[t].up = threads[t].up /\ M[t].branch = threads[t].branch
                  /\ M[t].callsym = threads[t].callsym
                  /\ M[t].excobj = IF t = u THEN 0 ELSE IF t = b THEN x ELSE threads[t].excobj
  BY <1>5, <1>6, <1>7, <1>9, <1>10
<1> QED
  BY <1>3, <1>4, <1>9, <1>10, <1>11

\* The thread of the begin has no exception object noted any more; the body
\* has it.
LEMMA BeginEndEffect ==
  ASSUME PInv, Typed, phase = "parse", end_vector # <<>>, end_begin,
         NEW u, u = Cur.up, NEW x, x = threads[u].excobj, NEW b, b = excs[x].body_thr
  PROVE  /\ UNCHANGED <<branches, excs, methods, phase>> /\ cur_thr' = u
         /\ Last(end_vector) = "end_begin"
         /\ u \in 1..Len(threads) /\ u < cur_thr
         /\ x \in 1..Len(excs) /\ b \in 1..Len(threads) /\ u < b
         /\ threads' \in Seq(Thread) /\ Len(threads') = Len(threads)
         /\ \A t \in 1..Len(threads) :
              /\ threads'[t].up = threads[t].up /\ threads'[t].branch = threads[t].branch
              /\ threads'[t].callsym = threads[t].callsym
              /\ threads'[t].excobj = IF t = u THEN 0 ELSE IF t = b THEN x ELSE threads[t].excobj
<1> DEFINE M == MoveNote(u, x)
           c == Cell("exc", x)
<1>1. /\ UNCHANGED <<branches, excs, methods, phase>> /\ threads' = push_cell(M, u, c)
      /\ cur_thr' = u /\ Last(end_vector) = "end_begin"
  BY DEF end_begin
<1>2. u \in 1..Len(threads) /\ u < cur_thr /\ Own(excs, u, x)
  BY <1>1, Outer
<1>3. /\ x \in 1..Len(excs) /\ b \in 1..Len(threads) /\ u < b
      /\ M \in Seq(Thread) /\ Len(M) = Len(threads)
      /\ \A t \in 1..Len(threads) :
           /\ M[t].up = threads[t].up /\ M[t].branch = threads[t].branch
           /\ M[t].callsym = threads[t].callsym
           /\ M[t].excobj = IF t = u THEN 0 ELSE IF t = b THEN x ELSE threads[t].excobj
  <2>1. M = MoveNote(u, x) /\ x = threads[u].excobj /\ b = excs[x].body_thr /\ Typed
    OBVIOUS
  <2> HIDE DEF M
  <2> QED
    BY ONLY <1>2, <2>1, NoteMoved, SMTT(60)
<1> HIDE DEF M
<1>4. Len(threads) \in Nat /\ DOMAIN threads = 1..Len(threads) /\ Len(excs) \in Nat /\ x \in Nat
  BY <1>3, Sizes
<1>5. c \in CellRec
  BY <1>4 DEF Cell, CellRec
<1> HIDE DEF c
<1>6. u \in DOMAIN M
  BY <1>2, <1>3
<1>7. /\ threads' \in Seq(Thread) /\ Len(threads') = Len(threads)
      /\ \A k \in 1..Len(threads) : /\ threads'[k].up = M[k].up
                                    /\ threads'[k].branch = M[k].branch
                                    /\ threads'[k].callsym = M[k].callsym
                                    /\ threads'[k].excobj = M[k].excobj
  <2>1. threads' = push_cell(M, u, c) /\ M \in Seq(Thread) /\ Len(M) = Len(threads)
    BY <1>1, <1>3
  <2> QED
    BY ONLY <1>5, <1>6, <2>1, CellPushed
<1> QED
  BY <1>1, <1>2, <1>3, <1>7

LEMMA BeginEndStep ==
  ASSUME PInv, Read({"end"}), end_vector # <<>>, Close, end_begin
  PROVE  PInv'
<1> DEFINE u == Cur.up
           x == threads[u].excobj
           b == excs[x].body_thr
<1>1. Typed /\ phase = "parse" /\ input' \in Seq(Token) /\ script' = script
  BY Reads DEF PInv, Read
<1>2. /\ UNCHANGED <<branches, excs, methods, phase>> /\ cur_thr' = u
      /\ u \in 1..Len(threads) /\ u < cur_thr
      /\ x \in 1..Len(excs) /\ b \in 1..Len(threads) /\ u < b
      /\ threads' \in Seq(Thread) /\ Len(threads') = Len(threads)
      /\ \A t \in 1..Len(threads) :
           /\ threads'[t].up = threads[t].up /\ threads'[t].branch = threads[t].branch
           /\ threads'[t].excobj = IF t = u THEN 0 ELSE IF t = b THEN x ELSE threads[t].excobj
  BY <1>1, BeginEndEffect
<1> HIDE DEF u, x, b
<1>3. Len(threads) \in Nat /\ DOMAIN threads = 1..Len(threads) /\ Len(excs) \in Nat
  BY <1>1, Sizes
<1>4. Keeps(threads, threads', cur_thr)
  BY <1>2, <1>3 DEF Keeps
<1>5. \A t \in 1..Len(threads) : t < u => /\ threads'[t].up = threads[t].up
                                           /\ threads'[t].excobj = threads[t].excobj
  BY <1>2, <1>3
<1>6. Around(excs, threads'[u].up, threads'[u].excobj)
  BY <1>2 DEF Around
<1>7. /\ Chain(threads', Written') /\ Notes(threads', excs, end_vector', Written')
       /\ opener' \in Seq(DOMAIN threads') /\ end_vector' \in Seq(EndFn)
       /\ Len(end_vector') = Len(opener') /\ cur_thr' \in DOMAIN threads'
  BY <1>1, <1>2, <1>4, <1>5, <1>6, EndsBlock DEF u
<1>8. Refers(threads', branches', excs', methods')
  <2>1. Refers(threads, branches, excs, methods) /\ DOMAIN threads' = 1..Len(threads)
    BY <1>1, <1>2 DEF Typed
  <2>2. \A t \in DOMAIN threads' : /\ threads'[t].up \in 0..Len(threads)
                                   /\ threads'[t].branch \in 0..Len(branches)
                                   /\ threads'[t].excobj \in 0..Len(excs)
    BY <1>2, <1>3, <2>1 DEF Refers
  <2> QED
    BY <1>2, <2>1, <2>2 DEF Refers
<1>9. Typed'
  BY <1>1, <1>2, <1>7, <1>8 DEF Typed
<1> QED
  BY <1>2, <1>7, <1>9 DEF PInv

LEMMA EndStep ==
  ASSUME PInv, parse_end
  PROVE  PInv'
<1>1. Read({"end"}) /\ Typed /\ phase = "parse" /\ input' \in Seq(Token) /\ script' = script
  BY Reads DEF PInv, Read, parse_end
<1>2. CASE end_vector = <<>> /\ Stop("yyerror")
  <2>1. UNCHANGED <<threads, branches, excs, cur_thr, methods, end_vector, opener>> /\ phase' = "yyerror"
    BY <1>2 DEF Stop, heap
  <2> QED
    BY <1>1, <2>1 DEF Typed, PInv
<1> QED
  BY <1>1, <1>2, IfEndStep, BeginEndStep, DefineEndStep DEF parse_end

LEMMA PInvInit == ParseInit => PInv
<1> SUFFICES ASSUME ParseInit PROVE PInv
  OBVIOUS
<1> DEFINE r == [up |-> 0, branch |-> 0, excobj |-> 0, callsym |-> NoName,
                 ip |-> 0, stack |-> <<>>]
<1>1. r \in Thread
  BY DEF Thread
<1>2. /\ threads = <<r>> /\ branches = <<>> /\ excs = <<>> /\ cur_thr = 1
      /\ methods = [n \in Name |-> 0] /\ phase = "parse" /\ end_vector = <<>> /\ opener = <<>>
      /\ script \in Scripts /\ input = script
  BY DEF ParseInit, HeapInit
<1>3. threads[1] = r /\ DOMAIN threads = {1} /\ Len(threads) = 1 /\ threads \in Seq(Thread)
  BY <1>1, <1>2
<1>4. r.up = 0 /\ r.branch = 0 /\ r.excobj = 0
  OBVIOUS
<1> HIDE DEF r
<1>5. Refers(threads, branches, excs, methods)
  BY <1>2, <1>3, <1>4 DEF Refers
<1>6. Typed
  <2>1. input \in Seq(Token)
    BY <1>2, ScriptsAssumption
  <2> QED
    BY <1>2, <1>3, <1>5, <2>1 DEF Typed
<1>7. Written = <<1>>
  BY <1>2 DEF Written
<1>8. Chain(threads, Written)
  BY <1>3, <1>4, <1>7 DEF Chain
<1>9. Notes(threads, excs, end_vector, Written)
  BY <1>2, <1>3, <1>4, <1>7 DEF Notes, Around
<1> QED
  BY <1>6, <1>8, <1>9 DEF PInv

LEMMA PInvNext == PInv /\ [Parse \/ Parsed]_pvars => PInv'
<1> SUFFICES ASSUME PInv, [Parse \/ Parsed]_pvars PROVE PInv'
  OBVIOUS
<1>1. CASE UNCHANGED pvars
  BY <1>1 DEF pvars, heap, PInv, Typed, Written
<1>2. CASE Parse
  BY <1>2, StmtStep, BeginStep, RescueStep, IfStep, ElseStep, DefineStep, EndStep DEF Parse
<1> QED
  BY <1>1, <1>2 DEF Parsed

\* The pointers of the parser are to objects that there are, whatever the
\* script: no thread, branch or exception object is taken before it is made
\* (parse.y:96-260).
THEOREM PointersGood == ParseSpec => []Typed
<1>1. PInv => Typed
  BY DEF PInv
<1> QED
  BY <1>1, PInvInit, PInvNext, PTL DEF ParseSpec

\* An `end' leads back to where its block was opened, in scripts of any
\* length and with blocks nested to any depth, well-formed or not
\* (parse.y:120-260).
THEOREM EndReturns == ParseSpec => []EndReturnsToOpener
<1>1. PInv => EndReturnsToOpener
  <2> SUFFICES ASSUME PInv, phase = "parse"
               PROVE  /\ Cur.up = (IF opener = <<>> THEN 0 ELSE Last(opener))
                      /\ opener = <<>> => cur_thr = 1
                      /\ \A k \in DOMAIN opener :
                           threads[opener[k]].up = (IF k = 1 THEN 0 ELSE opener[k-1])
    BY DEF EndReturnsToOpener
  <2>1. Typed /\ Chain(threads, Written) /\ opener \in Seq(DOMAIN threads)
    BY DEF PInv, Typed
  <2>2. Cur.up = (IF opener = <<>> THEN 0 ELSE Last(opener)) /\ (opener = <<>> => cur_thr = 1)
    BY <2>1, CurFacts, Popped
  <2>3. ASSUME NEW k \in DOMAIN opener
        PROVE  threads[opener[k]].up = (IF k = 1 THEN 0 ELSE opener[k-1])
    <3>1. /\ Len(opener) \in Nat /\ DOMAIN opener = 1..Len(opener) /\ k \in 1..Len(opener)
          /\ Len(Written) = Len(opener) + 1
          /\ \A j \in 1..Len(opener) : Written[j] = opener[j]
      BY <2>1, WrittenFacts
    <3>2. k \in 1..Len(Written) /\ (k > 1 => k-1 \in 1..Len(opener))
      BY <3>1
    <3>3. CASE k = 1
      BY <2>1, <3>1, <3>3 DEF Chain
    <3>4. CASE k > 1
      BY <2>1, <3>1, <3>2, <3>4 DEF Chain
    <3> QED
      BY <3>1, <3>3, <3>4
  <2> QED
    BY <2>2, <2>3
<1> QED
  BY <1>1, PInvInit, PInvNext, PTL DEF ParseSpec

-----------------------------------------------------------------------------
(* What the script says, token by token *)

\* The tokens that are read, and the blocks open after them by Nest.
Done    == Len(script) - Len(input)
OpenNow == BlocksAt(script, 1)[Done]
Bad     == <<"bad">>

Place == script \in Seq(Token) /\ Done \in 0..Len(script)
         /\ input = SubSeq(script, Done + 1, Len(script))

IfKinds == {"if", "while", "loop", "else"}

\* x is of a begin block that is open.
IsOpen(T, ev, W, x, k) == ev[k] = "end_begin" /\ T[W[k]].excobj = x

\* Where exception objects are noted, and where not.
Handlers(T, X, ev, W) ==
  /\ \A x \in DOMAIN X, y \in DOMAIN X : x # y => X[x].body_thr # X[y].body_thr
  /\ \A x \in DOMAIN X, k \in 1..Len(W) :
       X[x].body_thr = W[k] => k > 1 /\ IsOpen(T, ev, W, x, k-1)
  /\ \A x \in DOMAIN X : \/ T[X[x].body_thr].excobj = x
                         \/ \E k \in 1..Len(ev) : IsOpen(T, ev, W, x, k)
  /\ \A t \in DOMAIN T, x \in DOMAIN X : T[t].excobj = x =>
       \/ t \in {X[x].body_thr, X[x].rescue_thr}
       \/ \E k \in 1..Len(ev) : ev[k] = "end_begin" /\ t = W[k]

\* B are the blocks of ns above the k-th.
Above(B, ns, k) == Len(B) = Len(ns) - k /\ \A i \in 1..Len(B) : B[i] = ns[k+i]

\* The block in the k-th is a begin.
Inner(ev, k) == k < Len(ev) /\ ev[k+1] = "end_begin"

\* A begin in s after which the blocks of ns above the k-th were opened.
Lost(ns, s, d, k) == \E q \in 1..d : s[q].tok = "begin" /\ Above(BlocksAt(s, q)[d], ns, k)

\* The k-th of the blocks ns that are open after d tokens of s.  Its closing
\* function is the right one.  A begin before its rescue has its body in
\* place, with the exception object noted, unless a begin inside took its
\* place.
\* A side knows its branch, a method its name.
Level(T, X, ev, W, ns, s, d, k) ==
  /\ ns[k] \in (IF ev[k] = "end_begin" THEN {"begin", "rescue"}
                ELSE IF ev[k] = "end_if" THEN IfKinds ELSE {"def"})
  /\ ns[k] = "begin" => /\ X[T[W[k]].excobj].body_thr = W[k+1]
                        /\ X[T[W[k]].excobj].rescue_thr = 0
                        /\ \/ Inner(ev, k)
                           \/ T[W[k+1]].excobj \in {0, T[W[k]].excobj}
  /\ (ns[k] = "begin" /\ (T[W[k+1]].excobj = 0 \/ Inner(ev, k)))
       => Lost(ns, s, d, k)
  /\ ns[k] \in IfKinds => T[W[k+1]].branch # 0
  /\ ns[k] = "def" => T[W[k+1]].callsym # NoName

Levels(T, X, ev, W, ns, s, d) ==
  Len(ns) = Len(ev) /\ \A k \in 1..Len(ev) : Level(T, X, ev, W, ns, s, d, k)

Wrong == \/ \E p \in 0..Len(script) : BlocksAt(script, 1)[p] = Bad
         \/ BeginBeforeRescue(script)

Held == /\ Levels(threads, excs, end_vector, Written, OpenNow, script, Done)
        /\ Handlers(threads, excs, end_vector, Written)

NInv == /\ Place
        /\ (phase \in {"parse", "eval"} /\ OpenNow # Bad) => Held
        /\ phase = "eval" => input = <<>>
        /\ phase \in {"yyerror", "fail", "crash"} => Wrong

Kw == {"begin", "if", "while", "loop", "def", "rescue", "else", "bad"}

LEMMA NestType ==
  ASSUME NEW ns \in Seq(Kw), NEW t \in Token
  PROVE  Nest(ns, t) \in Seq(Kw)
<1>1. <<"bad">> \in Seq(Kw)
  BY DEF Kw
<1>2. ASSUME ns # <<>>, NEW k \in Kw PROVE Append(Front(ns), k) \in Seq(Kw) /\ Front(ns) \in Seq(Kw)
  BY <1>2, Popped
<1>3. ASSUME NEW k \in Kw PROVE Append(ns, k) \in Seq(Kw)
  BY <1>3
<1>4. {"begin", "if", "while", "loop", "def", "rescue", "else"} \subseteq Kw
  BY DEF Kw
<1> QED
  BY <1>1, <1>2, <1>3, <1>4 DEF Nest

\* BlocksAt is what its recursive definition says.
LEMMA BlocksAre ==
  ASSUME NEW s \in Seq(Token), NEW q \in 1..(Len(s)+1)
  PROVE  /\ BlocksAt(s, q)[q-1] = <<>>
         /\ \A p \in (q-1)..Len(s) : BlocksAt(s, q)[p] \in Seq(Kw)
         /\ \A p \in q..Len(s) : BlocksAt(s, q)[p] = Nest(BlocksAt(s, q)[p-1], s[p])
<1> DEFINE D == (q-1)..Len(s)
           step == [ij \in Int \X Seq(Kw) |->
                      IF ij[1] \in DOMAIN s THEN Nest(ij[2], s[ij[1]]) ELSE <<>>]
           Is(f) == f = [p \in D |-> IF p = q-1 THEN <<>> ELSE Nest(f[p-1], s[p])]
<1>1. step \in [Int \X Seq(Kw) -> Seq(Kw)]
  <2>1. ASSUME NEW ij \in Int \X Seq(Kw), ij[1] \in DOMAIN s PROVE Nest(ij[2], s[ij[1]]) \in Seq(Kw)
    BY <2>1, NestType
  <2> QED
    BY <2>1
<1>2. q-1 \in Int /\ Len(s) \in Int /\ <<>> \in Seq(Kw) /\ DOMAIN s = 1..Len(s) /\ q-1 \in D
  OBVIOUS
<1>3. PICK f : Recursive(f, D, q-1, <<>>, step) /\ \A k \in D : f[k] \in Seq(Kw)
  <2> HIDE DEF step
  <2> QED
    BY <1>1, <1>2, NumberRecursion
<1>4. \A p \in D : p # q-1 => p \in DOMAIN s /\ p-1 \in D /\ p \in Int
  BY <1>2
<1>5. ASSUME NEW p \in D, p # q-1 PROVE step[p, f[p-1]] = Nest(f[p-1], s[p])
  BY <1>3, <1>4, <1>5
<1>6. f = [p \in D |-> IF p = q-1 THEN <<>> ELSE step[p, f[p-1]]]
  BY <1>3 DEF Recursive
<1>7. Is(f)
  <2> HIDE DEF step, D
  <2> QED
    BY <1>5, <1>6
<1>8. BlocksAt(s, q) = CHOOSE g : Is(g)
  BY DEF BlocksAt
<1>9. Is(BlocksAt(s, q))
  <2> HIDE DEF Is
  <2> QED
    BY <1>7, <1>8
<1> DEFINE g == BlocksAt(s, q)
<1> HIDE DEF g
<1>10. /\ g[q-1] = <<>>
       /\ \A p \in D : p # q-1 => g[p] = Nest(g[p-1], s[p])
  <2> HIDE DEF D
  <2> QED
    BY <1>2, <1>9 DEF g
<1> DEFINE P == {n \in Nat : q-1+n \in D => g[q-1+n] \in Seq(Kw)}
<1>11. 0 \in P
  <2>1. q-1+0 = q-1
    OBVIOUS
  <2> QED
    BY <1>2, <1>10, <2>1
<1>12. ASSUME NEW n \in Nat, n \in P PROVE n+1 \in P
  <2> DEFINE p == q-1+(n+1)
  <2>1. SUFFICES ASSUME p \in D PROVE g[p] \in Seq(Kw)
    OBVIOUS
  <2>2. p-1 = q-1+n /\ p-1 \in D /\ p \in DOMAIN s /\ p # q-1
    BY <2>1
  <2>3. g[p-1] \in Seq(Kw) /\ s[p] \in Token
    BY <1>12, <2>2
  <2> HIDE DEF p
  <2> QED
    BY <1>10, <2>1, <2>2, <2>3, NestType
<1>13. Nat \subseteq P
  <2> HIDE DEF P
  <2> QED
    BY <1>11, <1>12, InductiveSet
<1>14. \A p \in D : p-(q-1) \in Nat /\ q-1+(p-(q-1)) = p
  OBVIOUS
<1>15. \A p \in D : g[p] \in Seq(Kw)
  BY <1>13, <1>14
<1>16. \A p \in q..Len(s) : p \in D /\ p # q-1
  OBVIOUS
<1> QED
  BY <1>10, <1>15, <1>16 DEF g

\* Once a script is wrong it stays so.
LEMMA BadStays ==
  ASSUME NEW s \in Seq(Token), NEW p \in 0..Len(s), BlocksAt(s, 1)[p] = Bad
  PROVE  BlocksAt(s, 1)[Len(s)] = Bad
<1> DEFINE g == BlocksAt(s, 1)
           P == {n \in Nat : p + n <= Len(s) => g[p+n] = Bad}
<1>1. Len(s) \in Nat /\ \A k \in 1..Len(s) : g[k] = Nest(g[k-1], s[k])
  <2>1. Len(s) \in Nat /\ 1 \in 1..(Len(s)+1)
    OBVIOUS
  <2> QED
    BY <2>1, BlocksAre
<1> HIDE DEF g
<1>2. 0 \in P
  <2>1. p + 0 = p
    OBVIOUS
  <2> QED
    BY <2>1 DEF g
<1>3. ASSUME NEW n \in Nat, n \in P PROVE n + 1 \in P
  <2>1. SUFFICES ASSUME p + (n+1) <= Len(s) PROVE g[p + (n+1)] = Bad
    OBVIOUS
  <2>2. p + (n+1) \in 1..Len(s) /\ p + (n+1) - 1 = p + n /\ p + n <= Len(s)
    BY <1>1, <2>1
  <2>3. g[p + (n+1)] = Nest(g[p+n], s[p + (n+1)]) /\ g[p+n] = Bad
    BY <1>1, <1>3, <2>2
  <2> QED
    BY <2>3 DEF Nest, Bad
<1>4. Nat \subseteq P
  <2> HIDE DEF P
  <2> QED
    BY <1>2, <1>3, InductiveSet
<1>5. Len(s) - p \in Nat /\ p + (Len(s) - p) = Len(s) /\ p + (Len(s) - p) <= Len(s)
  BY <1>1
<1> QED
  BY <1>4, <1>5 DEF g

\* What a token that is read does to the blocks that are open.
LEMMA ReadPlace ==
  ASSUME Place, NEW K, Read(K)
  PROVE  /\ Place' /\ script' = script /\ Done' = Done + 1 /\ Done + 1 \in 1..Len(script)
         /\ Done \in 0..Len(script) /\ Head(input) = script[Done + 1]
         /\ Head(input) \in Token /\ Head(input).tok \in K
         /\ OpenNow \in Seq(Kw) /\ OpenNow' \in Seq(Kw)
         /\ OpenNow' = Nest(OpenNow, Head(input))
         /\ \A q \in 1..Done : /\ BlocksAt(script, q)[Done] \in Seq(Kw)
                               /\ BlocksAt(script, q)[Done + 1]
                                    = Nest(BlocksAt(script, q)[Done], Head(input))
         /\ BlocksAt(script, Done + 1)[Done + 1] = Nest(<<>>, Head(input))
<1> DEFINE n == Done
           m == Len(script)
<1>1. /\ script \in Seq(Token) /\ n \in 0..m /\ m \in Nat /\ input = SubSeq(script, n + 1, m)
      /\ script' = script /\ input # <<>> /\ Head(input).tok \in K /\ input' = Tail(input)
  BY DEF Place, Read
<1>2. n < m /\ Len(input) = m - n
  <2>1. n \in Nat
    BY <1>1
  <2> HIDE DEF n, m
  <2>2. Len(input) = IF n + 1 <= m THEN m - n ELSE 0
    BY <1>1, <2>1
  <2>3. CASE n + 1 <= m
    BY <1>1, <2>1, <2>2, <2>3
  <2>4. CASE ~(n + 1 <= m)
    BY <1>1, <2>1, <2>2, <2>4
  <2> QED
    BY <2>3, <2>4
<1>3. Head(input) = script[n+1] /\ n + 1 \in 1..m /\ n \in Nat
  BY <1>1, <1>2
<1>4. Len(input') = m - (n + 1) /\ Done' = n + 1
  <2>1. Len(input') = Len(input) - 1
    BY <1>1, <1>2
  <2> QED
    BY <1>1, <1>2, <2>1 DEF Done
<1>5. input' = SubSeq(script, n + 1 + 1, m)
  BY <1>1, <1>2, <1>3
<1>6. Place'
  BY <1>1, <1>3, <1>4, <1>5 DEF Place
<1>7. script[n+1] \in Token
  BY <1>1, <1>3
<1>8. ASSUME NEW q \in 1..(n+1)
      PROVE  /\ BlocksAt(script, q)[n] \in Seq(Kw) /\ BlocksAt(script, q)[n+1] \in Seq(Kw)
             /\ BlocksAt(script, q)[n+1] = Nest(BlocksAt(script, q)[n], script[n+1])
             /\ q = n + 1 => BlocksAt(script, q)[n] = <<>>
  <2>1. q \in 1..(m+1) /\ n \in (q-1)..m /\ n+1 \in (q-1)..m /\ n+1 \in q..m /\ (n+1)-1 = n
        /\ (q = n + 1 => q - 1 = n)
    BY <1>1, <1>3
  <2> QED
    BY <1>1, <2>1, BlocksAre
<1>9. 1 \in 1..(n+1) /\ n+1 \in 1..(n+1) /\ \A q \in 1..n : q \in 1..(n+1)
  BY <1>3
<1>10. OpenNow' = BlocksAt(script, 1)[n+1] /\ OpenNow = BlocksAt(script, 1)[n]
  BY <1>1, <1>4 DEF OpenNow
<1> QED
  BY <1>1, <1>3, <1>4, <1>6, <1>7, <1>8, <1>9, <1>10

\* What the tokens do, when they are in place.
LEMMA NestFacts ==
  ASSUME NEW ns \in Seq(Kw), NEW t \in Token, Nest(ns, t) # Bad
  PROVE  /\ ns # Bad
         /\ t.tok \in SimpleKinds \cup {"call"} => Nest(ns, t) = ns
         /\ t.tok \in {"begin", "if", "while", "loop", "def"} => Nest(ns, t) = Append(ns, t.tok)
         /\ t.tok = "rescue" => ns # <<>> /\ Last(ns) = "begin"
                                /\ Nest(ns, t) = Append(Front(ns), "rescue")
         /\ t.tok = "else" => ns # <<>> /\ Last(ns) \in {"if", "while", "loop"}
                              /\ Nest(ns, t) = Append(Front(ns), "else")
         /\ t.tok = "end" => ns # <<>> /\ Nest(ns, t) = Front(ns)
<1>1. ns # Bad
  BY DEF Nest, Bad
<1>2. t.tok \in SimpleKinds \cup {"call"} => Nest(ns, t) = ns
  BY <1>1 DEF Nest, Bad, SimpleKinds
<1>3. t.tok \in {"begin", "if", "while", "loop", "def"} => Nest(ns, t) = Append(ns, t.tok)
  BY <1>1 DEF Nest, Bad
<1>4. t.tok = "rescue" => ns # <<>> /\ Last(ns) = "begin" /\ Nest(ns, t) = Append(Front(ns), "rescue")
  BY <1>1 DEF Nest, Bad
<1>5. t.tok = "else" => ns # <<>> /\ Last(ns) \in {"if", "while", "loop"}
                        /\ Nest(ns, t) = Append(Front(ns), "else")
  BY <1>1 DEF Nest, Bad
<1>6. t.tok = "end" => ns # <<>> /\ Nest(ns, t) = Front(ns)
  BY <1>1 DEF Nest, Bad
<1> QED
  BY <1>1, <1>2, <1>3, <1>4, <1>5, <1>6

LEMMA NestDoes ==
  ASSUME NEW ns \in Seq(Kw), NEW t \in Token, ns # Bad
  PROVE  /\ t.tok \in SimpleKinds \cup {"call"} => Nest(ns, t) = ns
         /\ t.tok \in {"begin", "if", "while", "loop", "def"} => Nest(ns, t) = Append(ns, t.tok)
         /\ (t.tok = "rescue" /\ ns # <<>> /\ Last(ns) = "begin")
              => Nest(ns, t) = Append(Front(ns), "rescue")
         /\ (t.tok = "else" /\ ns # <<>> /\ Last(ns) \in {"if", "while", "loop"})
              => Nest(ns, t) = Append(Front(ns), "else")
         /\ (t.tok = "end" /\ ns # <<>> /\ Last(ns) # "none") => Nest(ns, t) = Front(ns)
<1>1. t.tok \in SimpleKinds \cup {"call"} => Nest(ns, t) = ns
  BY DEF Nest, Bad, SimpleKinds
<1>2. t.tok \in {"begin", "if", "while", "loop", "def"} => Nest(ns, t) = Append(ns, t.tok)
  BY DEF Nest, Bad
<1>3. (t.tok = "rescue" /\ ns # <<>> /\ Last(ns) = "begin") => Nest(ns, t) = Append(Front(ns), "rescue")
  BY DEF Nest, Bad
<1>4. (t.tok = "else" /\ ns # <<>> /\ Last(ns) \in {"if", "while", "loop"})
        => Nest(ns, t) = Append(Front(ns), "else")
  BY DEF Nest, Bad
<1>5. (t.tok = "end" /\ ns # <<>> /\ Last(ns) # "none") => Nest(ns, t) = Front(ns)
  BY DEF Nest, Bad
<1> QED
  BY <1>1, <1>2, <1>3, <1>4, <1>5

\* Matching does not see the blocks further out.
LEMMA AboveNest ==
  ASSUME NEW B \in Seq(Kw), NEW ns \in Seq(Kw), NEW t \in Token, NEW k \in 0..Len(ns),
         Above(B, ns, k), \A i \in 1..Len(ns) : ns[i] # "bad", Nest(ns, t) # Bad,
         t.tok \in {"rescue", "else", "end"} => k < Len(ns)
  PROVE  Above(Nest(B, t), Nest(ns, t), k)
<1>1. Len(B) = Len(ns) - k /\ Len(B) \in Nat /\ Len(ns) \in Nat /\ k \in Nat
  BY DEF Above
<1>2. \A i \in 1..Len(B) : B[i] = ns[k+i] /\ k+i \in 1..Len(ns)
  BY <1>1 DEF Above
<1>3. B # Bad
  <2>1. SUFFICES ASSUME B = Bad PROVE FALSE
    OBVIOUS
  <2>2. Len(B) = 1 /\ B[1] = "bad"
    BY <2>1 DEF Bad
  <2> QED
    BY <1>2, <2>2
<1>4. CASE t.tok \in SimpleKinds \cup {"call"}
  <2>1. Nest(ns, t) = ns /\ Nest(B, t) = B
    BY <1>3, <1>4, NestFacts, NestDoes
  <2> QED
    BY <2>1
<1>5. CASE t.tok \in {"begin", "if", "while", "loop", "def"}
  <2>1. Nest(ns, t) = Append(ns, t.tok) /\ Nest(B, t) = Append(B, t.tok) /\ t.tok \in Kw
    BY <1>3, <1>5, NestFacts, NestDoes DEF Kw
  <2> DEFINE C == Append(B, t.tok)
             ms == Append(ns, t.tok)
  <2>2. /\ Len(C) = Len(B) + 1 /\ C[Len(B)+1] = t.tok /\ \A i \in 1..Len(B) : C[i] = B[i]
        /\ Len(ms) = Len(ns) + 1 /\ ms[Len(ns)+1] = t.tok /\ \A i \in 1..Len(ns) : ms[i] = ns[i]
    BY <2>1, Pushed
  <2> HIDE DEF C, ms
  <2>3. \A i \in 1..Len(C) : C[i] = ms[k+i]
    <3>1. \A i \in 1..Len(C) : i \in 1..Len(B) \/ (i = Len(B)+1 /\ k+i = Len(ns)+1)
      BY <1>1, <2>2
    <3> QED
      BY <1>2, <2>2, <3>1
  <2>4. Len(C) = Len(ms) - k
    BY <1>1, <2>2
  <2> QED
    BY <2>1, <2>3, <2>4 DEF Above, C, ms
<1>6. ASSUME t.tok \in {"rescue", "else", "end"}
      PROVE  /\ B # <<>> /\ ns # <<>> /\ Last(B) = Last(ns) /\ Last(B) \in Kw
             /\ Front(B) \in Seq(Kw) /\ Len(Front(B)) = Len(B) - 1
             /\ Front(ns) \in Seq(Kw) /\ Len(Front(ns)) = Len(ns) - 1
             /\ Len(Front(B)) = Len(Front(ns)) - k
             /\ \A i \in 1..Len(Front(B)) : Front(B)[i] = Front(ns)[k+i]
  <2>1. k < Len(ns) /\ Len(B) # 0 /\ Len(ns) # 0
    BY <1>1, <1>6
  <2>2. B # <<>> /\ ns # <<>>
    BY <2>1
  <2>3. /\ Front(B) \in Seq(Kw) /\ Len(Front(B)) = Len(B) - 1
        /\ \A i \in 1..(Len(B)-1) : Front(B)[i] = B[i]
        /\ Last(B) = B[Len(B)] /\ Last(B) \in Kw
    BY <2>2, Popped
  <2>9. Len(B) \in 1..Len(B)
    BY <1>1, <2>1
  <2>4. /\ Front(ns) \in Seq(Kw) /\ Len(Front(ns)) = Len(ns) - 1
        /\ \A i \in 1..(Len(ns)-1) : Front(ns)[i] = ns[i]
        /\ Last(ns) = ns[Len(ns)]
    BY <2>2, Popped
  <2>5. Last(B) = Last(ns)
    BY <1>1, <1>2, <2>3, <2>4, <2>9
  <2>6. \A i \in 1..(Len(B)-1) : k+i \in 1..(Len(ns)-1) /\ i \in 1..Len(B)
    BY <1>1
  <2>7. \A i \in 1..Len(Front(B)) : Front(B)[i] = Front(ns)[k+i]
    BY <1>2, <2>3, <2>4, <2>6
  <2>8. Len(Front(B)) = Len(Front(ns)) - k
    BY <1>1, <2>3, <2>4
  <2> QED
    BY <2>2, <2>3, <2>4, <2>5, <2>7, <2>8
<1>7. ASSUME NEW w \in Kw, t.tok \in {"rescue", "else", "end"}
      PROVE  Above(Append(Front(B), w), Append(Front(ns), w), k)
  <2> DEFINE F == Front(B)
             G == Front(ns)
             C == Append(F, w)
             ms == Append(G, w)
  <2>1. /\ F \in Seq(Kw) /\ G \in Seq(Kw) /\ Len(F) = Len(G) - k /\ Len(F) \in Nat /\ Len(G) \in Nat
        /\ \A i \in 1..Len(F) : F[i] = G[k+i]
    BY <1>6, <1>7
  <2> HIDE DEF F, G
  <2>2. /\ Len(C) = Len(F) + 1 /\ C[Len(F)+1] = w /\ \A i \in 1..Len(F) : C[i] = F[i]
        /\ Len(ms) = Len(G) + 1 /\ ms[Len(G)+1] = w /\ \A i \in 1..Len(G) : ms[i] = G[i]
    BY <2>1, Pushed
  <2> HIDE DEF C, ms
  <2>3. \A i \in 1..Len(C) : C[i] = ms[k+i]
    <3>1. \A i \in 1..Len(C) : i \in 1..Len(F) \/ (i = Len(F)+1 /\ k+i = Len(G)+1)
      BY <1>1, <2>1, <2>2
    <3>2. \A i \in 1..Len(F) : k+i \in 1..Len(G)
      BY <1>1, <2>1
    <3> QED
      BY <2>1, <2>2, <3>1, <3>2
  <2>4. Len(C) = Len(ms) - k
    BY <1>1, <2>1, <2>2
  <2> QED
    BY <2>3, <2>4 DEF Above, C, ms, F, G
<1>8. CASE t.tok = "rescue"
  <2>1. Nest(ns, t) = Append(Front(ns), "rescue") /\ Last(ns) = "begin"
    BY <1>8, NestFacts
  <2>2. Nest(B, t) = Append(Front(B), "rescue")
    BY <1>3, <1>6, <1>8, <2>1, NestDoes
  <2> QED
    BY <1>7, <1>8, <2>1, <2>2 DEF Kw
<1>9. CASE t.tok = "else"
  <2>1. Nest(ns, t) = Append(Front(ns), "else") /\ Last(ns) \in {"if", "while", "loop"}
    BY <1>9, NestFacts
  <2>2. Nest(B, t) = Append(Front(B), "else")
    BY <1>3, <1>6, <1>9, <2>1, NestDoes
  <2> QED
    BY <1>7, <1>9, <2>1, <2>2 DEF Kw
<1>10. CASE t.tok = "end"
  <2>1. Nest(ns, t) = Front(ns)
    BY <1>10, NestFacts
  <2>2. Last(B) # "none"
    BY <1>6, <1>10 DEF Kw
  <2>3. Nest(B, t) = Front(B)
    BY <1>3, <1>6, <1>10, <2>2, NestDoes
  <2> QED
    BY <1>6, <1>10, <2>1, <2>3 DEF Above
<1> QED
  BY <1>4, <1>5, <1>8, <1>9, <1>10 DEF Token

-----------------------------------------------------------------------------
(* What stays of the blocks that are open, and of the notes *)

\* What a step leaves of a block that is still open after it: what is noted
\* in it is as before, but for a begin inside that is opened or closed.
LEMMA LevelKept ==
  ASSUME NEW T, NEW U, NEW X, NEW Y, NEW ev, NEW dv, NEW W, NEW V, NEW ns, NEW ms,
         NEW s, NEW d, NEW e, NEW k, Level(T, X, ev, W, ns, s, d, k),
         ms[k] = ns[k], dv[k] = ev[k], V[k] = W[k], V[k+1] = W[k+1],
         U[W[k+1]].branch = T[W[k+1]].branch, U[W[k+1]].callsym = T[W[k+1]].callsym,
         ns[k] = "begin" => /\ U[W[k]].excobj = T[W[k]].excobj
                            /\ Y[T[W[k]].excobj].body_thr = X[T[W[k]].excobj].body_thr
                            /\ Y[T[W[k]].excobj].rescue_thr = X[T[W[k]].excobj].rescue_thr,
         Lost(ns, s, d, k) => Lost(ms, s, e, k),
         \/ U[W[k+1]].excobj = T[W[k+1]].excobj /\ (Inner(dv, k) <=> Inner(ev, k))
         \/ U[W[k+1]].excobj = 0 /\ Inner(ev, k)
         \/ Inner(dv, k) /\ Lost(ms, s, e, k)
  PROVE  Level(U, Y, dv, V, ms, s, e, k)
<1>1. ns[k] = "begin" => \/ Inner(dv, k)
                         \/ U[W[k+1]].excobj \in {0, T[W[k]].excobj}
  BY DEF Level
<1>2. (ns[k] = "begin" /\ (U[W[k+1]].excobj = 0 \/ Inner(dv, k))) => Lost(ms, s, e, k)
  BY DEF Level
<1> QED
  BY <1>1, <1>2 DEF Level

LEMMA NoneBad ==
  ASSUME NEW T, NEW X, NEW ev, NEW W, NEW ns, NEW s, NEW d,
         Levels(T, X, ev, W, ns, s, d), NEW k \in 1..Len(ns)
  PROVE  ns[k] # "bad"
BY DEF Levels, Level, IfKinds

LEMMA LostKept ==
  ASSUME Place, NEW K, Read(K), OpenNow' # Bad, \A i \in 1..Len(OpenNow) : OpenNow[i] # "bad",
         NEW k \in 0..Len(OpenNow), Head(input).tok \in {"rescue", "else", "end"} => k < Len(OpenNow),
         Lost(OpenNow, script, Done, k)
  PROVE  Lost(OpenNow', script, Done', k)
<1>1. /\ Done' = Done + 1 /\ Head(input) \in Token /\ OpenNow \in Seq(Kw)
      /\ OpenNow' = Nest(OpenNow, Head(input)) /\ Done \in 0..Len(script)
      /\ \A q \in 1..Done : /\ BlocksAt(script, q)[Done] \in Seq(Kw)
                            /\ BlocksAt(script, q)[Done + 1]
                                 = Nest(BlocksAt(script, q)[Done], Head(input))
  BY ReadPlace
<1>2. PICK q \in 1..Done : script[q].tok = "begin" /\ Above(BlocksAt(script, q)[Done], OpenNow, k)
  BY DEF Lost
<1>3. Above(Nest(BlocksAt(script, q)[Done], Head(input)), Nest(OpenNow, Head(input)), k)
  BY <1>1, <1>2, AboveNest
<1>4. q \in 1..(Done + 1)
  BY <1>1
<1> QED
  BY <1>1, <1>2, <1>3, <1>4 DEF Lost

\* A step that notes nothing.
LEMMA Quiet ==
  ASSUME NEW T \in Seq(Thread), NEW U \in Seq(Thread), NEW X \in Seq(Exc),
         NEW ev, NEW dv, NEW W, NEW V,
         \A x \in 1..Len(X) : X[x].body_thr \in 1..Len(T),
         Len(U) >= Len(T), \A t \in 1..Len(T) : U[t].excobj = T[t].excobj,
         \A t \in 1..Len(U) : t > Len(T) => U[t].excobj = 0,
         \A k \in 1..Len(W) : W[k] \in 1..Len(T),
         \A k \in 1..Len(V) : \/ V[k] > Len(T)
                              \/ /\ k \in 1..Len(W) /\ V[k] = W[k]
                                 /\ k > 1 => /\ k-1 \in 1..Len(W) /\ V[k-1] = W[k-1]
                                             /\ dv[k-1] = ev[k-1],
         \A k \in 1..Len(ev) : ev[k] = "end_begin" =>
                                 k \in 1..Len(dv) /\ dv[k] = ev[k] /\ V[k] = W[k] /\ k \in 1..Len(W),
         Handlers(T, X, ev, W)
  PROVE  Handlers(U, X, dv, V)
<1>1. /\ Len(T) \in Nat /\ Len(U) \in Nat /\ DOMAIN T = 1..Len(T) /\ DOMAIN U = 1..Len(U)
      /\ Len(X) \in Nat /\ DOMAIN X = 1..Len(X)
  OBVIOUS
<1>2. \A x \in DOMAIN X, y \in DOMAIN X : x # y => X[x].body_thr # X[y].body_thr
  BY DEF Handlers
<1>3. ASSUME NEW x \in DOMAIN X, NEW k \in 1..Len(V), X[x].body_thr = V[k]
      PROVE  k > 1 /\ IsOpen(U, dv, V, x, k-1)
  <2>1. X[x].body_thr \in 1..Len(T)
    BY <1>1
  <2>2. ~(V[k] > Len(T))
    BY <1>1, <1>3, <2>1
  <2>3. /\ k \in 1..Len(W) /\ V[k] = W[k]
        /\ k > 1 => /\ k-1 \in 1..Len(W) /\ V[k-1] = W[k-1] /\ dv[k-1] = ev[k-1]
    BY <2>2
  <2>4. k > 1 /\ IsOpen(T, ev, W, x, k-1)
    BY <1>3, <2>3 DEF Handlers
  <2> QED
    BY <2>3, <2>4 DEF IsOpen
<1>4. ASSUME NEW x \in DOMAIN X
      PROVE  U[X[x].body_thr].excobj = x \/ \E k \in 1..Len(dv) : IsOpen(U, dv, V, x, k)
  <2>1. CASE T[X[x].body_thr].excobj = x
    BY <1>1, <2>1
  <2>2. ASSUME NEW k \in 1..Len(ev), IsOpen(T, ev, W, x, k)
        PROVE  k \in 1..Len(dv) /\ IsOpen(U, dv, V, x, k)
    BY <2>2 DEF IsOpen
  <2> QED
    BY <2>1, <2>2 DEF Handlers
<1>5. ASSUME NEW t \in DOMAIN U, NEW x \in DOMAIN X, U[t].excobj = x
      PROVE  \/ t \in {X[x].body_thr, X[x].rescue_thr}
             \/ \E k \in 1..Len(dv) : dv[k] = "end_begin" /\ t = V[k]
  <2>1. x # 0
    BY <1>1
  <2>2. t \in DOMAIN T /\ T[t].excobj = x
    BY <1>1, <1>5, <2>1
  <2>3. ASSUME NEW k \in 1..Len(ev), ev[k] = "end_begin", t = W[k]
        PROVE  k \in 1..Len(dv) /\ dv[k] = "end_begin" /\ t = V[k]
    BY <2>3
  <2> QED
    BY <2>2, <2>3 DEF Handlers
<1> QED
  BY <1>2, <1>3, <1>4, <1>5 DEF Handlers

\* T and X are threads and exception objects, ev and W the blocks open in them.
Sized(T, X, ev, W, n) ==
  /\ T \in Seq(Thread) /\ X \in Seq(Exc) /\ n \in Nat /\ Len(ev) = n /\ Len(W) = n+1
  /\ \A k \in 1..(n+1) : W[k] \in 1..Len(T)
  /\ \A j \in 1..(n+1), k \in 1..(n+1) : j < k => W[j] < W[k]
  /\ \A y \in 1..Len(X) : X[y].body_thr \in 1..Len(T)
  /\ \A t \in 1..Len(T) : T[t].excobj \in 0..Len(X)

\* What parse_begin does to them.
NotesBegin(T, U, X, Y, ev, dv, W, V, n, b, x) ==
  /\ b = Len(T) + 1 /\ x = Len(X) + 1 /\ U \in Seq(Thread) /\ Y \in Seq(Exc)
  /\ Len(U) = b /\ Len(Y) = x
  /\ \A y \in 1..Len(X) : Y[y] = X[y]
  /\ Y[x].body_thr = b
  /\ \A t \in 1..Len(T) : U[t].excobj = IF t = W[n+1] THEN x ELSE T[t].excobj
  /\ U[b].excobj = x
  /\ Len(V) = n+2 /\ V[n+2] = b /\ \A k \in 1..(n+1) : V[k] = W[k]
  /\ Len(dv) = n+1 /\ dv[n+1] = "end_begin" /\ \A k \in 1..n : dv[k] = ev[k]

\* A begin notes the new exception object in the thread around and the body.
LEMMA BeginHandlers ==
  ASSUME NEW T, NEW U, NEW X, NEW Y, NEW ev, NEW dv, NEW W, NEW V, NEW n, NEW b, NEW x,
         Sized(T, X, ev, W, n), NotesBegin(T, U, X, Y, ev, dv, W, V, n, b, x),
         Handlers(T, X, ev, W)
  PROVE  Handlers(U, Y, dv, V)
<1> USE DEF Sized, NotesBegin
<1>1. /\ Len(T) \in Nat /\ Len(X) \in Nat /\ DOMAIN T = 1..Len(T) /\ DOMAIN X = 1..Len(X)
      /\ DOMAIN U = 1..b /\ DOMAIN Y = 1..x
      /\ \A y \in 1..x : y \in 1..Len(X) \/ y = x
      /\ \A t \in 1..b : t \in 1..Len(T) \/ t = b
      /\ \A k \in 1..(n+2) : k \in 1..(n+1) \/ k = n+2
      /\ \A k \in 1..n : k \in 1..(n+1) /\ n+1 \in 1..(n+1) /\ k < n+1
      /\ n+1 \in 1..(n+1) /\ (n+2)-1 = n+1 /\ n+2 > 1
  OBVIOUS
<1>2. \A k \in 1..n : W[k] # W[n+1] /\ W[k] \in 1..Len(T) /\ V[k] = W[k] /\ dv[k] = ev[k]
  <2>1. \A k \in 1..n : W[k] < W[n+1] /\ W[k] \in 1..Len(T) /\ W[n+1] \in 1..Len(T)
    BY <1>1
  <2> QED
    BY <1>1, <2>1
<1>3. \A k \in 1..n, y \in 1..x : IsOpen(T, ev, W, y, k) => IsOpen(U, dv, V, y, k)
  BY <1>2, SMTT(30) DEF IsOpen
<1>4. ASSUME NEW y \in DOMAIN Y, NEW z \in DOMAIN Y, y # z PROVE Y[y].body_thr # Y[z].body_thr
  <2>1. \A w \in 1..Len(X) : Y[w].body_thr # b /\ Y[w].body_thr = X[w].body_thr /\ w \in DOMAIN X
    BY <1>1
  <2>2. CASE y = x \/ z = x
    BY <1>1, <1>4, <2>1, <2>2
  <2>3. CASE y \in 1..Len(X) /\ z \in 1..Len(X)
    <3>1. X[y].body_thr # X[z].body_thr
      BY <1>4, <2>1, <2>3 DEF Handlers
    <3> QED
      BY <2>1, <2>3, <3>1
  <2> QED
    BY <1>1, <2>2, <2>3
<1>5. ASSUME NEW y \in DOMAIN Y, NEW k \in 1..Len(V), Y[y].body_thr = V[k]
      PROVE  k > 1 /\ IsOpen(U, dv, V, y, k-1)
  <2>1. CASE k \in 1..(n+1)
    <3>1. V[k] \in 1..Len(T) /\ V[k] # b
      BY <1>1, <2>1
    <3>2. y \in 1..Len(X) /\ X[y].body_thr = W[k]
      BY <1>1, <1>5, <2>1, <3>1
    <3>3. k > 1 /\ IsOpen(T, ev, W, y, k-1)
      BY <1>1, <2>1, <3>2 DEF Handlers
    <3>4. k-1 \in 1..n
      BY <2>1, <3>3
    <3> QED
      BY <1>1, <1>3, <3>3, <3>4
  <2>2. CASE k = n+2
    <3>1. y = x
      BY <1>1, <1>5, <2>2
    <3>2. dv[k-1] = "end_begin" /\ U[V[k-1]].excobj = x /\ k > 1
      BY <1>1, <2>2
    <3> QED
      BY <3>1, <3>2 DEF IsOpen
  <2> QED
    BY <1>1, <2>1, <2>2
<1>6. ASSUME NEW y \in DOMAIN Y
      PROVE  U[Y[y].body_thr].excobj = y \/ \E k \in 1..Len(dv) : IsOpen(U, dv, V, y, k)
  <2>1. CASE y = x
    BY <2>1
  <2>2. CASE y \in 1..Len(X) /\ X[y].body_thr = W[n+1]
    <3>1. n+1 > 1 /\ IsOpen(T, ev, W, y, (n+1)-1)
      BY <1>1, <2>2 DEF Handlers
    <3>2. n \in 1..n /\ n \in 1..Len(dv) /\ (n+1)-1 = n
      BY <3>1
    <3> QED
      BY <1>1, <1>3, <2>2, <3>1, <3>2
  <2>3. CASE y \in 1..Len(X) /\ X[y].body_thr # W[n+1]
    <3>1. U[Y[y].body_thr].excobj = T[X[y].body_thr].excobj
      BY <2>3
    <3>2. \A k \in 1..n : k \in 1..Len(dv)
      BY <1>1
    <3> QED
      BY <1>1, <1>3, <2>3, <3>1, <3>2 DEF Handlers
  <2> QED
    BY <1>1, <2>1, <2>2, <2>3
<1>7. ASSUME NEW t \in DOMAIN U, NEW y \in DOMAIN Y, U[t].excobj = y
      PROVE  \/ t \in {Y[y].body_thr, Y[y].rescue_thr}
             \/ \E k \in 1..Len(dv) : dv[k] = "end_begin" /\ t = V[k]
  <2>1. CASE t = b
    BY <1>7, <2>1
  <2>2. CASE t = W[n+1]
    BY <1>1, <2>2
  <2>3. CASE t \in 1..Len(T) /\ t # W[n+1]
    <3>1. T[t].excobj = y /\ y \in 0..Len(X)
      BY <1>7, <2>3
    <3>2. y \in 1..Len(X)
      BY <1>1, <3>1
    <3>3. \A k \in 1..n : k \in 1..Len(dv)
      BY <1>1
    <3>4. \/ t \in {X[y].body_thr, X[y].rescue_thr}
          \/ \E k \in 1..n : ev[k] = "end_begin" /\ t = W[k]
      BY <1>1, <2>3, <3>1, <3>2 DEF Handlers
    <3> QED
      BY <1>2, <3>2, <3>3, <3>4
  <2> QED
    BY <1>1, <2>1, <2>2, <2>3
<1> QED
  BY <1>4, <1>5, <1>6, <1>7 DEF Handlers

\* A rescue has the exception object noted that its body has, which had no
\* rescue yet.
NotesRescue(T, U, X, Y, W, V, n, b, x) ==
  /\ b = Len(T) + 1 /\ U \in Seq(Thread) /\ Y \in Seq(Exc) /\ Len(U) = b /\ Len(Y) = Len(X)
  /\ \A y \in 1..Len(X) : /\ Y[y].body_thr = X[y].body_thr
                          /\ Y[y].rescue_thr = IF y = x THEN b ELSE X[y].rescue_thr
  /\ X[x].rescue_thr = 0
  /\ \A t \in 1..Len(T) : U[t].excobj = T[t].excobj
  /\ U[b].excobj = x
  /\ Len(V) = n+1 /\ V[n+1] = b /\ \A k \in 1..n : V[k] = W[k]

LEMMA RescueHandlers ==
  ASSUME NEW T, NEW U, NEW X, NEW Y, NEW ev, NEW W, NEW V, NEW n, NEW b, NEW x,
         Sized(T, X, ev, W, n), NotesRescue(T, U, X, Y, W, V, n, b, x), Handlers(T, X, ev, W)
  PROVE  Handlers(U, Y, ev, V)
<1> USE DEF Sized, NotesRescue
<1>1. /\ Len(T) \in Nat /\ Len(X) \in Nat /\ DOMAIN T = 1..Len(T) /\ DOMAIN X = 1..Len(X)
      /\ DOMAIN U = 1..b /\ DOMAIN Y = 1..Len(X)
      /\ \A t \in 1..b : (t \in 1..Len(T) \/ t = b) /\ t # 0
      /\ \A k \in 1..(n+1) : k \in 1..n \/ k = n+1
      /\ \A k \in 1..n : k \in 1..Len(W)
  OBVIOUS
<1>2. \A k \in 1..n, y \in 1..Len(X) : IsOpen(T, ev, W, y, k) <=> IsOpen(U, ev, V, y, k)
  <2>1. \A k \in 1..n : V[k] = W[k] /\ U[W[k]].excobj = T[W[k]].excobj
    BY <1>1
  <2> QED
    BY <2>1 DEF IsOpen
<1>3. ASSUME NEW y \in DOMAIN Y, NEW z \in DOMAIN Y, y # z PROVE Y[y].body_thr # Y[z].body_thr
  <2>1. y \in DOMAIN X /\ z \in DOMAIN X /\ y \in 1..Len(X) /\ z \in 1..Len(X)
    BY <1>1
  <2>2. X[y].body_thr # X[z].body_thr
    BY <1>3, <2>1 DEF Handlers
  <2>3. Y[y].body_thr = X[y].body_thr /\ Y[z].body_thr = X[z].body_thr
    BY <2>1
  <2> QED
    BY <2>2, <2>3
<1>4. ASSUME NEW y \in DOMAIN Y, NEW k \in 1..Len(V), Y[y].body_thr = V[k]
      PROVE  k > 1 /\ IsOpen(U, ev, V, y, k-1)
  <2>1. X[y].body_thr \in 1..Len(T) /\ X[y].body_thr = V[k]
    BY <1>1, <1>4
  <2>2. k \in 1..n
    <3>1. V[n+1] \notin 1..Len(T) /\ k \in 1..(n+1)
      BY <1>1
    <3> QED
      BY <1>1, <2>1, <3>1
  <2>3. k > 1 /\ IsOpen(T, ev, W, y, k-1)
    BY <1>1, <2>1, <2>2 DEF Handlers
  <2>4. k-1 \in 1..n
    BY <2>2, <2>3
  <2> QED
    BY <1>1, <1>2, <2>3, <2>4
<1>5. ASSUME NEW y \in DOMAIN Y
      PROVE  U[Y[y].body_thr].excobj = y \/ \E k \in 1..Len(ev) : IsOpen(U, ev, V, y, k)
  <2>1. y \in DOMAIN X /\ y \in 1..Len(X)
    BY <1>1
  <2>2. U[Y[y].body_thr].excobj = T[X[y].body_thr].excobj
    BY <2>1
  <2> QED
    BY <1>2, <2>1, <2>2 DEF Handlers
<1>6. ASSUME NEW t \in DOMAIN U, NEW y \in DOMAIN Y, U[t].excobj = y
      PROVE  \/ t \in {Y[y].body_thr, Y[y].rescue_thr}
             \/ \E k \in 1..Len(ev) : ev[k] = "end_begin" /\ t = V[k]
  <2>1. CASE t = b
    BY <1>1, <1>6, <2>1
  <2>2. CASE t \in 1..Len(T)
    <3>1. \/ t \in {X[y].body_thr, X[y].rescue_thr}
          \/ \E k \in 1..Len(ev) : ev[k] = "end_begin" /\ t = W[k]
      BY <1>1, <1>6, <2>2 DEF Handlers
    <3>2. t = X[y].rescue_thr => t = Y[y].rescue_thr
      BY <1>1
    <3> QED
      BY <1>1, <3>1, <3>2
  <2> QED
    BY <1>1, <2>1, <2>2
<1> QED
  BY <1>3, <1>4, <1>5, <1>6 DEF Handlers

\* The end of a begin takes the note back from the thread around to the body.
NotesBeginEnd(T, U, X, ev, dv, W, V, n, u, x, b) ==
  /\ n # 0 /\ u = W[n] /\ x = T[u].excobj /\ x \in 1..Len(X)
  /\ b = X[x].body_thr /\ b \in 1..Len(T) /\ u < b
  /\ U \in Seq(Thread) /\ Len(U) = Len(T)
  /\ \A t \in 1..Len(T) :
       U[t].excobj = IF t = u THEN 0 ELSE IF t = b THEN x ELSE T[t].excobj
  /\ Len(V) = n /\ \A k \in 1..n : V[k] = W[k]
  /\ Len(dv) = n-1 /\ \A k \in 1..(n-1) : dv[k] = ev[k]

LEMMA BeginEndHandlers ==
  ASSUME NEW T, NEW U, NEW X, NEW ev, NEW dv, NEW W, NEW V, NEW n, NEW u, NEW x, NEW b,
         Sized(T, X, ev, W, n), NotesBeginEnd(T, U, X, ev, dv, W, V, n, u, x, b),
         Handlers(T, X, ev, W)
  PROVE  Handlers(U, X, dv, V)
<1> USE DEF Sized, NotesBeginEnd
<1>1. /\ Len(T) \in Nat /\ Len(X) \in Nat /\ DOMAIN T = 1..Len(T) /\ DOMAIN X = 1..Len(X)
      /\ DOMAIN U = 1..Len(T) /\ n \in 1..(n+1)
      /\ \A k \in 1..n : k \in 1..(n-1) \/ k = n
      /\ \A k \in 1..n : k \in 1..(n+1)
      /\ \A k \in 1..(n-1) : k \in 1..n /\ k < n
  OBVIOUS
<1>2. \A k \in 1..(n-1) : W[k] < u /\ W[k] \in 1..Len(T) /\ W[k] # u /\ W[k] # b
  <2>1. \A k \in 1..(n-1) : W[k] < u /\ W[k] \in 1..Len(T) /\ u \in 1..Len(T)
    BY <1>1
  <2> QED
    BY <1>1, <2>1
<1>3. \A k \in 1..(n-1), y \in 1..Len(X) : IsOpen(T, ev, W, y, k) <=> IsOpen(U, dv, V, y, k)
  <2>1. \A k \in 1..(n-1) : V[k] = W[k] /\ U[W[k]].excobj = T[W[k]].excobj /\ dv[k] = ev[k]
    BY <1>1, <1>2
  <2> QED
    BY <2>1 DEF IsOpen
<1>4. ASSUME NEW y \in DOMAIN X, NEW z \in DOMAIN X, y # z PROVE X[y].body_thr # X[z].body_thr
  BY <1>4 DEF Handlers
<1>5. ASSUME NEW y \in DOMAIN X, NEW k \in 1..Len(V), X[y].body_thr = V[k]
      PROVE  k > 1 /\ IsOpen(U, dv, V, y, k-1)
  <2>1. k \in 1..Len(W) /\ X[y].body_thr = W[k] /\ k \in 1..n
    BY <1>1, <1>5
  <2>2. k > 1 /\ IsOpen(T, ev, W, y, k-1)
    BY <2>1 DEF Handlers
  <2>3. k-1 \in 1..(n-1)
    BY <2>1, <2>2
  <2> QED
    BY <1>1, <1>3, <2>2, <2>3
<1>6. ASSUME NEW y \in DOMAIN X
      PROVE  U[X[y].body_thr].excobj = y \/ \E k \in 1..Len(dv) : IsOpen(U, dv, V, y, k)
  <2>1. CASE y = x
    <3>1. b # u /\ u \in 1..Len(T)
      BY <1>1
    <3> QED
      BY <2>1, <3>1
  <2>2. CASE y # x /\ X[y].body_thr = u
    <3>1. n \in 1..Len(W) /\ X[y].body_thr = W[n]
      BY <1>1, <2>2
    <3>2. n > 1 /\ IsOpen(T, ev, W, y, n-1)
      BY <3>1 DEF Handlers
    <3>3. n-1 \in 1..(n-1)
      BY <3>2
    <3> QED
      BY <1>1, <1>3, <3>2, <3>3
  <2>3. CASE y # x /\ X[y].body_thr # u
    <3>1. X[y].body_thr # b
      BY <1>1, <1>4, <2>3
    <3>2. U[X[y].body_thr].excobj = T[X[y].body_thr].excobj
      BY <1>1, <2>3, <3>1
    <3>3. ASSUME NEW k \in 1..Len(ev), IsOpen(T, ev, W, y, k)
          PROVE  k \in 1..Len(dv) /\ IsOpen(U, dv, V, y, k)
      <4>1. k # n
        BY <2>3, <3>3 DEF IsOpen
      <4> QED
        BY <1>1, <1>3, <3>3, <4>1
    <3> QED
      BY <3>2, <3>3 DEF Handlers
  <2> QED
    BY <2>1, <2>2, <2>3
<1>7. ASSUME NEW t \in DOMAIN U, NEW y \in DOMAIN X, U[t].excobj = y
      PROVE  \/ t \in {X[y].body_thr, X[y].rescue_thr}
             \/ \E k \in 1..Len(dv) : dv[k] = "end_begin" /\ t = V[k]
  <2>1. t # u
    BY <1>1, <1>7
  <2>2. CASE t = b
    BY <1>1, <1>7, <2>1, <2>2
  <2>3. CASE t # b
    <3>1. T[t].excobj = y /\ t \in DOMAIN T
      BY <1>1, <1>7, <2>1, <2>3
    <3>2. ASSUME NEW k \in 1..Len(ev), ev[k] = "end_begin", t = W[k]
          PROVE  k \in 1..Len(dv) /\ dv[k] = "end_begin" /\ t = V[k]
      BY <1>1, <2>1, <3>2
    <3> QED
      BY <3>1, <3>2, SMTT(30) DEF Handlers
  <2> QED
    BY <2>2, <2>3
<1> QED
  BY <1>4, <1>5, <1>6, <1>7 DEF Handlers

-----------------------------------------------------------------------------
(* The grammar actions, and what the script says *)

\* The blocks that are open, side by side with the tokens that opened them.
LEMMA Nested ==
  ASSUME PInv, NInv, phase = "parse", OpenNow # Bad, NEW n, n = Len(end_vector)
  PROVE  /\ n \in Nat /\ Len(opener) = n /\ Len(Written) = n+1 /\ Len(OpenNow) = n
         /\ Written[n+1] = cur_thr
         /\ \A k \in 1..(n+1) : Written[k] \in 1..Len(threads)
         /\ \A j \in 1..(n+1), k \in 1..(n+1) : j < k => Written[j] < Written[k]
         /\ \A k \in 1..n : /\ Level(threads, excs, end_vector, Written, OpenNow, script, Done, k)
                            /\ OpenNow[k] # "bad" /\ k \in 1..(n+1) /\ k+1 \in 1..(n+1)
                            /\ OpenNow[k] = "begin" => end_vector[k] = "end_begin"
                            /\ end_vector[k] = "end_begin" =>
                                 /\ threads[Written[k]].excobj \in 1..Len(excs)
                                 /\ excs[threads[Written[k]].excobj].thr = Written[k]
         /\ Handlers(threads, excs, end_vector, Written)
         /\ \A t \in 1..Len(threads) : threads[t].excobj \in 0..Len(excs)
         /\ \A x \in 1..Len(excs) : excs[x].body_thr \in 1..Len(threads)
<1>1. /\ Typed /\ Chain(threads, Written) /\ Notes(threads, excs, end_vector, Written)
      /\ Levels(threads, excs, end_vector, Written, OpenNow, script, Done)
      /\ Handlers(threads, excs, end_vector, Written)
  BY DEF PInv, NInv, Held
<1>2. /\ n \in Nat /\ Len(opener) = n /\ Len(Written) = n+1 /\ Written[n+1] = cur_thr
      /\ threads \in Seq(Thread) /\ NotesIn(threads, excs) /\ Len(excs) \in Nat
      /\ DOMAIN excs = 1..Len(excs)
  BY <1>1, Sizes, WrittenFacts
<1>3. /\ \A k \in 1..(n+1) : Written[k] \in 1..Len(threads)
      /\ \A j \in 1..(n+1), k \in 1..(n+1) : j < k => Written[j] < Written[k]
  BY <1>1, <1>2, ChainFacts DEF Chain
<1>4. Len(OpenNow) = n
  BY <1>1 DEF Levels
<1>5. \A k \in 1..n : /\ Level(threads, excs, end_vector, Written, OpenNow, script, Done, k)
                      /\ OpenNow[k] # "bad" /\ k \in 1..(n+1) /\ k+1 \in 1..(n+1)
  <2>1. \A k \in 1..n : OpenNow[k] # "bad"
    BY <1>1, <1>4, NoneBad
  <2>2. \A k \in 1..n : k \in 1..(n+1) /\ k+1 \in 1..(n+1)
    BY <1>2
  <2>3. \A k \in 1..n : Level(threads, excs, end_vector, Written, OpenNow, script, Done, k)
    BY <1>1 DEF Levels
  <2> QED
    BY <2>1, <2>2, <2>3
<1>6. \A k \in 1..n : OpenNow[k] = "begin" => end_vector[k] = "end_begin"
  BY <1>5 DEF Level, IfKinds
<1>7. /\ \A t \in 1..Len(threads) : threads[t].excobj \in 0..Len(excs)
      /\ \A x \in 1..Len(excs) : excs[x].body_thr \in 1..Len(threads)
  BY <1>1, <1>2 DEF NotesIn, Typed, Refers
<1>8. ASSUME NEW k \in 1..n, end_vector[k] = "end_begin"
      PROVE  /\ threads[Written[k]].excobj \in 1..Len(excs)
             /\ excs[threads[Written[k]].excobj].thr = Written[k]
  <2>1. Own(excs, Written[k], threads[Written[k]].excobj)
    BY <1>1, <1>8 DEF Notes
  <2>2. threads[Written[k]].excobj \in 0..Len(excs)
    BY <1>3, <1>5, <1>7
  <2> QED
    BY <1>2, <2>1, <2>2 DEF Own
<1> QED
  BY <1>1, <1>2, <1>3, <1>4, <1>5, <1>6, <1>7, <1>8

\* A token that is read, when the script is still right after it.
LEMMA Right ==
  ASSUME PInv, NInv, NEW K, Read(K), OpenNow' # Bad, NEW n, n = Len(end_vector)
  PROVE  /\ OpenNow # Bad /\ phase = "parse" /\ Typed /\ Place /\ Place' /\ script' = script
         /\ Done' = Done + 1 /\ Done \in Nat
         /\ OpenNow \in Seq(Kw) /\ OpenNow' \in Seq(Kw) /\ OpenNow' = Nest(OpenNow, Head(input))
         /\ Head(input) \in Token /\ Head(input).tok \in K
         /\ \A k \in 0..n : (Head(input).tok \in {"rescue", "else", "end"} => k < n)
                              => (Lost(OpenNow, script, Done, k) => Lost(OpenNow', script', Done', k))
<1>1. Place /\ Typed /\ phase = "parse"
  BY DEF NInv, PInv, Read
<1>2. /\ Place' /\ script' = script /\ Done' = Done + 1 /\ Done \in Nat
      /\ OpenNow \in Seq(Kw) /\ OpenNow' \in Seq(Kw) /\ OpenNow' = Nest(OpenNow, Head(input))
      /\ Head(input) \in Token /\ Head(input).tok \in K
  BY <1>1, ReadPlace
<1>3. OpenNow # Bad
  BY <1>2, NestFacts
<1>4. Len(OpenNow) = n /\ \A i \in 1..Len(OpenNow) : OpenNow[i] # "bad"
  BY <1>1, <1>3, Nested
<1> QED
  BY <1>1, <1>2, <1>3, <1>4, LostKept

LEMMA StmtHeld ==
  ASSUME PInv, NInv, parse_stmt \/ parse_eof, OpenNow' # Bad
  PROVE  Held'
<1> DEFINE n == Len(end_vector)
<1>1. phase = "parse" /\ Typed
  BY DEF PInv, parse_stmt, parse_eof, Read
<1>2. /\ UNCHANGED <<branches, excs, cur_thr, methods, end_vector, opener>> /\ Written' = Written
      /\ threads' \in Seq(Thread) /\ Len(threads') = Len(threads)
      /\ \A k \in 1..Len(threads) : /\ threads'[k].branch = threads[k].branch
                                    /\ threads'[k].excobj = threads[k].excobj
                                    /\ threads'[k].callsym = threads[k].callsym
  BY <1>1, StmtEffect
<1>3. /\ OpenNow # Bad /\ OpenNow' = OpenNow /\ script' = script
      /\ \A k \in 0..n : Lost(OpenNow, script, Done, k) => Lost(OpenNow', script', Done', k)
  <2>1. CASE parse_stmt
    <3>1. Read(SimpleKinds \cup {"call"})
      BY <2>1 DEF parse_stmt
    <3> QED
      BY <3>1, Right, NestFacts DEF SimpleKinds
  <2>2. CASE parse_eof
    <3>1. script' = script /\ input' = input
      BY <2>2 DEF parse_eof
    <3>2. OpenNow' = OpenNow /\ Done' = Done
      BY <3>1 DEF OpenNow, Done
    <3> QED
      BY <3>1, <3>2
  <2> QED
    BY <2>1, <2>2
<1>4. /\ n \in Nat /\ Len(Written) = n+1 /\ Len(OpenNow) = n
      /\ \A k \in 1..(n+1) : Written[k] \in 1..Len(threads)
      /\ \A k \in 1..n : /\ Level(threads, excs, end_vector, Written, OpenNow, script, Done, k)
                         /\ k \in 1..(n+1) /\ k+1 \in 1..(n+1)
      /\ Handlers(threads, excs, end_vector, Written)
      /\ \A x \in 1..Len(excs) : excs[x].body_thr \in 1..Len(threads)
  BY <1>1, <1>3, Nested
<1> HIDE DEF n
<1>5. \A k \in 1..n : Level(threads', excs', end_vector', Written', OpenNow', script', Done', k)
  <2> SUFFICES ASSUME NEW k \in 1..n
               PROVE  Level(threads', excs', end_vector', Written', OpenNow', script', Done', k)
    OBVIOUS
  <2>1. Level(threads, excs, end_vector, Written, OpenNow, script, Done, k)
        /\ Written[k] \in 1..Len(threads) /\ Written[k+1] \in 1..Len(threads) /\ k \in 0..n
    BY <1>4
  <2>2. Inner(end_vector', k) <=> Inner(end_vector, k)
    BY <1>2
  <2>3. Level(threads', excs, end_vector, Written, OpenNow, script, Done', k)
    <3>1. Lost(OpenNow, script, Done, k) => Lost(OpenNow, script, Done', k)
      BY <1>3, <2>1
    <3> QED
      BY <1>2, <2>1, <3>1, LevelKept
  <2> QED
    BY <1>2, <1>3, <2>3
<1>6. Levels(threads', excs', end_vector', Written', OpenNow', script', Done')
  BY <1>2, <1>3, <1>4, <1>5 DEF Levels, n
<1>7. Handlers(threads', excs', end_vector', Written')
  <2>1. threads \in Seq(Thread) /\ excs \in Seq(Exc) /\ Len(threads) \in Nat /\ Len(end_vector) = n
    BY <1>1, Sizes DEF n
  <2>2. /\ Len(threads') >= Len(threads)
        /\ \A t \in 1..Len(threads') : t > Len(threads) => threads'[t].excobj = 0
    BY <1>2, <2>1
  <2>3. \A k \in 1..Len(Written) : k > 1 => k-1 \in 1..Len(Written)
    BY <1>4
  <2> QED
    BY <1>2, <1>4, <2>1, <2>2, <2>3, Quiet
<1> QED
  BY <1>6, <1>7 DEF Held

\* One more block is open.
LEMMA OneMore ==
  ASSUME NEW S, NEW W \in Seq(S), NEW n \in Nat, Len(W) = n, NEW b \in S,
         NEW V, V = Append(W, b)
  PROVE  Len(V) = n+1 /\ V[n+1] = b /\ \A k \in 1..n : V[k] = W[k]
BY Pushed

LEMMA InnerMore ==
  ASSUME NEW ev, NEW dv, NEW n \in Nat, Len(ev) = n, Len(dv) = n+1, \A k \in 1..n : dv[k] = ev[k]
  PROVE  /\ \A k \in 1..n : (k < n \/ dv[n+1] # "end_begin") => (Inner(dv, k) <=> Inner(ev, k))
         /\ dv[n+1] = "end_begin" => Inner(dv, n)
         /\ ~Inner(dv, n+1)
<1>1. /\ \A k \in 1..n : k < n => k+1 \in 1..n /\ k < n+1
      /\ \A k \in 1..n : ~(k < n) => k = n
      /\ ~(n+1 < n+1) /\ n < n+1 /\ ~(n < n)
  OBVIOUS
<1>2. \A k \in 1..n : (k < n \/ dv[n+1] # "end_begin") => (Inner(dv, k) <=> Inner(ev, k))
  BY <1>1 DEF Inner
<1>3. dv[n+1] = "end_begin" => Inner(dv, n)
  BY <1>1 DEF Inner
<1>4. ~Inner(dv, n+1)
  BY <1>1 DEF Inner
<1> QED
  BY <1>2, <1>3, <1>4

\* A side of a branch or a method is opened.
LEMMA OpenHeld ==
  ASSUME PInv, NInv, NEW K, Read(K), OpenNow' # Bad,
         NEW w, w = Head(input).tok, w \in {"if", "while", "loop", "def"},
         NEW f, f = (IF w = "def" THEN "end_define" ELSE "end_if"), Open(f),
         NEW b, b = Len(threads) + 1, cur_thr' = b, excs' = excs,
         threads' \in Seq(Thread), Len(threads') = b,
         \A t \in 1..Len(threads) : /\ threads'[t].branch = threads[t].branch
                                    /\ threads'[t].excobj = threads[t].excobj
                                    /\ threads'[t].callsym = threads[t].callsym,
         threads'[b].excobj = 0,
         w # "def" => threads'[b].branch # 0,
         w = "def" => threads'[b].callsym # NoName
  PROVE  Held'
<1> DEFINE n == Len(end_vector)
<1>1. /\ OpenNow # Bad /\ phase = "parse" /\ Typed /\ Place /\ Place' /\ script' = script
      /\ OpenNow \in Seq(Kw) /\ OpenNow' = Nest(OpenNow, Head(input)) /\ Head(input) \in Token
      /\ \A k \in 0..n : Lost(OpenNow, script, Done, k) => Lost(OpenNow', script', Done', k)
  BY Right
<1>2. /\ n \in Nat /\ Len(Written) = n+1 /\ Len(OpenNow) = n
      /\ \A k \in 1..(n+1) : Written[k] \in 1..Len(threads)
      /\ \A k \in 1..n : /\ Level(threads, excs, end_vector, Written, OpenNow, script, Done, k)
                         /\ k \in 1..(n+1) /\ k+1 \in 1..(n+1)
      /\ Handlers(threads, excs, end_vector, Written)
      /\ \A x \in 1..Len(excs) : excs[x].body_thr \in 1..Len(threads)
  BY <1>1, Nested
<1>3. /\ Len(threads) \in Nat /\ DOMAIN threads = 1..Len(threads) /\ b \in DOMAIN threads' /\ b \in Nat
      /\ DOMAIN threads \subseteq DOMAIN threads' /\ f \in EndFn /\ f # "end_begin" /\ w \in Kw
      /\ threads \in Seq(Thread) /\ excs \in Seq(Exc) /\ end_vector \in Seq(EndFn)
  BY <1>1, Sizes DEF EndFn, Kw, Typed
<1>4. /\ Written' = Append(Written, b) /\ end_vector' = Append(end_vector, f)
      /\ OpenNow' = Append(OpenNow, w)
  BY <1>1, <1>3, Opened, NestFacts
<1>5. Written \in Seq(Nat)
  <2>1. Written \in Seq(1..Len(threads))
    BY <1>1, <1>3, WrittenFacts
  <2> QED
    BY <1>3, <2>1
<1>6. Len(end_vector) = n
  OBVIOUS
<1> HIDE DEF n
<1> DEFINE V == Written'
           dv == end_vector'
           ms == OpenNow'
<1>7. V = Append(Written, b) /\ dv = Append(end_vector, f) /\ ms = Append(OpenNow, w)
  BY <1>4
<1> HIDE DEF V, dv, ms
<1>8. /\ Written \in Seq(Nat) /\ end_vector \in Seq(EndFn) /\ OpenNow \in Seq(Kw) /\ n \in Nat
       /\ Len(Written) = n+1 /\ Len(end_vector) = n /\ Len(OpenNow) = n /\ b \in Nat
       /\ f \in EndFn /\ w \in Kw /\ f # "end_begin"
  BY <1>1, <1>2, <1>3, <1>5, <1>6
<1>9. /\ Len(V) = n+2 /\ V[n+2] = b /\ \A k \in 1..(n+1) : V[k] = Written[k]
      /\ Len(dv) = n+1 /\ dv[n+1] = f /\ \A k \in 1..n : dv[k] = end_vector[k]
      /\ Len(ms) = n+1 /\ ms[n+1] = w /\ \A k \in 1..n : ms[k] = OpenNow[k]
      /\ \A k \in 1..n : V[k] = Written[k] /\ V[k+1] = Written[k+1]
      /\ \A k \in 1..(n+1) : k \in 1..n \/ k = n+1
      /\ \A k \in 1..n : Inner(dv, k) <=> Inner(end_vector, k)
      /\ ~Inner(dv, n+1) /\ (n+1)+1 = n+2
  <2>1. Len(V) = n+1+1 /\ V[n+1+1] = b /\ \A k \in 1..(n+1) : V[k] = Written[k]
    BY ONLY <1>7, <1>8, OneMore
  <2>2. Len(dv) = n+1 /\ dv[n+1] = f /\ \A k \in 1..n : dv[k] = end_vector[k]
    BY ONLY <1>7, <1>8, OneMore
  <2>3. Len(ms) = n+1 /\ ms[n+1] = w /\ \A k \in 1..n : ms[k] = OpenNow[k]
    BY ONLY <1>7, <1>8, OneMore
  <2>4. (\A k \in 1..n : Inner(dv, k) <=> Inner(end_vector, k)) /\ ~Inner(dv, n+1)
    BY ONLY <1>8, <2>2, InnerMore
  <2>5. /\ \A k \in 1..n : k \in 1..(n+1) /\ k+1 \in 1..(n+1)
        /\ \A k \in 1..(n+1) : k \in 1..n \/ k = n+1
        /\ (n+1)+1 = n+2
    BY ONLY <1>8
  <2> QED
    BY ONLY <2>1, <2>2, <2>3, <2>4, <2>5
<1>10. ASSUME NEW k \in 1..n
      PROVE  Level(threads', excs', dv, V, ms, script', Done', k)
  <2>1. /\ Level(threads, excs, end_vector, Written, OpenNow, script, Done, k)
        /\ Written[k] \in 1..Len(threads) /\ Written[k+1] \in 1..Len(threads) /\ k \in 0..n
    BY <1>2
  <2>2. Lost(OpenNow, script, Done, k) => Lost(ms, script, Done', k)
    BY <1>1, <2>1 DEF ms
  <2>4. /\ ms[k] = OpenNow[k] /\ dv[k] = end_vector[k] /\ V[k] = Written[k] /\ V[k+1] = Written[k+1]
        /\ Inner(dv, k) <=> Inner(end_vector, k)
    BY <1>9
  <2>5. /\ threads'[Written[k]].excobj = threads[Written[k]].excobj
        /\ threads'[Written[k+1]].excobj = threads[Written[k+1]].excobj
        /\ threads'[Written[k+1]].branch = threads[Written[k+1]].branch
        /\ threads'[Written[k+1]].callsym = threads[Written[k+1]].callsym
    BY <2>1
  <2>3. Level(threads', excs, dv, V, ms, script, Done', k)
    BY ONLY <2>1, <2>2, <2>4, <2>5, LevelKept
  <2> QED
    BY <1>1, <2>3
<1>11. Level(threads', excs', dv, V, ms, script', Done', n+1)
  BY <1>9 DEF Level, IfKinds
<1>12. Levels(threads', excs', dv, V, ms, script', Done')
  BY <1>9, <1>10, <1>11 DEF Levels
<1>13. Handlers(threads', excs', dv, V)
  <2>1. /\ Len(threads') >= Len(threads) /\ b > Len(threads)
        /\ \A t \in 1..Len(threads') : t > Len(threads) => threads'[t].excobj = 0
    BY <1>3
  <2>2. \A k \in 1..Len(V) : \/ V[k] > Len(threads)
                             \/ /\ k \in 1..Len(Written) /\ V[k] = Written[k]
                                /\ k > 1 => /\ k-1 \in 1..Len(Written) /\ V[k-1] = Written[k-1]
                                            /\ dv[k-1] = end_vector[k-1]
    <3>1. \A k \in 1..(n+2) : k = n+2 \/ (k \in 1..(n+1) /\ (k > 1 => k-1 \in 1..n /\ k-1 \in 1..(n+1)))
      BY <1>2
    <3> QED
      BY <1>2, <1>9, <2>1, <3>1
  <2>3. \A k \in 1..Len(end_vector) : k \in 1..Len(dv) /\ dv[k] = end_vector[k]
                                      /\ V[k] = Written[k] /\ k \in 1..Len(Written)
    <3>1. Len(end_vector) = n /\ \A k \in 1..n : k \in 1..(n+1)
      BY <1>2, <1>6
    <3> QED
      BY <1>2, <1>9, <3>1
  <2>4. Handlers(threads', excs, dv, V)
    BY ONLY <1>2, <1>3, <2>1, <2>2, <2>3, Quiet, threads' \in Seq(Thread),
            \A t \in 1..Len(threads) : threads'[t].excobj = threads[t].excobj
  <2> QED
    BY <2>4
<1> QED
  BY <1>12, <1>13 DEF Held, V, dv, ms

LEMMA IfHeld ==
  ASSUME PInv, NInv, parse_if, OpenNow' # Bad
  PROVE  Held'
<1> DEFINE b == Len(threads) + 1
           d == Len(branches) + 1
<1>1. Read({"if", "while", "loop"}) /\ Typed
  BY DEF parse_if, PInv
<1>2. /\ Open("end_if") /\ UNCHANGED excs /\ cur_thr' = b /\ d # 0
      /\ threads' \in Seq(Thread) /\ Len(threads') = b
      /\ \A t \in 1..Len(threads) : /\ threads'[t].branch = threads[t].branch
                                    /\ threads'[t].excobj = threads[t].excobj
                                    /\ threads'[t].callsym = threads[t].callsym
      /\ threads'[b].branch = d /\ threads'[b].excobj = 0
  BY <1>1, IfEffect
<1>3. Head(input).tok \in {"if", "while", "loop"} /\ Head(input).tok # "def"
  BY <1>1, Reads
<1> HIDE DEF b, d
<1> QED
  BY <1>1, <1>2, <1>3, OpenHeld DEF b

LEMMA DefineHeld ==
  ASSUME PInv, NInv, parse_define, OpenNow' # Bad
  PROVE  Held'
<1> DEFINE b == Len(threads) + 1
<1>1. Read({"def"}) /\ Typed
  BY DEF parse_define, PInv
<1>2. /\ Open("end_define") /\ UNCHANGED excs /\ cur_thr' = b
      /\ threads' \in Seq(Thread) /\ Len(threads') = b
      /\ \A t \in 1..Len(threads) : threads'[t] = threads[t]
      /\ threads'[b].callsym = Head(input).name /\ threads'[b].excobj = 0
  BY <1>1, DefineEffect
<1>3. Head(input).tok = "def" /\ Head(input).name # NoName
  <2>1. /\ Head(input).tok = "def" /\ script \in Scripts /\ Place /\ Head(input) = script[Done + 1]
        /\ Done + 1 \in 1..Len(script)
    BY <1>1, ReadPlace DEF NInv, Typed
  <2>2. script \in Seq(Token) /\ DOMAIN script = 1..Len(script)
    BY <2>1 DEF Place
  <2> QED
    BY <2>1, <2>2, ScriptsAssumption
<1> HIDE DEF b
<1> QED
  BY <1>1, <1>2, <1>3, OpenHeld DEF b

LEMMA BeginHeld ==
  ASSUME PInv, NInv, parse_begin, OpenNow' # Bad
  PROVE  Held'
<1> DEFINE n == Len(end_vector)
           b == Len(threads) + 1
           x == Len(excs) + 1
<1>1. Read({"begin"}) /\ Typed
  BY DEF parse_begin, PInv
<1>2. /\ Open("end_begin") /\ cur_thr' = b /\ b \in Nat /\ x \in Nat /\ x # 0
      /\ threads' \in Seq(Thread) /\ Len(threads') = b
      /\ threads'[b].excobj = x
      /\ \A t \in 1..Len(threads) :
           /\ threads'[t].branch = threads[t].branch /\ threads'[t].callsym = threads[t].callsym
           /\ threads'[t].excobj = IF t = cur_thr THEN x ELSE threads[t].excobj
      /\ excs' \in Seq(Exc) /\ Len(excs') = x
      /\ excs'[x].body_thr = b /\ excs'[x].rescue_thr = 0
      /\ \A y \in 1..Len(excs) : excs'[y] = excs[y]
  BY <1>1, BeginEffect
<1>3. /\ OpenNow # Bad /\ phase = "parse" /\ script' = script /\ Done' = Done + 1 /\ Done \in Nat
      /\ OpenNow \in Seq(Kw) /\ OpenNow' = Nest(OpenNow, Head(input)) /\ Head(input) \in Token
      /\ Head(input).tok = "begin"
      /\ \A k \in 0..n : Lost(OpenNow, script, Done, k) => Lost(OpenNow', script', Done', k)
  BY <1>1, Right
<1>4. /\ n \in Nat /\ Len(Written) = n+1 /\ Len(OpenNow) = n /\ Written[n+1] = cur_thr
      /\ \A k \in 1..(n+1) : Written[k] \in 1..Len(threads)
      /\ \A j \in 1..(n+1), k \in 1..(n+1) : j < k => Written[j] < Written[k]
      /\ \A k \in 1..n : /\ Level(threads, excs, end_vector, Written, OpenNow, script, Done, k)
                         /\ k \in 1..(n+1) /\ k+1 \in 1..(n+1)
                         /\ OpenNow[k] = "begin" => end_vector[k] = "end_begin"
                         /\ end_vector[k] = "end_begin" => threads[Written[k]].excobj \in 1..Len(excs)
      /\ Handlers(threads, excs, end_vector, Written)
      /\ \A t \in 1..Len(threads) : threads[t].excobj \in 0..Len(excs)
      /\ \A y \in 1..Len(excs) : excs[y].body_thr \in 1..Len(threads)
  BY <1>3, Nested
<1>5. /\ Len(threads) \in Nat /\ DOMAIN threads = 1..Len(threads) /\ b \in DOMAIN threads'
      /\ DOMAIN threads \subseteq DOMAIN threads' /\ "end_begin" \in EndFn /\ "begin" \in Kw
      /\ threads \in Seq(Thread) /\ excs \in Seq(Exc) /\ end_vector \in Seq(EndFn)
      /\ Len(end_vector) = n
  BY <1>1, <1>2, Sizes DEF EndFn, Kw, Typed
<1>6. /\ Written' = Append(Written, b) /\ end_vector' = Append(end_vector, "end_begin")
      /\ OpenNow' = Append(OpenNow, "begin")
  BY <1>1, <1>2, <1>3, <1>5, Opened, NestFacts
<1>7. Written \in Seq(Nat)
  <2>1. Written \in Seq(1..Len(threads))
    BY <1>1, <1>5, WrittenFacts
  <2> QED
    BY <1>5, <2>1
<1>8. b = Len(threads) + 1 /\ x = Len(excs) + 1
  OBVIOUS
<1> DEFINE V == Written'
           dv == end_vector'
           ms == OpenNow'
<1> HIDE DEF n, b, x
<1>9. /\ Written \in Seq(Nat) /\ end_vector \in Seq(EndFn) /\ OpenNow \in Seq(Kw) /\ n \in Nat
      /\ Len(Written) = n+1 /\ Len(end_vector) = n /\ Len(OpenNow) = n /\ b \in Nat
      /\ "end_begin" \in EndFn /\ "begin" \in Kw
      /\ V = Append(Written, b) /\ dv = Append(end_vector, "end_begin")
      /\ ms = Append(OpenNow, "begin")
  BY <1>2, <1>3, <1>4, <1>5, <1>6, <1>7
<1> HIDE DEF V, dv, ms
<1>10. /\ Len(V) = n+2 /\ V[n+2] = b /\ \A k \in 1..(n+1) : V[k] = Written[k]
       /\ Len(dv) = n+1 /\ dv[n+1] = "end_begin" /\ \A k \in 1..n : dv[k] = end_vector[k]
       /\ Len(ms) = n+1 /\ ms[n+1] = "begin" /\ \A k \in 1..n : ms[k] = OpenNow[k]
       /\ \A k \in 1..n : V[k] = Written[k] /\ V[k+1] = Written[k+1]
       /\ \A k \in 1..(n+1) : k \in 1..n \/ k = n+1
       /\ \A k \in 1..n : k < n => (Inner(dv, k) <=> Inner(end_vector, k))
       /\ Inner(dv, n) /\ ~Inner(dv, n+1) /\ (n+1)+1 = n+2
  <2>1. Len(V) = n+1+1 /\ V[n+1+1] = b /\ \A k \in 1..(n+1) : V[k] = Written[k]
    BY ONLY <1>9, OneMore
  <2>2. Len(dv) = n+1 /\ dv[n+1] = "end_begin" /\ \A k \in 1..n : dv[k] = end_vector[k]
    BY ONLY <1>9, OneMore
  <2>3. Len(ms) = n+1 /\ ms[n+1] = "begin" /\ \A k \in 1..n : ms[k] = OpenNow[k]
    BY ONLY <1>9, OneMore
  <2>4. /\ \A k \in 1..n : k < n => (Inner(dv, k) <=> Inner(end_vector, k))
        /\ Inner(dv, n) /\ ~Inner(dv, n+1)
    BY ONLY <1>9, <2>2, InnerMore
  <2>5. /\ \A k \in 1..n : k \in 1..(n+1) /\ k+1 \in 1..(n+1)
        /\ \A k \in 1..(n+1) : k \in 1..n \/ k = n+1
        /\ (n+1)+1 = n+2
    BY ONLY <1>9
  <2> QED
    BY ONLY <2>1, <2>2, <2>3, <2>4, <2>5
<1>11. Lost(ms, script, Done', n)
  <2>1. /\ script[Done+1] = Head(input) /\ BlocksAt(script, Done + 1)[Done + 1] = Nest(<<>>, Head(input))
    BY <1>1, ReadPlace DEF NInv
  <2>2. Nest(<<>>, Head(input)) = <<"begin">>
    BY <1>3 DEF Nest
  <2>3. Above(<<"begin">>, ms, n)
    BY <1>4, <1>10 DEF Above
  <2>4. Done + 1 \in 1..(Done + 1)
    BY <1>3
  <2> QED
    BY <1>3, <2>1, <2>2, <2>3, <2>4 DEF Lost
<1>12. ASSUME NEW k \in 1..n
       PROVE  Level(threads', excs', dv, V, ms, script', Done', k)
  <2>1. /\ Level(threads, excs, end_vector, Written, OpenNow, script, Done, k)
        /\ Written[k] \in 1..Len(threads) /\ Written[k+1] \in 1..Len(threads) /\ k \in 0..n
    BY <1>4
  <2>2. Lost(OpenNow, script, Done, k) => Lost(ms, script, Done', k)
    BY <1>3, <2>1 DEF ms
  <2>3. ms[k] = OpenNow[k] /\ dv[k] = end_vector[k] /\ V[k] = Written[k] /\ V[k+1] = Written[k+1]
    BY <1>10
  <2>4. Written[k] # cur_thr /\ (k < n => Written[k+1] # cur_thr)
    <3>1. /\ k \in 1..(n+1) /\ n+1 \in 1..(n+1) /\ k < n+1 /\ cur_thr \in 1..Len(threads)
          /\ (k < n => k+1 \in 1..(n+1) /\ k+1 < n+1)
      BY <1>4
    <3>2. Written[k] < cur_thr /\ (k < n => Written[k+1] < cur_thr)
      BY <1>4, <3>1
    <3> QED
      BY <2>1, <3>1, <3>2
  <2>5. /\ threads'[Written[k]].excobj = threads[Written[k]].excobj
        /\ threads'[Written[k+1]].branch = threads[Written[k+1]].branch
        /\ threads'[Written[k+1]].callsym = threads[Written[k+1]].callsym
        /\ k < n => threads'[Written[k+1]].excobj = threads[Written[k+1]].excobj
    BY <1>2, <2>1, <2>4
  <2>6. OpenNow[k] = "begin" => excs'[threads[Written[k]].excobj] = excs[threads[Written[k]].excobj]
    BY <1>2, <1>4
  <2>7. \/ /\ threads'[Written[k+1]].excobj = threads[Written[k+1]].excobj
           /\ Inner(dv, k) <=> Inner(end_vector, k)
        \/ Inner(dv, k) /\ Lost(ms, script, Done', k)
    <3>1. k < n \/ k = n
      BY <1>4
    <3> QED
      BY <1>10, <1>11, <2>5, <3>1
  <2>8. Level(threads', excs', dv, V, ms, script, Done', k)
    BY ONLY <2>1, <2>2, <2>3, <2>5, <2>6, <2>7, LevelKept
  <2> QED
    BY <1>3, <2>8
<1>13. Level(threads', excs', dv, V, ms, script', Done', n+1)
  <2>1. threads'[V[n+1]].excobj = x /\ V[n+1] = cur_thr /\ cur_thr \in 1..Len(threads)
    BY <1>2, <1>4, <1>10
  <2> QED
    BY <1>2, <1>10, <2>1 DEF Level, IfKinds
<1>14. Levels(threads', excs', dv, V, ms, script', Done')
  BY <1>10, <1>12, <1>13 DEF Levels
<1>15. Handlers(threads', excs', dv, V)
  <2>1. Sized(threads, excs, end_vector, Written, n)
    BY <1>4, <1>5 DEF Sized
  <2>2. NotesBegin(threads, threads', excs, excs', end_vector, dv, Written, V, n, b, x)
    BY <1>2, <1>4, <1>8, <1>10 DEF NotesBegin
  <2> QED
    BY <1>4, <2>1, <2>2, BeginHandlers
<1> QED
  BY <1>14, <1>15 DEF Held, V, dv, ms

\* The last of the blocks is another one.
LEMMA OneOther ==
  ASSUME NEW S, NEW W \in Seq(S), NEW n \in Nat \ {0}, Len(W) = n, NEW b \in S,
         NEW V, V = Append(Front(W), b)
  PROVE  Len(V) = n /\ V[n] = b /\ \A k \in 1..(n-1) : V[k] = W[k]
<1>1. W # <<>>
  OBVIOUS
<1>2. Front(W) \in Seq(S) /\ Len(Front(W)) = n-1 /\ \A k \in 1..(n-1) : Front(W)[k] = W[k]
  BY <1>1, Popped
<1>3. n-1 \in Nat /\ (n-1)+1 = n
  OBVIOUS
<1> QED
  BY <1>2, <1>3, OneMore

\* A rescue or an else takes the place of the block before it.
LEMMA SwapBlocks ==
  ASSUME PInv, NInv, NEW K, Read(K), OpenNow' # Bad, NEW n, n = Len(end_vector),
         NEW w, w = Head(input).tok, w \in {"rescue", "else"},
         NEW b, b = Len(threads) + 1, cur_thr' = b, UNCHANGED <<opener, end_vector>>
  PROVE  /\ n \in Nat \ {0} /\ n > 0 /\ OpenNow[n] \in (IF w = "rescue" THEN {"begin"} ELSE {"if", "while", "loop"})
         /\ Len(Written') = n+1 /\ Written'[n+1] = b /\ \A k \in 1..n : Written'[k] = Written[k]
         /\ Len(OpenNow') = n /\ OpenNow'[n] = w /\ \A k \in 1..(n-1) : OpenNow'[k] = OpenNow[k]
         /\ \A k \in 1..(n-1) : Lost(OpenNow, script, Done, k) => Lost(OpenNow', script', Done', k)
<1>1. /\ OpenNow # Bad /\ phase = "parse" /\ Typed /\ OpenNow \in Seq(Kw)
      /\ OpenNow' = Nest(OpenNow, Head(input)) /\ Head(input) \in Token
      /\ \A k \in 0..n : k < n => (Lost(OpenNow, script, Done, k) => Lost(OpenNow', script', Done', k))
  BY Right
<1>2. /\ n \in Nat /\ Len(opener) = n /\ Len(Written) = n+1 /\ Len(OpenNow) = n
  BY <1>1, Nested
<1>3. /\ OpenNow # <<>> /\ OpenNow' = Append(Front(OpenNow), w)
      /\ Last(OpenNow) \in (IF w = "rescue" THEN {"begin"} ELSE {"if", "while", "loop"})
  BY <1>1, NestFacts
<1>4. n \in Nat \ {0} /\ n > 0 /\ Last(OpenNow) = OpenNow[n]
  BY <1>1, <1>2, <1>3, Popped
<1>5. w \in Kw
  BY DEF Kw
<1>6. Len(OpenNow') = n /\ OpenNow'[n] = w /\ \A k \in 1..(n-1) : OpenNow'[k] = OpenNow[k]
  <2> DEFINE ms == OpenNow'
             ns == OpenNow
  <2>1. ms = Append(Front(ns), w) /\ ns \in Seq(Kw) /\ Len(ns) = n
    BY <1>1, <1>2, <1>3
  <2> HIDE DEF ms, ns
  <2>2. Len(ms) = n /\ ms[n] = w /\ \A k \in 1..(n-1) : ms[k] = ns[k]
    BY ONLY <1>4, <1>5, <2>1, OneOther
  <2> QED
    BY <2>2 DEF ms, ns
<1>7. Len(Written') = n+1 /\ Written'[n+1] = b /\ \A k \in 1..n : Written'[k] = Written[k]
  <2> DEFINE V == Written'
  <2>1. V = Append(opener, b) /\ opener \in Seq(Nat) /\ b \in Nat
    <3>1. opener \in Seq(1..Len(threads)) /\ Len(threads) \in Nat
      BY <1>1, Sizes DEF Typed
    <3>2. opener \in Seq(Nat) /\ b \in Nat
      BY <3>1
    <3> QED
      BY <3>2 DEF Written
  <2> HIDE DEF V
  <2>2. Len(V) = n+1 /\ V[n+1] = b /\ \A k \in 1..n : V[k] = opener[k]
    BY <1>2, <2>1, OneMore
  <2>3. \A k \in 1..n : Written[k] = opener[k]
    BY <1>1, <1>2, WrittenFacts
  <2> QED
    BY <2>2, <2>3 DEF V
<1>8. \A k \in 1..(n-1) : k \in 0..n /\ k < n
  BY <1>2
<1> QED
  BY <1>1, <1>3, <1>4, <1>6, <1>7, <1>8

LEMMA SwapHeld ==
  ASSUME PInv, NInv, NEW K, Read(K), OpenNow' # Bad, NEW n, n = Len(end_vector),
         NEW w, w = Head(input).tok, w \in {"rescue", "else"},
         NEW b, b = Len(threads) + 1, cur_thr' = b, UNCHANGED <<opener, end_vector>>,
         \A t \in 1..Len(threads) : threads'[t] = threads[t],
         w = "else" => threads'[b].branch # 0,
         \A y \in 1..Len(excs) : /\ excs'[y].body_thr = excs[y].body_thr
                                 /\ excs'[y].rescue_thr = excs[y].rescue_thr
                                    \/ excs[y].thr = Written[n]
  PROVE  Levels(threads', excs', end_vector', Written', OpenNow', script', Done')
<1>1. phase = "parse" /\ OpenNow # Bad /\ script' = script
  BY Right
<1>2. /\ n \in Nat \ {0} /\ OpenNow[n] \in (IF w = "rescue" THEN {"begin"} ELSE {"if", "while", "loop"})
      /\ Len(Written') = n+1 /\ Written'[n+1] = b /\ \A k \in 1..n : Written'[k] = Written[k]
      /\ Len(OpenNow') = n /\ OpenNow'[n] = w /\ \A k \in 1..(n-1) : OpenNow'[k] = OpenNow[k]
      /\ \A k \in 1..(n-1) : Lost(OpenNow, script, Done, k) => Lost(OpenNow', script', Done', k)
  BY SwapBlocks
<1>3. /\ Len(Written) = n+1 /\ Len(OpenNow) = n
      /\ \A k \in 1..(n+1) : Written[k] \in 1..Len(threads)
      /\ \A j \in 1..(n+1), k \in 1..(n+1) : j < k => Written[j] < Written[k]
      /\ \A k \in 1..n : /\ Level(threads, excs, end_vector, Written, OpenNow, script, Done, k)
                         /\ k \in 1..(n+1) /\ k+1 \in 1..(n+1)
                         /\ OpenNow[k] = "begin" => end_vector[k] = "end_begin"
                         /\ end_vector[k] = "end_begin" =>
                              /\ threads[Written[k]].excobj \in 1..Len(excs)
                              /\ excs[threads[Written[k]].excobj].thr = Written[k]
  BY ONLY <1>1, PInv, NInv, n = Len(end_vector), Nested
<1>4. /\ \A k \in 1..n : k \in 1..(n-1) \/ k = n
      /\ \A k \in 1..(n-1) : k \in 1..n /\ k+1 \in 1..n /\ k \in 1..(n+1) /\ n \in 1..(n+1) /\ k < n
      /\ n \in 1..n
  BY <1>2
<1> DEFINE V == Written'
           ms == OpenNow'
<1>5. ASSUME NEW k \in 1..(n-1)
      PROVE  Level(threads', excs', end_vector', V, ms, script', Done', k)
  <2>1. /\ Level(threads, excs, end_vector, Written, OpenNow, script, Done, k)
        /\ Written[k] \in 1..Len(threads) /\ Written[k+1] \in 1..Len(threads)
    BY <1>3, <1>4
  <2>2. Lost(OpenNow, script, Done, k) => Lost(ms, script, Done', k)
    BY <1>1, <1>2
  <2>3. ms[k] = OpenNow[k] /\ V[k] = Written[k] /\ V[k+1] = Written[k+1]
    BY <1>2, <1>4
  <2>4. /\ threads'[Written[k]] = threads[Written[k]]
        /\ threads'[Written[k+1]] = threads[Written[k+1]]
    BY <2>1
  <2>5. OpenNow[k] = "begin" =>
          /\ excs'[threads[Written[k]].excobj].body_thr = excs[threads[Written[k]].excobj].body_thr
          /\ excs'[threads[Written[k]].excobj].rescue_thr = excs[threads[Written[k]].excobj].rescue_thr
    <3>1. Written[k] # Written[n]
      <4>1. Written[k] < Written[n] /\ Written[n] \in 1..Len(threads)
        BY <1>3, <1>4
      <4> QED
        BY <2>1, <4>1
    <3> QED
      BY <1>3, <1>4, <3>1
  <2>6. Inner(end_vector', k) <=> Inner(end_vector, k)
    OBVIOUS
  <2> HIDE DEF V, ms
  <2>7. Level(threads', excs', end_vector, V, ms, script, Done', k)
    BY ONLY <2>1, <2>2, <2>3, <2>4, <2>5, LevelKept
  <2> QED
    BY <1>1, <2>7
<1>6. Level(threads', excs', end_vector', V, ms, script', Done', n)
  <2>1. /\ end_vector[n] = IF w = "rescue" THEN "end_begin" ELSE "end_if"
    <3>1. Level(threads, excs, end_vector, Written, OpenNow, script, Done, n)
      BY <1>3, <1>4
    <3> QED
      BY <1>2, <3>1 DEF Level, IfKinds
  <2>2. V[n+1] = b /\ ms[n] = w
    BY <1>2
  <2> HIDE DEF V, ms
  <2> QED
    BY <2>1, <2>2 DEF Level, IfKinds
<1>7. Len(end_vector') = n /\ Len(ms) = n
  BY <1>2
<1> HIDE DEF V, ms
<1>8. \A k \in 1..n : Level(threads', excs', end_vector', V, ms, script', Done', k)
  BY <1>4, <1>5, <1>6
<1> QED
  BY <1>7, <1>8 DEF Levels, V, ms

LEMMA LastIs ==
  ASSUME NEW ns \in Seq(Kw), ns # <<>>, NEW n, Len(ns) = n
  PROVE  n \in Nat \ {0} /\ n > 0 /\ n \in 1..n /\ Last(ns) = ns[n]
<1>1. Len(ns) \in Nat \ {0} /\ Last(ns) = ns[Len(ns)]
  BY Popped
<1> QED
  BY <1>1

LEMMA NowSized ==
  ASSUME PInv, NInv, phase = "parse", OpenNow # Bad, NEW n, n = Len(end_vector)
  PROVE  /\ Sized(threads, excs, end_vector, Written, n)
         /\ Handlers(threads, excs, end_vector, Written)
<1>1. threads \in Seq(Thread) /\ excs \in Seq(Exc)
  BY Sizes DEF PInv
<1> QED
  BY <1>1, Nested DEF Sized

\* Where a rescue is read in a right script, the exception object noted is
\* that of the begin it belongs to, or a begin inside has taken its place.
LEMMA RescueWhere ==
  ASSUME PInv, NInv, Read({"rescue"}), OpenNow' # Bad, NEW n, n = Len(end_vector),
         OpenNow[n] = "begin", n > 0, NEW x, x = Cur.excobj
  PROVE  /\ x = 0 => Lost(OpenNow, script, Done, n)
         /\ x # 0 => x = threads[Written[n]].excobj /\ excs[x].rescue_thr = 0
<1>1. phase = "parse" /\ OpenNow # Bad
  BY Right
<1>2. /\ n \in Nat /\ Written[n+1] = cur_thr
      /\ \A k \in 1..n : Level(threads, excs, end_vector, Written, OpenNow, script, Done, k)
  BY <1>1, Nested
<1>3. Level(threads, excs, end_vector, Written, OpenNow, script, Done, n) /\ ~Inner(end_vector, n)
  BY <1>2 DEF Inner
<1>4. threads[Written[n+1]].excobj = x
  BY <1>2 DEF Cur
<1> QED
  BY <1>3, <1>4 DEF Level

LEMMA RescueHeld ==
  ASSUME PInv, NInv, parse_rescue, OpenNow' # Bad, phase' # "crash"
  PROVE  Held'
<1> DEFINE n == Len(end_vector)
           b == Len(threads) + 1
           x == Cur.excobj
           r == NewRescue(x)
<1>1. Typed /\ Read({"rescue"}) /\ phase = "parse" /\ OpenNow # Bad
  <2>1. Read({"rescue"}) /\ Typed
    BY DEF parse_rescue, PInv
  <2> QED
    BY <2>1, Right
<1>2. b = Len(threads) + 1 /\ x = Cur.excobj /\ r = NewRescue(x)
  OBVIOUS
<1> HIDE DEF n, b, x, r
<1>3. /\ x # 0 /\ cur_thr' = b /\ UNCHANGED <<opener, end_vector>>
      /\ excs[x].thr = Cur.up /\ r.excobj = x /\ threads' \in Seq(Thread) /\ Len(threads') = b
      /\ threads'[b] = r /\ \A t \in 1..Len(threads) : threads'[t] = threads[t]
      /\ excs' \in Seq(Exc) /\ Len(excs') = Len(excs)
      /\ \A y \in 1..Len(excs) :
           /\ excs'[y].thr = excs[y].thr /\ excs'[y].body_thr = excs[y].body_thr
           /\ excs'[y].rescue_thr = IF y = x THEN b ELSE excs[y].rescue_thr
  BY <1>1, <1>2, RescueEffect
<1>4. Head(input).tok = "rescue"
  BY <1>1, Reads
<1>5. /\ n \in Nat \ {0} /\ n > 0 /\ OpenNow[n] = "begin"
      /\ Len(Written') = n+1 /\ Written'[n+1] = b /\ \A k \in 1..n : Written'[k] = Written[k]
  BY <1>1, <1>3, <1>4, SwapBlocks DEF n, b
<1>6. Written[n] = Cur.up
  <2>1. end_vector # <<>>
    BY <1>5 DEF n
  <2>2. Len(opener) = n
    BY <1>1, Sizes DEF n
  <2> QED
    BY <1>1, <2>1, <2>2, Outer
<1>7. Levels(threads', excs', end_vector', Written', OpenNow', script', Done')
  <2>1. \A y \in 1..Len(excs) : /\ excs'[y].body_thr = excs[y].body_thr
                                /\ excs'[y].rescue_thr = excs[y].rescue_thr
                                   \/ excs[y].thr = Written[n]
    BY <1>3, <1>6
  <2> QED
    BY <1>1, <1>3, <1>4, <2>1, SwapHeld DEF n, b
<1>8. excs[x].rescue_thr = 0
  BY <1>1, <1>3, <1>5, RescueWhere DEF n, x
<1>9. Handlers(threads', excs', end_vector', Written')
  <2>1. Sized(threads, excs, end_vector, Written, n) /\ Handlers(threads, excs, end_vector, Written)
    BY <1>1, NowSized DEF n
  <2> DEFINE V == Written'
  <2>2. NotesRescue(threads, threads', excs, excs', Written, V, n, b, x)
    BY <1>3, <1>5, <1>8 DEF NotesRescue, b
  <2> HIDE DEF V
  <2>3. Handlers(threads', excs', end_vector, V)
    BY <2>1, <2>2, RescueHandlers
  <2> QED
    BY <1>3, <2>3 DEF V
<1> QED
  BY <1>7, <1>9 DEF Held

\* The rescue of a begin that has lost its exception object.
LEMMA RescueWrong ==
  ASSUME PInv, NInv, parse_rescue, OpenNow' # Bad, phase' = "crash"
  PROVE  Wrong'
<1> DEFINE n == Len(end_vector)
<1>1. Typed /\ Read({"rescue"}) /\ phase = "parse" /\ OpenNow # Bad
  <2>1. Read({"rescue"}) /\ Typed
    BY DEF parse_rescue, PInv
  <2> QED
    BY <2>1, Right
<1>2. Cur.excobj = 0 /\ script' = script
  BY <1>1, Reads DEF parse_rescue, Stop
<1>3. /\ Head(input) \in Token /\ Head(input).tok = "rescue" /\ OpenNow \in Seq(Kw)
      /\ OpenNow' = Nest(OpenNow, Head(input)) /\ Done \in 0..Len(script)
      /\ Head(input) = script[Done+1] /\ Done+1 \in 1..Len(script) /\ script \in Seq(Token)
      /\ \A q \in 1..Done : BlocksAt(script, q)[Done] \in Seq(Kw)
  BY <1>1, ReadPlace DEF NInv, Place
<1>4. OpenNow # <<>> /\ Last(OpenNow) = "begin"
  BY <1>3, NestFacts
<1>5. n \in Nat /\ Len(OpenNow) = n
  BY <1>1, Nested
<1>6. OpenNow[n] = "begin" /\ n > 0
  BY <1>3, <1>4, <1>5, LastIs
<1>7. Lost(OpenNow, script, Done, n)
  BY <1>1, <1>2, <1>6, RescueWhere
<1>8. PICK q \in 1..Done : script[q].tok = "begin" /\ Above(BlocksAt(script, q)[Done], OpenNow, n)
  BY <1>7 DEF Lost
<1>9. BlocksAt(script, q)[Done] = <<>>
  BY <1>3, <1>5, <1>8 DEF Above
<1>10. Done + 1 \in DOMAIN script /\ Done = (Done + 1) - 1
  BY <1>3
<1>11. BeginBeforeRescue(script)
  BY <1>3, <1>8, <1>9, <1>10 DEF BeginBeforeRescue
<1> QED
  BY <1>2, <1>11 DEF Wrong

LEMMA ElseHeld ==
  ASSUME PInv, NInv, parse_else, OpenNow' # Bad
  PROVE  Held' /\ phase' = phase
<1> DEFINE n == Len(end_vector)
           b == Len(threads) + 1
           d == Cur.branch
           r == NewSide
<1>1. Typed /\ Read({"else"}) /\ phase = "parse" /\ OpenNow # Bad
  <2>1. Read({"else"}) /\ Typed
    BY DEF parse_else, PInv
  <2> QED
    BY <2>1, Right
<1>2. /\ Head(input) \in Token /\ Head(input).tok = "else" /\ OpenNow \in Seq(Kw)
      /\ OpenNow' = Nest(OpenNow, Head(input))
  BY <1>1, Right
<1>3. OpenNow # <<>> /\ Last(OpenNow) \in {"if", "while", "loop"}
  BY <1>2, NestFacts
<1>4. /\ n \in Nat /\ Len(OpenNow) = n /\ Written[n+1] = cur_thr
      /\ \A k \in 1..n : Level(threads, excs, end_vector, Written, OpenNow, script, Done, k)
  BY <1>1, Nested
<1>5. n \in 1..n /\ OpenNow[n] \in {"if", "while", "loop"}
  BY <1>2, <1>3, <1>4, LastIs
<1>6. d # 0
  BY <1>4, <1>5 DEF Level, IfKinds, Cur
<1>7. /\ threads' = Append(threads, r) /\ branches' = WithSide(d, b) /\ cur_thr' = b
      /\ UNCHANGED <<excs, phase, end_vector, opener>>
  BY <1>6 DEF parse_else
<1>8. /\ r.branch = d /\ r.excobj = 0 /\ threads' \in Seq(Thread) /\ Len(threads') = b
      /\ threads'[b] = r /\ \A t \in 1..Len(threads) : threads'[t] = threads[t]
  BY <1>1, <1>6, <1>7, ElseEffect
<1> HIDE DEF n, b, d, r
<1>9. /\ Len(Written') = n+1 /\ Written'[n+1] = b /\ \A k \in 1..n : Written'[k] = Written[k]
  BY <1>1, <1>2, <1>7, SwapBlocks DEF n, b
<1>10. Levels(threads', excs', end_vector', Written', OpenNow', script', Done')
  BY <1>1, <1>2, <1>6, <1>7, <1>8, SwapHeld DEF b
<1>11. Handlers(threads', excs', end_vector', Written')
  <2>1. Sized(threads, excs, end_vector, Written, n) /\ Handlers(threads, excs, end_vector, Written)
    BY <1>1, NowSized DEF n
  <2> DEFINE V == Written'
  <2>2. /\ threads \in Seq(Thread) /\ excs \in Seq(Exc) /\ Len(threads) \in Nat
        /\ Len(end_vector) = n /\ Len(Written) = n+1
        /\ \A k \in 1..(n+1) : Written[k] \in 1..Len(threads)
        /\ \A y \in 1..Len(excs) : excs[y].body_thr \in 1..Len(threads)
    BY <2>1 DEF Sized
  <2>3. /\ Len(threads') >= Len(threads) /\ b > Len(threads)
        /\ \A t \in 1..Len(threads') : t > Len(threads) => threads'[t].excobj = 0
    BY <1>8, <2>2 DEF b
  <2>4. \A k \in 1..Len(V) : \/ V[k] > Len(threads)
                             \/ /\ k \in 1..Len(Written) /\ V[k] = Written[k]
                                /\ k > 1 => /\ k-1 \in 1..Len(Written) /\ V[k-1] = Written[k-1]
                                            /\ end_vector[k-1] = end_vector[k-1]
    <3>1. \A k \in 1..(n+1) : k = n+1 \/ (k \in 1..n /\ (k > 1 => k-1 \in 1..n /\ k-1 \in 1..(n+1)))
      BY <1>4
    <3> QED
      BY <1>9, <2>2, <2>3, <3>1
  <2>5. \A k \in 1..Len(end_vector) : V[k] = Written[k] /\ k \in 1..Len(Written)
    BY <1>4, <1>9, <2>2
  <2> HIDE DEF V
  <2>6. Handlers(threads', excs, end_vector, V)
    BY ONLY <1>8, <2>1, <2>2, <2>3, <2>4, <2>5, Quiet
  <2> QED
    BY <1>7, <2>6 DEF V
<1> QED
  BY <1>7, <1>10, <1>11 DEF Held

\* The last of the blocks is left.
LEMMA ClosedBlocks ==
  ASSUME PInv, NInv, Read({"end"}), OpenNow' # Bad, NEW n, n = Len(end_vector),
         Close, cur_thr' = Cur.up
  PROVE  /\ n \in Nat \ {0} /\ n > 0 /\ end_vector # <<>> /\ Written[n] = Cur.up
         /\ Len(Written') = n /\ \A k \in 1..n : Written'[k] = Written[k]
         /\ Len(end_vector') = n-1 /\ \A k \in 1..(n-1) : end_vector'[k] = end_vector[k]
         /\ Len(OpenNow') = n-1 /\ \A k \in 1..(n-1) : OpenNow'[k] = OpenNow[k]
         /\ \A k \in 1..(n-1) : Lost(OpenNow, script, Done, k) => Lost(OpenNow', script', Done', k)
         /\ \A k \in 1..(n-1) : k < n-1 => (Inner(end_vector', k) <=> Inner(end_vector, k))
         /\ ~Inner(end_vector', n-1)
         /\ \A k \in 1..(n-1) : /\ k \in 1..n /\ k+1 \in 1..n /\ k \in 0..n /\ k < n
                                /\ (k < n-1 => k+1 < n) /\ (~(k < n-1) => k = n-1)
<1>1. /\ OpenNow # Bad /\ phase = "parse" /\ Typed /\ OpenNow \in Seq(Kw)
      /\ OpenNow' = Nest(OpenNow, Head(input)) /\ Head(input) \in Token /\ Head(input).tok = "end"
      /\ \A k \in 0..n : k < n => (Lost(OpenNow, script, Done, k) => Lost(OpenNow', script', Done', k))
  BY Right
<1>2. /\ n \in Nat /\ Len(opener) = n /\ Len(Written) = n+1 /\ Len(OpenNow) = n
  BY <1>1, Nested
<1>3. OpenNow # <<>> /\ OpenNow' = Front(OpenNow)
  BY <1>1, NestFacts
<1>4. n \in Nat \ {0} /\ n > 0
  BY <1>1, <1>2, <1>3, LastIs
<1>5. Len(OpenNow') = n-1 /\ \A k \in 1..(n-1) : OpenNow'[k] = OpenNow[k]
  BY <1>1, <1>2, <1>3, Popped
<1>6. end_vector # <<>> /\ opener # <<>> /\ opener \in Seq(DOMAIN threads) /\ end_vector \in Seq(EndFn)
  BY <1>1, <1>2, <1>4 DEF Typed
<1>7. /\ Len(end_vector') = n-1 /\ \A k \in 1..(n-1) : end_vector'[k] = end_vector[k]
      /\ opener' \in Seq(DOMAIN threads) /\ Len(opener') = n-1
      /\ \A k \in 1..(n-1) : opener'[k] = opener[k]
  BY <1>2, <1>6, Popped DEF Close
<1>8. Written[n] = Cur.up /\ Cur.up \in 1..Len(threads) /\ DOMAIN threads = 1..Len(threads)
  BY <1>1, <1>2, <1>6, Outer, Sizes
<1>9. \A k \in 1..n : k \in 1..(n-1) \/ k = n
  BY <1>4
<1>10. Len(Written') = n /\ \A k \in 1..n : Written'[k] = Written[k]
  <2> DEFINE V == Written'
  <2>1. V = Append(opener', Cur.up) /\ n-1 \in Nat /\ (n-1)+1 = n
    BY <1>4 DEF Written
  <2>2. \A k \in 1..n : Written[k] = opener[k]
    BY <1>1, <1>2, WrittenFacts
  <2> HIDE DEF V
  <2>3. Len(V) = n /\ V[n] = Cur.up /\ \A k \in 1..(n-1) : V[k] = opener'[k]
    BY <1>7, <1>8, <2>1, Pushed
  <2>4. \A k \in 1..n : V[k] = Written[k]
    BY <1>7, <1>8, <1>9, <2>2, <2>3
  <2> QED
    BY <2>3, <2>4 DEF V
<1>11. \A k \in 1..(n-1) : /\ k \in 1..n /\ k+1 \in 1..n /\ k \in 0..n /\ k < n
                           /\ (k < n-1 => k+1 < n /\ k+1 \in 1..(n-1)) /\ (~(k < n-1) => k = n-1)
  BY <1>4
<1>12. /\ \A k \in 1..(n-1) : k < n-1 => (Inner(end_vector', k) <=> Inner(end_vector, k))
       /\ ~Inner(end_vector', n-1)
  <2> DEFINE dv == end_vector'
  <2>1. Len(dv) = n-1 /\ \A k \in 1..(n-1) : dv[k] = end_vector[k]
    BY <1>7
  <2> HIDE DEF dv
  <2>2. ~(n-1 < n-1)
    BY <1>4
  <2>3. /\ \A k \in 1..(n-1) : k < n-1 => (Inner(dv, k) <=> Inner(end_vector, k))
        /\ ~Inner(dv, n-1)
    BY <1>11, <2>1, <2>2 DEF Inner
  <2> QED
    BY <2>3 DEF dv
<1> QED
  BY <1>1, <1>4, <1>5, <1>6, <1>7, <1>8, <1>10, <1>11, <1>12

\* The end of a side or a method.
LEMMA CloseHeld ==
  ASSUME PInv, NInv, Read({"end"}), OpenNow' # Bad, NEW n, n = Len(end_vector),
         Close, cur_thr' = Cur.up, end_vector[n] # "end_begin", excs' = excs,
         threads' \in Seq(Thread), Len(threads') = Len(threads),
         \A t \in 1..Len(threads) : /\ threads'[t].branch = threads[t].branch
                                    /\ threads'[t].excobj = threads[t].excobj
                                    /\ threads'[t].callsym = threads[t].callsym
  PROVE  Held'
<1>1. phase = "parse" /\ OpenNow # Bad /\ script' = script
  BY Right
<1> DEFINE V == Written'
           dv == end_vector'
           ms == OpenNow'
<1>2. /\ n \in Nat \ {0} /\ n > 0
      /\ Len(V) = n /\ \A k \in 1..n : V[k] = Written[k]
      /\ Len(dv) = n-1 /\ \A k \in 1..(n-1) : dv[k] = end_vector[k]
      /\ Len(ms) = n-1 /\ \A k \in 1..(n-1) : ms[k] = OpenNow[k]
      /\ \A k \in 1..(n-1) : Lost(OpenNow, script, Done, k) => Lost(ms, script, Done', k)
      /\ \A k \in 1..(n-1) : k < n-1 => (Inner(dv, k) <=> Inner(end_vector, k))
      /\ ~Inner(dv, n-1)
      /\ \A k \in 1..(n-1) : /\ k \in 1..n /\ k+1 \in 1..n /\ k \in 0..n /\ k < n
                             /\ (k < n-1 => k+1 < n) /\ (~(k < n-1) => k = n-1)
  BY <1>1, ClosedBlocks
<1>3. /\ Len(Written) = n+1
      /\ \A k \in 1..n : Written[k] \in 1..Len(threads)
      /\ \A k \in 1..n : Level(threads, excs, end_vector, Written, OpenNow, script, Done, k)
      /\ Handlers(threads, excs, end_vector, Written)
      /\ Sized(threads, excs, end_vector, Written, n)
  <2>1. \A k \in 1..n : k \in 1..(n+1)
    BY <1>2
  <2> QED
    BY ONLY <2>1, <1>1, PInv, NInv, n = Len(end_vector), Nested, NowSized
<1> HIDE DEF V, dv, ms
<1>4. ASSUME NEW k \in 1..(n-1)
      PROVE  Level(threads', excs', dv, V, ms, script', Done', k)
  <2>1. /\ Level(threads, excs, end_vector, Written, OpenNow, script, Done, k)
        /\ Written[k] \in 1..Len(threads) /\ Written[k+1] \in 1..Len(threads)
    BY <1>2, <1>3
  <2>2. Lost(OpenNow, script, Done, k) => Lost(ms, script, Done', k)
    BY <1>2
  <2>3. ms[k] = OpenNow[k] /\ dv[k] = end_vector[k] /\ V[k] = Written[k] /\ V[k+1] = Written[k+1]
    BY <1>2
  <2>4. /\ threads'[Written[k]].excobj = threads[Written[k]].excobj
        /\ threads'[Written[k+1]].branch = threads[Written[k+1]].branch
        /\ threads'[Written[k+1]].callsym = threads[Written[k+1]].callsym
        /\ threads'[Written[k+1]].excobj = threads[Written[k+1]].excobj
    BY <2>1
  <2>5. Inner(dv, k) <=> Inner(end_vector, k)
    <3>1. CASE k < n-1
      BY <1>2, <3>1
    <3>2. CASE k = n-1
      <4>1. k+1 = n
        BY <1>2, <3>2
      <4>2. ~Inner(end_vector, k)
        BY <4>1 DEF Inner
      <4> QED
        BY <1>2, <3>2, <4>2
    <3> QED
      BY <1>2, <3>1, <3>2
  <2>6. Level(threads', excs, dv, V, ms, script, Done', k)
    BY ONLY <2>1, <2>2, <2>3, <2>4, <2>5, LevelKept
  <2> QED
    BY <1>1, <2>6
<1>5. Levels(threads', excs', dv, V, ms, script', Done')
  BY <1>2, <1>4 DEF Levels
<1>6. Handlers(threads', excs', dv, V)
  <2>1. /\ threads \in Seq(Thread) /\ excs \in Seq(Exc) /\ Len(threads) \in Nat
        /\ Len(end_vector) = n /\ Len(Written) = n+1
        /\ \A k \in 1..(n+1) : Written[k] \in 1..Len(threads)
        /\ \A y \in 1..Len(excs) : excs[y].body_thr \in 1..Len(threads)
    BY <1>3 DEF Sized
  <2>2. /\ Len(threads') >= Len(threads)
        /\ \A t \in 1..Len(threads') : t > Len(threads) => threads'[t].excobj = 0
    BY <2>1
  <2>3. \A k \in 1..n : k \in 1..(n+1) /\ (k > 1 => k-1 \in 1..n /\ k-1 \in 1..(n-1) /\ k-1 \in 1..(n+1))
                        /\ (k \in 1..(n-1) \/ k = n)
    BY <1>2
  <2>4. \A k \in 1..Len(V) : /\ k \in 1..Len(Written) /\ V[k] = Written[k]
                             /\ k > 1 => /\ k-1 \in 1..Len(Written) /\ V[k-1] = Written[k-1]
                                         /\ dv[k-1] = end_vector[k-1]
    BY <1>2, <2>1, <2>3
  <2>5. \A k \in 1..Len(end_vector) : end_vector[k] = "end_begin" =>
           k \in 1..Len(dv) /\ dv[k] = end_vector[k] /\ V[k] = Written[k] /\ k \in 1..Len(Written)
    BY <1>2, <2>1, <2>3
  <2>6. Handlers(threads', excs, dv, V)
    BY ONLY <1>3, <2>1, <2>2, <2>4, <2>5, threads' \in Seq(Thread), Len(threads') = Len(threads),
            \A t \in 1..Len(threads) : threads'[t].excobj = threads[t].excobj, Quiet
  <2> QED
    BY <2>6
<1> QED
  BY <1>5, <1>6 DEF Held, V, dv, ms

\* What the innermost block is, by its closing function.
LEMMA Innermost ==
  ASSUME PInv, NInv, Read({"end"}), OpenNow' # Bad, NEW n, n = Len(end_vector),
         Close, cur_thr' = Cur.up
  PROVE  /\ Last(end_vector) = end_vector[n]
         /\ Level(threads, excs, end_vector, Written, OpenNow, script, Done, n)
         /\ end_vector[n] = "end_if" => Cur.branch # 0
         /\ end_vector[n] = "end_define" => Cur.callsym # NoName
<1>1. phase = "parse" /\ OpenNow # Bad /\ Typed
  BY Right
<1>2. n \in Nat \ {0} /\ n > 0 /\ end_vector # <<>>
  BY ClosedBlocks
<1>3. Last(end_vector) = end_vector[n]
  BY <1>1, <1>2, Popped DEF Typed
<1>4. /\ Written[n+1] = cur_thr /\ n \in 1..n
      /\ Level(threads, excs, end_vector, Written, OpenNow, script, Done, n)
  BY <1>1, <1>2, Nested
<1> QED
  BY <1>3, <1>4 DEF Level, Cur

LEMMA IfEndHeld ==
  ASSUME PInv, NInv, Read({"end"}), OpenNow' # Bad, Close, end_if
  PROVE  Held' /\ phase' = phase
<1> DEFINE n == Len(end_vector)
<1>1. /\ UNCHANGED <<threads, excs>> /\ cur_thr' = Cur.up /\ Last(end_vector) = "end_if"
      /\ phase' = IF Cur.branch = 0 THEN "yyerror" ELSE phase
  BY DEF end_if
<1>2. threads' \in Seq(Thread) /\ Len(threads') = Len(threads)
  BY <1>1, Sizes DEF PInv
<1>3. end_vector[n] = "end_if" /\ Cur.branch # 0
  BY <1>1, Innermost
<1> QED
  BY <1>1, <1>2, <1>3, CloseHeld

LEMMA DefineEndHeld ==
  ASSUME PInv, NInv, Read({"end"}), OpenNow' # Bad, Close, end_define
  PROVE  Held' /\ phase' = phase
<1> DEFINE n == Len(end_vector)
<1>1. /\ UNCHANGED excs /\ cur_thr' = Cur.up /\ Last(end_vector) = "end_define"
      /\ threads' \in Seq(Thread) /\ Len(threads') = Len(threads)
      /\ \A t \in 1..Len(threads) : /\ threads'[t].branch = threads[t].branch
                                    /\ threads'[t].excobj = threads[t].excobj
                                    /\ threads'[t].callsym = threads[t].callsym
      /\ phase' = IF Cur.callsym = NoName THEN "fail" ELSE phase
  BY DefineEndEffect DEF PInv
<1>2. end_vector[n] = "end_define" /\ Cur.callsym # NoName
  BY <1>1, Innermost
<1> QED
  BY <1>1, <1>2, CloseHeld

\* The end of a begin: the block around is left with no note, the body of a
\* begin in which this one was opened.
LEMMA BeginEndHeld ==
  ASSUME PInv, NInv, Read({"end"}), OpenNow' # Bad, Close, end_begin
  PROVE  Held' /\ phase' = phase
<1> DEFINE n == Len(end_vector)
           u == Cur.up
           x == threads[u].excobj
           b == excs[x].body_thr
           V == Written'
           dv == end_vector'
           ms == OpenNow'
<1>1. phase = "parse" /\ OpenNow # Bad /\ script' = script /\ Typed
  BY Right
<1>2. cur_thr' = u
  BY DEF end_begin
<1>3. /\ n \in Nat \ {0} /\ n > 0 /\ end_vector # <<>> /\ Written[n] = u
      /\ Len(V) = n /\ \A k \in 1..n : V[k] = Written[k]
      /\ Len(dv) = n-1 /\ \A k \in 1..(n-1) : dv[k] = end_vector[k]
      /\ Len(ms) = n-1 /\ \A k \in 1..(n-1) : ms[k] = OpenNow[k]
      /\ \A k \in 1..(n-1) : Lost(OpenNow, script, Done, k) => Lost(ms, script, Done', k)
      /\ \A k \in 1..(n-1) : k < n-1 => (Inner(dv, k) <=> Inner(end_vector, k))
      /\ \A k \in 1..(n-1) : /\ k \in 1..n /\ k+1 \in 1..n /\ k \in 0..n /\ k < n
                             /\ (k < n-1 => k+1 < n) /\ (~(k < n-1) => k = n-1)
  BY <1>1, <1>2, ClosedBlocks
<1>4. /\ UNCHANGED <<branches, excs, methods, phase>>
      /\ u \in 1..Len(threads) /\ u < cur_thr
      /\ x \in 1..Len(excs) /\ b \in 1..Len(threads) /\ u < b
      /\ threads' \in Seq(Thread) /\ Len(threads') = Len(threads)
      /\ \A t \in 1..Len(threads) :
           /\ threads'[t].branch = threads[t].branch
           /\ threads'[t].callsym = threads[t].callsym
           /\ threads'[t].excobj = IF t = u THEN 0 ELSE IF t = b THEN x ELSE threads[t].excobj
  BY <1>1, <1>3, BeginEndEffect
<1>5. /\ \A k \in 1..n : /\ Level(threads, excs, end_vector, Written, OpenNow, script, Done, k)
                         /\ Written[k] \in 1..Len(threads)
      /\ \A j \in 1..n, k \in 1..n : j < k => Written[j] < Written[k]
      /\ Handlers(threads, excs, end_vector, Written)
      /\ Sized(threads, excs, end_vector, Written, n)
  <2>1. \A k \in 1..n : k \in 1..(n+1)
    BY <1>3
  <2>2. n = Len(end_vector)
    OBVIOUS
  <2> QED
    BY ONLY <2>1, <2>2, <1>1, PInv, NInv, Nested, NowSized
<1>6. x = threads[u].excobj /\ b = excs[x].body_thr /\ end_vector[n] = "end_begin"
  BY <1>2, Innermost DEF end_begin
<1> HIDE DEF n, u, x, b, V, dv, ms
<1>7. ASSUME NEW k \in 1..(n-1)
      PROVE  Level(threads', excs', dv, V, ms, script', Done', k)
  <2>1. /\ Level(threads, excs, end_vector, Written, OpenNow, script, Done, k)
        /\ Written[k] \in 1..Len(threads) /\ Written[k+1] \in 1..Len(threads)
    BY <1>3, <1>5
  <2>2. Lost(OpenNow, script, Done, k) => Lost(ms, script, Done', k)
    BY <1>3
  <2>3. ms[k] = OpenNow[k] /\ dv[k] = end_vector[k] /\ V[k] = Written[k] /\ V[k+1] = Written[k+1]
    BY <1>3
  <2>4. Written[k] < u /\ n \in 1..n
    BY <1>3, <1>5
  <2>5. Written[k] # u /\ Written[k] # b
    BY <1>4, <2>1, <2>4
  <2>6. /\ threads'[Written[k]].excobj = threads[Written[k]].excobj
        /\ threads'[Written[k+1]].branch = threads[Written[k+1]].branch
        /\ threads'[Written[k+1]].callsym = threads[Written[k+1]].callsym
    BY <1>4, <2>1, <2>5
  <2>7. \/ /\ threads'[Written[k+1]].excobj = threads[Written[k+1]].excobj
           /\ Inner(dv, k) <=> Inner(end_vector, k)
        \/ threads'[Written[k+1]].excobj = 0 /\ Inner(end_vector, k)
    <3>1. CASE k < n-1
      <4>1. Written[k+1] < u
        BY <1>3, <1>5, <2>4, <3>1
      <4>2. threads'[Written[k+1]].excobj = threads[Written[k+1]].excobj
        BY <1>4, <2>1, <4>1
      <4> QED
        BY <1>3, <3>1, <4>2
    <3>2. CASE k = n-1
      <4>1. k+1 = n /\ k < n
        BY <1>3, <3>2
      <4>2. Inner(end_vector, k)
        BY <1>6, <4>1 DEF Inner, n
      <4>3. threads'[Written[k+1]].excobj = 0
        BY <1>3, <1>4, <4>1
      <4> QED
        BY <4>2, <4>3
    <3> QED
      BY <1>3, <3>1, <3>2
  <2>8. Level(threads', excs, dv, V, ms, script, Done', k)
    BY ONLY <2>1, <2>2, <2>3, <2>6, <2>7, LevelKept
  <2> QED
    BY <1>1, <1>4, <2>8
<1>8. Levels(threads', excs', dv, V, ms, script', Done')
  BY <1>3, <1>7 DEF Levels
<1>9. Handlers(threads', excs', dv, V)
  <2>1. NotesBeginEnd(threads, threads', excs, end_vector, dv, Written, V, n, u, x, b)
    BY <1>3, <1>4, <1>6 DEF NotesBeginEnd
  <2> QED
    BY <1>4, <1>5, <2>1, BeginEndHandlers
<1> QED
  BY <1>4, <1>8, <1>9 DEF Held, V, dv, ms

LEMMA EndHeld ==
  ASSUME PInv, NInv, parse_end, OpenNow' # Bad
  PROVE  Held' /\ phase' = phase
<1>1. Read({"end"})
  BY DEF parse_end
<1>2. end_vector # <<>>
  <2>1. /\ phase = "parse" /\ OpenNow # Bad /\ Head(input) \in Token /\ OpenNow \in Seq(Kw)
        /\ OpenNow' = Nest(OpenNow, Head(input)) /\ Head(input).tok = "end"
    BY <1>1, Right
  <2>2. OpenNow # <<>>
    BY <2>1, NestFacts
  <2>3. Len(OpenNow) = Len(end_vector)
    BY <2>1, Nested
  <2> QED
    BY <2>1, <2>2, <2>3, LastIs
<1> QED
  BY <1>1, <1>2, IfEndHeld, BeginEndHeld, DefineEndHeld DEF parse_end

\* What is true when a token has been read.
LEMMA ReadHeld ==
  ASSUME PInv, NInv, Parse, ~parse_eof, OpenNow' # Bad
  PROVE  (Held' /\ phase' = "parse") \/ (Wrong' /\ phase' = "crash")
<1>1. phase = "parse"
  BY DEF Parse, parse_stmt, parse_begin, parse_rescue, parse_if, parse_else, parse_define,
         parse_end, Read
<1>2. CASE parse_stmt
  BY <1>1, <1>2, StmtHeld DEF parse_stmt
<1>3. CASE parse_begin
  BY <1>1, <1>3, BeginHeld DEF parse_begin
<1>4. CASE parse_rescue
  <2>1. phase' = "parse" \/ phase' = "crash"
    BY <1>1, <1>4 DEF parse_rescue, Stop
  <2> QED
    BY <1>4, <2>1, RescueHeld, RescueWrong
<1>5. CASE parse_if
  BY <1>1, <1>5, IfHeld DEF parse_if
<1>6. CASE parse_else
  BY <1>1, <1>6, ElseHeld
<1>7. CASE parse_define
  BY <1>1, <1>7, DefineHeld DEF parse_define
<1>8. CASE parse_end
  BY <1>1, <1>8, EndHeld
<1> QED
  BY <1>2, <1>3, <1>4, <1>5, <1>6, <1>7, <1>8 DEF Parse

LEMMA NInvInit == ParseInit => NInv
<1> SUFFICES ASSUME ParseInit PROVE NInv
  OBVIOUS
<1>1. PInv
  BY PInvInit
<1>2. /\ branches = <<>> /\ excs = <<>> /\ cur_thr = 1 /\ phase = "parse"
      /\ end_vector = <<>> /\ opener = <<>> /\ script \in Scripts /\ input = script
      /\ threads[1].excobj = 0 /\ Len(threads) = 1
  BY DEF ParseInit, HeapInit
<1>3. script \in Seq(Token) /\ Len(script) \in Nat /\ 1 \in 1..(Len(script)+1)
  BY <1>2, ScriptsAssumption
<1>4. Done = 0
  BY <1>2, <1>3 DEF Done
<1>5. Place
  BY <1>2, <1>3, <1>4 DEF Place
<1>6. OpenNow = <<>>
  BY <1>3, <1>4, BlocksAre DEF OpenNow
<1>7. Levels(threads, excs, end_vector, Written, OpenNow, script, Done)
  BY <1>2, <1>6 DEF Levels
<1>8. Handlers(threads, excs, end_vector, Written)
  BY <1>2 DEF Handlers
<1> QED
  BY <1>2, <1>5, <1>7, <1>8 DEF NInv, Held

LEMMA NInvNext == PInv /\ NInv /\ [Parse \/ Parsed]_pvars => NInv'
<1> SUFFICES ASSUME PInv, NInv, [Parse \/ Parsed]_pvars PROVE NInv'
  OBVIOUS
<1>1. CASE UNCHANGED pvars
  BY <1>1 DEF pvars, heap, NInv, Place, Held, Wrong, Done, OpenNow, Written
<1>2. CASE parse_eof
  <2>1. /\ UNCHANGED <<input, script>> /\ input = <<>> /\ phase' = "eval" /\ phase = "parse"
    BY <1>2 DEF parse_eof
  <2>2. Done' = Done /\ OpenNow' = OpenNow
    BY <2>1 DEF Done, OpenNow
  <2>3. Place'
    BY <2>1, <2>2 DEF NInv, Place
  <2> QED
    BY <1>2, <2>1, <2>3, StmtHeld DEF NInv
<1>3. CASE Parse /\ ~parse_eof
  <2>1. PICK K : Read(K)
    BY <1>3 DEF Parse, parse_stmt, parse_begin, parse_rescue, parse_if, parse_else, parse_define,
                parse_end
  <2>2. /\ Place' /\ Done' \in 0..Len(script') /\ OpenNow' = BlocksAt(script', 1)[Done']
        /\ phase = "parse"
    <3>1. Place' /\ OpenNow' = BlocksAt(script', 1)[Done']
      BY <2>1, ReadPlace DEF NInv, OpenNow
    <3>2. Done' \in 0..Len(script')
      BY <3>1 DEF Place
    <3> QED
      BY <2>1, <3>1, <3>2 DEF Read
  <2>3. phase' # "eval"
    BY <1>3, <2>2 DEF Parse, parse_stmt, parse_begin, parse_rescue, parse_if, parse_else,
                      parse_define, parse_end, end_if, end_begin, end_define, Stop
  <2>4. CASE OpenNow' = Bad
    <3>1. Wrong'
      BY <2>2, <2>4 DEF Wrong
    <3> QED
      BY <2>2, <2>3, <2>4, <3>1 DEF NInv
  <2>5. CASE OpenNow' # Bad
    <3>1. (Held' /\ phase' = "parse") \/ (Wrong' /\ phase' = "crash")
      BY <1>3, <2>5, ReadHeld
    <3> QED
      BY <2>2, <2>3, <3>1 DEF NInv
  <2> QED
    BY <2>4, <2>5
<1> QED
  BY <1>1, <1>2, <1>3 DEF Parsed

LEMMA NInvAlways == ParseSpec => [](PInv /\ NInv)
BY PInvInit, PInvNext, NInvInit, NInvNext, PTL DEF ParseSpec

\* No block is left open in what a well-formed script gives.
LEMMA AllClosed ==
  ASSUME PInv, NInv, phase = "eval", WellFormed(script)
  PROVE  OpenNow = <<>> /\ Held /\ Len(end_vector) = 0
<1>1. input = <<>> /\ Len(input) = 0 /\ Len(script) \in Nat
  <2>1. input = <<>> /\ script \in Seq(Token)
    BY DEF NInv, Place
  <2> QED
    BY <2>1
<1>2. OpenNow = <<>>
  <2>1. Done = Len(script)
    BY <1>1 DEF Done
  <2> QED
    BY <2>1 DEF WellFormed, OpenNow
<1>3. Held
  BY <1>2 DEF NInv, Bad
<1>4. Len(end_vector) = 0
  BY <1>2, <1>3 DEF Held, Levels
<1> QED
  BY <1>2, <1>3, <1>4

LEMMA HandlersFollow ==
  ASSUME PInv, NInv
  PROVE  HandlersInPlace
<1> SUFFICES ASSUME phase = "eval", WellFormed(script)
             PROVE  /\ \A x \in DOMAIN excs : threads[excs[x].body_thr].excobj = x
                    /\ \A t \in DOMAIN threads : \A x \in DOMAIN excs :
                         threads[t].excobj = x => t \in {excs[x].body_thr, excs[x].rescue_thr}
  BY DEF HandlersInPlace
<1>1. Held /\ ~\E k \in 1..Len(end_vector) : TRUE
  BY AllClosed
<1> QED
  BY <1>1 DEF Held, Handlers

\* A finished begin block has its exception object where throw_exc looks for
\* it, and no block outside it has it, in well-formed scripts of any length
\* and nesting (parse.y:147-224).
THEOREM HandlersHold == ParseSpec => []HandlersInPlace
BY HandlersFollow, NInvAlways, PTL

\* No well-formed script is refused and none makes the parser fail or use a
\* null pointer, but for those that nest a begin block before the rescue of
\* another, where parse_rescue may find no exception object (parse.y:108-260).
THEOREM Accepts == ParseSpec => []AcceptsWellFormed
<1>1. PInv /\ NInv => AcceptsWellFormed
  <2> SUFFICES ASSUME PInv, NInv, WellFormed(script), ~BeginBeforeRescue(script), phase \in Ended
               PROVE  FALSE
    BY DEF AcceptsWellFormed
  <2>1. phase \in {"yyerror", "fail", "crash"} /\ script \in Seq(Token)
    BY DEF PInv, Typed, NInv, Place, Ended
  <2>2. PICK p \in 0..Len(script) : BlocksAt(script, 1)[p] = Bad
    BY <2>1 DEF NInv, Wrong
  <2>3. BlocksAt(script, 1)[Len(script)] = Bad
    BY <2>1, <2>2, BadStays
  <2> QED
    BY <2>3 DEF WellFormed, Bad
<1> QED
  BY <1>1, NInvAlways, PTL

-----------------------------------------------------------------------------
(* The threads, branches and exception objects that the parser makes *)

\* Threads are linked to older ones.
Ups(T) == \A t \in DOMAIN T : T[t].up < t

\* A cell refers to what there is.
CellRef(B, X, c) == /\ c.kind = "branch" => c.ref \in DOMAIN B
                    /\ c.kind = "exc" => c.ref \in DOMAIN X
                    /\ c.kind = "call" => c.ref \in Name
CellRefs(T, B, X) ==
  \A t \in DOMAIN T : \A p \in DOMAIN T[t].stack : CellRef(B, X, T[t].stack[p])

Calm(X) == \A x \in DOMAIN X : ~X[x].retry

Linked == Ups(threads) /\ CellRefs(threads, branches, excs) /\ Calm(excs)

\* Whose block a thread is.
OfBranch(B, b, t) == t \in {B[b].cond_true, B[b].cond_false}
OfExc(X, x, t)    == t \in {X[x].body_thr, X[x].rescue_thr}

\* A block that is no method, directly in u.
Inside(T, t, u) == T[t].up = u /\ T[t].callsym = NoName

\* The sides of a branch are in the same block, the body and the rescue in
\* that of the begin, and no block belongs to two.
Block(T, B, X, t) ==
  /\ \A b \in DOMAIN B : OfBranch(B, b, t) => Inside(T, t, T[B[b].cond_true].up)
  /\ \A x \in DOMAIN X : OfExc(X, x, t) =>
       /\ Inside(T, t, X[x].thr)
       /\ \A y \in DOMAIN X : OfExc(X, y, t) => y = x
       /\ \A b \in DOMAIN B : ~OfBranch(B, b, t)

\* A branch and a begin are cells of the block that theirs are in.
CellHome(T, B, X, t, c) ==
  /\ c.kind = "branch" => T[B[c.ref].cond_true].up = t
  /\ c.kind = "exc" => X[c.ref].thr = t

IsMethod(T, t) == T[t].up = 0 /\ T[t].callsym # NoName

Fits(T, B, X, M) ==
  /\ \A t \in DOMAIN T : Block(T, B, X, t)
  /\ \A t \in DOMAIN T : \A p \in DOMAIN T[t].stack : CellHome(T, B, X, t, T[t].stack[p])
  /\ \A n \in Name : M[n] # 0 => IsMethod(T, M[n])

\* The k-th of the blocks ns that are open, if it is a side, knows a branch
\* of the block around it.
Side(T, B, ns, W, k) ==
  ns[k] \in IfKinds => /\ T[W[k+1]].branch \in DOMAIN B
                       /\ T[B[T[W[k+1]].branch].cond_true].up = W[k]
Sides(T, B, ns, W) == \A k \in 1..Len(ns) : Side(T, B, ns, W, k)

LInv == phase = "parse" =>
          /\ Linked
          /\ OpenNow # Bad => /\ Fits(threads, branches, excs, methods)
                              /\ Sides(threads, branches, OpenNow, Written)

\* How the objects go on: those there are keep their links, but a method is
\* cut off; what is taken by others is new.
Later(T, U, B, D, X, Y) ==
  /\ DOMAIN T \subseteq DOMAIN U /\ DOMAIN B \subseteq DOMAIN D /\ DOMAIN X \subseteq DOMAIN Y
  /\ \A t \in DOMAIN T : /\ U[t].callsym = T[t].callsym /\ U[t].up \in {0, T[t].up}
                         /\ T[t].callsym = NoName => U[t].up = T[t].up
  /\ \A b \in DOMAIN B : D[b].cond_true = B[b].cond_true
  /\ \A x \in DOMAIN X : Y[x].thr = X[x].thr
  /\ \A t \in DOMAIN T, b \in DOMAIN D :
       OfBranch(D, b, t) => b \in DOMAIN B /\ OfBranch(B, b, t)
  /\ \A t \in DOMAIN T, x \in DOMAIN Y :
       OfExc(Y, x, t) => x \in DOMAIN X /\ OfExc(X, x, t)

\* The cells of U are those of T and, in u, c.
Cells(T, U, u, c) ==
  \A t \in DOMAIN U : \A p \in DOMAIN U[t].stack :
     \/ /\ t \in DOMAIN T
        /\ \E q \in DOMAIN T[t].stack : U[t].stack[p] = T[t].stack[q]
     \/ t = u /\ U[t].stack[p] = c

TruesIn(T, B) == \A b \in DOMAIN B : B[b].cond_true \in DOMAIN T

LEMMA TrueStays ==
  ASSUME NEW T, NEW U, NEW B, NEW D, NEW X, NEW Y, Later(T, U, B, D, X, Y), TruesIn(T, B),
         \A t \in DOMAIN T : Block(T, B, X, t), NEW b \in DOMAIN B
  PROVE  D[b].cond_true = B[b].cond_true /\ U[D[b].cond_true].up = T[B[b].cond_true].up
<1> DEFINE t == B[b].cond_true
<1>1. t \in DOMAIN T /\ D[b].cond_true = t
  BY DEF TruesIn, Later
<1>2. T[t].callsym = NoName
  BY <1>1 DEF Block, OfBranch, Inside
<1> QED
  BY <1>1, <1>2 DEF Later

LEMMA BlockLater ==
  ASSUME NEW T, NEW U, NEW B, NEW D, NEW X, NEW Y, Later(T, U, B, D, X, Y), TruesIn(T, B),
         \A t \in DOMAIN T : Block(T, B, X, t), NEW t \in DOMAIN T
  PROVE  Block(U, D, Y, t)
<1>1. Block(T, B, X, t)
  OBVIOUS
<1>2. ASSUME NEW u, Inside(T, t, u) PROVE Inside(U, t, u)
  BY <1>2 DEF Inside, Later
<1>3. ASSUME NEW b \in DOMAIN D, OfBranch(D, b, t) PROVE Inside(U, t, U[D[b].cond_true].up)
  <2>1. b \in DOMAIN B /\ OfBranch(B, b, t)
    BY <1>3 DEF Later
  <2>2. Inside(T, t, T[B[b].cond_true].up)
    BY <1>1, <2>1 DEF Block
  <2>3. U[D[b].cond_true].up = T[B[b].cond_true].up
    BY <2>1, TrueStays
  <2> QED
    BY <1>2, <2>2, <2>3
<1>4. ASSUME NEW x \in DOMAIN Y, OfExc(Y, x, t)
      PROVE  /\ Inside(U, t, Y[x].thr)
             /\ \A y \in DOMAIN Y : OfExc(Y, y, t) => y = x
             /\ \A b \in DOMAIN D : ~OfBranch(D, b, t)
  <2>1. x \in DOMAIN X /\ OfExc(X, x, t)
    BY <1>4 DEF Later
  <2>2. /\ Inside(T, t, X[x].thr)
        /\ \A y \in DOMAIN X : OfExc(X, y, t) => y = x
        /\ \A b \in DOMAIN B : ~OfBranch(B, b, t)
    BY <1>1, <2>1 DEF Block
  <2>3. Y[x].thr = X[x].thr
    BY <2>1 DEF Later
  <2>4. \A y \in DOMAIN Y : OfExc(Y, y, t) => y = x
    BY <2>2 DEF Later
  <2>5. \A b \in DOMAIN D : ~OfBranch(D, b, t)
    BY <2>2 DEF Later
  <2> QED
    BY <1>2, <2>2, <2>3, <2>4, <2>5
<1> QED
  BY <1>3, <1>4 DEF Block

LEMMA HomeLater ==
  ASSUME NEW T, NEW U, NEW B, NEW D, NEW X, NEW Y, Later(T, U, B, D, X, Y), TruesIn(T, B),
         \A t \in DOMAIN T : Block(T, B, X, t), NEW t, NEW c,
         CellRef(B, X, c), CellHome(T, B, X, t, c)
  PROVE  CellRef(D, Y, c) /\ CellHome(U, D, Y, t, c)
<1>1. ASSUME c.kind = "branch" PROVE U[D[c.ref].cond_true].up = t /\ c.ref \in DOMAIN D
  <2>1. c.ref \in DOMAIN B /\ T[B[c.ref].cond_true].up = t
    BY <1>1 DEF CellRef, CellHome
  <2>2. U[D[c.ref].cond_true].up = T[B[c.ref].cond_true].up
    BY <2>1, TrueStays
  <2>3. c.ref \in DOMAIN D
    BY <2>1 DEF Later
  <2> QED
    BY <2>1, <2>2, <2>3
<1>2. ASSUME c.kind = "exc" PROVE Y[c.ref].thr = t /\ c.ref \in DOMAIN Y
  BY <1>2 DEF CellRef, CellHome, Later
<1> QED
  BY <1>1, <1>2 DEF CellRef, CellHome

\* What fits goes on to fit, when a cell and a thread that fit are added.
LEMMA FitsLater ==
  ASSUME NEW T, NEW U, NEW B, NEW D, NEW X, NEW Y, Later(T, U, B, D, X, Y), TruesIn(T, B),
         NEW M, NEW N, Fits(T, B, X, M), CellRefs(T, B, X),
         NEW u, NEW c, Cells(T, U, u, c), u \in DOMAIN U => CellHome(U, D, Y, u, c),
         \A t \in DOMAIN U : t \notin DOMAIN T => Block(U, D, Y, t),
         \A n \in Name : M[n] # 0 => M[n] \in DOMAIN T,
         \A n \in Name : N[n] = M[n] \/ IsMethod(U, N[n])
  PROVE  Fits(U, D, Y, N)
<1>1. \A t \in DOMAIN T : Block(T, B, X, t)
  BY DEF Fits
<1>2. \A t \in DOMAIN U : Block(U, D, Y, t)
  BY <1>1, BlockLater
<1>3. ASSUME NEW t \in DOMAIN U, NEW p \in DOMAIN U[t].stack
      PROVE  CellHome(U, D, Y, t, U[t].stack[p])
  <2>1. CASE t = u /\ U[t].stack[p] = c
    BY <1>3, <2>1
  <2>2. CASE t \in DOMAIN T /\ \E q \in DOMAIN T[t].stack : U[t].stack[p] = T[t].stack[q]
    <3>1. PICK q \in DOMAIN T[t].stack : U[t].stack[p] = T[t].stack[q]
      BY <2>2
    <3>2. CellRef(B, X, T[t].stack[q]) /\ CellHome(T, B, X, t, T[t].stack[q])
      BY <2>2 DEF Fits, CellRefs
    <3> QED
      BY <1>1, <3>1, <3>2, HomeLater
  <2> QED
    BY <1>3, <2>1, <2>2 DEF Cells
<1>4. ASSUME NEW n \in Name, N[n] # 0 PROVE IsMethod(U, N[n])
  <2>1. CASE N[n] = M[n]
    <3>1. M[n] \in DOMAIN T /\ IsMethod(T, M[n])
      BY <1>4, <2>1 DEF Fits
    <3> QED
      BY <2>1, <3>1 DEF IsMethod, Later
  <2> QED
    BY <2>1
<1> QED
  BY <1>2, <1>3, <1>4 DEF Fits

\* Threads and cells stay good, whether or not the script is right.
LEMMA RefsLater ==
  ASSUME NEW T, NEW U, NEW B, NEW D, NEW X, NEW Y, Later(T, U, B, D, X, Y),
         CellRefs(T, B, X), Ups(T), T \in Seq(Thread),
         NEW u, NEW c, Cells(T, U, u, c), u \in DOMAIN U => CellRef(D, Y, c),
         \A t \in DOMAIN U : t \notin DOMAIN T => U[t].up < t
  PROVE  CellRefs(U, D, Y) /\ Ups(U)
<1>1. ASSUME NEW t \in DOMAIN U, NEW p \in DOMAIN U[t].stack PROVE CellRef(D, Y, U[t].stack[p])
  <2>1. CASE t = u /\ U[t].stack[p] = c
    BY <1>1, <2>1
  <2>2. CASE t \in DOMAIN T /\ \E q \in DOMAIN T[t].stack : U[t].stack[p] = T[t].stack[q]
    <3>1. PICK q \in DOMAIN T[t].stack : U[t].stack[p] = T[t].stack[q]
      BY <2>2
    <3>2. CellRef(B, X, T[t].stack[q])
      BY <2>2 DEF CellRefs
    <3> QED
      BY <3>1, <3>2 DEF CellRef, Later
  <2> QED
    BY <1>1, <2>1, <2>2 DEF Cells
<1>2. ASSUME NEW t \in DOMAIN U PROVE U[t].up < t
  <2>1. CASE t \in DOMAIN T
    <3>1. U[t].up \in {0, T[t].up}
      BY <2>1 DEF Later
    <3>2. T[t].up < t /\ T[t].up \in Nat /\ t \in Nat
      <4>1. T[t] \in Thread /\ t \in Nat
        BY <2>1
      <4>2. T[t].up \in Nat
        BY <4>1 DEF Thread
      <4> QED
        BY <2>1, <4>1, <4>2 DEF Ups
    <3> QED
      BY <3>1, <3>2
  <2> QED
    BY <2>1
<1> QED
  BY <1>1, <1>2 DEF CellRefs, Ups

LEMMA SideLater ==
  ASSUME NEW T, NEW U, NEW B, NEW D, NEW X, NEW Y, Later(T, U, B, D, X, Y), TruesIn(T, B),
         \A t \in DOMAIN T : Block(T, B, X, t), NEW ns, NEW ms, NEW W, NEW V, NEW k,
         Side(T, B, ns, W, k), ms[k] = ns[k], V[k] = W[k], V[k+1] = W[k+1],
         U[W[k+1]].branch = T[W[k+1]].branch
  PROVE  Side(U, D, ms, V, k)
<1> SUFFICES ASSUME ms[k] \in IfKinds
             PROVE  /\ U[V[k+1]].branch \in DOMAIN D
                    /\ U[D[U[V[k+1]].branch].cond_true].up = V[k]
  BY DEF Side
<1> DEFINE b == T[W[k+1]].branch
<1>1. b \in DOMAIN B /\ T[B[b].cond_true].up = W[k] /\ U[V[k+1]].branch = b
  BY DEF Side
<1> HIDE DEF b
<1>2. U[D[b].cond_true].up = W[k] /\ b \in DOMAIN D
  <2>1. U[D[b].cond_true].up = T[B[b].cond_true].up
    BY <1>1, TrueStays
  <2>2. b \in DOMAIN D
    BY <1>1 DEF Later
  <2> QED
    BY <1>1, <2>1, <2>2
<1> QED
  BY <1>1, <1>2

-----------------------------------------------------------------------------
(* The grammar actions *)

\* Where the parser is.
Parsing == PInv /\ NInv /\ LInv /\ phase = "parse"

LEMMA ParsingFacts ==
  ASSUME Parsing
  PROVE  /\ Typed /\ Linked /\ TruesIn(threads, branches)
         /\ threads \in Seq(Thread) /\ branches \in Seq(Branch) /\ excs \in Seq(Exc)
         /\ Len(threads) \in Nat /\ Len(branches) \in Nat /\ Len(excs) \in Nat
         /\ DOMAIN threads = 1..Len(threads) /\ DOMAIN branches = 1..Len(branches)
         /\ DOMAIN excs = 1..Len(excs) /\ cur_thr \in DOMAIN threads
         /\ \A n \in Name : methods[n] # 0 => methods[n] \in DOMAIN threads
         /\ \A b \in DOMAIN branches :
              branches[b].cond_true \in DOMAIN threads /\ branches[b].cond_false \in 0..Len(threads)
         /\ \A x \in DOMAIN excs :
              /\ excs[x].thr \in DOMAIN threads /\ excs[x].body_thr \in DOMAIN threads
              /\ excs[x].rescue_thr \in 0..Len(threads)
<1>1. Typed /\ Linked
  BY DEF Parsing, PInv, LInv
<1>2. /\ Len(threads) \in Nat /\ Len(branches) \in Nat /\ Len(excs) \in Nat
      /\ DOMAIN threads = 1..Len(threads) /\ DOMAIN branches = 1..Len(branches)
      /\ DOMAIN excs = 1..Len(excs) /\ cur_thr \in DOMAIN threads
      /\ threads \in Seq(Thread) /\ branches \in Seq(Branch) /\ excs \in Seq(Exc)
  BY <1>1, Sizes
<1>3. Refers(threads, branches, excs, methods)
  BY <1>1 DEF Typed
<1>4. \A n \in Name : methods[n] # 0 => methods[n] \in DOMAIN threads
  BY <1>2, <1>3 DEF Refers
<1>5. /\ \A b \in DOMAIN branches :
           branches[b].cond_true \in DOMAIN threads /\ branches[b].cond_false \in 0..Len(threads)
      /\ \A x \in DOMAIN excs :
              /\ excs[x].thr \in DOMAIN threads /\ excs[x].body_thr \in DOMAIN threads
              /\ excs[x].rescue_thr \in 0..Len(threads)
  BY <1>2, <1>3 DEF Refers
<1> QED
  BY <1>1, <1>2, <1>4, <1>5 DEF TruesIn

\* The k-th block is the same in ms and V as in ns and W.
Same(T, U, ns, ms, W, V, k) ==
  /\ k \in 1..Len(ns) /\ ms[k] = ns[k] /\ V[k] = W[k] /\ V[k+1] = W[k+1]
  /\ U[W[k+1]].branch = T[W[k+1]].branch

\* A new cell and a new thread that fit.
Adds(T, U, B, D, X, Y, u, c) ==
  /\ Later(T, U, B, D, X, Y) /\ Cells(T, U, u, c)
  /\ u \in DOMAIN U => CellRef(D, Y, c)
  /\ \A t \in DOMAIN U : t \notin DOMAIN T => U[t].up < t
Joins(T, U, B, D, X, Y, M, N, u, c) ==
  /\ u \in DOMAIN U => CellHome(U, D, Y, u, c)
  /\ \A t \in DOMAIN U : t \notin DOMAIN T => Block(U, D, Y, t)
  /\ \A n \in Name : N[n] = M[n] \/ IsMethod(U, N[n])

Right4(T, B, X, M, ns, W) == Fits(T, B, X, M) /\ Sides(T, B, ns, W)

LEMMA StepLinked ==
  ASSUME Parsing, NEW U, NEW D, NEW Y, NEW N, NEW ms, NEW V, NEW u, NEW c,
         Adds(threads, U, branches, D, excs, Y, u, c), Calm(Y),
         ms # Bad => /\ OpenNow # Bad
                     /\ Right4(threads, branches, excs, methods, OpenNow, Written)
                          => /\ Joins(threads, U, branches, D, excs, Y, methods, N, u, c)
                             /\ \A k \in 1..Len(ms) :
                                  Side(U, D, ms, V, k)
                                  \/ Same(threads, U, OpenNow, ms, Written, V, k)
  PROVE  /\ Ups(U) /\ CellRefs(U, D, Y) /\ Calm(Y)
         /\ ms # Bad => Right4(U, D, Y, N, ms, V)
<1>1. /\ Linked /\ TruesIn(threads, branches) /\ threads \in Seq(Thread)
      /\ \A n \in Name : methods[n] # 0 => methods[n] \in DOMAIN threads
  BY ParsingFacts
<1>2. Later(threads, U, branches, D, excs, Y) /\ Cells(threads, U, u, c)
  BY DEF Adds
<1>3. Ups(U) /\ CellRefs(U, D, Y)
  <2>1. u \in DOMAIN U => CellRef(D, Y, c)
    BY DEF Adds
  <2>2. \A t \in DOMAIN U : t \notin DOMAIN threads => U[t].up < t
    BY DEF Adds
  <2>3. CellRefs(threads, branches, excs) /\ Ups(threads)
    BY <1>1 DEF Linked
  <2> QED
    BY ONLY <1>1, <1>2, <2>1, <2>2, <2>3, RefsLater
<1>4. ASSUME ms # Bad PROVE Right4(U, D, Y, N, ms, V)
  <2>1. Right4(threads, branches, excs, methods, OpenNow, Written)
    BY <1>4 DEF Right4, Parsing, LInv
  <2>2. /\ Joins(threads, U, branches, D, excs, Y, methods, N, u, c)
        /\ \A k \in 1..Len(ms) : \/ Side(U, D, ms, V, k)
                                 \/ Same(threads, U, OpenNow, ms, Written, V, k)
    BY <1>4, <2>1
  <2>3. /\ Fits(threads, branches, excs, methods) /\ CellRefs(threads, branches, excs)
        /\ \A t \in DOMAIN threads : Block(threads, branches, excs, t)
    BY <1>1, <2>1 DEF Right4, Fits, Linked
  <2>4. Fits(U, D, Y, N)
    <3>1. u \in DOMAIN U => CellHome(U, D, Y, u, c)
      BY <2>2 DEF Joins
    <3>2. \A t \in DOMAIN U : t \notin DOMAIN threads => Block(U, D, Y, t)
      BY <2>2 DEF Joins
    <3>3. \A n \in Name : N[n] = methods[n] \/ IsMethod(U, N[n])
      BY <2>2 DEF Joins
    <3> QED
      BY ONLY <1>1, <1>2, <2>3, <3>1, <3>2, <3>3, FitsLater
  <2>5. ASSUME NEW k \in 1..Len(ms), Same(threads, U, OpenNow, ms, Written, V, k)
        PROVE  Side(U, D, ms, V, k)
    <3>1. /\ ms[k] = OpenNow[k] /\ V[k] = Written[k] /\ V[k+1] = Written[k+1]
          /\ U[Written[k+1]].branch = threads[Written[k+1]].branch
          /\ k \in 1..Len(OpenNow)
      BY <2>5 DEF Same
    <3>2. Side(threads, branches, OpenNow, Written, k)
      BY <2>1, <3>1 DEF Right4, Sides
    <3> QED
      BY ONLY <1>1, <1>2, <2>3, <3>1, <3>2, SideLater
  <2> QED
    BY <2>2, <2>4, <2>5 DEF Right4, Sides
<1> QED
  BY <1>3, <1>4

\* What a step of the parser is to show.
LGoal == Linked' /\ (OpenNow' # Bad => /\ Fits(threads, branches, excs, methods)'
                                       /\ Sides(threads, branches, OpenNow, Written)')

\* The same, from the objects of the next state.
LEMMA StepGoal ==
  ASSUME Parsing, NEW u, NEW c,
         Adds(threads, threads', branches, branches', excs, excs', u, c), Calm(excs'),
         OpenNow' # Bad =>
           /\ OpenNow # Bad
           /\ Right4(threads, branches, excs, methods, OpenNow, Written)
                => /\ Joins(threads, threads', branches, branches', excs, excs', methods, methods', u, c)
                   /\ \A k \in 1..Len(OpenNow') :
                        \/ Side(threads', branches', OpenNow', Written', k)
                        \/ Same(threads, threads', OpenNow, OpenNow', Written, Written', k)
  PROVE  LGoal
<1> DEFINE ms == OpenNow'
           V == Written'
<1>1. ms # Bad => /\ OpenNow # Bad
                  /\ Right4(threads, branches, excs, methods, OpenNow, Written)
                       => /\ Joins(threads, threads', branches, branches', excs, excs',
                                   methods, methods', u, c)
                          /\ \A k \in 1..Len(ms) :
                               \/ Side(threads', branches', ms, V, k)
                               \/ Same(threads, threads', OpenNow, ms, Written, V, k)
  OBVIOUS
<1>2. /\ (ms # Bad) = (OpenNow' # Bad)
      /\ Right4(threads', branches', excs', methods', ms, V)
           => /\ Fits(threads, branches, excs, methods)'
              /\ Sides(threads, branches, OpenNow, Written)'
  BY DEF Right4
<1> HIDE DEF ms, V
<1>3. /\ Ups(threads') /\ CellRefs(threads', branches', excs') /\ Calm(excs')
      /\ ms # Bad => Right4(threads', branches', excs', methods', ms, V)
  BY ONLY <1>1, Parsing, Adds(threads, threads', branches, branches', excs, excs', u, c),
          Calm(excs'), StepLinked
<1> QED
  BY <1>2, <1>3 DEF LGoal, Linked

\* Cells are only ever added by push_cell.
LEMMA CellsPushed ==
  ASSUME NEW T \in Seq(Thread), NEW u \in DOMAIN T, NEW c \in CellRec
  PROVE  Cells(T, push_cell(T, u, c), u, c) /\ DOMAIN push_cell(T, u, c) = DOMAIN T
<1> DEFINE U == push_cell(T, u, c)
           s == T[u].stack
           r == [T[u] EXCEPT !.stack = Append(s, c)]
<1>1. T[u] \in Thread /\ s \in Seq(CellRec)
  <2>1. T[u] \in Thread
    OBVIOUS
  <2> QED
    BY <2>1 DEF Thread
<1>2. r.stack = Append(s, c)
  BY <1>1 DEF Thread
<1>3. U = [T EXCEPT ![u] = r]
  BY DEF push_cell
<1> HIDE DEF U, r
<1>4. DOMAIN U = DOMAIN T /\ \A t \in DOMAIN T : U[t] = IF t = u THEN r ELSE T[t]
  BY <1>3
<1>5. ASSUME NEW t \in DOMAIN U, NEW p \in DOMAIN U[t].stack
      PROVE  \/ t \in DOMAIN T /\ \E q \in DOMAIN T[t].stack : U[t].stack[p] = T[t].stack[q]
             \/ t = u /\ U[t].stack[p] = c
  <2>1. CASE t # u
    BY <1>4, <1>5, <2>1
  <2>2. CASE t = u
    <3>1. U[t].stack = Append(s, c)
      BY <1>2, <1>4, <2>2
    <3> HIDE DEF s
    <3>2. p \in 1..(Len(s)+1) /\ Len(s) \in Nat /\ DOMAIN s = 1..Len(s)
      BY <1>1, <1>5, <3>1
    <3>3. CASE p = Len(s)+1
      BY <1>1, <2>2, <3>1, <3>3
    <3>4. CASE p \in 1..Len(s)
      <4>1. U[t].stack[p] = s[p] /\ p \in DOMAIN s
        BY <1>1, <3>1, <3>2, <3>4
      <4> QED
        BY <2>2, <4>1 DEF s
    <3> QED
      BY <3>2, <3>3, <3>4
  <2> QED
    BY <2>1, <2>2
<1> QED
  BY <1>4, <1>5 DEF Cells, U

\* New threads have none.
LEMMA CellsNew ==
  ASSUME NEW T, NEW U \in Seq(Thread), NEW u, NEW c, Cells(T, U, u, c),
         NEW r \in Thread, r.stack = <<>>
  PROVE  Cells(T, Append(U, r), u, c)
<1> DEFINE V == Append(U, r)
<1>1. /\ DOMAIN V = 1..(Len(U)+1) /\ Len(U) \in Nat /\ V[Len(U)+1] = r
      /\ \A t \in 1..Len(U) : V[t] = U[t] /\ t \in DOMAIN U
  OBVIOUS
<1> HIDE DEF V
<1>2. DOMAIN r.stack = {}
  OBVIOUS
<1>3. \A t \in DOMAIN V : t \in 1..Len(U) \/ t = Len(U)+1
  BY <1>1
<1> QED
  BY <1>1, <1>2, <1>3 DEF Cells, V

LEMMA CellsSame ==
  ASSUME NEW T, NEW U, NEW u, NEW c, DOMAIN U = DOMAIN T, \A t \in DOMAIN T : U[t].stack = T[t].stack
  PROVE  Cells(T, U, u, c)
BY DEF Cells

LEMMA StmtLinked ==
  ASSUME Parsing, parse_stmt \/ parse_eof
  PROVE  LGoal
<1> DEFINE T == threads
           n == Len(end_vector)
<1>1. /\ Typed /\ T \in Seq(Thread) /\ cur_thr \in DOMAIN T /\ Len(T) \in Nat /\ DOMAIN T = 1..Len(T)
      /\ Linked
  BY ParsingFacts
<1>2. /\ UNCHANGED <<branches, excs, cur_thr, methods>> /\ Written' = Written
      /\ threads' \in Seq(Thread) /\ Len(threads') = Len(threads)
      /\ \A k \in 1..Len(threads) : /\ threads'[k].up = threads[k].up
                                    /\ threads'[k].branch = threads[k].branch
                                    /\ threads'[k].callsym = threads[k].callsym
  BY <1>1, StmtEffect
<1>3. OpenNow' # Bad => OpenNow' = OpenNow
  <2>1. CASE parse_stmt
    <3>1. Read(SimpleKinds \cup {"call"})
      BY <2>1 DEF parse_stmt
    <3> QED
      BY <3>1, Right, NestFacts DEF Parsing
  <2>2. CASE parse_eof
    BY <2>2 DEF parse_eof, OpenNow, Done
  <2> QED
    BY <2>1, <2>2
<1>4. PICK c \in CellRec : /\ threads' = push_cell(threads, cur_thr, c)
                           /\ c.kind \notin {"branch", "exc"} /\ (c.kind = "call" => c.ref \in Name)
  <2>1. CASE parse_stmt
    <3>1. /\ Head(input) \in Token /\ Head(input).tok \in SimpleKinds \cup {"call"}
          /\ script \in Scripts /\ script \in Seq(Token)
          /\ Head(input) = script[Done + 1] /\ Done + 1 \in 1..Len(script)
      <4>1. Read(SimpleKinds \cup {"call"}) /\ Place /\ script \in Scripts
        BY <1>1, <2>1 DEF parse_stmt, Parsing, NInv, Typed
      <4> QED
        BY <4>1, ReadPlace DEF Place
    <3>2. Head(input).tok = "call" => Head(input).name \in Name
      <4>1. Done + 1 \in DOMAIN script
        BY <3>1
      <4> QED
        BY <3>1, <4>1, ScriptsAssumption
    <3>3. CASE Head(input).tok = "call"
      <4> DEFINE c == Cell("call", Head(input).name)
      <4>1. c \in CellRec /\ c.kind = "call" /\ c.ref = Head(input).name
        BY <3>2, <3>3 DEF Cell, CellRec
      <4>2. threads' = push_cell(threads, cur_thr, c)
        BY <2>1, <3>3 DEF parse_stmt
      <4> HIDE DEF c
      <4> QED
        BY <3>2, <3>3, <4>1, <4>2
    <3>4. CASE Head(input).tok # "call"
      <4> DEFINE c == Cell(Head(input).tok, 0)
      <4>1. c \in CellRec /\ c.kind = Head(input).tok
        BY <3>1, <3>4 DEF Cell, CellRec
      <4>2. threads' = push_cell(threads, cur_thr, c)
        BY <2>1, <3>4 DEF parse_stmt
      <4> HIDE DEF c
      <4> QED
        BY <3>1, <3>4, <4>1, <4>2 DEF SimpleKinds
    <3> QED
      BY <3>3, <3>4
  <2>2. CASE parse_eof
    <3> DEFINE c == Cell("exit", 0)
    <3>1. c \in CellRec /\ c.kind = "exit"
      BY DEF Cell, CellRec
    <3>2. threads' = push_cell(threads, cur_thr, c)
      BY <2>2 DEF parse_eof
    <3> HIDE DEF c
    <3> QED
      BY <3>1, <3>2
  <2> QED
    BY <2>1, <2>2
<1>5. Cells(threads, threads', cur_thr, c) /\ DOMAIN threads' = DOMAIN threads
  BY <1>1, <1>4, CellsPushed
<1>6. Later(threads, threads', branches, branches', excs, excs')
  BY <1>1, <1>2, <1>5 DEF Later
<1>7. Adds(threads, threads', branches, branches', excs, excs', cur_thr, c) /\ Calm(excs')
  <2>1. CellRef(branches', excs', c)
    BY <1>4 DEF CellRef
  <2> QED
    BY <1>1, <1>2, <1>5, <1>6, <2>1 DEF Adds, Linked
<1>8. Joins(threads, threads', branches, branches', excs, excs', methods, methods', cur_thr, c)
  <2>1. CellHome(threads', branches', excs', cur_thr, c)
    BY <1>4 DEF CellHome
  <2> QED
    BY <1>2, <1>5, <2>1 DEF Joins
<1>9. ASSUME OpenNow' # Bad, NEW k \in 1..Len(OpenNow')
      PROVE  Same(threads, threads', OpenNow, OpenNow', Written, Written', k)
  <2>1. OpenNow # Bad /\ OpenNow' = OpenNow
    BY <1>3, <1>9
  <2>2. k \in 1..n /\ Len(OpenNow) = n /\ Written[k+1] \in 1..Len(threads)
    <3>1. /\ Len(OpenNow) = n /\ \A j \in 1..n : j+1 \in 1..(n+1)
          /\ \A j \in 1..(n+1) : Written[j] \in 1..Len(threads)
      BY <2>1, Nested DEF Parsing
    <3> QED
      BY <1>9, <2>1, <3>1
  <2> QED
    BY <1>2, <1>9, <2>1, <2>2 DEF Same
<1> QED
  BY <1>3, <1>7, <1>8, <1>9, StepGoal

\* One more block is open, the others as before.
LEMMA PushBlocks ==
  ASSUME Parsing, NEW K, Read(K), OpenNow' # Bad, NEW n, n = Len(end_vector),
         NEW w, w = Head(input).tok, w \in {"begin", "if", "while", "loop", "def"},
         NEW b \in Nat, Written' = Append(Written, b),
         \A t \in 1..Len(threads) : threads'[t].branch = threads[t].branch
  PROVE  /\ OpenNow # Bad /\ n \in Nat /\ Len(OpenNow') = n+1 /\ OpenNow'[n+1] = w
         /\ Written'[n+2] = b /\ Written'[n+1] = cur_thr /\ (n+1)+1 = n+2
         /\ \A k \in 1..Len(OpenNow') :
              k = n+1 \/ Same(threads, threads', OpenNow, OpenNow', Written, Written', k)
<1>1. /\ OpenNow # Bad /\ phase = "parse" /\ Typed /\ OpenNow \in Seq(Kw)
      /\ OpenNow' = Nest(OpenNow, Head(input)) /\ Head(input) \in Token
  BY Right DEF Parsing
<1>2. /\ n \in Nat /\ Len(Written) = n+1 /\ Len(OpenNow) = n /\ Written[n+1] = cur_thr
      /\ \A k \in 1..(n+1) : Written[k] \in 1..Len(threads)
  BY <1>1, Nested DEF Parsing
<1>3. OpenNow' = Append(OpenNow, w) /\ w \in Kw
  BY <1>1, NestFacts DEF Kw
<1>4. Written \in Seq(Nat)
  <2>1. Written \in Seq(1..Len(threads)) /\ Len(threads) \in Nat
    BY <1>1, WrittenFacts, Sizes
  <2> QED
    BY <2>1
<1> DEFINE ms == OpenNow'
           V == Written'
<1>5. ms = Append(OpenNow, w) /\ V = Append(Written, b)
  BY <1>3
<1> HIDE DEF ms, V
<1>6. /\ Len(ms) = n+1 /\ ms[n+1] = w /\ \A k \in 1..n : ms[k] = OpenNow[k]
  BY <1>1, <1>2, <1>3, <1>5, OneMore
<1>7. Len(V) = (n+1)+1 /\ V[(n+1)+1] = b /\ \A k \in 1..(n+1) : V[k] = Written[k]
  <2>1. n+1 \in Nat
    BY <1>2
  <2> QED
    BY <1>2, <1>4, <1>5, <2>1, OneMore
<1>8. /\ (n+1)+1 = n+2 /\ n+1 \in 1..(n+1)
      /\ \A k \in 1..(n+1) : k = n+1 \/ (k \in 1..n /\ k+1 \in 1..(n+1))
  BY <1>2
<1>9. \A k \in 1..Len(ms) : k = n+1 \/ Same(threads, threads', OpenNow, ms, Written, V, k)
  BY <1>2, <1>6, <1>7, <1>8 DEF Same
<1> QED
  BY <1>1, <1>2, <1>6, <1>7, <1>8, <1>9 DEF ms, V

\* What a new block that is opened in cur_thr does to the blocks around it.
LEMMA OpenSides ==
  ASSUME Parsing, NEW K, Read(K), NEW w, w = Head(input).tok,
         w \in {"begin", "if", "while", "loop", "def"},
         NEW b \in Nat, Written' = Append(Written, b),
         \A t \in 1..Len(threads) : threads'[t].branch = threads[t].branch,
         NEW n, n = Len(end_vector),
         (w \in IfKinds /\ OpenNow' # Bad /\ OpenNow'[n+1] = w /\ Written'[n+2] = b
            /\ Written'[n+1] = cur_thr /\ (n+1)+1 = n+2)
           => Side(threads', branches', OpenNow', Written', n+1)
  PROVE  OpenNow' # Bad =>
           /\ OpenNow # Bad
           /\ \A k \in 1..Len(OpenNow') :
                \/ Side(threads', branches', OpenNow', Written', k)
                \/ Same(threads, threads', OpenNow, OpenNow', Written, Written', k)
<1> SUFFICES ASSUME OpenNow' # Bad
             PROVE  /\ OpenNow # Bad
                    /\ \A k \in 1..Len(OpenNow') :
                         \/ Side(threads', branches', OpenNow', Written', k)
                         \/ Same(threads, threads', OpenNow, OpenNow', Written, Written', k)
  OBVIOUS
<1>1. /\ OpenNow # Bad /\ n \in Nat /\ OpenNow'[n+1] = w
      /\ Written'[n+2] = b /\ Written'[n+1] = cur_thr /\ (n+1)+1 = n+2
      /\ \A k \in 1..Len(OpenNow') :
           k = n+1 \/ Same(threads, threads', OpenNow, OpenNow', Written, Written', k)
  BY PushBlocks
<1>2. Side(threads', branches', OpenNow', Written', n+1)
  BY <1>1 DEF Side
<1> QED
  BY <1>1, <1>2

\* The cells of the threads that are made.
LEMMA FieldStack ==
  ASSUME NEW t \in Thread, NEW v
  PROVE  /\ [t EXCEPT !.excobj = v].stack = t.stack
         /\ [t EXCEPT !.branch = v].stack = t.stack
         /\ [t EXCEPT !.callsym = v].stack = t.stack
         /\ [t EXCEPT !.up = v].stack = t.stack
         /\ [t EXCEPT !.excobj = v].callsym = t.callsym
         /\ [t EXCEPT !.branch = v].callsym = t.callsym
BY DEF Thread

LEMMA NewIsEmpty ==
  ASSUME Typed, NEW u \in DOMAIN threads
  PROVE  /\ thread_new(u) \in Thread /\ thread_new(u).stack = <<>>
         /\ thread_new(u).callsym = NoName
BY NewThread DEF thread_new

LEMMA BeginLinked ==
  ASSUME Parsing, parse_begin
  PROVE  LGoal
<1> DEFINE b == Len(threads) + 1
           x == Len(excs) + 1
           n == Len(end_vector)
           r == [thread_new(cur_thr) EXCEPT !.excobj = x]
           M == [threads EXCEPT ![cur_thr].excobj = x]
<1>1. /\ Typed /\ threads \in Seq(Thread) /\ cur_thr \in DOMAIN threads /\ Linked
      /\ Len(threads) \in Nat /\ Len(excs) \in Nat
      /\ DOMAIN threads = 1..Len(threads) /\ DOMAIN excs = 1..Len(excs)
      /\ \A k \in DOMAIN branches :
           branches[k].cond_true \in DOMAIN threads /\ branches[k].cond_false \in 0..Len(threads)
      /\ \A y \in DOMAIN excs :
           excs[y].body_thr \in DOMAIN threads /\ excs[y].rescue_thr \in 0..Len(threads)
  BY ParsingFacts
<1>2. /\ Open("end_begin") /\ UNCHANGED <<branches, methods, phase>> /\ cur_thr' = b
      /\ b \in Nat /\ x \in Nat /\ x # 0
      /\ threads' \in Seq(Thread) /\ Len(threads') = b /\ DOMAIN threads' = 1..b
      /\ threads'[b].up = cur_thr /\ threads'[b].excobj = x
      /\ \A t \in 1..Len(threads) :
           /\ threads'[t].up = threads[t].up /\ threads'[t].branch = threads[t].branch
           /\ threads'[t].callsym = threads[t].callsym
      /\ excs' \in Seq(Exc) /\ Len(excs') = x /\ DOMAIN excs' = 1..x
      /\ excs'[x].thr = cur_thr /\ excs'[x].body_thr = b /\ excs'[x].rescue_thr = 0
      /\ \A y \in 1..Len(excs) : excs'[y] = excs[y]
  BY <1>1, BeginEffect
<1>3. threads' = Append(M, r) /\ excs' = Append(excs, NewExc(b))
  BY DEF parse_begin
<1>4. M \in Seq(Thread) /\ DOMAIN M = DOMAIN threads /\ \A t \in DOMAIN threads : M[t].stack = threads[t].stack
  <2> DEFINE q == [threads[cur_thr] EXCEPT !.excobj = x]
  <2>1. threads[cur_thr] \in Thread
    BY <1>1
  <2>2. q \in Thread /\ q.stack = threads[cur_thr].stack
    BY <1>2, <2>1, ExcobjField, FieldStack
  <2>3. M = [threads EXCEPT ![cur_thr] = q]
    OBVIOUS
  <2> HIDE DEF q
  <2> QED
    BY <1>1, <2>2, <2>3
<1>5. r \in Thread /\ r.stack = <<>> /\ r.callsym = NoName
  <2>1. /\ thread_new(cur_thr) \in Thread /\ thread_new(cur_thr).stack = <<>>
        /\ thread_new(cur_thr).callsym = NoName
    BY <1>1, NewIsEmpty
  <2> QED
    BY <1>2, <2>1, ExcobjField, FieldStack
<1>6. Calm(excs')
  <2>1. Calm(excs)
    BY <1>1 DEF Linked
  <2>2. excs'[x].retry = FALSE
    <3>1. excs \in Seq(Exc)
      BY <1>1, Sizes
    <3>2. excs'[x] = NewExc(b)
      BY <1>3, <3>1
    <3> QED
      BY <3>2 DEF NewExc
  <2>3. \A y \in 1..x : y = x \/ y \in 1..Len(excs)
    BY <1>1
  <2> QED
    BY <1>1, <1>2, <2>1, <2>2, <2>3 DEF Calm
<1> HIDE DEF r, M
<1>7. Cells(threads, threads', 0, 0) /\ threads'[b].callsym = NoName
  <2>1. Cells(threads, M, 0, 0)
    BY <1>4, CellsSame
  <2>2. Len(M) = Len(threads)
    BY <1>1, <1>4
  <2> QED
    BY <1>3, <1>4, <1>5, <2>1, <2>2, CellsNew
<1>8. /\ \A t \in 1..b : t \in 1..Len(threads) \/ t = b
      /\ \A t \in 1..Len(threads) : t \in 1..b /\ t # b /\ t # 0
      /\ \A y \in 1..x : y \in 1..Len(excs) \/ y = x
      /\ \A y \in 1..Len(excs) : y \in 1..x
      /\ b \in 1..b /\ 0 \notin 1..b
  BY <1>1
<1>9. b \notin 0..Len(threads) /\ b # 0 /\ cur_thr < b
  BY <1>1
<1> HIDE DEF b, x
<1>10. Later(threads, threads', branches, branches', excs, excs')
  <2>1. \A t \in DOMAIN threads, y \in DOMAIN excs' :
          OfExc(excs', y, t) => y \in DOMAIN excs /\ OfExc(excs, y, t)
    BY <1>1, <1>2, <1>8 DEF OfExc
  <2> QED
    BY <1>1, <1>2, <1>8, <2>1 DEF Later
<1>11. Adds(threads, threads', branches, branches', excs, excs', 0, 0)
  <2>1. \A t \in DOMAIN threads' : t \notin DOMAIN threads => threads'[t].up < t
    BY <1>1, <1>2, <1>8, <1>9
  <2> QED
    BY <1>2, <1>7, <1>8, <1>10, <2>1 DEF Adds
<1>12. Block(threads', branches', excs', b)
  <2>1. \A k \in DOMAIN branches' : ~OfBranch(branches', k, b)
    BY <1>1, <1>2, <1>8, <1>9 DEF OfBranch
  <2>2. \A y \in DOMAIN excs' : OfExc(excs', y, b) => y = x
    BY <1>1, <1>2, <1>8, <1>9 DEF OfExc
  <2>3. Inside(threads', b, excs'[x].thr)
    BY <1>2, <1>7 DEF Inside
  <2> QED
    BY <2>1, <2>2, <2>3 DEF Block
<1>13. Joins(threads, threads', branches, branches', excs, excs', methods, methods', 0, 0)
  BY <1>1, <1>2, <1>8, <1>12 DEF Joins
<1>14. OpenNow' # Bad =>
        /\ OpenNow # Bad
        /\ \A k \in 1..Len(OpenNow') :
             \/ Side(threads', branches', OpenNow', Written', k)
             \/ Same(threads, threads', OpenNow, OpenNow', Written, Written', k)
  <2>1. Read({"begin"}) /\ Head(input).tok = "begin"
    BY <1>1, Reads DEF parse_begin
  <2>2. Written' = Append(Written, b)
    BY <1>1, <1>2, <1>8, Opened DEF EndFn
  <2> QED
    BY <1>2, <2>1, <2>2, OpenSides DEF IfKinds
<1> QED
  BY <1>6, <1>11, <1>13, <1>14, StepGoal

LEMMA IfLinked ==
  ASSUME Parsing, parse_if
  PROVE  LGoal
<1> DEFINE b == Len(threads) + 1
           d == Len(branches) + 1
           n == Len(end_vector)
           c == Cell("branch", d)
           r == [thread_new(cur_thr) EXCEPT !.branch = d]
           M == push_cell(threads, cur_thr, c)
<1>1. /\ Typed /\ threads \in Seq(Thread) /\ cur_thr \in DOMAIN threads /\ Linked
      /\ Len(threads) \in Nat /\ Len(branches) \in Nat
      /\ DOMAIN threads = 1..Len(threads) /\ DOMAIN branches = 1..Len(branches)
      /\ \A y \in DOMAIN excs :
           excs[y].body_thr \in DOMAIN threads /\ excs[y].rescue_thr \in 0..Len(threads)
  BY ParsingFacts
<1>2. /\ Open("end_if") /\ UNCHANGED <<excs, methods, phase>> /\ cur_thr' = b
      /\ d # 0 /\ b \in Nat /\ cur_thr \in 1..Len(threads)
      /\ threads' \in Seq(Thread) /\ Len(threads') = b /\ DOMAIN threads' = 1..b
      /\ \A t \in 1..Len(threads) : /\ threads'[t].up = threads[t].up
                                    /\ threads'[t].branch = threads[t].branch
                                    /\ threads'[t].callsym = threads[t].callsym
      /\ threads'[b].up = cur_thr /\ threads'[b].branch = d
      /\ branches' \in Seq(Branch) /\ Len(branches') = d /\ DOMAIN branches' = 1..d
      /\ \A k \in 1..Len(branches) : branches'[k] = branches[k]
      /\ branches'[d].cond_true = b /\ branches'[d].cond_false = 0
  BY <1>1, IfEffect
<1>3. threads' = Append(M, r)
  BY DEF parse_if
<1>4. c \in CellRec /\ c.kind = "branch" /\ c.ref = d
  BY <1>1 DEF Cell, CellRec
<1>5. r \in Thread /\ r.stack = <<>> /\ r.callsym = NoName
  <2>1. /\ thread_new(cur_thr) \in Thread /\ thread_new(cur_thr).stack = <<>>
        /\ thread_new(cur_thr).callsym = NoName /\ d \in Nat
    BY <1>1, NewIsEmpty
  <2> QED
    BY <2>1, BranchField, FieldStack
<1> HIDE DEF c
<1>6. M \in Seq(Thread) /\ Len(M) = Len(threads) /\ Cells(threads, M, cur_thr, c)
  BY <1>1, <1>4, CellPushed, CellsPushed
<1> HIDE DEF r, M
<1>7. Cells(threads, threads', cur_thr, c) /\ threads'[b].callsym = NoName
  BY <1>3, <1>5, <1>6, CellsNew
<1>8. /\ \A t \in 1..b : t \in 1..Len(threads) \/ t = b
      /\ \A t \in 1..Len(threads) : t \in 1..b /\ t # b /\ t # 0
      /\ \A y \in 1..d : y \in 1..Len(branches) \/ y = d
      /\ \A y \in 1..Len(branches) : y \in 1..d
      /\ b \in 1..b /\ d \in 1..d /\ b \notin 0..Len(threads) /\ b # 0 /\ cur_thr < b
  BY <1>1
<1> HIDE DEF b, d
<1>9. Later(threads, threads', branches, branches', excs, excs')
  <2>1. \A t \in DOMAIN threads, k \in DOMAIN branches' :
          OfBranch(branches', k, t) => k \in DOMAIN branches /\ OfBranch(branches, k, t)
    BY <1>1, <1>2, <1>8 DEF OfBranch
  <2> QED
    BY <1>1, <1>2, <1>8, <2>1 DEF Later
<1>10. Adds(threads, threads', branches, branches', excs, excs', cur_thr, c)
  <2>1. \A t \in DOMAIN threads' : t \notin DOMAIN threads => threads'[t].up < t
    BY <1>1, <1>2, <1>8
  <2>2. CellRef(branches', excs', c)
    BY <1>2, <1>4, <1>8 DEF CellRef
  <2> QED
    BY <1>7, <1>9, <2>1, <2>2 DEF Adds
<1>11. Calm(excs')
  BY <1>1, <1>2 DEF Linked
<1>12. \A k \in DOMAIN branches : branches[k].cond_true \in 1..Len(threads)
                                  /\ branches[k].cond_false \in 0..Len(threads)
  BY <1>1, ParsingFacts
<1>13. Block(threads', branches', excs', b)
  <2>1. ASSUME NEW k \in DOMAIN branches', OfBranch(branches', k, b)
        PROVE  Inside(threads', b, threads'[branches'[k].cond_true].up)
    <3>1. k = d
      BY <1>1, <1>2, <1>8, <1>12, <2>1 DEF OfBranch
    <3> QED
      BY <1>2, <1>7, <3>1 DEF Inside
  <2>2. \A y \in DOMAIN excs' : ~OfExc(excs', y, b)
    BY <1>1, <1>2, <1>8 DEF OfExc
  <2> QED
    BY <2>1, <2>2 DEF Block
<1>14. Joins(threads, threads', branches, branches', excs, excs', methods, methods', cur_thr, c)
  <2>1. CellHome(threads', branches', excs', cur_thr, c)
    BY <1>2, <1>4 DEF CellHome
  <2> QED
    BY <1>1, <1>2, <1>8, <1>13, <2>1 DEF Joins
<1>15. Read({"if", "while", "loop"}) /\ Head(input).tok \in {"if", "while", "loop"}
  BY <1>1, Reads DEF parse_if
<1>16. Written' = Append(Written, b)
  BY <1>1, <1>2, <1>8, Opened DEF EndFn
<1>17. ASSUME Written'[n+2] = b, Written'[n+1] = cur_thr, (n+1)+1 = n+2
       PROVE  Side(threads', branches', OpenNow', Written', n+1)
  BY <1>2, <1>8, <1>17 DEF Side
<1>18. OpenNow' # Bad =>
        /\ OpenNow # Bad
        /\ \A k \in 1..Len(OpenNow') :
             \/ Side(threads', branches', OpenNow', Written', k)
             \/ Same(threads, threads', OpenNow, OpenNow', Written, Written', k)
  <2> DEFINE w == Head(input).tok
  <2>1. w \in {"begin", "if", "while", "loop", "def"} /\ Read({"if", "while", "loop"})
    BY <1>15
  <2>2. \A t \in 1..Len(threads) : threads'[t].branch = threads[t].branch
    BY <1>2
  <2>3. b \in Nat
    BY <1>2
  <2> HIDE DEF w
  <2> QED
    BY <1>16, <1>17, <2>1, <2>2, <2>3, OpenSides, ZenonT(40) DEF w
<1> QED
  BY <1>10, <1>11, <1>14, <1>18, StepGoal

LEMMA DefineLinked ==
  ASSUME Parsing, parse_define
  PROVE  LGoal
<1> DEFINE b == Len(threads) + 1
           n == Len(end_vector)
           r == [thread_new(cur_thr) EXCEPT !.callsym = Head(input).name]
<1>1. /\ Typed /\ threads \in Seq(Thread) /\ cur_thr \in DOMAIN threads /\ Linked
      /\ Len(threads) \in Nat /\ DOMAIN threads = 1..Len(threads)
      /\ \A k \in DOMAIN branches :
           branches[k].cond_true \in DOMAIN threads /\ branches[k].cond_false \in 0..Len(threads)
      /\ \A y \in DOMAIN excs :
           excs[y].body_thr \in DOMAIN threads /\ excs[y].rescue_thr \in 0..Len(threads)
  BY ParsingFacts
<1>2. /\ Open("end_define") /\ UNCHANGED <<branches, excs, methods, phase>> /\ cur_thr' = b
      /\ threads' \in Seq(Thread) /\ Len(threads') = b /\ DOMAIN threads' = 1..b /\ b \in Nat
      /\ \A t \in 1..Len(threads) : threads'[t] = threads[t]
      /\ threads'[b].up = cur_thr
  BY <1>1, DefineEffect
<1>3. threads' = Append(threads, r)
  BY DEF parse_define
<1>4. Read({"def"}) /\ Head(input) \in Token /\ Head(input).tok = "def"
  BY <1>1, Reads DEF parse_define
<1>5. r \in Thread /\ r.stack = <<>>
  <2>1. thread_new(cur_thr) \in Thread /\ thread_new(cur_thr).stack = <<>>
    BY <1>1, NewIsEmpty
  <2>2. Head(input).name \in Name \cup {NoName}
    BY <1>4 DEF Token
  <2> QED
    BY <2>1, <2>2, CallsymField, FieldStack
<1> HIDE DEF r
<1>6. Cells(threads, threads', 0, 0)
  <2>1. Cells(threads, threads, 0, 0)
    BY CellsSame
  <2> QED
    BY <1>1, <1>3, <1>5, <2>1, CellsNew
<1>7. /\ \A t \in 1..b : t \in 1..Len(threads) \/ t = b
      /\ \A t \in 1..Len(threads) : t \in 1..b /\ t # b /\ t # 0
      /\ b \in 1..b /\ b \notin 0..Len(threads) /\ b # 0 /\ cur_thr < b /\ 0 \notin 1..b
  BY <1>1
<1> HIDE DEF b
<1>8. Later(threads, threads', branches, branches', excs, excs')
  BY <1>1, <1>2, <1>7 DEF Later
<1>9. Adds(threads, threads', branches, branches', excs, excs', 0, 0)
  <2>1. \A t \in DOMAIN threads' : t \notin DOMAIN threads => threads'[t].up < t
    BY <1>1, <1>2, <1>7
  <2> QED
    BY <1>2, <1>6, <1>7, <1>8, <2>1 DEF Adds
<1>10. Calm(excs')
  BY <1>1, <1>2 DEF Linked
<1>11. Block(threads', branches', excs', b)
  <2>1. \A k \in DOMAIN branches' : ~OfBranch(branches', k, b)
    BY <1>1, <1>2, <1>7 DEF OfBranch
  <2>2. \A y \in DOMAIN excs' : ~OfExc(excs', y, b)
    BY <1>1, <1>2, <1>7 DEF OfExc
  <2> QED
    BY <2>1, <2>2 DEF Block
<1>12. Joins(threads, threads', branches, branches', excs, excs', methods, methods', 0, 0)
  BY <1>1, <1>2, <1>7, <1>11 DEF Joins
<1>13. Written' = Append(Written, b)
  BY <1>1, <1>2, <1>7, Opened DEF EndFn
<1>14. OpenNow' # Bad =>
        /\ OpenNow # Bad
        /\ \A k \in 1..Len(OpenNow') :
             \/ Side(threads', branches', OpenNow', Written', k)
             \/ Same(threads, threads', OpenNow, OpenNow', Written, Written', k)
  BY <1>2, <1>4, <1>13, OpenSides DEF IfKinds
<1> QED
  BY <1>9, <1>10, <1>12, <1>14, StepGoal

\* What a rescue or an else does to the blocks around it.
LEMMA SwapSides ==
  ASSUME Parsing, NEW K, Read(K), NEW n, n = Len(end_vector),
         NEW w, w = Head(input).tok, w \in {"rescue", "else"},
         NEW b, b = Len(threads) + 1, cur_thr' = b, UNCHANGED <<opener, end_vector>>,
         \A t \in 1..Len(threads) : threads'[t].branch = threads[t].branch,
         OpenNow' # Bad, OpenNow # Bad,
         (OpenNow'[n] = w /\ Written'[n] = Written[n] /\ Written'[n+1] = b /\ n \in 1..n
            /\ n \in 1..Len(OpenNow) /\ OpenNow[n] \in IfKinds \cup {"begin"}
            /\ Written[n+1] = cur_thr /\ Written[n] \in 1..Len(threads))
           => Side(threads', branches', OpenNow', Written', n)
  PROVE  \A k \in 1..Len(OpenNow') :
           \/ Side(threads', branches', OpenNow', Written', k)
           \/ Same(threads, threads', OpenNow, OpenNow', Written, Written', k)
<1>1. /\ n \in Nat \ {0} /\ OpenNow[n] \in (IF w = "rescue" THEN {"begin"} ELSE {"if", "while", "loop"})
      /\ Len(Written') = n+1 /\ Written'[n+1] = b /\ \A k \in 1..n : Written'[k] = Written[k]
      /\ Len(OpenNow') = n /\ OpenNow'[n] = w /\ \A k \in 1..(n-1) : OpenNow'[k] = OpenNow[k]
  BY SwapBlocks DEF Parsing
<1>2. /\ Len(OpenNow) = n /\ Written[n+1] = cur_thr
      /\ \A k \in 1..(n+1) : Written[k] \in 1..Len(threads)
  BY Nested DEF Parsing
<1>3. /\ \A k \in 1..n : k \in 1..(n-1) \/ k = n
      /\ \A k \in 1..(n-1) : k \in 1..n /\ k+1 \in 1..n /\ k+1 \in 1..(n+1)
      /\ n \in 1..n /\ n \in 1..(n+1)
  BY <1>1
<1>4. Side(threads', branches', OpenNow', Written', n)
  BY <1>1, <1>2, <1>3 DEF IfKinds
<1> DEFINE ms == OpenNow'
           V == Written'
<1>5. /\ Len(ms) = n /\ \A k \in 1..(n-1) : ms[k] = OpenNow[k]
      /\ \A k \in 1..n : V[k] = Written[k]
  BY <1>1
<1> HIDE DEF ms, V
<1>6. \A k \in 1..Len(ms) : k = n \/ Same(threads, threads', OpenNow, ms, Written, V, k)
  BY <1>2, <1>3, <1>5 DEF Same
<1> QED
  BY <1>4, <1>6 DEF ms, V

LEMMA RescueLinked ==
  ASSUME Parsing, parse_rescue, phase' # "crash"
  PROVE  LGoal
<1> DEFINE b == Len(threads) + 1
           x == Cur.excobj
           n == Len(end_vector)
           r == NewRescue(x)
<1>1. /\ Typed /\ PInv /\ phase = "parse" /\ threads \in Seq(Thread) /\ cur_thr \in DOMAIN threads /\ Linked
      /\ Len(threads) \in Nat /\ DOMAIN threads = 1..Len(threads) /\ DOMAIN excs = 1..Len(excs)
      /\ excs \in Seq(Exc)
      /\ \A k \in DOMAIN branches :
           branches[k].cond_true \in DOMAIN threads /\ branches[k].cond_false \in 0..Len(threads)
      /\ \A y \in DOMAIN excs :
           excs[y].body_thr \in DOMAIN threads /\ excs[y].rescue_thr \in 0..Len(threads)
  BY ParsingFacts DEF Parsing
<1>2. /\ x # 0 /\ cur_thr' = b /\ UNCHANGED <<branches, methods, phase, end_vector, opener>>
      /\ excs[x].thr = Cur.up /\ x \in 1..Len(excs) /\ Cur.up \in 1..Len(threads)
      /\ r \in Thread /\ r.up = Cur.up
      /\ threads' \in Seq(Thread) /\ Len(threads') = b /\ DOMAIN threads' = 1..b
      /\ threads'[b] = r /\ \A t \in 1..Len(threads) : threads'[t] = threads[t]
      /\ excs' \in Seq(Exc) /\ Len(excs') = Len(excs) /\ DOMAIN excs' = DOMAIN excs
      /\ \A y \in 1..Len(excs) :
           /\ excs'[y].thr = excs[y].thr /\ excs'[y].body_thr = excs[y].body_thr
           /\ excs'[y].rescue_thr = IF y = x THEN b ELSE excs[y].rescue_thr
  BY <1>1, RescueEffect
<1>3. threads' = Append(threads, r) /\ excs' = [excs EXCEPT ![x].rescue_thr = b]
  BY <1>2 DEF parse_rescue, Stop
<1>4. r.stack = <<>> /\ r.callsym = NoName
  <2>1. excs[x].thr \in DOMAIN threads
    BY <1>1, <1>2
  <2>2. /\ thread_new(excs[x].thr) \in Thread /\ thread_new(excs[x].thr).stack = <<>>
        /\ thread_new(excs[x].thr).callsym = NoName
    BY <1>1, <2>1, NewIsEmpty
  <2> QED
    BY <2>2, FieldStack DEF NewRescue
<1>5. Calm(excs')
  <2>1. Calm(excs)
    BY <1>1 DEF Linked
  <2>2. \A y \in DOMAIN excs : excs'[y].retry = excs[y].retry
    BY <1>1, <1>2, <1>3, SMTT(30) DEF Exc
  <2> QED
    BY <1>1, <1>2, <2>1, <2>2 DEF Calm
<1>6. Read({"rescue"}) /\ Head(input).tok = "rescue"
  BY <1>1, Reads DEF parse_rescue
<1> HIDE DEF r
<1>7. Cells(threads, threads', 0, 0)
  <2>1. Cells(threads, threads, 0, 0)
    BY CellsSame
  <2> QED
    BY <1>1, <1>2, <1>3, <1>4, <2>1, CellsNew
<1>8. /\ \A t \in 1..b : t \in 1..Len(threads) \/ t = b
      /\ \A t \in 1..Len(threads) : t \in 1..b /\ t # b /\ t # 0
      /\ b \in 1..b /\ b \notin 0..Len(threads) /\ b # 0 /\ Cur.up < b /\ 0 \notin 1..b
  BY <1>1, <1>2
<1>9. OpenNow' # Bad =>
        /\ OpenNow # Bad
        /\ \A k \in 1..Len(OpenNow') :
             \/ Side(threads', branches', OpenNow', Written', k)
             \/ Same(threads, threads', OpenNow, OpenNow', Written, Written', k)
  <2> SUFFICES ASSUME OpenNow' # Bad
               PROVE  /\ OpenNow # Bad
                      /\ \A k \in 1..Len(OpenNow') :
                           \/ Side(threads', branches', OpenNow', Written', k)
                           \/ Same(threads, threads', OpenNow, OpenNow', Written, Written', k)
    OBVIOUS
  <2>1. OpenNow # Bad
    BY <1>6, Right DEF Parsing
  <2>2. OpenNow'[n] = "rescue" => Side(threads', branches', OpenNow', Written', n)
    BY DEF Side, IfKinds
  <2> QED
    BY <1>2, <1>6, <2>1, <2>2, SwapSides
<1> HIDE DEF b, x
<1>10. Later(threads, threads', branches, branches', excs, excs')
  <2>1. \A t \in DOMAIN threads, y \in DOMAIN excs' :
          OfExc(excs', y, t) => y \in DOMAIN excs /\ OfExc(excs, y, t)
    BY <1>1, <1>2, <1>8 DEF OfExc
  <2> QED
    BY <1>1, <1>2, <1>8, <2>1 DEF Later
<1>11. Adds(threads, threads', branches, branches', excs, excs', 0, 0)
  <2>1. \A t \in DOMAIN threads' : t \notin DOMAIN threads => threads'[t].up < t
    BY <1>1, <1>2, <1>8
  <2> QED
    BY <1>2, <1>7, <1>8, <1>10, <2>1 DEF Adds
<1>12. Block(threads', branches', excs', b)
  <2>1. \A k \in DOMAIN branches' : ~OfBranch(branches', k, b)
    BY <1>1, <1>2, <1>8 DEF OfBranch
  <2>2. ASSUME NEW y \in DOMAIN excs', y # x PROVE ~OfExc(excs', y, b)
    <3>1. y \in DOMAIN excs /\ y \in 1..Len(excs)
      BY <1>1, <1>2, <2>2
    <3>2. /\ excs'[y].body_thr = excs[y].body_thr /\ excs'[y].rescue_thr = excs[y].rescue_thr
          /\ excs[y].body_thr \in 1..Len(threads) /\ excs[y].rescue_thr \in 0..Len(threads)
      BY <1>1, <1>2, <2>2, <3>1
    <3> QED
      BY <1>8, <3>2 DEF OfExc
  <2>3. Inside(threads', b, excs'[x].thr)
    BY <1>2, <1>4 DEF Inside
  <2> QED
    BY <2>1, <2>2, <2>3 DEF Block
<1>13. Joins(threads, threads', branches, branches', excs, excs', methods, methods', 0, 0)
  BY <1>1, <1>2, <1>8, <1>12 DEF Joins
<1> QED
  BY <1>5, <1>9, <1>11, <1>13, StepGoal

LEMMA ElseLinked ==
  ASSUME Parsing, parse_else, phase' = "parse"
  PROVE  LGoal
<1> DEFINE b == Len(threads) + 1
           d == Cur.branch
           n == Len(end_vector)
           r == NewSide
<1>1. /\ Typed /\ PInv /\ phase = "parse" /\ threads \in Seq(Thread) /\ cur_thr \in DOMAIN threads /\ Linked
      /\ Len(threads) \in Nat /\ DOMAIN threads = 1..Len(threads) /\ DOMAIN excs = 1..Len(excs)
      /\ branches \in Seq(Branch) /\ DOMAIN branches = 1..Len(branches) /\ TruesIn(threads, branches)
      /\ \A k \in DOMAIN branches :
           branches[k].cond_true \in DOMAIN threads /\ branches[k].cond_false \in 0..Len(threads)
      /\ \A y \in DOMAIN excs :
           excs[y].body_thr \in DOMAIN threads /\ excs[y].rescue_thr \in 0..Len(threads)
  BY ParsingFacts DEF Parsing
<1>2. /\ d # 0 /\ threads' = Append(threads, r) /\ branches' = WithSide(d, b) /\ cur_thr' = b
      /\ UNCHANGED <<excs, methods, phase, end_vector, opener>> /\ Read({"else"})
  BY DEF parse_else, Stop
<1>3. /\ Cur.up \in 1..Len(threads) /\ d \in 1..Len(branches)
      /\ r \in Thread /\ r.up = Cur.up /\ r.branch = d
      /\ threads' \in Seq(Thread) /\ Len(threads') = b /\ DOMAIN threads' = 1..b
      /\ threads'[b] = r /\ \A t \in 1..Len(threads) : threads'[t] = threads[t]
      /\ branches' \in Seq(Branch) /\ Len(branches') = Len(branches)
      /\ DOMAIN branches' = DOMAIN branches
      /\ \A k \in 1..Len(branches) :
           /\ branches'[k].cond_true = branches[k].cond_true
           /\ branches'[k].cond_false = IF k = d THEN b ELSE branches[k].cond_false
  BY <1>1, <1>2, ElseEffect
<1>4. r.stack = <<>> /\ r.callsym = NoName
  <2>1. Cur.up \in DOMAIN threads
    BY <1>1, <1>3
  <2>2. /\ thread_new(Cur.up) \in Thread /\ thread_new(Cur.up).stack = <<>>
        /\ thread_new(Cur.up).callsym = NoName
    BY <1>1, <2>1, NewIsEmpty
  <2> QED
    BY <2>2, FieldStack DEF NewSide
<1>5. Calm(excs')
  BY <1>1, <1>2 DEF Linked
<1>6. Read({"else"}) /\ Head(input).tok = "else"
  BY <1>1, <1>2, Reads
<1> HIDE DEF r
<1>7. Cells(threads, threads', 0, 0)
  <2>1. Cells(threads, threads, 0, 0)
    BY CellsSame
  <2> QED
    BY <1>1, <1>2, <1>3, <1>4, <2>1, CellsNew
<1>8. /\ \A t \in 1..b : t \in 1..Len(threads) \/ t = b
      /\ \A t \in 1..Len(threads) : t \in 1..b /\ t # b /\ t # 0
      /\ b \in 1..b /\ b \notin 0..Len(threads) /\ b # 0 /\ Cur.up < b /\ 0 \notin 1..b
  BY <1>1, <1>3
<1>9. OpenNow' # Bad => OpenNow # Bad
  BY <1>6, Right DEF Parsing
<1>10. ASSUME OpenNow # Bad, Right4(threads, branches, excs, methods, OpenNow, Written),
              n \in 1..Len(OpenNow), OpenNow[n] \in IfKinds,
              Written[n+1] = cur_thr, Written[n] \in 1..Len(threads)
       PROVE  threads[branches[d].cond_true].up = Written[n]
  <2>1. Side(threads, branches, OpenNow, Written, n)
    BY <1>10 DEF Right4, Sides
  <2> QED
    BY <1>10, <2>1 DEF Side, Cur
<1>11. ASSUME OpenNow' # Bad, Right4(threads, branches, excs, methods, OpenNow, Written)
       PROVE  /\ threads[branches[d].cond_true].up = Cur.up
              /\ \A k \in 1..Len(OpenNow') :
                   \/ Side(threads', branches', OpenNow', Written', k)
                   \/ Same(threads, threads', OpenNow, OpenNow', Written, Written', k)
  <2>1. OpenNow # Bad
    BY <1>9, <1>11
  <2>2. /\ n \in Nat \ {0} /\ n \in 1..n /\ n \in 1..(n+1) /\ OpenNow[n] \in {"if", "while", "loop"}
    <3>1. n \in Nat \ {0} /\ OpenNow[n] \in (IF "else" = "rescue" THEN {"begin"} ELSE {"if", "while", "loop"})
      BY <1>2, <1>6, <1>11, SwapBlocks DEF Parsing
    <3> QED
      BY <3>1
  <2>3. /\ Len(OpenNow) = n /\ Written[n+1] = cur_thr /\ Written[n] \in 1..Len(threads)
    BY <2>1, <2>2, Nested DEF Parsing
  <2>4. Written[n] = Cur.up
    <3>1. end_vector # <<>> /\ Len(opener) = n
      BY <1>1, <2>2, Sizes
    <3> QED
      BY <1>1, <3>1, Outer
  <2>5. threads[branches[d].cond_true].up = Written[n]
    BY <1>10, <1>11, <2>1, <2>2, <2>3 DEF IfKinds
  <2>6. ASSUME Written'[n] = Written[n], Written'[n+1] = b
        PROVE  Side(threads', branches', OpenNow', Written', n)
    <3>1. threads'[b].branch = d /\ d \in DOMAIN branches' /\ branches'[d].cond_true = branches[d].cond_true
      BY <1>1, <1>3
    <3>2. threads'[branches[d].cond_true] = threads[branches[d].cond_true]
      BY <1>1, <1>3
    <3> HIDE DEF b, d, n
    <3> QED
      BY <2>5, <2>6, <3>1, <3>2 DEF Side
  <2>7. \A t \in 1..Len(threads) : threads'[t].branch = threads[t].branch
    BY <1>3
  <2>8. \A k \in 1..Len(OpenNow') :
                   \/ Side(threads', branches', OpenNow', Written', k)
                   \/ Same(threads, threads', OpenNow, OpenNow', Written, Written', k)
    BY <1>2, <1>6, <1>11, <2>1, <2>6, <2>7, SwapSides
  <2> QED
    BY <2>4, <2>5, <2>8
<1> HIDE DEF b, d
<1>12. Later(threads, threads', branches, branches', excs, excs')
  <2>1. \A t \in DOMAIN threads, y \in DOMAIN branches' :
          OfBranch(branches', y, t) => y \in DOMAIN branches /\ OfBranch(branches, y, t)
    BY <1>1, <1>3, <1>8 DEF OfBranch
  <2> QED
    BY <1>1, <1>2, <1>3, <1>8, <2>1 DEF Later
<1>13. Adds(threads, threads', branches, branches', excs, excs', 0, 0)
  <2>1. \A t \in DOMAIN threads' : t \notin DOMAIN threads => threads'[t].up < t
    BY <1>1, <1>3, <1>8
  <2> QED
    BY <1>3, <1>7, <1>8, <1>12, <2>1 DEF Adds
<1>14. ASSUME threads[branches[d].cond_true].up = Cur.up
       PROVE  Block(threads', branches', excs', b)
  <2>1. ASSUME NEW k \in DOMAIN branches', k # d PROVE ~OfBranch(branches', k, b)
    <3>1. k \in DOMAIN branches /\ k \in 1..Len(branches)
      BY <1>1, <1>3, <2>1
    <3>2. /\ branches'[k].cond_true = branches[k].cond_true
          /\ branches'[k].cond_false = branches[k].cond_false
          /\ branches[k].cond_true \in 1..Len(threads) /\ branches[k].cond_false \in 0..Len(threads)
      BY <1>1, <1>3, <2>1, <3>1
    <3> QED
      BY <1>8, <3>2 DEF OfBranch
  <2>2. threads'[branches'[d].cond_true].up = Cur.up
    BY <1>1, <1>3, <1>14
  <2>3. \A y \in DOMAIN excs' : ~OfExc(excs', y, b)
    BY <1>1, <1>2, <1>8 DEF OfExc
  <2>4. Inside(threads', b, Cur.up)
    BY <1>3, <1>4 DEF Inside
  <2> QED
    BY <2>1, <2>2, <2>3, <2>4 DEF Block
<1>15. Block(threads', branches', excs', b) =>
         Joins(threads, threads', branches, branches', excs, excs', methods, methods', 0, 0)
  BY <1>1, <1>2, <1>3, <1>8 DEF Joins
<1> QED
  BY <1>5, <1>9, <1>11, <1>13, <1>14, <1>15, StepGoal

\* What an end does to the blocks around the one it closes.
LEMMA CloseSides ==
  ASSUME Parsing, Read({"end"}), Close, cur_thr' = Cur.up,
         \A t \in 1..Len(threads) : threads'[t].branch = threads[t].branch
  PROVE  OpenNow' # Bad =>
           /\ OpenNow # Bad
           /\ \A k \in 1..Len(OpenNow') :
                Same(threads, threads', OpenNow, OpenNow', Written, Written', k)
<1> DEFINE n == Len(end_vector)
           ms == OpenNow'
           V == Written'
<1> SUFFICES ASSUME OpenNow' # Bad
             PROVE  /\ OpenNow # Bad
                    /\ \A k \in 1..Len(OpenNow') :
                         Same(threads, threads', OpenNow, OpenNow', Written, Written', k)
  OBVIOUS
<1>1. OpenNow # Bad
  BY Right DEF Parsing
<1>2. /\ n \in Nat \ {0} /\ \A k \in 1..n : V[k] = Written[k]
      /\ Len(ms) = n-1 /\ \A k \in 1..(n-1) : ms[k] = OpenNow[k]
      /\ \A k \in 1..(n-1) : k \in 1..n /\ k+1 \in 1..n
  BY ClosedBlocks DEF Parsing
<1>3. Len(OpenNow) = n /\ \A k \in 1..(n+1) : Written[k] \in 1..Len(threads)
  BY <1>1, Nested DEF Parsing
<1>4. \A k \in 1..n : k \in 1..(n+1)
  BY <1>2
<1> HIDE DEF n, ms, V
<1>5. \A k \in 1..Len(ms) : Same(threads, threads', OpenNow, ms, Written, V, k)
  BY <1>2, <1>3, <1>4 DEF Same
<1> QED
  BY <1>1, <1>5 DEF ms, V

LEMMA IfEndLinked ==
  ASSUME Parsing, Read({"end"}), end_vector # <<>>, Close, end_if
  PROVE  LGoal
<1>1. Linked /\ Typed
  BY ParsingFacts
<1>2. UNCHANGED <<threads, branches, excs, methods>> /\ cur_thr' = Cur.up
  BY DEF end_if
<1>3. Cells(threads, threads', 0, 0) /\ 0 \notin DOMAIN threads
  BY <1>1, <1>2, CellsSame, Sizes
<1>4. Adds(threads, threads', branches, branches', excs, excs', 0, 0) /\ Calm(excs')
  BY <1>1, <1>2, <1>3 DEF Adds, Later, Linked
<1>5. Joins(threads, threads', branches, branches', excs, excs', methods, methods', 0, 0)
  BY <1>2, <1>3 DEF Joins
<1> QED
  BY <1>2, <1>4, <1>5, CloseSides, StepGoal

LEMMA DefineEndLinked ==
  ASSUME Parsing, Read({"end"}), end_vector # <<>>, Close, end_define, phase' = "parse"
  PROVE  LGoal
<1>1. /\ Linked /\ Typed /\ phase = "parse" /\ cur_thr \in DOMAIN threads
      /\ threads \in Seq(Thread) /\ DOMAIN threads = 1..Len(threads)
  BY ParsingFacts DEF Parsing
<1>2. /\ UNCHANGED <<branches, excs>> /\ cur_thr' = Cur.up
      /\ threads' \in Seq(Thread) /\ Len(threads') = Len(threads)
      /\ \A t \in 1..Len(threads) : /\ t # cur_thr => threads'[t] = threads[t]
                                    /\ threads'[t].branch = threads[t].branch
                                    /\ threads'[t].callsym = threads[t].callsym
      /\ threads'[cur_thr].up = 0
      /\ phase' = IF Cur.callsym = NoName THEN "fail" ELSE phase
      /\ methods' \in {methods, [methods EXCEPT ![Cur.callsym] = cur_thr]}
  BY <1>1, DefineEndEffect
<1>3. Cur.callsym # NoName
  BY <1>1, <1>2
<1>4. \A t \in DOMAIN threads : threads'[t].stack = threads[t].stack
  BY <1>1, FieldStack, SMTT(30) DEF end_define, Thread
<1>5. DOMAIN threads' = DOMAIN threads /\ 0 \notin DOMAIN threads
  BY <1>1, <1>2
<1>6. Cells(threads, threads', 0, 0)
  BY <1>4, <1>5, CellsSame
<1>7. Later(threads, threads', branches, branches', excs, excs')
  BY <1>1, <1>2, <1>3, <1>5 DEF Later, Cur
<1>8. Adds(threads, threads', branches, branches', excs, excs', 0, 0) /\ Calm(excs')
  BY <1>1, <1>2, <1>5, <1>6, <1>7 DEF Adds, Linked
<1>9. \A n \in Name : methods'[n] = methods[n] \/ IsMethod(threads', methods'[n])
  <2>1. IsMethod(threads', cur_thr)
    BY <1>1, <1>2, <1>3 DEF IsMethod, Cur
  <2>2. methods \in [Name -> Nat]
    BY <1>1 DEF Typed
  <2> QED
    BY <1>2, <2>1, <2>2
<1>10. Joins(threads, threads', branches, branches', excs, excs', methods, methods', 0, 0)
  BY <1>5, <1>9 DEF Joins
<1> QED
  BY <1>2, <1>8, <1>10, CloseSides, StepGoal

LEMMA BeginEndLinked ==
  ASSUME Parsing, Read({"end"}), end_vector # <<>>, Close, end_begin
  PROVE  LGoal
<1> DEFINE u == Cur.up
           x == threads[u].excobj
           b == excs[x].body_thr
           M == MoveNote(u, x)
           c == Cell("exc", x)
<1>1. /\ Linked /\ Typed /\ PInv /\ phase = "parse" /\ threads \in Seq(Thread)
      /\ DOMAIN threads = 1..Len(threads) /\ DOMAIN excs = 1..Len(excs) /\ Len(excs) \in Nat
  BY ParsingFacts DEF Parsing
<1>2. /\ UNCHANGED <<branches, excs, methods, phase>> /\ cur_thr' = u
      /\ Last(end_vector) = "end_begin" /\ u \in 1..Len(threads)
      /\ x \in 1..Len(excs) /\ b \in 1..Len(threads)
      /\ threads' \in Seq(Thread) /\ Len(threads') = Len(threads)
      /\ \A t \in 1..Len(threads) :
           /\ threads'[t].up = threads[t].up /\ threads'[t].branch = threads[t].branch
           /\ threads'[t].callsym = threads[t].callsym
  BY <1>1, BeginEndEffect
<1>3. Own(excs, u, x)
  BY <1>1, <1>2, Outer
<1>4. threads' = push_cell(M, u, c)
  BY DEF end_begin
<1>5. c \in CellRec /\ c.kind = "exc" /\ c.ref = x
  BY <1>1, <1>2 DEF Cell, CellRec
<1>6. M \in Seq(Thread) /\ Len(M) = Len(threads)
  BY <1>2, <1>3, <1>1, NoteMoved
<1>7. \A t \in DOMAIN threads : M[t].stack = threads[t].stack
  <2> DEFINE q == [threads[u] EXCEPT !.excobj = 0]
             L == [threads EXCEPT ![u] = q]
             s == [L[b] EXCEPT !.excobj = x]
  <2>1. threads[u] \in Thread /\ u \in DOMAIN threads /\ b \in DOMAIN threads
    BY <1>1, <1>2
  <2>2. q \in Thread /\ q.stack = threads[u].stack
    BY <2>1, FieldStack, ExcobjField
  <2> HIDE DEF q
  <2>3. /\ L \in Seq(Thread) /\ DOMAIN L = DOMAIN threads
        /\ \A t \in DOMAIN threads : L[t].stack = threads[t].stack
    BY <1>1, <2>1, <2>2
  <2> HIDE DEF L
  <2>4. L[b] \in Thread
    BY <2>1, <2>3
  <2>5. s.stack = L[b].stack
    BY <2>4, FieldStack
  <2>6. M = [L EXCEPT ![b] = s]
    BY DEF MoveNote, L, q
  <2> HIDE DEF s
  <2> QED
    BY <2>1, <2>3, <2>5, <2>6
<1> HIDE DEF M, c
<1>8. DOMAIN M = DOMAIN threads /\ u \in DOMAIN M
  BY <1>1, <1>2, <1>6
<1>9. Cells(M, threads', u, c)
  BY <1>4, <1>5, <1>6, <1>8, CellsPushed
<1>10. Cells(threads, threads', u, c)
  BY <1>7, <1>8, <1>9 DEF Cells
<1>11. DOMAIN threads' = DOMAIN threads
  BY <1>1, <1>2
<1> HIDE DEF u, x
<1>12. Later(threads, threads', branches, branches', excs, excs')
  BY <1>1, <1>2, <1>11 DEF Later
<1>13. Adds(threads, threads', branches, branches', excs, excs', u, c) /\ Calm(excs')
  <2>1. CellRef(branches', excs', c)
    BY <1>1, <1>2, <1>5 DEF CellRef
  <2> QED
    BY <1>1, <1>2, <1>10, <1>11, <1>12, <2>1 DEF Adds, Linked
<1>14. Joins(threads, threads', branches, branches', excs, excs', methods, methods', u, c)
  <2>1. CellHome(threads', branches', excs', u, c)
    BY <1>2, <1>3, <1>5 DEF CellHome, Own
  <2> QED
    BY <1>2, <1>11, <2>1 DEF Joins
<1>15. cur_thr' = Cur.up /\ \A t \in 1..Len(threads) : threads'[t].branch = threads[t].branch
  BY <1>2 DEF u
<1> QED
  BY <1>13, <1>14, <1>15, CloseSides, StepGoal

\* The parser goes on, or hands over to the evaluator.
LEMMA ParseLinked ==
  ASSUME Parsing, Parse, phase' \in {"parse", "eval"}
  PROVE  LGoal
<1>1. CASE parse_end
  <2>1. Read({"end"}) /\ end_vector # <<>> /\ Close /\ (end_if \/ end_begin \/ end_define)
    BY <1>1 DEF parse_end, Stop
  <2>2. end_define => phase' = "parse"
    <3>1. phase = "parse"
      BY DEF Parsing
    <3> QED
      BY <3>1 DEF end_define
  <2> QED
    BY <2>1, <2>2, IfEndLinked, BeginEndLinked, DefineEndLinked
<1>2. CASE parse_else
  <2>1. phase' = "parse"
    BY <1>2 DEF parse_else, Stop, Parsing
  <2> QED
    BY <1>2, <2>1, ElseLinked
<1> QED
  BY <1>1, <1>2, StmtLinked, BeginLinked, RescueLinked, IfLinked, DefineLinked DEF Parse

LEMMA LInvInit == ParseInit => LInv
<1> SUFFICES ASSUME ParseInit PROVE LInv
  OBVIOUS
<1>1. /\ branches = <<>> /\ excs = <<>> /\ Len(threads) = 1 /\ DOMAIN threads = {1}
      /\ threads[1].up = 0 /\ threads[1].stack = <<>> /\ methods = [n \in Name |-> 0]
  BY DEF ParseInit, HeapInit
<1>2. Linked
  BY <1>1 DEF Linked, Ups, CellRefs, Calm
<1>3. Fits(threads, branches, excs, methods)
  BY <1>1 DEF Fits, Block
<1>4. OpenNow = <<>>
  <2>1. script \in Seq(Token) /\ Done = 0
    BY ScriptsAssumption DEF ParseInit, Done
  <2> QED
    BY <2>1, BlocksAre DEF OpenNow
<1>5. Sides(threads, branches, OpenNow, Written)
  BY <1>4 DEF Sides
<1> QED
  BY <1>2, <1>3, <1>5 DEF LInv

-----------------------------------------------------------------------------
(* What the evaluator is given, and does not change *)

World(T, B, X, M) ==
  /\ T \in Seq(Thread) /\ B \in Seq(Branch) /\ X \in Seq(Exc) /\ M \in [Name -> Nat]
  /\ 1 \in DOMAIN T /\ Refers(T, B, X, M) /\ Ups(T) /\ CellRefs(T, B, X)

\* What a well-formed script gives: an exception object is noted only in its
\* own blocks.
Fitted(T, B, X, M) ==
  /\ Fits(T, B, X, M) /\ T[1].up = 0
  /\ \A t \in DOMAIN T : T[t].excobj # 0 => OfExc(X, T[t].excobj, t)

\* Only the place in a thread and the note of a retry change.
KeptThreads(T, U) ==
  /\ U \in Seq(Thread) /\ DOMAIN U = DOMAIN T
  /\ \A t \in DOMAIN T : /\ U[t].up = T[t].up /\ U[t].branch = T[t].branch
                         /\ U[t].excobj = T[t].excobj /\ U[t].callsym = T[t].callsym
                         /\ U[t].stack = T[t].stack
KeptExcs(X, Y) ==
  /\ Y \in Seq(Exc) /\ DOMAIN Y = DOMAIN X
  /\ \A x \in DOMAIN X : /\ Y[x].thr = X[x].thr /\ Y[x].body_thr = X[x].body_thr
                         /\ Y[x].rescue_thr = X[x].rescue_thr
Kept(T, U, X, Y) == KeptThreads(T, U) /\ KeptExcs(X, Y)

LEMMA SameLength ==
  ASSUME NEW S, NEW s \in Seq(S), NEW R, NEW r \in Seq(R), DOMAIN s = DOMAIN r
  PROVE  Len(s) = Len(r)
<1>1. /\ Len(s) \in Nat /\ Len(r) \in Nat /\ 1..Len(s) = 1..Len(r)
  OBVIOUS
<1> QED
  BY <1>1

LEMMA WorldKept ==
  ASSUME NEW T, NEW U, NEW B, NEW X, NEW Y, NEW M, World(T, B, X, M), Kept(T, U, X, Y)
  PROVE  World(U, B, Y, M)
<1>1. Len(U) = Len(T) /\ Len(Y) = Len(X)
  BY SameLength DEF World, Kept, KeptThreads, KeptExcs
<1>2. Refers(U, B, Y, M)
  <2>1. Refers(T, B, X, M)
    BY DEF World
  <2> QED
    BY <1>1, <2>1 DEF Refers, Kept, KeptThreads, KeptExcs
<1>3. Ups(U) /\ CellRefs(U, B, Y)
  BY DEF World, Kept, KeptThreads, KeptExcs, Ups, CellRefs, CellRef
<1> QED
  BY <1>2, <1>3 DEF World, Kept, KeptThreads, KeptExcs

LEMMA FittedKept ==
  ASSUME NEW T, NEW U, NEW B, NEW X, NEW Y, NEW M, World(T, B, X, M), Kept(T, U, X, Y),
         Fitted(T, B, X, M)
  PROVE  Fitted(U, B, Y, M)
<1>1. /\ \A x \in DOMAIN X : X[x].thr \in DOMAIN T
      /\ \A b \in DOMAIN B : B[b].cond_true \in DOMAIN T
      /\ \A n \in Name : M[n] # 0 => M[n] \in DOMAIN T
      /\ \A t \in DOMAIN T : T[t].excobj # 0 => T[t].excobj \in DOMAIN X
  <2>1. /\ DOMAIN T = 1..Len(T) /\ DOMAIN X = 1..Len(X) /\ Len(T) \in Nat /\ Len(X) \in Nat
    BY DEF World
  <2> QED
    BY <2>1 DEF World, Refers
<1>2. ASSUME NEW t \in DOMAIN T, NEW u, Inside(T, t, u) PROVE Inside(U, t, u)
  BY <1>2 DEF Inside, Kept, KeptThreads, KeptExcs
<1>3. \A x \in DOMAIN X, t \in DOMAIN T : OfExc(Y, x, t) <=> OfExc(X, x, t)
  BY DEF OfExc, Kept, KeptThreads, KeptExcs
<1>4. ASSUME NEW t \in DOMAIN T PROVE Block(U, B, Y, t)
  <2>1. Block(T, B, X, t)
    BY DEF Fitted, Fits
  <2>2. \A b \in DOMAIN B : U[B[b].cond_true].up = T[B[b].cond_true].up
    BY <1>1 DEF Kept, KeptThreads, KeptExcs
  <2>3. \A x \in DOMAIN X : Y[x].thr = X[x].thr /\ DOMAIN Y = DOMAIN X
    BY DEF Kept, KeptThreads, KeptExcs
  <2>4. ASSUME NEW b \in DOMAIN B, OfBranch(B, b, t)
        PROVE  Inside(U, t, U[B[b].cond_true].up)
    BY <1>2, <2>1, <2>2, <2>4 DEF Block
  <2>5. ASSUME NEW x \in DOMAIN Y, OfExc(Y, x, t)
        PROVE  /\ Inside(U, t, Y[x].thr)
               /\ \A y \in DOMAIN Y : OfExc(Y, y, t) => y = x
               /\ \A b \in DOMAIN B : ~OfBranch(B, b, t)
    <3>1. x \in DOMAIN X /\ OfExc(X, x, t) /\ DOMAIN Y = DOMAIN X
      BY <1>3, <2>5 DEF Kept, KeptThreads, KeptExcs
    <3>2. /\ Inside(T, t, X[x].thr)
          /\ \A y \in DOMAIN X : OfExc(X, y, t) => y = x
          /\ \A b \in DOMAIN B : ~OfBranch(B, b, t)
      BY <2>1, <3>1 DEF Block
    <3>3. Inside(U, t, Y[x].thr)
      BY <1>2, <2>3, <3>1, <3>2
    <3> QED
      BY <1>3, <3>1, <3>2, <3>3
  <2> QED
    BY <2>4, <2>5 DEF Block
<1>5. ASSUME NEW t \in DOMAIN T, NEW p \in DOMAIN T[t].stack
      PROVE  CellHome(U, B, Y, t, T[t].stack[p])
  <2>1. CellHome(T, B, X, t, T[t].stack[p]) /\ CellRef(B, X, T[t].stack[p])
    BY DEF Fitted, Fits, World, CellRefs
  <2> QED
    BY <1>1, <2>1 DEF CellHome, CellRef, Kept, KeptThreads, KeptExcs
<1>6. \A n \in Name : M[n] # 0 => IsMethod(U, M[n])
  BY <1>1 DEF Fitted, Fits, IsMethod, Kept, KeptThreads, KeptExcs
<1>7. Fits(U, B, Y, M)
  BY <1>4, <1>5, <1>6 DEF Fits, Kept, KeptThreads, KeptExcs
<1>8. \A t \in DOMAIN U : U[t].excobj # 0 => OfExc(Y, U[t].excobj, t)
  BY <1>1, <1>3 DEF Fitted, Kept, KeptThreads, KeptExcs
<1>9. U[1].up = 0
  BY DEF Kept, KeptThreads, KeptExcs, World, Fitted
<1> QED
  BY <1>7, <1>8, <1>9 DEF Fitted

\* Handler is the function that it defines, at the current thread.
LEMMA HandlerIs ==
  ASSUME World(threads, branches, excs, methods), cur_thr \in DOMAIN threads
  PROVE  \E look : /\ \A t \in 0..Len(threads) :
                        look[t] = IF t = 0 THEN 0
                                  ELSE IF threads[t].excobj # 0 THEN threads[t].excobj
                                  ELSE look[threads[t].up]
                   /\ Handler = look[cur_thr]
<1> DEFINE S == 0..Len(threads)
           Halt == {t \in S : t = 0 \/ threads[t].excobj # 0}
           next == [t \in S |-> IF t = 0 THEN 0 ELSE threads[t].up]
           Is(g) == g = [t \in S |-> IF t = 0 THEN 0
                                     ELSE IF threads[t].excobj # 0 THEN threads[t].excobj
                                     ELSE g[threads[t].up]]
<1>1. /\ Len(threads) \in Nat /\ DOMAIN threads = 1..Len(threads) /\ Ups(threads)
      /\ \A t \in 1..Len(threads) : threads[t].up \in 0..Len(threads)
  BY DEF World, Refers
<1>2. /\ \A t \in S : t # 0 => t \in 1..Len(threads) /\ threads[t].up \in S /\ threads[t].up < t
      /\ 0 \in S /\ S \subseteq Nat
  BY <1>1 DEF Ups
<1>3. Ends(S, Halt, next)
  <2>1. ASSUME NEW Z \in SUBSET S, Z # {}
        PROVE  \E t \in Z : t \in Halt \/ next[t] \notin Z
    <3>1. PICK t \in Z : \A m \in Z : t <= m
      <4>1. Z \in SUBSET Nat
        BY <1>2
      <4> QED
        BY <2>1, <4>1, LeastNumber
    <3>2. t \in S
      OBVIOUS
    <3>3. CASE t # 0
      <4>1. next[t] = threads[t].up /\ threads[t].up < t /\ threads[t].up \in Nat /\ t \in Nat
        BY <1>2, <3>2, <3>3
      <4> QED
        BY <3>1, <4>1
    <3> QED
      BY <3>2, <3>3
  <2> QED
    BY <2>1 DEF Ends
<1>4. Closed(S, Halt, next)
  BY <1>2 DEF Closed
<1>5. PICK f : f = [t \in S |-> IF t \in Halt THEN t ELSE f[next[t]]]
  <2> HIDE DEF S, Halt, next
  <2> QED
    BY <1>3, <1>4, WalkExists
<1> DEFINE g == [t \in S |-> IF f[t] = 0 THEN 0 ELSE threads[f[t]].excobj]
<1>6. ASSUME NEW t \in S
      PROVE  g[t] = IF t = 0 THEN 0
                    ELSE IF threads[t].excobj # 0 THEN threads[t].excobj
                    ELSE g[threads[t].up]
  <2>1. CASE t \in Halt
    <3>1. f[t] = t
      BY <1>5, <2>1
    <3> QED
      BY <2>1, <3>1
  <2>2. CASE t \notin Halt
    <3>1. t # 0 /\ threads[t].excobj = 0 /\ next[t] = threads[t].up /\ threads[t].up \in S
      BY <1>2, <2>2
    <3>2. f[t] = f[threads[t].up]
      BY <1>5, <2>2, <3>1
    <3> HIDE DEF S, Halt, next
    <3> QED
      BY <3>1, <3>2
  <2> QED
    BY <2>1, <2>2
<1>7. Is(g)
  <2>1. g = [t \in S |-> g[t]]
    OBVIOUS
  <2> HIDE DEF g, S
  <2> QED
    BY <1>6, <2>1
<1>8. Handler = (CHOOSE h : Is(h))[cur_thr]
  BY DEF Handler
<1> DEFINE look == CHOOSE h : Is(h)
<1>9. Is(look)
  <2> HIDE DEF Is, g
  <2> QED
    BY <1>7
<1> HIDE DEF look
<1>10. \A t \in S : look[t] = IF t = 0 THEN 0
                              ELSE IF threads[t].excobj # 0 THEN threads[t].excobj
                              ELSE look[threads[t].up]
  <2> HIDE DEF S
  <2> QED
    BY <1>9
<1> QED
  BY <1>8, <1>10 DEF look

\* A is left outwards only to null, and what is noted in it is in es.
Outwards(T, A, es) ==
  \A a \in A : /\ T[a].up = 0 \/ T[a].up \in A
               /\ T[a].excobj = 0 \/ T[a].excobj \in es

LEMMA HandlerAmong ==
  ASSUME World(threads, branches, excs, methods),
         NEW A \in SUBSET DOMAIN threads, cur_thr \in A, NEW es, Outwards(threads, A, es)
  PROVE  Handler = 0 \/ Handler \in es
<1>1. PICK look : /\ \A t \in 0..Len(threads) :
                        look[t] = IF t = 0 THEN 0
                                  ELSE IF threads[t].excobj # 0 THEN threads[t].excobj
                                  ELSE look[threads[t].up]
                  /\ Handler = look[cur_thr]
  BY HandlerIs
<1>2. /\ Len(threads) \in Nat /\ DOMAIN threads = 1..Len(threads) /\ Ups(threads)
      /\ \A t \in 1..Len(threads) : threads[t].up \in 0..Len(threads)
  BY DEF World, Refers
<1> DEFINE Z == {a \in A : look[a] # 0 /\ look[a] \notin es}
<1>3. ASSUME Z # {} PROVE FALSE
  <2>1. PICK a \in Z : \A m \in Z : a <= m
    <3>1. Z \in SUBSET Nat
      BY <1>2
    <3> QED
      BY <1>3, <3>1, LeastNumber
  <2>2. a \in 1..Len(threads) /\ a # 0 /\ a \in 0..Len(threads)
    BY <1>2
  <2>3. threads[a].excobj = 0
    BY <1>1, <2>1, <2>2 DEF Outwards
  <2>4. look[a] = look[threads[a].up]
    BY <1>1, <2>2, <2>3
  <2>5. look[0] = 0
    BY <1>1, <1>2
  <2>6. threads[a].up \in A /\ threads[a].up \in Nat /\ threads[a].up < a
    <3>1. threads[a].up < a /\ threads[a].up \in Nat
      BY <1>2, <2>2 DEF Ups
    <3> QED
      BY <2>1, <2>4, <2>5, <3>1 DEF Outwards
  <2>7. threads[a].up \in Z
    BY <2>1, <2>4, <2>6
  <2> QED
    BY <2>1, <2>2, <2>6, <2>7
<1> QED
  BY <1>1, <1>3

LEMMA HandlerIsOne ==
  ASSUME World(threads, branches, excs, methods), cur_thr \in DOMAIN threads
  PROVE  Handler = 0 \/ Handler \in DOMAIN excs
<1>1. Outwards(threads, DOMAIN threads, DOMAIN excs)
  <2>1. /\ DOMAIN threads = 1..Len(threads) /\ Len(threads) \in Nat
        /\ DOMAIN excs = 1..Len(excs) /\ Len(excs) \in Nat
    BY DEF World
  <2> QED
    BY <2>1 DEF World, Refers, Outwards
<1> QED
  BY <1>1, HandlerAmong

-----------------------------------------------------------------------------
(* The C stack *)

Frame == [f : {"stack"}, t : Nat, home : Nat, i : Nat]
         \cup [f : {"branch"}, b : Nat, side : {"cond_true", "cond_false"}, save : Nat]
         \cup [f : {"exc"}, x : Nat]
         \cup [f : {"throw"}, save : Nat, aborts : BOOLEAN]
         \cup [f : {"call"}, save : Nat]

\* A frame refers to what there is, and a branch to a side that there is.
FrameIn(T, B, X, fr) ==
  /\ fr.f = "stack" => fr.t \in DOMAIN T /\ fr.home \in DOMAIN T
  /\ fr.f = "branch" => fr.b \in DOMAIN B /\ B[fr.b][fr.side] # 0 /\ fr.save \in DOMAIN T
  /\ fr.f = "exc" => fr.x \in DOMAIN X
  /\ fr.f \in {"throw", "call"} => fr.save \in DOMAIN T

Running ==
  /\ World(threads, branches, excs, methods) /\ cur_thr \in DOMAIN threads
  /\ frames \in Seq(Frame)
  /\ \A k \in 1..Len(frames) : FrameIn(threads, branches, excs, frames[k])
  /\ rv \in {"none", "val", "break"}
  /\ (rv = "none" /\ frames # <<>>) => Top.f = "stack"

\* The same frame, but for the place in a stack of cells.
Like(fr, gr) == /\ gr.f = fr.f
                /\ IF fr.f = "stack" THEN gr.t = fr.t /\ gr.home = fr.home ELSE gr = fr

LEMMA TopFacts ==
  ASSUME Running, frames # <<>>
  PROVE  /\ Len(frames) \in Nat /\ Len(frames) \in 1..Len(frames) /\ Top = frames[Len(frames)]
         /\ Top \in Frame /\ FrameIn(threads, branches, excs, Top)
         /\ Front(frames) \in Seq(Frame) /\ Len(Front(frames)) = Len(frames) - 1
         /\ \A k \in 1..(Len(frames)-1) : Front(frames)[k] = frames[k] /\ k \in 1..Len(frames)
         /\ \A k \in 1..Len(frames) : k = Len(frames) \/ k \in 1..(Len(frames)-1)
<1>1. frames \in Seq(Frame)
  BY DEF Running
<1>2. /\ Front(frames) \in Seq(Frame) /\ Len(Front(frames)) = Len(frames) - 1
      /\ \A k \in 1..(Len(frames)-1) : Front(frames)[k] = frames[k]
      /\ Top = frames[Len(frames)] /\ Top \in Frame /\ Len(frames) \in Nat \ {0}
  BY <1>1, Popped DEF Top
<1>3. /\ Len(frames) \in 1..Len(frames) /\ \A k \in 1..(Len(frames)-1) : k \in 1..Len(frames)
      /\ \A k \in 1..Len(frames) : k = Len(frames) \/ k \in 1..(Len(frames)-1)
  BY <1>2
<1> QED
  BY <1>2, <1>3 DEF Running

\* The thread whose cell is next.
Here == IF InMain THEN cur_thr ELSE Top.t

LEMMA HereFacts ==
  ASSUME Running, Ready
  PROVE  /\ Here \in DOMAIN threads /\ Stack = threads[Here].stack /\ At \in Nat
         /\ Stack \in Seq(CellRec)
         /\ ~InMain => /\ frames # <<>> /\ Top.f = "stack" /\ Top.home \in DOMAIN threads
                       /\ Top \in [f : {"stack"}, t : Nat, home : Nat, i : Nat]
<1>1. threads \in Seq(Thread) /\ cur_thr \in DOMAIN threads
  BY DEF Running, World
<1>2. ~InMain => /\ frames # <<>> /\ Top.f = "stack" /\ Top.home \in DOMAIN threads
                 /\ Top.t \in DOMAIN threads
                 /\ Top \in [f : {"stack"}, t : Nat, home : Nat, i : Nat]
  <2> SUFFICES ASSUME ~InMain
               PROVE  /\ frames # <<>> /\ Top.f = "stack" /\ Top.home \in DOMAIN threads
                      /\ Top.t \in DOMAIN threads
                      /\ Top \in [f : {"stack"}, t : Nat, home : Nat, i : Nat]
    OBVIOUS
  <2>1. frames # <<>>
    BY DEF InMain
  <2>2. Top.f = "stack"
    BY <2>1 DEF Running, Ready
  <2>3. Top \in Frame /\ FrameIn(threads, branches, excs, Top)
    BY <2>1, TopFacts
  <2> QED
    BY <2>1, <2>2, <2>3 DEF Frame, FrameIn
<1>3. Here \in DOMAIN threads /\ Stack = threads[Here].stack
  BY <1>1, <1>2 DEF Here, Stack
<1>4. At \in Nat
  <2>1. threads[cur_thr] \in Thread
    BY <1>1
  <2>2. threads[cur_thr].ip \in Nat
    BY <2>1 DEF Thread
  <2>3. ~InMain => Top.i \in Nat
    BY <1>2
  <2> QED
    BY <2>2, <2>3 DEF At
<1>5. Stack \in Seq(CellRec)
  <2>1. threads[Here] \in Thread
    BY <1>1, <1>3
  <2> QED
    BY <1>3, <2>1 DEF Thread
<1> QED
  BY <1>2, <1>3, <1>4, <1>5

\* The cell that is next is one of that thread.
LEMMA NowFacts ==
  ASSUME Running, Ready, ~AtEnd
  PROVE  /\ Here \in DOMAIN threads /\ CellRef(branches, excs, Now)
         /\ \E p \in DOMAIN threads[Here].stack : Now = threads[Here].stack[p]
<1>1. /\ Here \in DOMAIN threads /\ Stack = threads[Here].stack /\ At \in Nat
      /\ Stack \in Seq(CellRec)
  BY HereFacts
<1>2. At + 1 \in DOMAIN Stack
  BY <1>1 DEF AtEnd
<1>3. Now = threads[Here].stack[At+1] /\ At + 1 \in DOMAIN threads[Here].stack
  BY <1>1, <1>2 DEF Now
<1> QED
  BY <1>1, <1>3 DEF Running, World, CellRefs

\* Counting a cell keeps the frames as they are.
LEMMA BaseFacts ==
  ASSUME Running, Ready
  PROVE  /\ Base \in Seq(Frame) /\ Len(Base) = Len(frames) /\ Len(frames) \in Nat
         /\ \A k \in 1..Len(frames) : Like(frames[k], Base[k])
         /\ (frames = <<>>) <=> (Len(frames) = 0)
<1>1. frames \in Seq(Frame) /\ At \in Nat
  BY HereFacts DEF Running
<1>2. CASE InMain
  BY <1>2 DEF Base, InMain
<1>3. CASE ~InMain
  <2> DEFINE n == Len(frames)
             fr == [Top EXCEPT !.i = At + 1]
  <2>1. /\ frames # <<>> /\ Top.f = "stack"
        /\ Top \in [f : {"stack"}, t : Nat, home : Nat, i : Nat]
    BY <1>3, HereFacts
  <2>2. n \in 1..n /\ Top = frames[n] /\ n \in Nat
    BY <2>1, TopFacts
  <2>3. /\ fr \in [f : {"stack"}, t : Nat, home : Nat, i : Nat]
        /\ fr.f = "stack" /\ fr.t = Top.t /\ fr.home = Top.home
    BY <1>1, <2>1
  <2>4. fr \in Frame /\ Like(Top, fr)
    BY <2>1, <2>3 DEF Frame, Like
  <2>5. Base = [frames EXCEPT ![n] = fr]
    BY <1>3, <2>2 DEF Base
  <2> HIDE DEF fr, n
  <2>6. /\ Base \in Seq(Frame) /\ Len(Base) = Len(frames)
        /\ \A k \in 1..Len(frames) : Base[k] = IF k = n THEN fr ELSE frames[k]
    BY <1>1, <2>2, <2>4, <2>5 DEF n
  <2>7. \A k \in 1..Len(frames) : Like(frames[k], frames[k])
    BY DEF Like
  <2> QED
    BY <1>1, <2>1, <2>2, <2>4, <2>6, <2>7 DEF n
<1> QED
  BY <1>2, <1>3

LEMMA IpKept ==
  ASSUME NEW T \in Seq(Thread), NEW h \in DOMAIN T, NEW v \in Nat,
         NEW U, U = [T EXCEPT ![h].ip = v]
  PROVE  KeptThreads(T, U)
<1> DEFINE r == [T[h] EXCEPT !.ip = v]
<1>1. T[h] \in Thread
  OBVIOUS
<1>2. /\ r \in Thread /\ r.up = T[h].up /\ r.branch = T[h].branch /\ r.excobj = T[h].excobj
      /\ r.callsym = T[h].callsym /\ r.stack = T[h].stack
  BY <1>1 DEF Thread
<1>3. U = [T EXCEPT ![h] = r]
  OBVIOUS
<1> HIDE DEF r
<1>4. U \in Seq(Thread) /\ DOMAIN U = DOMAIN T /\ \A t \in DOMAIN T : U[t] = IF t = h THEN r ELSE T[t]
  BY <1>2, <1>3
<1> QED
  BY <1>2, <1>4 DEF KeptThreads

LEMMA RetrySet ==
  ASSUME NEW X \in Seq(Exc), NEW x \in DOMAIN X, NEW Y, Y = [X EXCEPT ![x].retry = TRUE]
  PROVE  KeptExcs(X, Y) /\ Y[x].retry /\ \A y \in DOMAIN X : y # x => Y[y] = X[y]
<1> DEFINE r == [X[x] EXCEPT !.retry = TRUE]
<1>1. X[x] \in Exc
  OBVIOUS
<1>2. /\ r \in Exc /\ r.thr = X[x].thr /\ r.body_thr = X[x].body_thr
      /\ r.rescue_thr = X[x].rescue_thr /\ r.retry
  BY <1>1 DEF Exc
<1>3. Y = [X EXCEPT ![x] = r]
  OBVIOUS
<1> HIDE DEF r
<1>4. Y \in Seq(Exc) /\ DOMAIN Y = DOMAIN X /\ \A y \in DOMAIN X : Y[y] = IF y = x THEN r ELSE X[y]
  <2>1. r \in Exc
    BY <1>2
  <2> QED
    BY ONLY <1>3, <2>1, X \in Seq(Exc), x \in DOMAIN X
<1> QED
  BY <1>2, <1>4 DEF KeptExcs

LEMMA RetryCleared ==
  ASSUME NEW X \in Seq(Exc), NEW x \in DOMAIN X, NEW Y, Y = [X EXCEPT ![x].retry = FALSE]
  PROVE  KeptExcs(X, Y) /\ ~Y[x].retry /\ \A y \in DOMAIN X : y # x => Y[y] = X[y]
<1> DEFINE r == [X[x] EXCEPT !.retry = FALSE]
<1>1. X[x] \in Exc
  OBVIOUS
<1>2. /\ r \in Exc /\ r.thr = X[x].thr /\ r.body_thr = X[x].body_thr
      /\ r.rescue_thr = X[x].rescue_thr /\ ~r.retry
  BY <1>1 DEF Exc
<1>3. Y = [X EXCEPT ![x] = r]
  OBVIOUS
<1> HIDE DEF r
<1>4. Y \in Seq(Exc) /\ DOMAIN Y = DOMAIN X /\ \A y \in DOMAIN X : Y[y] = IF y = x THEN r ELSE X[y]
  <2>1. r \in Exc
    BY <1>2
  <2> QED
    BY ONLY <1>3, <2>1, X \in Seq(Exc), x \in DOMAIN X
<1> QED
  BY <1>2, <1>4 DEF KeptExcs

\* eval_stack's count is of the thread that is its home.
LEMMA FetchedKept ==
  ASSUME Running, Ready
  PROVE  KeptThreads(threads, Fetched) /\ KeptExcs(excs, excs)
<1>1. threads \in Seq(Thread) /\ excs \in Seq(Exc)
  BY DEF Running, World
<1>2. CASE InMain
  BY <1>1, <1>2 DEF Fetched, KeptThreads, KeptExcs
<1>3. CASE ~InMain
  <2>1. Top.home \in DOMAIN threads /\ At + 1 \in Nat
    BY <1>3, HereFacts
  <2> QED
    BY <1>1, <1>3, <2>1, IpKept DEF Fetched, KeptExcs
<1> QED
  BY <1>2, <1>3

LEMMA KeptTwice ==
  ASSUME NEW T, NEW U, NEW V, KeptThreads(T, U), KeptThreads(U, V)
  PROVE  KeptThreads(T, V)
BY DEF KeptThreads

LEMMA BodyKept ==
  ASSUME World(threads, branches, excs, methods), NEW T, KeptThreads(threads, T),
         NEW x \in DOMAIN excs, StartBody(x, T)
  PROVE  /\ Kept(threads, threads', excs, excs') /\ UNCHANGED <<branches, methods>>
         /\ cur_thr' = excs[x].body_thr /\ cur_thr' \in DOMAIN threads
         /\ excs' = [excs EXCEPT ![x].retry = FALSE]
<1>1. /\ cur_thr' = excs[x].body_thr /\ threads' = [T EXCEPT ![excs[x].body_thr].ip = 0]
      /\ excs' = [excs EXCEPT ![x].retry = FALSE] /\ UNCHANGED <<branches, methods>>
  BY DEF StartBody
<1>2. excs \in Seq(Exc) /\ threads \in Seq(Thread)
  BY DEF World
<1>3. excs[x].body_thr \in DOMAIN threads
  BY <1>2 DEF World, Refers
<1>4. T \in Seq(Thread) /\ DOMAIN T = DOMAIN threads
  BY DEF KeptThreads
<1>5. KeptThreads(T, threads')
  BY <1>1, <1>3, <1>4, IpKept
<1>6. KeptExcs(excs, excs')
  BY <1>1, <1>2, RetryCleared
<1> QED
  BY <1>1, <1>3, <1>5, <1>6, KeptTwice DEF Kept

-----------------------------------------------------------------------------
(* What the steps of the evaluator have in common *)

\* A cell is called as t from the frame fr.
Enters(fr, t) ==
  \/ Eval("branch") /\ \E s \in {"cond_true", "cond_false"} :
       t = branches[Now.ref][s] /\ t # 0 /\ fr = BranchFrame(Now.ref, s)
  \/ Eval("exc") /\ t = excs[Now.ref].body_thr /\ fr = ExcFrame(Now.ref)
  \/ Eval("call") /\ t = methods[Now.ref] /\ t # 0 /\ fr = CallFrame
  \/ Ready /\ \E x \in {Handler, threads[cur_thr].excobj}, a \in BOOLEAN :
       HasRescue(x) /\ t = excs[x].rescue_thr /\ fr = ThrowFrame(a)

Deepens ==
  \E fr \in Frame, t \in DOMAIN threads :
    /\ Ready /\ Enters(fr, t) /\ FrameIn(threads, branches, excs, fr)
    /\ frames' = Base \o <<fr, StackFrame(t, t)>> /\ cur_thr' = t /\ rv' = rv
    /\ excs' = IF fr.f = "exc" THEN [excs EXCEPT ![fr.x].retry = FALSE] ELSE excs

\* A cell gives a value.  A throw that is not rescued goes on in the block
\* of the begin; a retry is noted.
Gives ==
  /\ Ready /\ frames' = Base /\ rv' \in {"val", "break"}
  /\ \/ cur_thr' = cur_thr
     \/ Handler # 0 /\ ~HasRescue(Handler) /\ cur_thr' = excs[Handler].thr
  /\ \/ excs' = excs
     \/ Handler # 0 /\ excs' = [excs EXCEPT ![Handler].retry = TRUE]

\* The frame on top is left.
Leaves ==
  /\ frames # <<>> /\ frames' = Front(frames) /\ rv' \in {"val", "break"} /\ excs' = excs
  /\ \/ Top.f = "stack" /\ cur_thr' = cur_thr
     \/ Top.f = "exc" /\ ~excs[Top.x].retry /\ cur_thr' = excs[Top.x].thr
     \/ Top.f \in {"branch", "throw", "call"} /\ cur_thr' = Top.save

\* A loop or a body runs again.
Repeats ==
  /\ frames # <<>> /\ rv # "none" /\ rv' = "none"
  /\ \E t \in DOMAIN threads :
       /\ frames' = Append(frames, StackFrame(t, cur_thr'))
       /\ \/ Top.f = "branch" /\ t = branches[Top.b][Top.side] /\ cur_thr' = cur_thr /\ excs' = excs
          \/ /\ Top.f = "exc" /\ t = excs[Top.x].body_thr /\ cur_thr' = t
             /\ excs' = [excs EXCEPT ![Top.x].retry = FALSE]

\* The next cell is taken, in a stack or in main(), there perhaps outside.
GoesOn ==
  /\ frames' = frames /\ excs' = excs /\ rv' = "none"
  /\ \/ frames # <<>> /\ Top.f = "stack" /\ cur_thr' = cur_thr
     \/ frames = <<>> /\ cur_thr' = cur_thr
     \/ frames = <<>> /\ rv = "none" /\ cur_thr' = threads[cur_thr].up /\ cur_thr' # 0

Shapes == Deepens \/ Gives \/ Leaves \/ Repeats \/ GoesOn

Steps == /\ Kept(threads, threads', excs, excs') /\ UNCHANGED <<branches, methods>>
         /\ cur_thr' \in DOMAIN threads /\ Shapes

\* The objects of the heap, as the steps use them.
LEMMA RunningFacts ==
  ASSUME Running
  PROVE  /\ World(threads, branches, excs, methods) /\ cur_thr \in DOMAIN threads
         /\ threads \in Seq(Thread) /\ branches \in Seq(Branch) /\ excs \in Seq(Exc)
         /\ DOMAIN threads \subseteq Nat /\ DOMAIN branches \subseteq Nat /\ DOMAIN excs \subseteq Nat
         /\ 0 \notin DOMAIN threads /\ 0 \notin DOMAIN excs
         /\ \A b \in DOMAIN branches, s \in {"cond_true", "cond_false"} :
              branches[b][s] # 0 => branches[b][s] \in DOMAIN threads
         /\ \A x \in DOMAIN excs : /\ excs[x].thr \in DOMAIN threads
                                   /\ excs[x].body_thr \in DOMAIN threads
                                   /\ excs[x].rescue_thr # 0 => excs[x].rescue_thr \in DOMAIN threads
         /\ \A n \in Name : methods[n] # 0 => methods[n] \in DOMAIN threads
         /\ \A t \in DOMAIN threads : /\ threads[t].excobj # 0 => threads[t].excobj \in DOMAIN excs
                                      /\ threads[t].up # 0 => threads[t].up \in DOMAIN threads
         /\ Handler # 0 => Handler \in DOMAIN excs
<1>1. /\ World(threads, branches, excs, methods) /\ cur_thr \in DOMAIN threads
      /\ threads \in Seq(Thread) /\ branches \in Seq(Branch) /\ excs \in Seq(Exc)
      /\ Refers(threads, branches, excs, methods)
  BY DEF Running, World
<1>2. /\ DOMAIN threads = 1..Len(threads) /\ Len(threads) \in Nat
      /\ DOMAIN branches = 1..Len(branches) /\ Len(branches) \in Nat
      /\ DOMAIN excs = 1..Len(excs) /\ Len(excs) \in Nat
  BY <1>1
<1>3. /\ \A t \in 0..Len(threads) : t # 0 => t \in DOMAIN threads
      /\ \A x \in 0..Len(excs) : x # 0 => x \in DOMAIN excs
      /\ DOMAIN threads \subseteq Nat /\ DOMAIN branches \subseteq Nat /\ DOMAIN excs \subseteq Nat
      /\ 0 \notin DOMAIN threads /\ 0 \notin DOMAIN excs
  BY <1>2
<1>4. \A b \in DOMAIN branches, s \in {"cond_true", "cond_false"} :
        branches[b][s] # 0 => branches[b][s] \in DOMAIN threads
  <2> SUFFICES ASSUME NEW b \in DOMAIN branches, NEW s \in {"cond_true", "cond_false"}, branches[b][s] # 0
               PROVE  branches[b][s] \in DOMAIN threads
    OBVIOUS
  <2>1. branches[b].cond_true \in DOMAIN threads /\ branches[b].cond_false \in 0..Len(threads)
    BY <1>1, <1>2 DEF Refers
  <2>2. CASE s = "cond_true"
    BY <2>1, <2>2
  <2>3. CASE s = "cond_false"
    BY <1>3, <2>1, <2>3
  <2> QED
    BY <2>2, <2>3
<1>5. \A x \in DOMAIN excs : /\ excs[x].thr \in DOMAIN threads
                             /\ excs[x].body_thr \in DOMAIN threads
                             /\ excs[x].rescue_thr # 0 => excs[x].rescue_thr \in DOMAIN threads
  BY <1>1, <1>2, <1>3 DEF Refers
<1>6. /\ \A n \in Name : methods[n] # 0 => methods[n] \in DOMAIN threads
      /\ \A t \in DOMAIN threads : /\ threads[t].excobj # 0 => threads[t].excobj \in DOMAIN excs
                                   /\ threads[t].up # 0 => threads[t].up \in DOMAIN threads
  BY <1>1, <1>3 DEF Refers
<1>7. Handler # 0 => Handler \in DOMAIN excs
  BY <1>1, HandlerIsOne
<1> QED
  BY <1>1, <1>3, <1>4, <1>5, <1>6, <1>7

LEMMA CallsDeepen ==
  ASSUME Running, Ready, NEW fr \in Frame, NEW t \in DOMAIN threads, Enters(fr, t),
         FrameIn(threads, branches, excs, fr),
         Calls(<<fr, StackFrame(t, t)>>), phase' = "eval", cur_thr' = t,
         Kept(threads, threads', excs, excs'), UNCHANGED <<branches, methods>>,
         excs' = IF fr.f = "exc" THEN [excs EXCEPT ![fr.x].retry = FALSE] ELSE excs
  PROVE  Steps
<1>1. frames' = Base \o <<fr, StackFrame(t, t)>> /\ rv' = rv
  BY DEF Calls
<1>2. Deepens
  BY <1>1 DEF Deepens
<1> QED
  BY <1>2 DEF Steps, Shapes

\* What takes no frame.
LEMMA GivesStep ==
  ASSUME Running, Ready, NEW v \in {"val", "break"}, Returns(v), threads' = Fetched,
         UNCHANGED <<branches, excs, cur_thr, methods>>
  PROVE  Steps
<1>1. KeptThreads(threads, threads') /\ KeptExcs(excs, excs')
  BY FetchedKept
<1>2. Gives
  BY DEF Gives, Returns
<1> QED
  BY <1>1, <1>2 DEF Steps, Shapes, Kept, Running

LEMMA BranchStep ==
  ASSUME Running, eval_branch, phase' = "eval"
  PROVE  Steps
<1> DEFINE b == Now.ref
<1>1. /\ Eval("branch") /\ Ready /\ threads' = Fetched /\ UNCHANGED <<branches, excs, methods>>
      /\ \E s \in {"cond_true", "cond_false"} :
           LET t == branches[b][s]
           IN  \/ t = 0 /\ Returns("val") /\ UNCHANGED cur_thr
               \/ t # 0 /\ Calls(<<BranchFrame(b, s), StackFrame(t, t)>>) /\ cur_thr' = t
  BY DEF eval_branch, Eval
<1>2. b \in DOMAIN branches
  BY <1>1, NowFacts DEF Eval, CellRef
<1>3. PICK s \in {"cond_true", "cond_false"} :
           LET t == branches[b][s]
           IN  \/ t = 0 /\ Returns("val") /\ UNCHANGED cur_thr
               \/ t # 0 /\ Calls(<<BranchFrame(b, s), StackFrame(t, t)>>) /\ cur_thr' = t
  BY <1>1
<1> DEFINE t == branches[b][s]
<1>4. CASE t = 0 /\ Returns("val") /\ UNCHANGED cur_thr
  BY <1>1, <1>4, GivesStep
<1>5. CASE t # 0 /\ Calls(<<BranchFrame(b, s), StackFrame(t, t)>>) /\ cur_thr' = t
  <2> DEFINE fr == BranchFrame(b, s)
  <2>1. t \in DOMAIN threads /\ b \in Nat /\ cur_thr \in Nat /\ cur_thr \in DOMAIN threads
    BY <1>2, <1>5, RunningFacts
  <2>2. fr \in Frame /\ fr.f = "branch" /\ fr.b = b /\ fr.side = s /\ fr.save = cur_thr
    BY <2>1 DEF Frame, BranchFrame
  <2>3. Enters(fr, t)
    BY <1>1, <1>5 DEF Enters
  <2>4. Calls(<<fr, StackFrame(t, t)>>) /\ cur_thr' = t /\ t # 0
    BY <1>5
  <2>5. Kept(threads, threads', excs, excs')
    BY <1>1, FetchedKept DEF Kept
  <2>6. FrameIn(threads, branches, excs, fr)
    BY <1>2, <2>1, <2>2, <2>4 DEF FrameIn
  <2> HIDE DEF fr, t
  <2> QED
    BY <1>1, <2>1, <2>2, <2>3, <2>4, <2>5, <2>6, CallsDeepen
<1> QED
  BY <1>3, <1>4, <1>5

LEMMA ExceptionStep ==
  ASSUME Running, eval_exception, phase' = "eval"
  PROVE  Steps
<1> DEFINE x == Now.ref
           t == excs[x].body_thr
           fr == ExcFrame(x)
<1>1. /\ Eval("exc") /\ Ready /\ StartBody(x, Fetched) /\ Calls(<<fr, StackFrame(t, t)>>)
  BY DEF eval_exception, Eval
<1>2. x \in DOMAIN excs
  BY <1>1, NowFacts DEF Eval, CellRef
<1>3. x \in Nat /\ t \in DOMAIN threads
  BY <1>2, RunningFacts
<1>4. fr \in Frame /\ fr.f = "exc" /\ fr.x = x
  BY <1>3 DEF Frame, ExcFrame
<1>5. Enters(fr, t)
  BY <1>1 DEF Enters
<1>6. /\ Kept(threads, threads', excs, excs') /\ UNCHANGED <<branches, methods>>
      /\ cur_thr' = t /\ excs' = [excs EXCEPT ![x].retry = FALSE]
  BY <1>1, <1>2, FetchedKept, BodyKept DEF Running
<1>7. FrameIn(threads, branches, excs, fr)
  BY <1>2, <1>4 DEF FrameIn
<1>8. excs' = IF fr.f = "exc" THEN [excs EXCEPT ![fr.x].retry = FALSE] ELSE excs
  BY <1>4, <1>6
<1> HIDE DEF fr, t
<1> QED
  BY <1>1, <1>3, <1>4, <1>5, <1>6, <1>7, <1>8, CallsDeepen

\* The rescue of an exception object.
LEMMA RescueRuns ==
  ASSUME Running, Ready, NEW x \in {Handler, threads[cur_thr].excobj}, HasRescue(x),
         NEW a \in BOOLEAN, RunRescue(x, a), phase' = "eval"
  PROVE  Steps
<1> DEFINE t == excs[x].rescue_thr
           fr == ThrowFrame(a)
<1>1. /\ Calls(<<fr, StackFrame(t, t)>>) /\ threads' = Fetched /\ cur_thr' = t
      /\ UNCHANGED <<branches, excs, methods>>
  BY DEF RunRescue
<1>2. x \in DOMAIN excs /\ cur_thr \in Nat /\ cur_thr \in DOMAIN threads
  BY RunningFacts DEF HasRescue
<1>3. t \in DOMAIN threads
  BY <1>2, RunningFacts DEF HasRescue
<1>4. fr \in Frame /\ fr.f = "throw" /\ fr.save = cur_thr
  BY <1>2 DEF Frame, ThrowFrame
<1>5. Enters(fr, t)
  BY DEF Enters
<1>6. FrameIn(threads, branches, excs, fr)
  BY <1>2, <1>4 DEF FrameIn
<1>7. Kept(threads, threads', excs, excs')
  BY <1>1, FetchedKept DEF Kept
<1>8. excs' = IF fr.f = "exc" THEN [excs EXCEPT ![fr.x].retry = FALSE] ELSE excs
  BY <1>1, <1>4
<1> HIDE DEF fr, t
<1> QED
  BY <1>1, <1>3, <1>4, <1>5, <1>6, <1>7, <1>8, CallsDeepen

LEMMA ThreadStep ==
  ASSUME Running, eval_thread, phase' = "eval"
  PROVE  Steps
<1> DEFINE t == methods[Now.ref]
           fr == CallFrame
<1>1. Eval("call") /\ Ready
  BY DEF eval_thread, Eval
<1>2. Now.ref \in Name
  BY <1>1, NowFacts DEF Eval, CellRef
<1>3. CASE Fails
  <2>1. HasRescue(threads[cur_thr].excobj) /\ RunRescue(threads[cur_thr].excobj, TRUE)
    BY <1>3 DEF Fails, Aborts
  <2>2. TRUE \in BOOLEAN
    OBVIOUS
  <2> QED
    BY <1>1, <2>1, <2>2, RescueRuns
<1>4. CASE /\ t # 0 /\ Calls(<<fr, StackFrame(t, t)>>) /\ cur_thr' = t /\ threads' = Fetched
           /\ UNCHANGED <<branches, excs, methods>>
  <2>1. t \in DOMAIN threads /\ cur_thr \in Nat /\ cur_thr \in DOMAIN threads
    BY <1>2, <1>4, RunningFacts
  <2>2. fr \in Frame /\ fr.f = "call" /\ fr.save = cur_thr
    BY <2>1 DEF Frame, CallFrame
  <2>3. Enters(fr, t)
    BY <1>1, <1>4 DEF Enters
  <2>4. FrameIn(threads, branches, excs, fr)
    BY <2>1, <2>2 DEF FrameIn
  <2>5. Kept(threads, threads', excs, excs')
    BY <1>1, <1>4, FetchedKept DEF Kept
  <2>6. excs' = IF fr.f = "exc" THEN [excs EXCEPT ![fr.x].retry = FALSE] ELSE excs
    BY <1>4, <2>2
  <2> HIDE DEF fr, t
  <2> QED
    BY <1>1, <1>4, <2>1, <2>2, <2>3, <2>4, <2>5, <2>6, CallsDeepen
<1> QED
  BY <1>3, <1>4 DEF eval_thread

LEMMA ThrowStep ==
  ASSUME Running, throw_exc, phase' = "eval"
  PROVE  Steps
<1>1. Ready
  BY DEF throw_exc, Eval
<1>2. CASE HasRescue(Handler) /\ RunRescue(Handler, FALSE)
  <2>1. FALSE \in BOOLEAN
    OBVIOUS
  <2> QED
    BY <1>1, <1>2, <2>1, RescueRuns
<1>3. CASE /\ Handler # 0 /\ ~HasRescue(Handler) /\ Returns("val")
           /\ cur_thr' = excs[Handler].thr /\ threads' = Fetched
           /\ UNCHANGED <<branches, excs, methods>>
  <2>1. Kept(threads, threads', excs, excs')
    BY <1>1, <1>3, FetchedKept DEF Kept
  <2>2. cur_thr' \in DOMAIN threads
    BY <1>3, RunningFacts
  <2>3. Gives
    BY <1>1, <1>3 DEF Gives, Returns
  <2> QED
    BY <1>3, <2>1, <2>2, <2>3 DEF Steps, Shapes
<1> QED
  BY <1>2, <1>3 DEF throw_exc, Aborts

LEMMA RetryStep ==
  ASSUME Running, exception_retry, phase' = "eval"
  PROVE  Steps
<1>1. /\ Ready /\ Handler # 0 /\ Returns("break") /\ excs' = [excs EXCEPT ![Handler].retry = TRUE]
      /\ threads' = Fetched /\ UNCHANGED <<branches, cur_thr, methods>>
  BY DEF exception_retry, Aborts, Eval
<1>2. Handler \in DOMAIN excs /\ excs \in Seq(Exc) /\ cur_thr \in DOMAIN threads
  BY <1>1, RunningFacts
<1>3. KeptExcs(excs, excs')
  BY <1>1, <1>2, RetrySet
<1>4. KeptThreads(threads, threads')
  BY <1>1, FetchedKept
<1>5. Gives
  BY <1>1 DEF Gives, Returns
<1> QED
  BY <1>1, <1>2, <1>3, <1>4, <1>5 DEF Steps, Shapes, Kept

LEMMA SameHeap ==
  ASSUME Running, UNCHANGED <<threads, excs>>
  PROVE  Kept(threads, threads', excs, excs')
BY DEF Running, World, Kept, KeptThreads, KeptExcs

LEMMA CountStep ==
  ASSUME Running, eval_stmt \/ gc_s_run
  PROVE  Steps
<1>1. /\ Ready /\ "val" \in {"val", "break"} /\ Returns("val") /\ threads' = Fetched
      /\ UNCHANGED <<branches, excs, cur_thr, methods>>
  BY DEF eval_stmt, gc_s_run, Eval
<1> QED
  BY <1>1, GivesStep

LEMMA BreakStep ==
  ASSUME Running, eval_break
  PROVE  Steps
<1>1. /\ Ready /\ "break" \in {"val", "break"} /\ Returns("break") /\ threads' = Fetched
      /\ UNCHANGED <<branches, excs, cur_thr, methods>>
  BY DEF eval_break, Eval
<1> QED
  BY <1>1, GivesStep

\* Returns of the frame on top.
LEMMA LeavesStep ==
  ASSUME Running, frames # <<>>, frames' = Front(frames), rv' \in {"val", "break"},
         UNCHANGED <<threads, branches, excs, methods>>,
         \/ Top.f = "stack" /\ cur_thr' = cur_thr
         \/ Top.f = "exc" /\ ~excs[Top.x].retry /\ cur_thr' = excs[Top.x].thr
         \/ Top.f \in {"branch", "throw", "call"} /\ cur_thr' = Top.save
  PROVE  Steps
<1>1. Leaves
  BY DEF Leaves
<1>2. cur_thr' \in DOMAIN threads
  <2>1. FrameIn(threads, branches, excs, Top)
    BY TopFacts
  <2> QED
    BY <2>1, RunningFacts DEF FrameIn
<1> QED
  BY <1>1, <1>2, SameHeap DEF Steps, Shapes

LEMMA ReturnStep ==
  ASSUME Running, StackDone \/ BranchReturn \/ BodyReturn \/ RescueReturn \/ CallReturn,
         phase' = "eval"
  PROVE  Steps
<1>1. rv \in {"none", "val", "break"}
  BY DEF Running
<1>2. CASE StackDone
  <2>1. frames # <<>> /\ rv = "none" /\ Top.f = "stack"
    BY <1>2 DEF StackDone, Ready, InMain, Running
  <2> QED
    BY <1>2, <2>1, LeavesStep DEF StackDone, Pops, heap
<1>3. CASE BranchReturn
  <2>1. BranchValue(Top.b, rv) \in {"val", "break"}
    BY <1>1, <1>3 DEF BranchReturn, Returning, BranchValue
  <2> QED
    BY <1>3, <2>1, LeavesStep DEF BranchReturn, Returning, Pops, Resume
<1>4. CASE BodyReturn
  BY <1>1, <1>4, LeavesStep DEF BodyReturn, Returning, Pops, Resume
<1>5. CASE RescueReturn
  BY <1>5, LeavesStep DEF RescueReturn, Returning, Pops, Resume
<1>6. CASE CallReturn
  BY <1>1, <1>6, LeavesStep DEF CallReturn, Returning, Pops, Resume
<1> QED
  BY <1>2, <1>3, <1>4, <1>5, <1>6

LEMMA LoopStep ==
  ASSUME Running, LoopAgain
  PROVE  Steps
<1> DEFINE t == branches[Top.b][Top.side]
<1>1. /\ frames # <<>> /\ Top.f = "branch" /\ rv # "none" /\ rv' = "none"
      /\ frames' = Append(frames, StackFrame(t, cur_thr))
      /\ UNCHANGED <<threads, branches, excs, cur_thr, methods>>
  BY DEF LoopAgain, Returning, heap
<1>2. t \in DOMAIN threads
  <2>1. FrameIn(threads, branches, excs, Top) /\ Top \in Frame
    BY <1>1, TopFacts
  <2>2. Top.b \in DOMAIN branches /\ t # 0 /\ Top.side \in {"cond_true", "cond_false"}
    BY <1>1, <2>1 DEF FrameIn, Frame
  <2> QED
    BY <2>2, RunningFacts
<1>3. Repeats
  <2> HIDE DEF t
  <2>1. frames' = Append(frames, StackFrame(t, cur_thr')) /\ cur_thr' = cur_thr
    BY <1>1
  <2> QED
    BY <1>1, <1>2, <2>1 DEF Repeats, t
<1> QED
  BY <1>1, <1>3, SameHeap DEF Steps, Shapes, Running

LEMMA AgainStep ==
  ASSUME Running, BodyAgain
  PROVE  Steps
<1> DEFINE x == Top.x
<1>1. /\ frames # <<>> /\ Top.f = "exc" /\ rv # "none" /\ rv' = "none"
      /\ StartBody(x, threads) /\ frames' = Append(frames, StackFrame(cur_thr', cur_thr'))
  BY DEF BodyAgain, Returning
<1>2. x \in DOMAIN excs
  BY <1>1, TopFacts DEF FrameIn
<1>3. KeptThreads(threads, threads)
  BY DEF Running, World, KeptThreads
<1>4. /\ Kept(threads, threads', excs, excs') /\ UNCHANGED <<branches, methods>>
      /\ cur_thr' = excs[x].body_thr /\ cur_thr' \in DOMAIN threads
      /\ excs' = [excs EXCEPT ![x].retry = FALSE]
  BY <1>1, <1>2, <1>3, BodyKept DEF Running
<1>5. Repeats
  BY <1>1, <1>4 DEF Repeats
<1> QED
  BY <1>4, <1>5 DEF Steps, Shapes

LEMMA MainStep ==
  ASSUME Running, StackReturn \/ MainNext \/ MainEnd, phase' = "eval"
  PROVE  Steps
<1>1. cur_thr \in DOMAIN threads /\ threads \in Seq(Thread) /\ rv \in {"none", "val", "break"}
  BY DEF Running, World
<1>2. CASE MainNext
  <2> DEFINE v == threads[cur_thr].ip + 1
  <2>1. threads[cur_thr] \in Thread
    BY <1>1
  <2>2. v \in Nat
    BY <2>1 DEF Thread
  <2>3. threads' = [threads EXCEPT ![cur_thr].ip = v]
    BY <1>2 DEF MainNext
  <2> HIDE DEF v
  <2>4. KeptThreads(threads, threads')
    BY <1>1, <2>2, <2>3, IpKept
  <2>5. KeptExcs(excs, excs')
    BY <1>2 DEF MainNext, Running, World, KeptExcs
  <2>6. GoesOn
    BY <1>2 DEF MainNext, InMain, GoesOn
  <2> QED
    BY <1>1, <1>2, <2>4, <2>5, <2>6 DEF MainNext, Steps, Shapes, Kept
<1>3. CASE MainEnd
  <2>1. /\ frames = <<>> /\ rv = "none" /\ cur_thr' = threads[cur_thr].up /\ cur_thr' # 0
        /\ UNCHANGED <<threads, branches, excs, methods, frames, rv>>
    BY <1>3 DEF MainEnd, Ready, InMain
  <2>2. cur_thr' \in DOMAIN threads
    BY <1>1, <2>1, RunningFacts
  <2>3. GoesOn
    BY <2>1 DEF GoesOn
  <2> QED
    BY <2>1, <2>2, <2>3, SameHeap DEF Steps, Shapes
<1>4. CASE StackReturn
  <2>1. /\ frames # <<>> /\ Top.f = "stack" /\ UNCHANGED <<threads, branches, excs, cur_thr, methods>>
        /\ \/ rv' = "break" /\ frames' = Front(frames)
           \/ rv' = "none" /\ frames' = frames
    BY <1>4 DEF StackReturn, Returning, Pops, heap
  <2>2. CASE rv' = "break" /\ frames' = Front(frames)
    BY <2>1, <2>2, LeavesStep
  <2>3. CASE rv' = "none" /\ frames' = frames
    BY <1>1, <2>1, <2>3, SameHeap DEF GoesOn, Steps, Shapes
  <2> QED
    BY <2>1, <2>2, <2>3
<1> QED
  BY <1>2, <1>3, <1>4

LEMMA EvalSteps ==
  ASSUME Running, EvalNext, phase' = "eval"
  PROVE  Steps
<1>1. ~eval_exit /\ ~ReadFreed
  BY DEF eval_exit, ReadFreed
<1>2. CASE eval_stmt \/ gc_s_run \/ eval_break
  BY <1>2, CountStep, BreakStep
<1>3. CASE eval_branch \/ eval_exception \/ eval_thread \/ throw_exc \/ exception_retry
  BY <1>3, BranchStep, ExceptionStep, ThreadStep, ThrowStep, RetryStep
<1>4. CASE StackDone \/ BranchReturn \/ BodyReturn \/ RescueReturn \/ CallReturn
  BY <1>4, ReturnStep
<1>5. CASE LoopAgain \/ BodyAgain
  BY <1>5, LoopStep, AgainStep
<1>6. CASE StackReturn \/ MainNext \/ MainEnd
  BY <1>6, MainStep
<1> QED
  BY <1>1, <1>2, <1>3, <1>4, <1>5, <1>6 DEF EvalNext

-----------------------------------------------------------------------------
(* The C stack after a step *)

TwoOver(F, fr, gr, G) ==
  /\ G \in Seq(Frame) /\ Len(G) = Len(F) + 2 /\ Len(F) \in Nat /\ G # <<>>
  /\ \A k \in 1..Len(F) : G[k] = F[k]
  /\ G[Len(F)+1] = fr /\ G[Len(F)+2] = gr /\ Last(G) = gr
  /\ \A k \in 1..Len(G) : k \in 1..Len(F) \/ k = Len(F)+1 \/ k = Len(F)+2

OneOver(F, fr, G) ==
  /\ G \in Seq(Frame) /\ Len(G) = Len(F) + 1 /\ Len(F) \in Nat /\ G # <<>>
  /\ \A k \in 1..Len(F) : G[k] = F[k]
  /\ G[Len(F)+1] = fr /\ Last(G) = fr
  /\ \A k \in 1..Len(G) : k \in 1..Len(F) \/ k = Len(F)+1

LEMMA PushedFrames ==
  ASSUME NEW F \in Seq(Frame), NEW fr \in Frame, NEW gr \in Frame
  PROVE  TwoOver(F, fr, gr, F \o <<fr, gr>>)
<1> DEFINE G == F \o <<fr, gr>>
<1>1. Len(F) \in Nat /\ <<fr, gr>> \in Seq(Frame) /\ Len(<<fr, gr>>) = 2
  OBVIOUS
<1>2. G \in Seq(Frame) /\ Len(G) = Len(F) + 2
  BY <1>1
<1>3. /\ \A k \in 1..Len(F) : G[k] = F[k]
      /\ G[Len(F)+1] = fr /\ G[Len(F)+2] = gr
  BY <1>1
<1> HIDE DEF G
<1>4. Last(G) = gr
  BY <1>2, <1>3 DEF Last
<1>5. TwoOver(F, fr, gr, G)
  BY <1>1, <1>2, <1>3, <1>4 DEF TwoOver
<1> QED
  BY <1>5 DEF G

LEMMA PushedFrame ==
  ASSUME NEW F \in Seq(Frame), NEW fr \in Frame
  PROVE  OneOver(F, fr, Append(F, fr))
<1> DEFINE G == Append(F, fr)
<1>1. Len(F) \in Nat /\ G \in Seq(Frame) /\ Len(G) = Len(F) + 1
  OBVIOUS
<1>2. (\A k \in 1..Len(F) : G[k] = F[k]) /\ G[Len(F)+1] = fr
  OBVIOUS
<1> HIDE DEF G
<1>3. OneOver(F, fr, G)
  BY <1>1, <1>2 DEF Last, OneOver
<1> QED
  BY <1>3 DEF G

LEMMA StackFrameIs ==
  ASSUME NEW t \in Nat, NEW h \in Nat
  PROVE  /\ StackFrame(t, h) \in Frame /\ StackFrame(t, h).f = "stack"
         /\ StackFrame(t, h).t = t /\ StackFrame(t, h).home = h
BY DEF StackFrame, Frame

\* What each shape makes of the frames.
Below(F, G, n) == \A k \in 1..n : Like(F[k], G[k])

LEMMA DeepFrames ==
  ASSUME Running, Ready, NEW fr \in Frame, NEW t \in DOMAIN threads,
         frames' = Base \o <<fr, StackFrame(t, t)>>
  PROVE  /\ frames' \in Seq(Frame) /\ Len(frames') = Len(frames) + 2 /\ Len(frames) \in Nat
         /\ Below(frames, frames', Len(frames))
         /\ frames'[Len(frames)+1] = fr /\ frames'[Len(frames)+2] = StackFrame(t, t)
         /\ Top' = StackFrame(t, t) /\ frames' # <<>>
         /\ \A k \in 1..Len(frames') : \/ k \in 1..Len(frames)
                                       \/ k = Len(frames)+1 \/ k = Len(frames)+2
<1>1. /\ Base \in Seq(Frame) /\ Len(Base) = Len(frames) /\ Len(frames) \in Nat
      /\ \A k \in 1..Len(frames) : Like(frames[k], Base[k])
  BY BaseFacts
<1>2. StackFrame(t, t) \in Frame
  BY RunningFacts, StackFrameIs
<1> DEFINE B == Base
           sf == StackFrame(t, t)
           G == frames'
<1>3. Top' = Last(G)
  BY DEF Top
<1>4. B \in Seq(Frame) /\ sf \in Frame /\ G = B \o <<fr, sf>>
  BY <1>1, <1>2
<1>5. Len(B) = Len(frames) /\ \A k \in 1..Len(frames) : Like(frames[k], B[k])
  BY <1>1
<1> HIDE DEF B, sf, G
<1>6. TwoOver(B, fr, sf, G)
  <2>1. TwoOver(B, fr, sf, B \o <<fr, sf>>)
    BY ONLY <1>4, fr \in Frame, PushedFrames
  <2> QED
    BY <1>4, <2>1
<1>7. Below(frames, G, Len(frames))
  BY <1>5, <1>6 DEF Below, TwoOver
<1> QED
  BY <1>3, <1>5, <1>6, <1>7 DEF G, sf, TwoOver

LEMMA MoreFrames ==
  ASSUME Running, NEW t \in DOMAIN threads, NEW h \in DOMAIN threads,
         frames' = Append(frames, StackFrame(t, h))
  PROVE  /\ frames' \in Seq(Frame) /\ Len(frames') = Len(frames) + 1 /\ Len(frames) \in Nat
         /\ \A k \in 1..Len(frames) : frames'[k] = frames[k]
         /\ frames'[Len(frames)+1] = StackFrame(t, h)
         /\ Top' = StackFrame(t, h) /\ frames' # <<>>
         /\ \A k \in 1..Len(frames') : k \in 1..Len(frames) \/ k = Len(frames)+1
<1>1. frames \in Seq(Frame) /\ StackFrame(t, h) \in Frame
  BY RunningFacts, StackFrameIs DEF Running
<1> DEFINE sf == StackFrame(t, h)
           G == frames'
<1>2. Top' = Last(G) /\ G = Append(frames, sf) /\ sf \in Frame
  BY <1>1 DEF Top
<1> HIDE DEF sf, G
<1>3. OneOver(frames, sf, G)
  <2>1. OneOver(frames, sf, Append(frames, sf))
    BY ONLY <1>1, <1>2, PushedFrame
  <2> QED
    BY <1>2, <2>1
<1> QED
  BY <1>2, <1>3 DEF G, sf, OneOver

LEMMA FrameKept ==
  ASSUME NEW T, NEW U, NEW B, NEW X, NEW Y, Kept(T, U, X, Y),
         NEW fr, NEW gr, Like(fr, gr), FrameIn(T, B, X, fr)
  PROVE  FrameIn(U, B, Y, gr)
<1>1. DOMAIN U = DOMAIN T /\ DOMAIN Y = DOMAIN X
  BY DEF Kept, KeptThreads, KeptExcs
<1>2. CASE fr.f = "stack"
  BY <1>1, <1>2 DEF Like, FrameIn
<1>3. CASE fr.f # "stack"
  BY <1>1, <1>3 DEF Like, FrameIn
<1> QED
  BY <1>2, <1>3

LEMMA RunningKept ==
  ASSUME Running, Steps
  PROVE  Running'
<1>1. /\ Kept(threads, threads', excs, excs') /\ branches' = branches /\ methods' = methods
      /\ cur_thr' \in DOMAIN threads /\ Shapes
  BY DEF Steps
<1>2. World(threads, branches, excs, methods)'
  <2>1. World(threads, branches, excs, methods)
    BY DEF Running
  <2>2. World(threads', branches, excs', methods)
    BY <1>1, <2>1, WorldKept
  <2> QED
    BY <1>1, <2>2
<1>3. cur_thr' \in DOMAIN threads'
  BY <1>1 DEF Kept, KeptThreads
<1> DEFINE In(fr) == FrameIn(threads', branches', excs', fr)
<1>4. \A k \in 1..Len(frames) : In(frames[k])
  <2> SUFFICES ASSUME NEW k \in 1..Len(frames) PROVE In(frames[k])
    OBVIOUS
  <2>1. FrameIn(threads, branches, excs, frames[k]) /\ Like(frames[k], frames[k])
    BY DEF Running, Like
  <2> QED
    BY <1>1, <2>1, FrameKept
<1>5. ASSUME NEW n \in Nat, n <= Len(frames), Below(frames, frames', n)
      PROVE  \A k \in 1..n : In(frames'[k])
  <2> SUFFICES ASSUME NEW k \in 1..n PROVE In(frames'[k])
    OBVIOUS
  <2>1. k \in 1..Len(frames)
    BY <1>5 DEF Running
  <2>2. FrameIn(threads, branches, excs, frames[k]) /\ Like(frames[k], frames'[k])
    BY <1>5, <2>1 DEF Running, Below
  <2> QED
    BY <1>1, <2>2, FrameKept
<1>6. ASSUME NEW t \in DOMAIN threads, NEW h \in DOMAIN threads
      PROVE  In(StackFrame(t, h)) /\ StackFrame(t, h).f = "stack"
  <2>1. t \in DOMAIN threads' /\ h \in DOMAIN threads'
    BY <1>1 DEF Kept, KeptThreads
  <2>2. /\ StackFrame(t, h).f = "stack" /\ StackFrame(t, h).t = t /\ StackFrame(t, h).home = h
    BY RunningFacts, StackFrameIs
  <2> QED
    BY <2>1, <2>2 DEF FrameIn
<1> DEFINE Goal == /\ frames' \in Seq(Frame) /\ \A k \in 1..Len(frames') : In(frames'[k])
                   /\ rv' \in {"none", "val", "break"}
                   /\ (rv' = "none" /\ frames' # <<>>) => Top'.f = "stack"
<1>7. rv \in {"none", "val", "break"} /\ frames \in Seq(Frame) /\ Len(frames) \in Nat
  BY DEF Running
<1>8. ASSUME Deepens PROVE Goal
  <2>1. PICK fr \in Frame, t \in DOMAIN threads :
          /\ Ready /\ FrameIn(threads, branches, excs, fr)
          /\ frames' = Base \o <<fr, StackFrame(t, t)>> /\ rv' = rv
    BY <1>8 DEF Deepens
  <2>2. In(fr)
    <3>1. Like(fr, fr)
      BY DEF Like
    <3> QED
      BY <1>1, <2>1, <3>1, FrameKept
  <2>3. /\ frames' \in Seq(Frame) /\ Len(frames') = Len(frames) + 2
        /\ Below(frames, frames', Len(frames))
        /\ frames'[Len(frames)+1] = fr /\ frames'[Len(frames)+2] = StackFrame(t, t)
        /\ Top' = StackFrame(t, t)
        /\ \A k \in 1..Len(frames') : \/ k \in 1..Len(frames)
                                      \/ k = Len(frames)+1 \/ k = Len(frames)+2
    BY <2>1, DeepFrames
  <2>4. \A k \in 1..Len(frames) : In(frames'[k])
    BY <1>5, <1>7, <2>3
  <2>5. In(StackFrame(t, t)) /\ StackFrame(t, t).f = "stack"
    BY <1>6
  <2> HIDE DEF In
  <2> QED
    BY <1>7, <2>1, <2>2, <2>3, <2>4, <2>5
<1>9. ASSUME Gives PROVE Goal
  <2>1. Ready /\ frames' = Base /\ rv' \in {"val", "break"}
    BY <1>9 DEF Gives
  <2>2. /\ frames' \in Seq(Frame) /\ Len(frames') = Len(frames) /\ Below(frames, frames', Len(frames))
    BY <2>1, BaseFacts DEF Below
  <2>3. \A k \in 1..Len(frames) : In(frames'[k])
    BY <1>5, <1>7, <2>2
  <2> HIDE DEF In
  <2> QED
    BY <2>1, <2>2, <2>3
<1>10. ASSUME Leaves PROVE Goal
  <2>1. frames # <<>> /\ frames' = Front(frames) /\ rv' \in {"val", "break"}
    BY <1>10 DEF Leaves
  <2>2. /\ frames' \in Seq(Frame) /\ Len(frames') = Len(frames) - 1
        /\ \A k \in 1..(Len(frames)-1) : frames'[k] = frames[k] /\ k \in 1..Len(frames)
    BY <2>1, TopFacts
  <2> HIDE DEF In
  <2> QED
    BY <1>4, <2>1, <2>2
<1>11. ASSUME Repeats PROVE Goal
  <2>1. PICK t \in DOMAIN threads : frames' = Append(frames, StackFrame(t, cur_thr'))
    BY <1>11 DEF Repeats
  <2>2. rv' = "none"
    BY <1>11 DEF Repeats
  <2>3. /\ frames' \in Seq(Frame) /\ \A k \in 1..Len(frames) : frames'[k] = frames[k]
        /\ frames'[Len(frames)+1] = StackFrame(t, cur_thr') /\ Top' = StackFrame(t, cur_thr')
        /\ \A k \in 1..Len(frames') : k \in 1..Len(frames) \/ k = Len(frames)+1
    BY <1>1, <2>1, MoreFrames
  <2>4. In(StackFrame(t, cur_thr')) /\ StackFrame(t, cur_thr').f = "stack"
    BY <1>1, <1>6
  <2> HIDE DEF In
  <2> QED
    BY <1>4, <2>2, <2>3, <2>4
<1>12. ASSUME GoesOn PROVE Goal
  <2>1. frames' = frames /\ rv' = "none" /\ (frames # <<>> => Top.f = "stack")
    BY <1>12 DEF GoesOn
  <2>2. Top' = Top
    BY <2>1 DEF Top
  <2> HIDE DEF In
  <2> QED
    BY <1>4, <1>7, <2>1, <2>2
<1>13. Goal
  <2> HIDE DEF Goal
  <2> QED
    BY <1>1, <1>8, <1>9, <1>10, <1>11, <1>12 DEF Shapes
<1> QED
  BY <1>2, <1>3, <1>13 DEF Running

-----------------------------------------------------------------------------
(* From the parser to the evaluator *)

LEMMA NoneOpen == PInv /\ NInv /\ phase = "eval" /\ WellFormed(script)
                    => OpenNow = <<>> /\ Len(end_vector) = 0
BY AllClosed

LEMMA NotesThere == PInv /\ NInv => HandlersInPlace
BY HandlersFollow

LEMMA Handover ==
  ASSUME Parsing, parse_eof, frames = <<>>, rv = "none", UNCHANGED <<frames, rv>>
  PROVE  /\ Running' /\ Calm(excs)'
         /\ WellFormed(script)' => Fitted(threads, branches, excs, methods)' /\ cur_thr' = 1
<1>1. /\ threads' = push_cell(threads, cur_thr, Cell("exit", 0)) /\ phase' = "eval"
      /\ UNCHANGED <<branches, excs, cur_thr, methods, input, end_vector, opener, script>>
  BY DEF parse_eof
<1>2. PInv' /\ NInv' /\ LGoal
  <2>1. Parse
    BY DEF Parse
  <2>2. [Parse \/ Parsed]_pvars
    BY <2>1
  <2>3. PInv' /\ NInv'
    BY <2>2, PInvNext, NInvNext DEF Parsing
  <2> QED
    BY <1>1, <2>1, <2>3, ParseLinked
<1>3. Typed' /\ Linked'
  BY <1>2 DEF PInv, LGoal
<1>4. /\ threads \in Seq(Thread) /\ cur_thr \in DOMAIN threads /\ DOMAIN threads = 1..Len(threads)
      /\ Len(threads) \in Nat /\ threads[1].up = 0 /\ 1 \in DOMAIN threads
      /\ opener = <<>> => cur_thr = 1
  <2>1. PInv /\ phase = "parse"
    BY DEF Parsing
  <2>2. Chain(threads, Written)
    BY <2>1 DEF PInv
  <2>3. 1 \in DOMAIN threads /\ threads[1].up = 0
    <3>1. 1 \in DOMAIN Written
      BY <2>2 DEF Chain
    <3> QED
      BY <2>2, <3>1 DEF Chain
  <2> QED
    BY <2>1, <2>3, ParsingFacts, CurFacts
<1>5. threads'[1].up = 0 /\ 1 \in DOMAIN threads'
  <2>1. Cell("exit", 0) \in CellRec
    BY DEF Cell, CellRec
  <2>2. 1 \in 1..Len(threads)
    BY <1>4
  <2>3. threads' \in Seq(Thread) /\ Len(threads') = Len(threads) /\ threads'[1].up = threads[1].up
    BY ONLY <1>1, <1>4, <2>1, <2>2, CellPushed
  <2> QED
    BY <1>4, <2>2, <2>3
<1>6. Running'
  <2>1. World(threads, branches, excs, methods)'
    BY <1>3, <1>5 DEF Typed, Linked, World
  <2>2. cur_thr' \in DOMAIN threads'
    BY <1>3 DEF Typed
  <2>3. frames' = <<>> /\ rv' = "none" /\ Len(frames') = 0 /\ frames' \in Seq(Frame)
    OBVIOUS
  <2> QED
    BY <2>1, <2>2, <2>3 DEF Running
<1>7. Calm(excs)'
  BY <1>3 DEF Linked
<1>8. ASSUME WellFormed(script)'
      PROVE  Fitted(threads, branches, excs, methods)' /\ cur_thr' = 1
  <2>1. (OpenNow = <<>>)' /\ (Len(end_vector) = 0)'
    <3>1. (PInv /\ NInv /\ phase = "eval" /\ WellFormed(script)
             => OpenNow = <<>> /\ Len(end_vector) = 0)'
      BY NoneOpen, PTL
    <3> QED
      BY <1>1, <1>2, <1>8, <3>1
  <2>2. Fits(threads, branches, excs, methods)'
    BY <1>2, <2>1 DEF LGoal, Bad
  <2>3. HandlersInPlace'
    <3>1. (PInv /\ NInv => HandlersInPlace)'
      BY NotesThere, PTL
    <3> QED
      BY <1>2, <3>1
  <2>4. \A t \in DOMAIN threads' :
          threads'[t].excobj # 0 => OfExc(excs', threads'[t].excobj, t)
    <3>1. ASSUME NEW t \in DOMAIN threads', threads'[t].excobj # 0
          PROVE  threads'[t].excobj \in DOMAIN excs'
      <4>1. threads'[t].excobj \in 0..Len(excs') /\ excs' \in Seq(Exc)
        BY <1>3 DEF Typed, Refers
      <4> QED
        BY <3>1, <4>1
    <3> QED
      BY <1>1, <1>8, <2>3, <3>1 DEF HandlersInPlace, OfExc
  <2>5. opener = <<>>
    <3>1. opener' \in Seq(DOMAIN threads') /\ Len(end_vector') = Len(opener')
      BY <1>3 DEF Typed
    <3>2. opener' = <<>>
      BY <2>1, <3>1
    <3> QED
      BY <1>1, <3>2
  <2> QED
    BY <1>1, <1>4, <1>5, <2>2, <2>4, <2>5 DEF Fitted
<1> QED
  BY <1>6, <1>7, <1>8

LEMMA EvalPhase ==
  ASSUME EvalNext
  PROVE  phase = "eval" /\ phase' # "parse"
<1>1. CASE eval_stmt \/ eval_break \/ gc_s_run \/ eval_exit \/ exception_retry
  BY <1>1 DEF eval_stmt, eval_break, gc_s_run, eval_exit, exception_retry, Eval, Ready, Returns,
              Aborts
<1>2. CASE eval_branch \/ eval_exception
  BY <1>2 DEF eval_branch, eval_exception, Eval, Ready, Returns, Calls
<1>3. CASE eval_thread \/ throw_exc
  BY <1>3 DEF eval_thread, throw_exc, Eval, Ready, Returns, Calls, Fails, Aborts, RunRescue
<1>4. CASE StackDone \/ StackReturn \/ LoopAgain \/ BranchReturn \/ BodyAgain \/ BodyReturn
  BY <1>4 DEF StackDone, StackReturn, LoopAgain, BranchReturn, BodyAgain, BodyReturn, Ready,
              Returning, Pops
<1>5. CASE RescueReturn \/ CallReturn \/ MainNext \/ MainEnd
  BY <1>5 DEF RescueReturn, CallReturn, MainNext, MainEnd, Ready, Returning, Pops
<1>6. CASE ReadFreed
  <2>1. ReadsExc # {} /\ phase' = "dangling"
    BY <1>6 DEF ReadFreed, Dangles
  <2>2. phase = "eval"
    BY <2>1 DEF ReadsExc, Returning, Eval, Ready
  <2> QED
    BY <2>1, <2>2
<1> QED
  BY <1>1, <1>2, <1>3, <1>4, <1>5, <1>6 DEF EvalNext

LEMMA ParsePhase ==
  ASSUME Parse, phase' = "eval"
  PROVE  parse_eof
<1>1. ASSUME NEW K, Read(K), Parse, ~parse_eof PROVE FALSE
  <2>1. phase = "parse"
    BY <1>1 DEF Read
  <2> QED
    BY <1>1, <2>1 DEF Parse, parse_stmt, parse_begin, parse_rescue, parse_if, parse_else,
                      parse_define, parse_end, end_if, end_begin, end_define, Stop
<1> QED
  BY <1>1 DEF Parse, parse_stmt, parse_begin, parse_rescue, parse_if, parse_else, parse_define,
              parse_end

\* What holds while the parser and then the evaluator runs.
EInv == /\ phase = "parse" => PInv /\ NInv /\ LInv /\ frames = <<>> /\ rv = "none"
        /\ phase = "eval" => /\ Running
                             /\ WellFormed(script) => Fitted(threads, branches, excs, methods)

LEMMA EInvInit == Init => EInv
<1>1. ParseInit => phase = "parse"
  BY DEF ParseInit
<1> QED
  BY <1>1, PInvInit, NInvInit, LInvInit DEF Init, EvalInit, EInv

\* What a step of the interpreter is, under EInv.
LEMMA StepIs ==
  ASSUME EInv, [Next]_vars
  PROVE  \/ UNCHANGED vars
         \/ Parsing /\ Parse /\ frames = <<>> /\ rv = "none" /\ UNCHANGED <<frames, rv, freed, why, brk>>
         \/ /\ phase = "eval" /\ Running /\ EvalNext /\ phase' # "parse"
            /\ phase' = "eval" => Steps
            /\ UNCHANGED <<input, end_vector, opener, script>>
<1>1. CASE Parse /\ UNCHANGED <<frames, rv, freed, why, brk>>
  <2>1. phase = "parse"
    BY <1>1 DEF Parse, parse_stmt, parse_begin, parse_rescue, parse_if, parse_else,
                parse_define, parse_end, parse_eof, Read
  <2> QED
    BY <1>1, <2>1 DEF EInv, Parsing
<1>2. CASE EvalNext /\ UNCHANGED <<input, end_vector, opener, script>>
  BY <1>2, EvalPhase, EvalSteps DEF EInv
<1> QED
  BY <1>1, <1>2 DEF Next

LEMMA EInvNext == EInv /\ [Next]_vars => EInv'
<1> SUFFICES ASSUME EInv, [Next]_vars PROVE EInv'
  OBVIOUS
<1>1. CASE UNCHANGED vars
  <2>1. UNCHANGED <<pvars, frames, rv>>
    BY <1>1 DEF vars
  <2>2. (PInv' <=> PInv) /\ (NInv' <=> NInv) /\ (LInv' <=> LInv)
    <3>1. UNCHANGED pvars
      BY <2>1
    <3>2. PInv' <=> PInv
      BY <3>1 DEF pvars, heap, PInv, Typed, Written
    <3>3. NInv' <=> NInv
      BY <3>1 DEF pvars, heap, NInv, Place, Held, Wrong, Done, OpenNow, Written
    <3>4. LInv' <=> LInv
      BY <3>1 DEF pvars, heap, LInv, Linked, Done, OpenNow, Written
    <3> QED
      BY <3>2, <3>3, <3>4
  <2>3. Running' <=> Running
    BY <2>1 DEF pvars, heap, Running, Top
  <2>4. UNCHANGED <<threads, branches, excs, methods, phase, script, frames, rv>>
    BY <2>1 DEF pvars, heap
  <2> QED
    BY <2>2, <2>3, <2>4 DEF EInv
<1>2. CASE Parsing /\ Parse /\ frames = <<>> /\ rv = "none" /\ UNCHANGED <<frames, rv, freed, why, brk>>
  <2>1. PInv' /\ NInv'
    <3>1. PInv /\ NInv /\ [Parse \/ Parsed]_pvars
      BY <1>2 DEF Parsing
    <3> QED
      BY <3>1, PInvNext, NInvNext
  <2>2. CASE phase' = "parse"
    <3>1. LGoal
      BY <1>2, <2>2, ParseLinked
    <3> QED
      BY <1>2, <2>1, <2>2, <3>1 DEF LGoal, LInv, EInv
  <2>3. CASE phase' = "eval"
    <3>1. parse_eof
      BY <1>2, <2>3, ParsePhase
    <3>2. Running' /\ (WellFormed(script)' => Fitted(threads, branches, excs, methods)')
      BY <1>2, <3>1, Handover
    <3> QED
      BY <2>3, <3>2 DEF EInv
  <2> QED
    BY <2>2, <2>3 DEF EInv
<1>3. CASE /\ phase = "eval" /\ Running /\ EvalNext /\ phase' # "parse"
           /\ phase' = "eval" => Steps
           /\ UNCHANGED <<input, end_vector, opener, script>>
  <2>1. ASSUME phase' = "eval"
        PROVE  /\ Running'
               /\ WellFormed(script)' => Fitted(threads, branches, excs, methods)'
    <3>1. Running' /\ Steps
      BY <1>3, <2>1, RunningKept
    <3>2. ASSUME WellFormed(script)' PROVE Fitted(threads, branches, excs, methods)'
      <4>1. World(threads, branches, excs, methods) /\ Fitted(threads, branches, excs, methods)
        BY <1>3, <3>2 DEF EInv, Running
      <4>2. Kept(threads, threads', excs, excs') /\ UNCHANGED <<branches, methods>>
        BY <3>1 DEF Steps
      <4>3. Fitted(threads', branches, excs', methods)
        BY <4>1, <4>2, FittedKept
      <4> QED
        BY <4>2, <4>3
    <3> QED
      BY <3>1, <3>2
  <2> QED
    BY <1>3, <2>1 DEF EInv
<1> QED
  BY <1>1, <1>2, <1>3, StepIs

\* What the evaluator works on was made by the parser: the frames of the C
\* stack, the cells that are next and cur_thr are of blocks, branches and
\* exception objects there are or were, and the side of a branch that runs is
\* never null (eval.c:193-370).  It does not say that the exception objects are
\* still there: a sweep may have freed one (`freed'), and an evaluation that
\* reads it has ended, in the phase "dangling".
THEOREM EvaluatorRuns == Spec => [](phase = "eval" => Running)
<1>1. EInv => (phase = "eval" => Running)
  BY DEF EInv
<1> QED
  BY <1>1, EInvInit, EInvNext, PTL DEF Spec

-----------------------------------------------------------------------------
(* Breaks *)

LEMMA GreatestNumber ==
  ASSUME NEW n \in Nat, NEW S \in SUBSET (0..n), S # {}
  PROVE  Max(S) \in S /\ \A y \in S : y <= Max(S)
<1> DEFINE Z == {n - s : s \in S}
<1>1. Z \in SUBSET Nat /\ Z # {}
  <2>1. \A s \in S : n - s \in Nat
    OBVIOUS
  <2>2. PICK s \in S : TRUE
    OBVIOUS
  <2>3. n - s \in Z
    OBVIOUS
  <2> QED
    BY <2>1, <2>3
<1>2. PICK z \in Z : \A w \in Z : z <= w
  BY <1>1, LeastNumber
<1>3. PICK s \in S : z = n - s
  OBVIOUS
<1>4. ASSUME NEW y \in S PROVE s >= y
  <2>1. n - y \in Z
    OBVIOUS
  <2>2. z <= n - y
    BY <1>2, <2>1
  <2>3. y \in Int /\ s \in Int
    OBVIOUS
  <2> QED
    BY <1>3, <2>2, <2>3
<1>5. \E x \in S : \A y \in S : x >= y
  BY <1>4
<1>6. Max(S) \in S /\ \A y \in S : Max(S) >= y
  BY <1>5 DEF Max
<1> QED
  BY <1>6

\* brk is the innermost of the loops that F is in, or 0.
IsLoopOf(F, B, k) == F[k].f = "branch" /\ B[F[k].b].loop
BrkIs(F, B, n) == /\ n \in {0} \cup {k \in 1..Len(F) : IsLoopOf(F, B, k)}
                  /\ \A k \in 1..Len(F) : IsLoopOf(F, B, k) => k <= n

BInv == (phase = "eval" /\ rv = "break" /\ why = "break") => BrkIs(frames, branches, brk)

LEMMA BrkSet ==
  ASSUME Running, eval_break
  PROVE  BrkIs(frames', branches', brk')
<1> DEFINE S == {0} \cup {k \in DOMAIN frames : IsLoop(k)}
<1>1. Ready /\ frames' = Base /\ branches' = branches /\ brk' = Max(S)
  BY DEF eval_break, Eval, Returns
<1>2. /\ Base \in Seq(Frame) /\ Len(Base) = Len(frames) /\ Len(frames) \in Nat
      /\ \A k \in 1..Len(frames) : Like(frames[k], Base[k])
  BY <1>1, BaseFacts
<1>3. DOMAIN frames = 1..Len(frames)
  BY DEF Running
<1>4. \A k \in 1..Len(frames) : IsLoop(k) <=> IsLoopOf(frames', branches', k)
  <2> SUFFICES ASSUME NEW k \in 1..Len(frames)
               PROVE  IsLoop(k) <=> IsLoopOf(frames', branches', k)
    OBVIOUS
  <2>1. Like(frames[k], frames'[k])
    BY <1>1, <1>2
  <2>2. frames'[k].f = frames[k].f /\ (frames[k].f # "stack" => frames'[k] = frames[k])
    BY <2>1 DEF Like
  <2> QED
    BY <1>1, <2>2 DEF IsLoop, IsLoopOf
<1>5. Max(S) \in S /\ \A y \in S : y <= Max(S)
  <2>1. S \in SUBSET (0..Len(frames)) /\ S # {}
    BY <1>2, <1>3
  <2> HIDE DEF S
  <2> QED
    BY <1>2, <2>1, GreatestNumber
<1>6. Len(frames') = Len(frames)
  BY <1>1, <1>2
<1> HIDE DEF S
<1>7. brk' \in {0} \cup {k \in 1..Len(frames') : IsLoopOf(frames', branches', k)}
  BY <1>1, <1>3, <1>4, <1>5, <1>6 DEF S
<1>8. \A k \in 1..Len(frames') : IsLoopOf(frames', branches', k) => k <= brk'
  BY <1>1, <1>3, <1>4, <1>5, <1>6 DEF S
<1> QED
  BY <1>7, <1>8 DEF BrkIs

\* A Qbreak of a break statement that is being returned was one before.
LEMMA BreakComes ==
  ASSUME EvalNext, phase' = "eval", rv' = "break", why' = "break"
  PROVE  \/ eval_break
         \/ /\ rv = "break" /\ why = "break" /\ frames # <<>> /\ frames' = Front(frames)
            /\ brk' = brk /\ branches' = branches
            /\ ~(Top.f = "branch" /\ branches[Top.b].loop)
<1>1. CASE eval_stmt \/ gc_s_run \/ eval_branch \/ eval_exception \/ eval_thread \/ throw_exc
  BY <1>1 DEF eval_stmt, gc_s_run, eval_branch, eval_exception, eval_thread, throw_exc, Eval,
              Ready, Returns, Calls, Fails, Aborts, RunRescue
<1>2. CASE exception_retry \/ eval_exit \/ ReadFreed
  BY <1>2 DEF exception_retry, eval_exit, ReadFreed, Eval, Ready, Aborts
<1>3. CASE StackDone \/ LoopAgain \/ BodyAgain \/ RescueReturn \/ MainNext \/ MainEnd
  BY <1>3 DEF StackDone, LoopAgain, BodyAgain, RescueReturn, MainNext, MainEnd, Ready, Pops
<1>4. CASE (StackReturn \/ BranchReturn \/ BodyReturn \/ CallReturn) /\ UNCHANGED brk
  BY <1>4 DEF StackReturn, BranchReturn, BodyReturn, CallReturn, Returning, Pops, Resume, heap,
              BranchValue
<1> QED
  BY <1>1, <1>2, <1>3, <1>4 DEF EvalNext

\* Where a Qbreak is dropped.
LEMMA BreakGoes ==
  ASSUME EvalNext, rv = "break", rv' # "break", \A x \in DOMAIN excs : ~excs[x].retry, Running
  PROVE  phase = "eval" /\ (frames = <<>> \/ (Top.f = "branch" /\ branches[Top.b].loop))
<1>1. ~(eval_stmt \/ eval_break \/ eval_branch \/ eval_exception \/ eval_thread \/ throw_exc)
  BY DEF eval_stmt, eval_break, eval_branch, eval_exception, eval_thread, throw_exc, Eval, Ready
<1>2. ~(exception_retry \/ gc_s_run \/ eval_exit \/ StackDone \/ LoopAgain \/ MainEnd \/ ReadFreed)
  BY DEF exception_retry, gc_s_run, eval_exit, StackDone, LoopAgain, MainEnd, ReadFreed, Eval, Ready
<1>3. ~(StackReturn \/ BodyReturn \/ RescueReturn \/ CallReturn)
  BY DEF StackReturn, BodyReturn, RescueReturn, CallReturn, Pops
<1>4. ~BodyAgain
  <2>1. BodyAgain => Top.x \in DOMAIN excs
    BY TopFacts DEF BodyAgain, Returning, FrameIn
  <2> QED
    BY <2>1 DEF BodyAgain
<1>5. CASE BranchReturn \/ MainNext
  BY <1>5 DEF BranchReturn, MainNext, InMain, Returning, Pops, BranchValue
<1> QED
  BY <1>1, <1>2, <1>3, <1>4, <1>5 DEF EvalNext

LEMMA BInvInit == Init => BInv
BY DEF Init, ParseInit, EvalInit, BInv

LEMMA BInvNext == EInv /\ BInv /\ [Next]_vars => BInv'
<1> SUFFICES ASSUME EInv, BInv, [Next]_vars, phase' = "eval", rv' = "break", why' = "break"
             PROVE  BrkIs(frames', branches', brk')
  BY DEF BInv
<1>1. CASE UNCHANGED vars
  <2>1. UNCHANGED <<phase, rv, why, brk, frames, branches>>
    BY <1>1 DEF vars, pvars, heap
  <2> QED
    BY <2>1 DEF BInv
<1>2. CASE Parsing /\ Parse /\ frames = <<>> /\ rv = "none" /\ UNCHANGED <<frames, rv, freed, why, brk>>
  BY <1>2
<1>3. CASE phase = "eval" /\ Running /\ EvalNext
  <2>1. CASE eval_break
    BY <1>3, <2>1, BrkSet
  <2>2. CASE /\ rv = "break" /\ why = "break" /\ frames # <<>> /\ frames' = Front(frames)
             /\ brk' = brk /\ branches' = branches
             /\ ~(Top.f = "branch" /\ branches[Top.b].loop)
    <3>1. BrkIs(frames, branches, brk)
      BY <1>3, <2>2 DEF BInv
    <3>2. /\ Len(frames) \in Nat /\ Len(frames) \in 1..Len(frames) /\ Top = frames[Len(frames)]
          /\ frames' \in Seq(Frame) /\ Len(frames') = Len(frames) - 1
          /\ \A k \in 1..(Len(frames)-1) : frames'[k] = frames[k] /\ k \in 1..Len(frames)
          /\ \A k \in 1..Len(frames) : k = Len(frames) \/ k \in 1..(Len(frames)-1)
      BY <1>3, <2>2, TopFacts
    <3>3. ~IsLoopOf(frames, branches, Len(frames))
      BY <2>2, <3>2 DEF IsLoopOf
    <3>4. \A k \in 1..(Len(frames)-1) :
            IsLoopOf(frames', branches', k) <=> IsLoopOf(frames, branches, k)
      BY <2>2, <3>2 DEF IsLoopOf
    <3>5. brk # 0 => brk \in 1..(Len(frames)-1)
      BY <3>1, <3>2, <3>3 DEF BrkIs
    <3> QED
      BY <2>2, <3>1, <3>2, <3>4, <3>5 DEF BrkIs
  <2> QED
    BY <1>3, <2>1, <2>2, BreakComes
<1> QED
  BY <1>1, <1>2, <1>3, StepIs

\* A break statement ends the innermost loop around it and no other, in any
\* script, unless a retry is noted (eval.c:352).
THEOREM BreaksEndOneLoop == Spec => BreakEndsOneLoop
<1> DEFINE Ends1 == (rv = "break" /\ why = "break" /\ rv' # "break"
                     /\ \A x \in DOMAIN excs : ~excs[x].retry)
                    => IF frames = <<>> THEN brk = 0 ELSE Len(frames) = brk
<1>1. EInv /\ BInv /\ [Next]_vars => [Ends1]_vars
  <2> SUFFICES ASSUME EInv, BInv, Next, rv = "break", why = "break", rv' # "break",
                      \A x \in DOMAIN excs : ~excs[x].retry
               PROVE  IF frames = <<>> THEN brk = 0 ELSE Len(frames) = brk
    OBVIOUS
  <2>1. phase = "eval" /\ Running /\ EvalNext
    <3>1. ~UNCHANGED vars /\ ~UNCHANGED rv
      BY DEF vars
    <3> QED
      BY <3>1, StepIs
  <2>2. BrkIs(frames, branches, brk)
    BY <2>1 DEF BInv
  <2>3. frames = <<>> \/ (Top.f = "branch" /\ branches[Top.b].loop)
    BY <2>1, BreakGoes
  <2>4. CASE frames = <<>>
    BY <2>2, <2>4 DEF BrkIs
  <2>5. CASE frames # <<>> /\ Top.f = "branch" /\ branches[Top.b].loop
    <3>1. Len(frames) \in Nat /\ Len(frames) \in 1..Len(frames) /\ Top = frames[Len(frames)]
      BY <2>1, <2>5, TopFacts
    <3>2. IsLoopOf(frames, branches, Len(frames))
      BY <2>5, <3>1 DEF IsLoopOf
    <3>3. Len(frames) <= brk /\ brk \in 0..Len(frames)
      BY <2>2, <3>1, <3>2 DEF BrkIs
    <3> QED
      BY <2>5, <3>1, <3>3
  <2> QED
    BY <2>3, <2>4, <2>5
<1>2. Spec => [][Ends1]_vars
  BY <1>1, EInvInit, EInvNext, BInvInit, BInvNext, PTL DEF Spec
<1> QED
  BY <1>2 DEF BreakEndsOneLoop

-----------------------------------------------------------------------------
(* Retries: from the threads of a frame, all the exception objects that      *)
(* throw and retry can find are those of the begin blocks below it           *)

\* The exception objects whose bodies are being evaluated below k.
Bodies(F, k) == {F[j].x : j \in {i \in 1..k : F[i].f = "exc"}}

Covered(T, t, es) == \E A \in SUBSET DOMAIN T : t \in A /\ Outwards(T, A, es)

\* A frame comes back to threads that are so.
FrameCovered(T, B, X, fr, es) ==
  /\ fr.f = "stack" => Covered(T, fr.t, es)
  /\ fr.f = "branch" => Covered(T, B[fr.b][fr.side], es)
  /\ fr.f = "exc" => Covered(T, X[fr.x].thr, es)
  /\ fr.f \in {"branch", "throw", "call"} => Covered(T, fr.save, es)

AllCovered(T, B, X, F, c) ==
  /\ \A k \in 1..Len(F) : FrameCovered(T, B, X, F[k], Bodies(F, k-1))
  /\ Covered(T, c, Bodies(F, Len(F)))

\* Only a begin block whose body is being evaluated is retried.
RetriesIn(X, F) == \A x \in DOMAIN X : X[x].retry => x \in Bodies(F, Len(F))

RInv == (phase = "eval" /\ WellFormed(script)) =>
          /\ AllCovered(threads, branches, excs, frames, cur_thr)
          /\ RetriesIn(excs, frames)

LEMMA CoveredMore ==
  ASSUME NEW T, NEW t, NEW es, NEW fs, es \subseteq fs, Covered(T, t, es)
  PROVE  Covered(T, t, fs)
BY DEF Covered, Outwards

\* A block directly in one that is covered, with nothing else noted.
LEMMA CoveredInside ==
  ASSUME NEW T, NEW t \in DOMAIN T, NEW es, Covered(T, T[t].up, es),
         T[t].excobj = 0 \/ T[t].excobj \in es
  PROVE  Covered(T, t, es)
<1>1. PICK A \in SUBSET DOMAIN T : T[t].up \in A /\ Outwards(T, A, es)
  BY DEF Covered
<1>2. Outwards(T, A \cup {t}, es)
  BY <1>1 DEF Outwards
<1>3. A \cup {t} \in SUBSET DOMAIN T /\ t \in A \cup {t}
  OBVIOUS
<1> QED
  BY <1>2, <1>3 DEF Covered

LEMMA CoveredAlone ==
  ASSUME NEW T, NEW t \in DOMAIN T, NEW es, T[t].up = 0, T[t].excobj = 0
  PROVE  Covered(T, t, es)
<1>1. Outwards(T, {t}, es) /\ {t} \in SUBSET DOMAIN T /\ t \in {t}
  BY DEF Outwards
<1> QED
  BY <1>1 DEF Covered

LEMMA CoveredOutside ==
  ASSUME NEW T, NEW t, NEW es, Covered(T, t, es)
  PROVE  /\ T[t].up # 0 => Covered(T, T[t].up, es)
         /\ T[t].excobj = 0 \/ T[t].excobj \in es
<1>1. PICK A \in SUBSET DOMAIN T : t \in A /\ Outwards(T, A, es)
  BY DEF Covered
<1>2. T[t].up # 0 => T[t].up \in A
  BY <1>1 DEF Outwards
<1> QED
  BY <1>1, <1>2 DEF Covered, Outwards

LEMMA CoveredKept ==
  ASSUME NEW T, NEW U, NEW t, NEW es, KeptThreads(T, U), Covered(T, t, es)
  PROVE  Covered(U, t, es)
BY DEF Covered, Outwards, KeptThreads

LEMMA HandlerCovered ==
  ASSUME World(threads, branches, excs, methods), NEW es, Covered(threads, cur_thr, es)
  PROVE  Handler = 0 \/ Handler \in es
<1>1. PICK A \in SUBSET DOMAIN threads : cur_thr \in A /\ Outwards(threads, A, es)
  BY DEF Covered
<1> QED
  BY <1>1, HandlerAmong

LEMMA BodiesMore ==
  ASSUME NEW F, NEW j \in Nat, NEW k \in Nat, j <= k
  PROVE  Bodies(F, j) \subseteq Bodies(F, k)
<1>1. \A i \in 1..j : i \in 1..k
  OBVIOUS
<1> QED
  BY <1>1 DEF Bodies

LEMMA BodiesNext ==
  ASSUME NEW F, NEW k \in Nat \ {0}
  PROVE  /\ F[k].f = "exc" => Bodies(F, k) = Bodies(F, k-1) \cup {F[k].x}
         /\ F[k].f # "exc" => Bodies(F, k) = Bodies(F, k-1)
<1>1. \A i \in 1..k : i = k \/ i \in 1..(k-1)
  OBVIOUS
<1>2. /\ \A i \in 1..(k-1) : i \in 1..k
      /\ k \in 1..k
  OBVIOUS
<1> QED
  BY <1>1, <1>2 DEF Bodies

LEMMA BodiesSame ==
  ASSUME NEW F, NEW G, NEW n \in Nat, Below(F, G, n), NEW k \in 0..n
  PROVE  Bodies(G, k) = Bodies(F, k)
<1>1. \A i \in 1..k : i \in 1..n
  OBVIOUS
<1>2. \A i \in 1..k : G[i].f = F[i].f /\ (F[i].f = "exc" => G[i] = F[i])
  BY <1>1 DEF Below, Like
<1>3. {i \in 1..k : G[i].f = "exc"} = {i \in 1..k : F[i].f = "exc"}
  BY <1>2
<1> QED
  BY <1>2, <1>3 DEF Bodies

LEMMA BodiesAre ==
  ASSUME NEW F, NEW k \in Nat, NEW x \in Bodies(F, k)
  PROVE  \E j \in 1..k : F[j].f = "exc" /\ F[j].x = x
BY DEF Bodies

LEMMA FrameCoveredLike ==
  ASSUME NEW T, NEW B, NEW X, NEW fr, NEW gr, NEW es, Like(fr, gr), FrameCovered(T, B, X, fr, es)
  PROVE  FrameCovered(T, B, X, gr, es)
<1>1. CASE fr.f = "stack"
  BY <1>1 DEF Like, FrameCovered
<1>2. CASE fr.f # "stack"
  BY <1>2 DEF Like
<1> QED
  BY <1>1, <1>2

\* The frames below go on as they were.
LEMMA BelowCovered ==
  ASSUME NEW T, NEW B, NEW X, NEW F, NEW G, NEW n \in Nat, n <= Len(F), Len(F) \in Nat,
         Below(F, G, n), \A k \in 1..Len(F) : FrameCovered(T, B, X, F[k], Bodies(F, k-1))
  PROVE  \A k \in 1..n : FrameCovered(T, B, X, G[k], Bodies(G, k-1))
<1> SUFFICES ASSUME NEW k \in 1..n PROVE FrameCovered(T, B, X, G[k], Bodies(G, k-1))
  OBVIOUS
<1>1. k \in 1..Len(F) /\ k-1 \in 0..n
  OBVIOUS
<1>2. Bodies(G, k-1) = Bodies(F, k-1)
  BY <1>1, BodiesSame
<1>3. FrameCovered(T, B, X, F[k], Bodies(F, k-1)) /\ Like(F[k], G[k])
  BY <1>1 DEF Below
<1> QED
  BY <1>2, <1>3, FrameCoveredLike

LEMMA AllCoveredKept ==
  ASSUME NEW T, NEW U, NEW B, NEW X, NEW Y, NEW F, NEW c, Kept(T, U, X, Y),
         AllCovered(T, B, X, F, c),
         \A k \in 1..Len(F) : F[k].f = "exc" => F[k].x \in DOMAIN X
  PROVE  AllCovered(U, B, Y, F, c)
<1>1. KeptThreads(T, U) /\ KeptExcs(X, Y)
  BY DEF Kept
<1>2. ASSUME NEW k \in 1..Len(F) PROVE FrameCovered(U, B, Y, F[k], Bodies(F, k-1))
  <2>1. FrameCovered(T, B, X, F[k], Bodies(F, k-1))
    BY DEF AllCovered
  <2>2. F[k].f = "exc" => Y[F[k].x].thr = X[F[k].x].thr
    BY <1>1 DEF KeptExcs
  <2> QED
    BY <1>1, <2>1, <2>2, CoveredKept DEF FrameCovered
<1>3. Covered(U, c, Bodies(F, Len(F)))
  BY <1>1, CoveredKept DEF AllCovered
<1> QED
  BY <1>2, <1>3 DEF AllCovered

\* What is noted in a block, and where it is.
LEMMA ExcBlock ==
  ASSUME Running, Fitted(threads, branches, excs, methods), NEW x \in DOMAIN excs,
         NEW t \in DOMAIN threads, OfExc(excs, x, t)
  PROVE  threads[t].up = excs[x].thr /\ threads[t].excobj \in {0, x}
<1>1. Block(threads, branches, excs, t) /\ (threads[t].excobj # 0 => OfExc(excs, threads[t].excobj, t))
  BY DEF Fitted, Fits
<1>2. threads[t].excobj # 0 => threads[t].excobj \in DOMAIN excs
  BY RunningFacts
<1> QED
  BY <1>1, <1>2 DEF Block, Inside

LEMMA SideBlock ==
  ASSUME Running, Fitted(threads, branches, excs, methods), NEW b \in DOMAIN branches,
         NEW t \in DOMAIN threads, OfBranch(branches, b, t)
  PROVE  threads[t].up = threads[branches[b].cond_true].up /\ threads[t].excobj = 0
<1>1. Block(threads, branches, excs, t) /\ (threads[t].excobj # 0 => OfExc(excs, threads[t].excobj, t))
  BY DEF Fitted, Fits
<1>2. threads[t].excobj # 0 => threads[t].excobj \in DOMAIN excs
  BY RunningFacts
<1>3. threads[t].excobj = 0
  BY <1>1, <1>2 DEF Block
<1> QED
  BY <1>1, <1>3 DEF Block, Inside

LEMMA MethodBlock ==
  ASSUME Running, Fitted(threads, branches, excs, methods), NEW n \in Name, methods[n] # 0
  PROVE  threads[methods[n]].up = 0 /\ threads[methods[n]].excobj = 0
<1> DEFINE t == methods[n]
<1>1. t \in DOMAIN threads
  BY RunningFacts
<1>2. IsMethod(threads, t) /\ Block(threads, branches, excs, t)
      /\ (threads[t].excobj # 0 => OfExc(excs, threads[t].excobj, t))
  BY <1>1 DEF Fitted, Fits
<1>3. threads[t].excobj # 0 => threads[t].excobj \in DOMAIN excs
  BY <1>1, RunningFacts
<1> HIDE DEF t
<1>4. threads[t].up = 0 /\ threads[t].excobj = 0
  BY <1>2, <1>3 DEF Block, Inside, IsMethod
<1> QED
  BY <1>4 DEF t

\* A branch or a begin that is next is in the block that is evaluated.
LEMMA NowHome ==
  ASSUME Running, Fitted(threads, branches, excs, methods), Ready, ~AtEnd
  PROVE  /\ Now.kind = "branch" => threads[branches[Now.ref].cond_true].up = Here
         /\ Now.kind = "exc" => excs[Now.ref].thr = Here
<1>1. PICK p \in DOMAIN threads[Here].stack : Now = threads[Here].stack[p]
  BY NowFacts
<1>2. Here \in DOMAIN threads
  BY NowFacts
<1>3. CellHome(threads, branches, excs, Here, threads[Here].stack[p])
  BY <1>1, <1>2 DEF Fitted, Fits
<1> QED
  BY <1>1, <1>3 DEF CellHome

\* The block that is evaluated is covered.
LEMMA HereCovered ==
  ASSUME Running, Ready, AllCovered(threads, branches, excs, frames, cur_thr)
  PROVE  Covered(threads, Here, Bodies(frames, Len(frames)))
<1>1. CASE InMain
  BY <1>1 DEF Here, AllCovered
<1>2. CASE ~InMain
  <2>1. frames # <<>> /\ Top.f = "stack"
    BY <1>2, HereFacts
  <2>2. Len(frames) \in Nat \ {0} /\ Len(frames) \in 1..Len(frames) /\ Top = frames[Len(frames)]
    BY <2>1, TopFacts
  <2>3. FrameCovered(threads, branches, excs, Top, Bodies(frames, Len(frames) - 1))
    BY <2>2 DEF AllCovered
  <2>4. Bodies(frames, Len(frames)) = Bodies(frames, Len(frames) - 1)
    BY <2>1, <2>2, BodiesNext
  <2> QED
    BY <1>2, <2>1, <2>3, <2>4 DEF Here, FrameCovered
<1> QED
  BY <1>1, <1>2

\* The begin block of one that is found is covered.
LEMMA FoundCovered ==
  ASSUME Running, AllCovered(threads, branches, excs, frames, cur_thr),
         NEW x \in Bodies(frames, Len(frames))
  PROVE  /\ x \in DOMAIN excs /\ Covered(threads, excs[x].thr, Bodies(frames, Len(frames)))
<1>1. Len(frames) \in Nat
  BY DEF Running
<1>2. PICK j \in 1..Len(frames) : frames[j].f = "exc" /\ frames[j].x = x
  BY <1>1, BodiesAre
<1>3. x \in DOMAIN excs
  BY <1>2 DEF Running, FrameIn
<1>4. Covered(threads, excs[x].thr, Bodies(frames, j-1))
  BY <1>2 DEF AllCovered, FrameCovered
<1>5. Bodies(frames, j-1) \subseteq Bodies(frames, Len(frames))
  BY <1>1, BodiesMore
<1> QED
  BY <1>3, <1>4, <1>5, CoveredMore

LEMMA HandlerFound ==
  ASSUME Running, AllCovered(threads, branches, excs, frames, cur_thr),
         NEW x \in {Handler, threads[cur_thr].excobj}, x # 0
  PROVE  x \in Bodies(frames, Len(frames))
<1>1. Covered(threads, cur_thr, Bodies(frames, Len(frames))) /\ World(threads, branches, excs, methods)
  BY DEF AllCovered, Running
<1> QED
  BY <1>1, HandlerCovered, CoveredOutside

LEMMA EntersCovered ==
  ASSUME Running, Fitted(threads, branches, excs, methods),
         AllCovered(threads, branches, excs, frames, cur_thr), Ready,
         NEW fr, NEW t \in DOMAIN threads, Enters(fr, t)
  PROVE  LET es == Bodies(frames, Len(frames))
         IN  /\ FrameCovered(threads, branches, excs, fr, es)
             /\ Covered(threads, t, IF fr.f = "exc" THEN es \cup {fr.x} ELSE es)
<1> DEFINE es == Bodies(frames, Len(frames))
           Goal == /\ FrameCovered(threads, branches, excs, fr, es)
                   /\ Covered(threads, t, IF fr.f = "exc" THEN es \cup {fr.x} ELSE es)
<1>1. Covered(threads, cur_thr, es) /\ Covered(threads, Here, es)
  BY HereCovered DEF AllCovered
<1>2. ASSUME Eval("branch"), NEW s \in {"cond_true", "cond_false"},
             t = branches[Now.ref][s], fr = BranchFrame(Now.ref, s)
      PROVE  Goal
  <2> DEFINE b == Now.ref
  <2>1. b \in DOMAIN branches /\ threads[branches[b].cond_true].up = Here
    BY <1>2, NowFacts, NowHome DEF Eval, CellRef
  <2>2. OfBranch(branches, b, t)
    BY <1>2 DEF OfBranch
  <2>3. threads[t].up = Here /\ threads[t].excobj = 0
    BY <2>1, <2>2, SideBlock
  <2>4. Covered(threads, t, es)
    BY <1>1, <2>3, CoveredInside
  <2>5. fr.f = "branch" /\ fr.b = b /\ fr.side = s /\ fr.save = cur_thr
    BY <1>2 DEF BranchFrame
  <2> HIDE DEF es
  <2> QED
    BY <1>1, <1>2, <2>4, <2>5 DEF FrameCovered
<1>3. ASSUME Eval("exc"), t = excs[Now.ref].body_thr, fr = ExcFrame(Now.ref)
      PROVE  Goal
  <2> DEFINE x == Now.ref
  <2>1. x \in DOMAIN excs /\ excs[x].thr = Here
    BY <1>3, NowFacts, NowHome DEF Eval, CellRef
  <2>2. OfExc(excs, x, t)
    BY <1>3 DEF OfExc
  <2>3. threads[t].up = Here /\ threads[t].excobj \in {0, x}
    BY <2>1, <2>2, ExcBlock
  <2>4. Covered(threads, Here, es \cup {x})
    BY <1>1, CoveredMore
  <2>5. Covered(threads, t, es \cup {x})
    BY <2>3, <2>4, CoveredInside
  <2>6. fr.f = "exc" /\ fr.x = x
    BY <1>3 DEF ExcFrame
  <2> HIDE DEF es
  <2> QED
    BY <1>1, <2>1, <2>5, <2>6 DEF FrameCovered
<1>4. ASSUME Eval("call"), t = methods[Now.ref], t # 0, fr = CallFrame
      PROVE  Goal
  <2>1. Now.ref \in Name
    BY <1>4, NowFacts DEF Eval, CellRef
  <2>2. threads[t].up = 0 /\ threads[t].excobj = 0
    BY <1>4, <2>1, MethodBlock
  <2>3. Covered(threads, t, es)
    BY <2>2, CoveredAlone
  <2>4. fr.f = "call" /\ fr.save = cur_thr
    BY <1>4 DEF CallFrame
  <2> HIDE DEF es
  <2> QED
    BY <1>1, <2>3, <2>4 DEF FrameCovered
<1>5. ASSUME NEW x \in {Handler, threads[cur_thr].excobj}, NEW a \in BOOLEAN,
             HasRescue(x), t = excs[x].rescue_thr, fr = ThrowFrame(a)
      PROVE  Goal
  <2>1. x \in es
    BY <1>5, HandlerFound DEF HasRescue
  <2>2. x \in DOMAIN excs /\ Covered(threads, excs[x].thr, es)
    BY <2>1, FoundCovered
  <2>3. OfExc(excs, x, t)
    BY <1>5 DEF OfExc
  <2>4. threads[t].up = excs[x].thr /\ threads[t].excobj \in {0, x}
    BY <2>2, <2>3, ExcBlock
  <2>5. Covered(threads, t, es)
    BY <2>1, <2>2, <2>4, CoveredInside
  <2>6. fr.f = "throw" /\ fr.save = cur_thr
    BY <1>5 DEF ThrowFrame
  <2> HIDE DEF es
  <2> QED
    BY <1>1, <2>5, <2>6 DEF FrameCovered
<1>6. Goal
  <2> HIDE DEF Goal, es
  <2> QED
    BY <1>2, <1>3, <1>4, <1>5 DEF Enters
<1> QED
  BY <1>6

LEMMA StepCovered ==
  ASSUME Running, Fitted(threads, branches, excs, methods), Steps,
         AllCovered(threads, branches, excs, frames, cur_thr)
  PROVE  AllCovered(threads, branches, excs, frames', cur_thr')
<1> DEFINE n == Len(frames)
           es == Bodies(frames, n)
           G == frames'
           c == cur_thr'
           Fine(fr, ds) == FrameCovered(threads, branches, excs, fr, ds)
           Goal == AllCovered(threads, branches, excs, G, c)
<1>1. /\ n \in Nat /\ frames \in Seq(Frame) /\ Covered(threads, cur_thr, es)
      /\ \A k \in 1..n : Fine(frames[k], Bodies(frames, k-1))
  BY DEF Running, AllCovered
<1>2. ASSUME NEW m \in Nat, m <= n, Below(frames, G, m)
      PROVE  /\ \A k \in 1..m : Fine(G[k], Bodies(G, k-1))
             /\ Bodies(G, m) = Bodies(frames, m)
  <2>1. m \in 0..m
    OBVIOUS
  <2> HIDE DEF es
  <2> QED
    BY <1>1, <1>2, <2>1, BelowCovered, BodiesSame
<1>3. ASSUME NEW fr \in Frame, NEW t \in DOMAIN threads,
             Ready, Enters(fr, t), G = Base \o <<fr, StackFrame(t, t)>>, c = t
      PROVE  Goal
  <2> DEFINE fs == IF fr.f = "exc" THEN es \cup {fr.x} ELSE es
  <2>1. Fine(fr, es) /\ Covered(threads, t, fs)
    BY <1>3, EntersCovered
  <2>2. /\ Len(G) = n + 2 /\ Below(frames, G, n)
        /\ G[n+1] = fr /\ G[n+2] = StackFrame(t, t)
        /\ \A k \in 1..Len(G) : k \in 1..n \/ k = n+1 \/ k = n+2
    BY <1>3, DeepFrames
  <2>3. (\A k \in 1..n : Fine(G[k], Bodies(G, k-1))) /\ Bodies(G, n) = es
    BY <1>1, <1>2, <2>2
  <2>4. StackFrame(t, t).f = "stack" /\ StackFrame(t, t).t = t
    BY DEF StackFrame
  <2>5. Bodies(G, n+1) = fs /\ Bodies(G, n+2) = fs
    <3>1. n+1 \in Nat \ {0} /\ n+2 \in Nat \ {0} /\ (n+1)-1 = n /\ (n+2)-1 = n+1
      BY <1>1
    <3> HIDE DEF n, es, G
    <3>2. Bodies(G, n+1) = fs
      <4>1. /\ G[n+1].f = "exc" => Bodies(G, n+1) = Bodies(G, (n+1)-1) \cup {G[n+1].x}
            /\ G[n+1].f # "exc" => Bodies(G, n+1) = Bodies(G, (n+1)-1)
        BY ONLY <3>1, BodiesNext
      <4>2. Bodies(G, (n+1)-1) = es /\ G[n+1] = fr
        BY <2>2, <2>3, <3>1
      <4> QED
        BY ONLY <4>1, <4>2
    <3>3. Bodies(G, n+2) = Bodies(G, n+1)
      BY <2>2, <2>4, <3>1, BodiesNext
    <3> QED
      BY <3>2, <3>3
  <2>6. Fine(StackFrame(t, t), fs)
    BY <2>1, <2>4 DEF FrameCovered
  <2>7. \A k \in 1..Len(G) : Fine(G[k], Bodies(G, k-1))
    <3>1. (n+1)-1 = n /\ (n+2)-1 = n+1
      BY <1>1
    <3> HIDE DEF n, es, G, fs, Fine
    <3> QED
      BY <2>1, <2>2, <2>3, <2>5, <2>6, <3>1
  <2> HIDE DEF n, es, G, fs
  <2> QED
    BY <1>3, <2>1, <2>2, <2>5, <2>7 DEF AllCovered
<1>4. ASSUME Gives PROVE Goal
  <2>1. Ready /\ G = Base
    BY <1>4 DEF Gives
  <2>2. Len(G) = n /\ Below(frames, G, n)
    BY <2>1, BaseFacts DEF Below
  <2>3. (\A k \in 1..n : Fine(G[k], Bodies(G, k-1))) /\ Bodies(G, n) = es
    BY <1>1, <1>2, <2>2
  <2>4. c = cur_thr \/ (Handler # 0 /\ c = excs[Handler].thr)
    BY <1>4 DEF Gives
  <2>5. Covered(threads, c, es)
    <3>1. CASE c = cur_thr
      BY <1>1, <3>1
    <3>2. CASE Handler # 0 /\ c = excs[Handler].thr
      <4>1. Handler \in es
        BY <3>2, HandlerFound
      <4> QED
        BY <3>2, <4>1, FoundCovered
    <3> QED
      BY <2>4, <3>1, <3>2
  <2> HIDE DEF n, es, G, c
  <2> QED
    BY <2>2, <2>3, <2>5 DEF AllCovered
<1>5. ASSUME Leaves PROVE Goal
  <2>1. frames # <<>> /\ G = Front(frames)
    BY <1>5 DEF Leaves
  <2>2. /\ n \in 1..n /\ n-1 \in Nat /\ n-1 <= n /\ n \in Nat \ {0} /\ Top = frames[n] /\ Len(G) = n-1
        /\ \A k \in 1..(n-1) : G[k] = frames[k]
    BY <2>1, TopFacts
  <2>3. Below(frames, G, n-1)
    BY <2>2 DEF Below, Like
  <2>4. (\A k \in 1..(n-1) : Fine(G[k], Bodies(G, k-1))) /\ Bodies(G, n-1) = Bodies(frames, n-1)
    BY <1>2, <2>2, <2>3
  <2>5. Fine(Top, Bodies(frames, n-1))
    BY <1>1, <2>2
  <2>6. Top.f # "exc" => es = Bodies(frames, n-1)
    BY <2>2, BodiesNext
  <2>7. Covered(threads, c, Bodies(frames, n-1))
    <3>1. CASE Top.f = "stack" /\ c = cur_thr
      BY <1>1, <2>6, <3>1
    <3>2. CASE Top.f = "exc" /\ c = excs[Top.x].thr
      BY <2>5, <3>2 DEF FrameCovered
    <3>3. CASE Top.f \in {"branch", "throw", "call"} /\ c = Top.save
      BY <2>5, <3>3 DEF FrameCovered
    <3> QED
      BY <1>5, <3>1, <3>2, <3>3 DEF Leaves
  <2> HIDE DEF n, es, G, c
  <2> QED
    BY <2>2, <2>4, <2>7 DEF AllCovered
<1>6. ASSUME Repeats PROVE Goal
  <2>1. frames # <<>> /\ c \in DOMAIN threads
    BY <1>6 DEF Repeats, Steps
  <2>2. PICK t \in DOMAIN threads :
          /\ G = Append(frames, StackFrame(t, c))
          /\ \/ Top.f = "branch" /\ t = branches[Top.b][Top.side] /\ c = cur_thr
             \/ Top.f = "exc" /\ t = excs[Top.x].body_thr /\ c = t
    BY <1>6 DEF Repeats
  <2>3. /\ Len(G) = n + 1 /\ \A k \in 1..n : G[k] = frames[k]
        /\ G[n+1] = StackFrame(t, c)
        /\ \A k \in 1..Len(G) : k \in 1..n \/ k = n+1
    BY <2>1, <2>2, MoreFrames
  <2>4. Below(frames, G, n) /\ n <= n
    BY <1>1, <2>3 DEF Below, Like
  <2>5. (\A k \in 1..n : Fine(G[k], Bodies(G, k-1))) /\ Bodies(G, n) = es
    BY <1>1, <1>2, <2>4
  <2>6. n \in 1..n /\ n \in Nat \ {0} /\ Top = frames[n]
    BY <2>1, TopFacts
  <2>7. Fine(Top, Bodies(frames, n-1))
    BY <1>1, <2>6
  <2>8. Covered(threads, t, es) /\ Covered(threads, c, es)
    <3>1. CASE Top.f = "branch" /\ t = branches[Top.b][Top.side] /\ c = cur_thr
      <4>1. es = Bodies(frames, n-1)
        BY <2>6, <3>1, BodiesNext
      <4> QED
        BY <1>1, <2>7, <3>1, <4>1 DEF FrameCovered
    <3>2. CASE Top.f = "exc" /\ t = excs[Top.x].body_thr /\ c = t
      <4> DEFINE x == Top.x
      <4>1. es = Bodies(frames, n-1) \cup {x}
        BY <2>6, <3>2, BodiesNext
      <4>2. x \in DOMAIN excs
        BY <2>1, <3>2, TopFacts DEF FrameIn
      <4>3. OfExc(excs, x, t)
        BY <3>2 DEF OfExc
      <4>4. threads[t].up = excs[x].thr /\ threads[t].excobj \in {0, x}
        BY <4>2, <4>3, ExcBlock
      <4>5. Covered(threads, excs[x].thr, Bodies(frames, n-1))
        BY <2>7, <3>2 DEF FrameCovered
      <4>6. Covered(threads, excs[x].thr, es)
        BY <4>1, <4>5, CoveredMore
      <4>7. Covered(threads, t, es)
        BY <4>1, <4>4, <4>6, CoveredInside
      <4> QED
        BY <3>2, <4>7
    <3> QED
      BY <2>2, <3>1, <3>2
  <2>9. StackFrame(t, c).f = "stack" /\ StackFrame(t, c).t = t
    BY DEF StackFrame
  <2>10. Fine(StackFrame(t, c), es)
    BY <2>8, <2>9 DEF FrameCovered
  <2>11. n+1 \in Nat \ {0} /\ (n+1)-1 = n
    BY <1>1
  <2> HIDE DEF n, es, G, c
  <2>12. Bodies(G, n+1) = es
    BY <2>3, <2>5, <2>9, <2>11, BodiesNext
  <2>13. \A k \in 1..Len(G) : Fine(G[k], Bodies(G, k-1))
    <3> HIDE DEF Fine
    <3> QED
      BY <2>3, <2>5, <2>10, <2>11
  <2> QED
    BY <2>3, <2>8, <2>12, <2>13 DEF AllCovered
<1>7. ASSUME GoesOn PROVE Goal
  <2>1. G = frames
    BY <1>7 DEF GoesOn
  <2>2. Covered(threads, c, es)
    BY <1>1, <1>7, CoveredOutside DEF GoesOn
  <2> QED
    BY <1>1, <2>1, <2>2 DEF AllCovered
<1>8. ASSUME Deepens PROVE Goal
  <2> HIDE DEF Goal
  <2> QED
    BY <1>3, <1>8 DEF Deepens
<1> HIDE DEF Goal
<1>9. Goal
  BY <1>4, <1>5, <1>6, <1>7, <1>8 DEF Steps, Shapes
<1> QED
  BY <1>9 DEF Goal

LEMMA StepRetries ==
  ASSUME Running, Steps, AllCovered(threads, branches, excs, frames, cur_thr),
         RetriesIn(excs, frames)
  PROVE  RetriesIn(excs', frames')
<1> DEFINE n == Len(frames)
           es == Bodies(frames, n)
           G == frames'
<1>1. n \in Nat /\ excs \in Seq(Exc) /\ DOMAIN excs' = DOMAIN excs
  BY DEF Running, World, Steps, Kept, KeptExcs
<1>2. \A x \in DOMAIN excs : excs[x].retry => x \in es
  BY DEF RetriesIn
<1>3. ASSUME es \subseteq Bodies(G, Len(G)),
             \A x \in DOMAIN excs : excs'[x].retry => excs[x].retry \/ x \in es
      PROVE  RetriesIn(excs', G)
  BY <1>1, <1>2, <1>3 DEF RetriesIn
<1>4. ASSUME NEW x \in DOMAIN excs, excs' = [excs EXCEPT ![x].retry = FALSE]
      PROVE  \A y \in DOMAIN excs : excs'[y].retry => excs[y].retry
  <2>1. ~excs'[x].retry /\ \A y \in DOMAIN excs : y # x => excs'[y] = excs[y]
    BY <1>1, <1>4, RetryCleared
  <2> QED
    BY ONLY <2>1
<1>5. ASSUME NEW m \in Nat, m <= Len(G), Len(G) \in Nat, Below(frames, G, m)
      PROVE  Bodies(frames, m) \subseteq Bodies(G, Len(G))
  <2>1. m \in 0..m
    OBVIOUS
  <2> HIDE DEF n, G
  <2> QED
    BY <1>5, <2>1, BodiesSame, BodiesMore
<1>6. CASE Deepens
  <2>1. PICK fr \in Frame, t \in DOMAIN threads :
          /\ Ready /\ FrameIn(threads, branches, excs, fr)
          /\ G = Base \o <<fr, StackFrame(t, t)>>
          /\ excs' = IF fr.f = "exc" THEN [excs EXCEPT ![fr.x].retry = FALSE] ELSE excs
    BY <1>6 DEF Deepens
  <2>2. Len(G) = n + 2 /\ Below(frames, G, n)
    BY <2>1, DeepFrames
  <2>3. es \subseteq Bodies(G, Len(G))
    BY <1>1, <1>5, <2>2
  <2>4. \A y \in DOMAIN excs : excs'[y].retry => excs[y].retry
    <3>1. CASE fr.f = "exc"
      <4>1. fr.x \in DOMAIN excs /\ excs' = [excs EXCEPT ![fr.x].retry = FALSE]
        BY <2>1, <3>1 DEF FrameIn
      <4> QED
        BY ONLY <1>4, <4>1
    <3>2. CASE fr.f # "exc"
      <4>1. excs' = excs
        BY <2>1, <3>2
      <4> QED
        BY ONLY <4>1
    <3> QED
      BY <3>1, <3>2
  <2> QED
    BY ONLY <1>3, <2>3, <2>4
<1>7. CASE Gives
  <2>1. Ready /\ G = Base
    BY <1>7 DEF Gives
  <2>2. Len(G) = n /\ Below(frames, G, n)
    BY <2>1, BaseFacts DEF Below
  <2>3. es \subseteq Bodies(G, Len(G))
    BY <1>1, <1>5, <2>2
  <2>4. excs' = excs \/ (Handler # 0 /\ excs' = [excs EXCEPT ![Handler].retry = TRUE])
    BY <1>7 DEF Gives
  <2>5. \A y \in DOMAIN excs : excs'[y].retry => excs[y].retry \/ y \in es
    <3>1. CASE excs' = excs
      BY ONLY <3>1
    <3>2. CASE Handler # 0 /\ excs' = [excs EXCEPT ![Handler].retry = TRUE]
      <4>1. Handler \in DOMAIN excs /\ Handler \in es
        BY <3>2, RunningFacts, HandlerFound
      <4>2. \A y \in DOMAIN excs : y # Handler => excs'[y] = excs[y]
        BY ONLY <1>1, <3>2, <4>1, RetrySet
      <4> QED
        BY ONLY <4>1, <4>2
    <3> QED
      BY <2>4, <3>1, <3>2
  <2> QED
    BY ONLY <1>3, <2>3, <2>5
<1>8. CASE Leaves
  <2>1. frames # <<>> /\ G = Front(frames) /\ excs' = excs
        /\ (Top.f = "exc" => ~excs[Top.x].retry)
    BY <1>8 DEF Leaves
  <2>2. /\ n-1 \in Nat /\ n \in Nat \ {0} /\ Top = frames[n] /\ Len(G) = n-1
        /\ \A k \in 1..(n-1) : G[k] = frames[k]
    BY <2>1, TopFacts
  <2>3. Below(frames, G, n-1)
    BY <2>2 DEF Below, Like
  <2>4. Bodies(frames, n-1) \subseteq Bodies(G, Len(G))
    BY <1>5, <2>2, <2>3
  <2>5. \A x \in es : x \in Bodies(frames, n-1) \/ (Top.f = "exc" /\ x = Top.x)
    BY <2>2, BodiesNext
  <2>6. \A x \in DOMAIN excs : excs[x].retry => x \in Bodies(frames, n-1)
    BY ONLY <1>2, <2>1, <2>5
  <2>7. RetriesIn(excs, G)
    BY ONLY <2>4, <2>6 DEF RetriesIn
  <2> QED
    BY ONLY <2>1, <2>7
<1>9. CASE Repeats
  <2>1. frames # <<>> /\ cur_thr' \in DOMAIN threads
    BY <1>9 DEF Repeats, Steps
  <2>2. PICK t \in DOMAIN threads :
          /\ G = Append(frames, StackFrame(t, cur_thr'))
          /\ \/ excs' = excs
             \/ Top.f = "exc" /\ excs' = [excs EXCEPT ![Top.x].retry = FALSE]
    BY <1>9 DEF Repeats
  <2>3. Len(G) = n + 1 /\ \A k \in 1..n : G[k] = frames[k]
    BY <2>1, <2>2, MoreFrames
  <2>4. Below(frames, G, n)
    BY <2>3 DEF Below, Like
  <2>5. es \subseteq Bodies(G, Len(G))
    BY <1>1, <1>5, <2>3, <2>4
  <2>6. \A y \in DOMAIN excs : excs'[y].retry => excs[y].retry
    <3>1. CASE excs' = excs
      BY ONLY <3>1
    <3>2. CASE Top.f = "exc" /\ excs' = [excs EXCEPT ![Top.x].retry = FALSE]
      <4>1. Top.x \in DOMAIN excs
        BY <2>1, <3>2, TopFacts DEF FrameIn
      <4> QED
        BY ONLY <1>4, <3>2, <4>1
    <3> QED
      BY <2>2, <3>1, <3>2
  <2> QED
    BY ONLY <1>3, <2>5, <2>6
<1>10. CASE GoesOn
  <2>1. G = frames /\ excs' = excs
    BY <1>10 DEF GoesOn
  <2> QED
    BY ONLY <2>1, RetriesIn(excs, frames)
<1> QED
  BY <1>6, <1>7, <1>8, <1>9, <1>10 DEF Steps, Shapes

LEMMA RInvInit == Init => RInv
BY DEF Init, ParseInit, RInv

LEMMA RInvNext == EInv /\ RInv /\ [Next]_vars => RInv'
<1> SUFFICES ASSUME EInv, RInv, [Next]_vars, phase' = "eval", WellFormed(script)'
             PROVE  AllCovered(threads, branches, excs, frames, cur_thr)' /\ RetriesIn(excs, frames)'
  BY DEF RInv
<1>1. CASE UNCHANGED vars
  <2>1. UNCHANGED <<threads, branches, excs, cur_thr, frames, phase, script>>
    BY <1>1 DEF vars, pvars, heap
  <2> QED
    BY <2>1 DEF RInv
<1>2. CASE Parsing /\ Parse /\ frames = <<>> /\ rv = "none" /\ UNCHANGED <<frames, rv, freed, why, brk>>
  <2>1. parse_eof
    BY <1>2, ParsePhase
  <2>2. /\ Running' /\ Calm(excs)' /\ Fitted(threads, branches, excs, methods)' /\ cur_thr' = 1
    BY <1>2, <2>1, Handover
  <2>3. Len(frames') = 0 /\ frames' = <<>>
    BY <1>2
  <2>4. 1 \in DOMAIN threads' /\ threads'[1].up = 0
    BY <2>2 DEF Running, World, Fitted
  <2>5. threads'[1].excobj = 0
    <3>1. /\ Block(threads', branches', excs', 1) /\ excs' \in Seq(Exc)
          /\ threads'[1].excobj # 0 => OfExc(excs', threads'[1].excobj, 1)
          /\ threads'[1].excobj \in 0..Len(excs')
          /\ \A x \in DOMAIN excs' : excs'[x].thr \in 1..Len(threads')
      BY <2>2, <2>4 DEF Fitted, Fits, Running, World, Refers
    <3>2. threads'[1].excobj # 0 => threads'[1].excobj \in DOMAIN excs'
      BY <3>1
    <3>3. threads'[1].excobj # 0 => 0 \in 1..Len(threads')
      BY <2>4, <3>1, <3>2 DEF Block, Inside
    <3> QED
      BY <3>3
  <2>6. Covered(threads', 1, Bodies(frames', 0))
    BY <2>4, <2>5, CoveredAlone
  <2>7. AllCovered(threads, branches, excs, frames, cur_thr)'
    BY <2>2, <2>3, <2>6 DEF AllCovered
  <2>8. RetriesIn(excs, frames)'
    BY <2>2 DEF RetriesIn, Calm
  <2> QED
    BY <2>7, <2>8
<1>3. CASE phase = "eval" /\ Running /\ EvalNext /\ Steps /\ UNCHANGED script
  <2>1. /\ Fitted(threads, branches, excs, methods)
        /\ AllCovered(threads, branches, excs, frames, cur_thr) /\ RetriesIn(excs, frames)
    BY <1>3 DEF EInv, RInv
  <2>2. AllCovered(threads, branches, excs, frames', cur_thr') /\ RetriesIn(excs', frames')
    BY <1>3, <2>1, StepCovered, StepRetries
  <2>3. Kept(threads, threads', excs, excs') /\ branches' = branches /\ Running'
    BY <1>3, RunningKept DEF Steps
  <2>4. \A k \in 1..Len(frames') : frames'[k].f = "exc" => frames'[k].x \in DOMAIN excs
    BY <2>3 DEF Running, FrameIn, Kept, KeptExcs
  <2>5. AllCovered(threads', branches, excs', frames', cur_thr')
    BY <2>2, <2>3, <2>4, AllCoveredKept
  <2> QED
    BY <2>2, <2>3, <2>5
<1> QED
  BY <1>1, <1>2, <1>3, StepIs

\* Whatever a well-formed script nests, a retry is noted only for a begin
\* block whose body is being evaluated, further up the C stack: the do loop
\* that looks for it is there (exception.c:64, eval.c:296).
THEOREM RetriesReachTheirLoop == Spec => []RetryReachesItsLoop
<1>1. EInv /\ RInv => RetryReachesItsLoop
  <2> SUFFICES ASSUME EInv, RInv, WellFormed(script), NEW x \in DOMAIN excs,
                      phase = "eval", excs[x].retry
               PROVE  \E k \in DOMAIN frames : frames[k] = ExcFrame(x)
    BY DEF RetryReachesItsLoop
  <2>1. x \in Bodies(frames, Len(frames))
    BY DEF RInv, RetriesIn
  <2>2. frames \in Seq(Frame) /\ Len(frames) \in Nat
    BY DEF EInv, Running
  <2>3. PICK k \in 1..Len(frames) : frames[k].f = "exc" /\ frames[k].x = x
    BY <2>1, <2>2, BodiesAre
  <2>4. frames[k] \in Frame /\ k \in DOMAIN frames
    BY <2>2
  <2>5. frames[k] \in [f : {"exc"}, x : Nat]
    BY <2>3, <2>4 DEF Frame
  <2>6. frames[k] = ExcFrame(x)
    BY <2>3, <2>5 DEF ExcFrame
  <2> QED
    BY <2>4, <2>6
<1> QED
  BY <1>1, EInvInit, EInvNext, RInvInit, RInvNext, PTL DEF Spec

-----------------------------------------------------------------------------
(* cur_thr: where every begin has a rescue, every other frame is of         *)
(* eval_stack, and what it runs is cur_thr when it is on top                *)

AtRest(F, k) == k = 0 \/ F[k].f = "stack"

\* The block of the frame that the one above comes back to.
Runner(F, k) == IF k = 0 THEN 1 ELSE F[k].t

\* The block above frame k, up to c.
Over(F, c, k) == IF k = Len(F) THEN c ELSE F[k+1].t

InOrder(B, X, F, c, k) ==
  /\ (F[k].f = "stack") <=> ~AtRest(F, k-1)
  /\ F[k].f \in {"branch", "throw", "call"} => F[k].save = Runner(F, k-1)
  /\ F[k].f = "exc" => X[F[k].x].thr = Runner(F, k-1)
  /\ F[k].f = "branch" => Over(F, c, k) = B[F[k].b][F[k].side]

Ordered(B, X, F, c) ==
  /\ \A k \in 1..Len(F) : InOrder(B, X, F, c, k)
  /\ AtRest(F, Len(F)) => c = Runner(F, Len(F))

WInv == (phase = "eval" /\ WellFormed(script) /\ AllRescued) =>
          Ordered(branches, excs, frames, cur_thr)

\* What the order of a frame depends on.
LEMMA OrderKept ==
  ASSUME NEW B, NEW X, NEW F, NEW G, NEW c, NEW d, NEW k \in Nat \ {0},
         k <= Len(F), k <= Len(G), Len(F) \in Nat, Len(G) \in Nat,
         k > 1 => Like(F[k-1], G[k-1]), Like(F[k], G[k]),
         F[k].f = "branch" => Over(G, d, k) = Over(F, c, k),
         InOrder(B, X, F, c, k)
  PROVE  InOrder(B, X, G, d, k)
<1>1. AtRest(F, k-1) <=> AtRest(G, k-1)
  <2>1. CASE k = 1
    BY <2>1 DEF AtRest
  <2>2. CASE k > 1
    BY <2>2 DEF AtRest, Like
  <2> QED
    BY <2>1, <2>2
<1>2. AtRest(F, k-1) => Runner(G, k-1) = Runner(F, k-1)
  <2>1. CASE k = 1
    BY <2>1 DEF Runner
  <2>2. CASE k > 1
    BY <2>2 DEF AtRest, Runner, Like
  <2> QED
    BY <2>1, <2>2
<1>3. CASE F[k].f = "stack"
  <2>1. G[k].f = "stack"
    BY <1>3 DEF Like
  <2> QED
    BY <1>1, <1>3, <2>1 DEF InOrder
<1>4. CASE F[k].f # "stack"
  <2>1. G[k] = F[k] /\ AtRest(F, k-1)
    BY <1>4 DEF Like, InOrder
  <2> QED
    BY <1>1, <1>2, <1>4, <2>1 DEF InOrder
<1> QED
  BY <1>3, <1>4

UpToInOrder(B, X, F, c, n) == \A k \in 1..n : InOrder(B, X, F, c, k)

LEMMA OrderBelow ==
  ASSUME NEW B, NEW X, NEW F, NEW G, NEW c, NEW d, NEW n \in Nat,
         n <= Len(F), n <= Len(G), Len(F) \in Nat, Len(G) \in Nat, Below(F, G, n),
         (n # 0 /\ F[n].f = "branch") => Over(G, d, n) = Over(F, c, n),
         UpToInOrder(B, X, F, c, Len(F))
  PROVE  /\ UpToInOrder(B, X, G, d, n)
         /\ AtRest(G, n) <=> AtRest(F, n)
         /\ AtRest(F, n) => Runner(G, n) = Runner(F, n)
<1>1. ASSUME NEW k \in 1..n PROVE InOrder(B, X, G, d, k)
  <2>1. /\ k \in Nat \ {0} /\ k \in 1..Len(F) /\ k <= Len(F) /\ k <= Len(G) /\ Like(F[k], G[k])
        /\ k > 1 => k-1 \in 1..n
    BY DEF Below
  <2>2. k > 1 => Like(F[k-1], G[k-1])
    BY <2>1 DEF Below
  <2>3. ASSUME F[k].f = "branch" PROVE Over(G, d, k) = Over(F, c, k)
    <3>1. CASE k = n
      BY <2>1, <2>3, <3>1
    <3>2. CASE k < n
      <4>1. k+1 \in 1..Len(F) /\ k+1 \in 1..n /\ (k+1)-1 = k /\ k # Len(F) /\ k # Len(G)
        BY <2>1, <3>2
      <4>2. ~AtRest(F, k)
        BY <2>1, <2>3 DEF AtRest
      <4>3. F[k+1].f = "stack"
        BY <4>1, <4>2 DEF InOrder, UpToInOrder
      <4>4. G[k+1].t = F[k+1].t
        BY <4>1, <4>3 DEF Below, Like
      <4> QED
        BY <4>1, <4>4 DEF Over
    <3> QED
      BY <2>1, <3>1, <3>2
  <2>4. InOrder(B, X, F, c, k)
    BY <2>1 DEF UpToInOrder
  <2> QED
    BY ONLY <2>1, <2>2, <2>3, <2>4, Len(F) \in Nat, Len(G) \in Nat, OrderKept
<1>2. CASE n = 0
  BY <1>1, <1>2 DEF AtRest, Runner, UpToInOrder
<1>3. CASE n # 0
  <2>1. Like(F[n], G[n])
    BY <1>3 DEF Below
  <2> QED
    BY <1>1, <1>3, <2>1 DEF AtRest, Runner, Like, UpToInOrder
<1> QED
  BY <1>2, <1>3

LEMMA OrderedKept ==
  ASSUME NEW B, NEW X, NEW Y, NEW F, NEW c, KeptExcs(X, Y), Ordered(B, X, F, c),
         \A k \in 1..Len(F) : F[k].f = "exc" => F[k].x \in DOMAIN X
  PROVE  Ordered(B, Y, F, c)
<1>1. ASSUME NEW k \in 1..Len(F) PROVE InOrder(B, Y, F, c, k)
  <2>1. InOrder(B, X, F, c, k)
    BY DEF Ordered
  <2>2. F[k].f = "exc" => Y[F[k].x].thr = X[F[k].x].thr
    BY DEF KeptExcs
  <2> QED
    BY <2>1, <2>2 DEF InOrder
<1> QED
  BY <1>1 DEF Ordered

\* What is evaluated is cur_thr when the next cell is taken.
LEMMA HereRuns ==
  ASSUME Running, Ready, Ordered(branches, excs, frames, cur_thr)
  PROVE  /\ AtRest(frames, Len(frames)) /\ cur_thr = Runner(frames, Len(frames))
         /\ Here = cur_thr
<1>1. CASE InMain
  <2>1. Len(frames) = 0
    BY <1>1 DEF InMain
  <2> QED
    BY <1>1, <2>1 DEF Here, AtRest, Ordered
<1>2. CASE ~InMain
  <2>1. frames # <<>> /\ Top.f = "stack"
    BY <1>2, HereFacts
  <2>2. Len(frames) \in Nat /\ Len(frames) \in 1..Len(frames) /\ Top = frames[Len(frames)]
    BY <2>1, TopFacts
  <2>3. AtRest(frames, Len(frames)) /\ Runner(frames, Len(frames)) = Top.t
    BY <2>1, <2>2 DEF AtRest, Runner
  <2> QED
    BY <1>2, <2>3 DEF Here, Ordered
<1> QED
  BY <1>1, <1>2

\* A frame comes back to what is evaluated.
LEMMA EntersInOrder ==
  ASSUME Running, Fitted(threads, branches, excs, methods), Ready, Here = cur_thr,
         NEW fr, NEW t, Enters(fr, t)
  PROVE  /\ fr.f # "stack"
         /\ fr.f \in {"branch", "throw", "call"} => fr.save = cur_thr
         /\ fr.f = "exc" => excs[fr.x].thr = cur_thr
         /\ fr.f = "branch" => t = branches[fr.b][fr.side]
<1>1. CASE Eval("branch") /\ \E s \in {"cond_true", "cond_false"} :
             t = branches[Now.ref][s] /\ fr = BranchFrame(Now.ref, s)
  BY <1>1 DEF BranchFrame
<1>2. CASE Eval("exc") /\ fr = ExcFrame(Now.ref)
  <2>1. excs[Now.ref].thr = Here
    BY <1>2, NowHome DEF Eval
  <2> QED
    BY <1>2, <2>1 DEF ExcFrame
<1>3. CASE fr = CallFrame
  BY <1>3 DEF CallFrame
<1>4. CASE \E a \in BOOLEAN : fr = ThrowFrame(a)
  BY <1>4 DEF ThrowFrame
<1> QED
  BY <1>1, <1>2, <1>3, <1>4 DEF Enters

LEMMA StepOrdered ==
  ASSUME Running, Fitted(threads, branches, excs, methods), AllRescued, Steps,
         Ordered(branches, excs, frames, cur_thr)
  PROVE  Ordered(branches, excs, frames', cur_thr')
<1> DEFINE n == Len(frames)
           B == branches
           X == excs
           c == cur_thr
           G == frames'
           d == cur_thr'
           In(k) == InOrder(B, X, G, d, k)
           Goal == Ordered(B, X, G, d)
<1>1. /\ n \in Nat /\ frames \in Seq(Frame) /\ \A k \in 1..n : InOrder(B, X, frames, c, k)
      /\ AtRest(frames, n) => c = Runner(frames, n)
  BY DEF Running, Ordered
<1>2. ASSUME NEW m \in Nat, m <= n, m <= Len(G), Len(G) \in Nat, Below(frames, G, m),
             (m # 0 /\ frames[m].f = "branch") => Over(G, d, m) = Over(frames, c, m)
      PROVE  /\ \A k \in 1..m : In(k)
             /\ AtRest(G, m) <=> AtRest(frames, m)
             /\ AtRest(frames, m) => Runner(G, m) = Runner(frames, m)
  <2>1. m <= Len(frames) /\ Len(frames) \in Nat
        /\ UpToInOrder(B, X, frames, c, Len(frames))
    BY <1>1, <1>2 DEF UpToInOrder
  <2> HIDE DEF n, G, B, X, c, d
  <2>2. /\ UpToInOrder(B, X, G, d, m)
        /\ AtRest(G, m) <=> AtRest(frames, m)
        /\ AtRest(frames, m) => Runner(G, m) = Runner(frames, m)
    BY ONLY <1>2, <2>1, m \in Nat, OrderBelow
  <2> QED
    BY <2>2 DEF UpToInOrder
<1>3. ASSUME Deepens PROVE Goal
  <2>1. PICK fr \in Frame, t \in DOMAIN threads :
          Ready /\ Enters(fr, t) /\ G = Base \o <<fr, StackFrame(t, t)>> /\ d = t
    BY <1>3 DEF Deepens
  <2>2. AtRest(frames, n) /\ c = Runner(frames, n) /\ Here = c
    BY <2>1, HereRuns
  <2>3. /\ fr.f # "stack"
        /\ fr.f \in {"branch", "throw", "call"} => fr.save = c
        /\ fr.f = "exc" => X[fr.x].thr = c
        /\ fr.f = "branch" => t = B[fr.b][fr.side]
    BY <2>1, <2>2, EntersInOrder
  <2>4. /\ Len(G) = n + 2 /\ Below(frames, G, n)
        /\ G[n+1] = fr /\ G[n+2] = StackFrame(t, t)
        /\ \A k \in 1..Len(G) : k \in 1..n \/ k = n+1 \/ k = n+2
    BY <2>1, DeepFrames
  <2>5. /\ \A k \in 1..n : In(k)
        /\ AtRest(G, n) /\ Runner(G, n) = c
    <3>1. ~(n # 0 /\ frames[n].f = "branch")
      BY <2>2 DEF AtRest
    <3> QED
      BY <1>1, <1>2, <2>2, <2>4, <3>1
  <2>6. StackFrame(t, t).f = "stack" /\ StackFrame(t, t).t = t
    BY DEF StackFrame
  <2>7. /\ (n+1)-1 = n /\ (n+2)-1 = n+1 /\ n+1 # Len(G) /\ n+1 # 0 /\ (n+1)+1 = n+2 /\ n+2 # 0
    BY <1>1, <2>4
  <2> HIDE DEF n, G, B, X, c, d
  <2>8. In(n+1)
    <3>1. Over(G, d, n+1) = t
      BY <2>4, <2>6, <2>7 DEF Over
    <3> QED
      BY <2>3, <2>4, <2>5, <2>7, <3>1 DEF InOrder
  <2>9. In(n+2)
    BY <2>3, <2>4, <2>6, <2>7 DEF InOrder, AtRest
  <2>10. d = Runner(G, Len(G))
    BY <2>1, <2>4, <2>6, <2>7 DEF Runner
  <2>11. \A k \in 1..Len(G) : In(k)
    <3> HIDE DEF In
    <3> QED
      BY <2>4, <2>5, <2>8, <2>9
  <2> QED
    BY <2>10, <2>11 DEF Ordered
<1>4. ASSUME Gives PROVE Goal
  <2>1. Ready /\ G = Base
    BY <1>4 DEF Gives
  <2>2. d = c
    <3>1. Handler # 0 => HasRescue(Handler)
      BY RunningFacts DEF AllRescued, HasRescue
    <3> QED
      BY <1>4, <3>1 DEF Gives
  <2>3. AtRest(frames, n) /\ c = Runner(frames, n)
    BY <2>1, HereRuns
  <2>4. Len(G) = n /\ Below(frames, G, n)
    BY <2>1, BaseFacts DEF Below
  <2>5. (\A k \in 1..n : In(k)) /\ Runner(G, n) = c
    <3>1. ~(n # 0 /\ frames[n].f = "branch")
      BY <2>3 DEF AtRest
    <3> QED
      BY <1>1, <1>2, <2>3, <2>4, <3>1
  <2> HIDE DEF n, G, B, X, c, d
  <2> QED
    BY <2>2, <2>4, <2>5 DEF Ordered
<1>5. ASSUME Leaves PROVE Goal
  <2>1. frames # <<>> /\ G = Front(frames)
    BY <1>5 DEF Leaves
  <2>2. /\ n \in 1..n /\ n-1 \in Nat /\ n-1 <= n /\ n \in Nat \ {0} /\ Top = frames[n] /\ Len(G) = n-1
        /\ \A k \in 1..(n-1) : G[k] = frames[k]
    BY <2>1, TopFacts
  <2>3. Below(frames, G, n-1)
    BY <2>2 DEF Below, Like
  <2>4. InOrder(B, X, frames, c, n)
    BY <1>1, <2>2
  <2>5. /\ Top.f = "stack" => d = c /\ ~AtRest(frames, n-1) /\ c = Top.t
        /\ Top.f # "stack" => AtRest(frames, n-1) /\ d = Runner(frames, n-1)
    <3>1. Top.f = "stack" => c = Top.t
      BY <1>1, <2>2 DEF AtRest, Runner
    <3>2. Top.f # "stack" => d = Runner(frames, n-1)
      BY <1>5, <2>2, <2>4 DEF Leaves, InOrder
    <3>3. Top.f = "stack" => d = c
      BY <1>5 DEF Leaves
    <3> QED
      BY <2>2, <2>4, <3>1, <3>2, <3>3 DEF InOrder
  <2>6. (n-1 # 0 /\ frames[n-1].f = "branch") => Over(G, d, n-1) = Over(frames, c, n-1)
    <3> SUFFICES ASSUME n-1 # 0, frames[n-1].f = "branch"
                 PROVE  Over(G, d, n-1) = Over(frames, c, n-1)
      OBVIOUS
    <3>1. ~AtRest(frames, n-1)
      BY <2>2 DEF AtRest
    <3>2. d = frames[n].t
      BY <2>2, <2>5, <3>1
    <3>3. Over(G, d, n-1) = d
      BY <2>2 DEF Over
    <3>4. n-1 # n /\ (n-1)+1 = n
      BY <2>2
    <3>5. Over(frames, c, n-1) = frames[n].t
      <4>1. n = Len(frames) /\ n \in Nat
        BY <1>1
      <4> HIDE DEF n, G, B, X, c, d
      <4>2. (n-1)+1 = n /\ n-1 # Len(frames)
        BY ONLY <4>1
      <4>3. frames[(n-1)+1] = frames[n]
        BY ONLY <4>2
      <4> QED
        BY ONLY <4>2, <4>3 DEF Over
    <3> QED
      BY <3>2, <3>3, <3>5
  <2>7. /\ \A k \in 1..(n-1) : In(k)
        /\ AtRest(G, n-1) <=> AtRest(frames, n-1)
        /\ AtRest(frames, n-1) => Runner(G, n-1) = Runner(frames, n-1)
    BY <1>2, <2>2, <2>3, <2>6
  <2> HIDE DEF n, G, B, X, c, d
  <2> QED
    BY <2>2, <2>5, <2>7 DEF Ordered
<1>6. ASSUME Repeats PROVE Goal
  <2>1. frames # <<>> /\ d \in DOMAIN threads
    BY <1>6 DEF Repeats, Steps
  <2>2. PICK t \in DOMAIN threads :
          /\ G = Append(frames, StackFrame(t, d))
          /\ \/ Top.f = "branch" /\ t = branches[Top.b][Top.side] /\ d = c
             \/ Top.f = "exc" /\ d = t
    BY <1>6 DEF Repeats
  <2>3. /\ Len(G) = n + 1 /\ \A k \in 1..n : G[k] = frames[k]
        /\ G[n+1] = StackFrame(t, d)
        /\ \A k \in 1..Len(G) : k \in 1..n \/ k = n+1
    BY <2>1, <2>2, MoreFrames
  <2>4. Below(frames, G, n)
    BY <2>3 DEF Below, Like
  <2>5. n \in 1..n /\ n \in Nat \ {0} /\ Top = frames[n] /\ InOrder(B, X, frames, c, n)
    <3>1. n \in 1..n /\ n \in Nat \ {0} /\ Top = frames[n]
      BY <2>1, TopFacts
    <3> QED
      BY <1>1, <3>1
  <2>6. StackFrame(t, d).f = "stack" /\ StackFrame(t, d).t = t
    BY DEF StackFrame
  <2>7. (n+1)-1 = n /\ n # Len(G) /\ n+1 # 0 /\ n+1 = Len(G)
    BY <1>1, <2>3
  <2>8. frames[n].f = "branch" => Over(frames, c, n) = t /\ d = t
    BY <2>2, <2>5 DEF InOrder, Over
  <2>9. d = t
    BY <2>2, <2>5, <2>8
  <2>10. Over(G, d, n) = t
    <3> HIDE DEF n, G, B, X, c, d
    <3> QED
      BY <2>3, <2>6, <2>7 DEF Over
  <2>11. /\ \A k \in 1..n : In(k)
         /\ AtRest(G, n) <=> AtRest(frames, n)
    BY <1>1, <1>2, <2>3, <2>4, <2>8, <2>10
  <2>12. ~AtRest(frames, n)
    BY <2>2, <2>5 DEF AtRest
  <2> HIDE DEF n, G, B, X, c, d
  <2>13. In(n+1)
    BY <2>3, <2>6, <2>7, <2>11, <2>12 DEF InOrder
  <2>14. \A k \in 1..Len(G) : In(k)
    <3> HIDE DEF In
    <3> QED
      BY <2>3, <2>11, <2>13
  <2>15. Runner(G, Len(G)) = d
    BY <2>3, <2>6, <2>7, <2>9 DEF Runner
  <2> QED
    BY <2>14, <2>15 DEF Ordered
<1>7. ASSUME GoesOn PROVE Goal
  <2>1. G = frames
    BY <1>7 DEF GoesOn
  <2>2. d = c
    <3>1. ASSUME frames = <<>>, c = 1 PROVE threads[c].up = 0
      BY <3>1 DEF Fitted
    <3>2. frames = <<>> => c = 1
      BY <1>1 DEF AtRest, Runner
    <3> QED
      BY <1>7, <3>1, <3>2 DEF GoesOn
  <2> QED
    BY <1>1, <2>1, <2>2 DEF Ordered
<1> HIDE DEF Goal
<1>8. Goal
  BY <1>3, <1>4, <1>5, <1>6, <1>7 DEF Steps, Shapes
<1> QED
  BY <1>8 DEF Goal

LEMMA WInvInit == Init => WInv
BY DEF Init, ParseInit, WInv

LEMMA WInvNext == EInv /\ WInv /\ [Next]_vars => WInv'
<1> SUFFICES ASSUME EInv, WInv, [Next]_vars, phase' = "eval", WellFormed(script)', AllRescued'
             PROVE  Ordered(branches, excs, frames, cur_thr)'
  BY DEF WInv
<1>1. CASE UNCHANGED vars
  <2>1. UNCHANGED <<branches, excs, cur_thr, frames, phase, script>>
    BY <1>1 DEF vars, pvars, heap
  <2> QED
    BY <2>1 DEF WInv, AllRescued
<1>2. CASE Parsing /\ Parse /\ frames = <<>> /\ rv = "none" /\ UNCHANGED <<frames, rv, freed, why, brk>>
  <2>1. parse_eof
    BY <1>2, ParsePhase
  <2>2. cur_thr' = 1
    BY <1>2, <2>1, Handover
  <2>3. Len(frames') = 0 /\ frames' = <<>>
    BY <1>2
  <2> QED
    BY <2>2, <2>3 DEF Ordered, Runner
<1>3. CASE phase = "eval" /\ Running /\ EvalNext /\ Steps /\ UNCHANGED script
  <2>1. Kept(threads, threads', excs, excs') /\ branches' = branches /\ Running'
    BY <1>3, RunningKept DEF Steps
  <2>2. AllRescued
    BY <2>1 DEF AllRescued, Kept, KeptExcs
  <2>3. Fitted(threads, branches, excs, methods) /\ Ordered(branches, excs, frames, cur_thr)
    BY <1>3, <2>2 DEF EInv, WInv
  <2>4. Ordered(branches, excs, frames', cur_thr')
    BY <1>3, <2>2, <2>3, StepOrdered
  <2>5. \A k \in 1..Len(frames') : frames'[k].f = "exc" => frames'[k].x \in DOMAIN excs
    BY <2>1 DEF Running, FrameIn, Kept, KeptExcs
  <2>6. Ordered(branches, excs', frames', cur_thr')
    BY <2>1, <2>4, <2>5, OrderedKept DEF Kept
  <2> QED
    BY <2>1, <2>6
<1> QED
  BY <1>1, <1>2, <1>3, StepIs

\* Every block of a well-formed script is evaluated with cur_thr at that
\* block, however it was entered and whatever returned to it, if every begin
\* has a rescue (eval.c:204-460, exception.c:29-110).
THEOREM RunsItsOwnThread == Spec => []RunsOwnThread
<1>1. EInv /\ WInv => RunsOwnThread
  <2> SUFFICES ASSUME EInv, WInv, phase = "eval", WellFormed(script), AllRescued, rv = "none"
               PROVE  IF frames = <<>> THEN cur_thr = 1 ELSE Top.f = "stack" /\ cur_thr = Top.t
    BY DEF RunsOwnThread
  <2>1. Running /\ Ready
    BY DEF EInv, Ready
  <2>2. cur_thr = Runner(frames, Len(frames))
    BY <2>1, HereRuns DEF WInv
  <2>3. CASE frames = <<>>
    BY <2>2, <2>3 DEF Runner
  <2>4. CASE frames # <<>>
    <3>1. Len(frames) \in Nat /\ Len(frames) \in 1..Len(frames) /\ Top = frames[Len(frames)]
      BY <2>1, <2>4, TopFacts
    <3>2. Top.f = "stack"
      BY <2>1, <2>4 DEF Running
    <3> QED
      BY <2>2, <2>4, <3>1, <3>2 DEF Runner
  <2> QED
    BY <2>3, <2>4
<1> QED
  BY <1>1, EInvInit, EInvNext, WInvInit, WInvNext, PTL DEF Spec

-----------------------------------------------------------------------------
(* What the sweeps free: no begin block of the program itself               *)

\* The program is no method.
MInv == phase \in {"parse", "eval"} => threads[1].callsym = NoName

LEMMA MInvInit == Init => MInv
BY DEF Init, ParseInit, HeapInit, MInv

LEMMA ProgramParsed ==
  ASSUME Parsing, Parse, phase' \in {"parse", "eval"}, threads[1].callsym = NoName
  PROVE  threads'[1].callsym = NoName
<1>1. PInv /\ Typed /\ phase = "parse" /\ 1 \in 1..Len(threads)
  <2>1. PInv /\ Typed /\ phase = "parse" /\ Chain(threads, Written)
    BY ParsingFacts DEF Parsing, PInv
  <2>2. 1 \in DOMAIN threads
    <3>1. 1 \in DOMAIN Written
      BY <2>1 DEF Chain
    <3> QED
      BY <2>1, <3>1 DEF Chain
  <2> QED
    BY <2>1, <2>2, ParsingFacts
<1>2. CASE parse_stmt \/ parse_eof
  BY <1>1, <1>2, StmtEffect
<1>3. CASE parse_begin
  BY <1>1, <1>3, BeginEffect
<1>4. CASE parse_rescue
  <2>1. phase' # "crash"
    OBVIOUS
  <2> QED
    BY <1>1, <1>4, <2>1, RescueEffect
<1>5. CASE parse_if
  BY <1>1, <1>5, IfEffect
<1>6. CASE parse_else
  <2>1. Cur.branch # 0 /\ threads' = Append(threads, NewSide)
        /\ branches' = WithSide(Cur.branch, Len(threads) + 1)
    BY <1>6 DEF parse_else, Stop
  <2> QED
    BY <1>1, <2>1, ElseEffect
<1>7. CASE parse_define
  BY <1>1, <1>7, DefineEffect
<1>8. CASE parse_end
  <2>1. end_vector # <<>> /\ (end_if \/ end_begin \/ end_define)
    BY <1>8 DEF parse_end, Stop
  <2>2. CASE end_if
    BY <2>2 DEF end_if
  <2>3. CASE end_begin
    BY <1>1, <2>1, <2>3, BeginEndEffect
  <2>4. CASE end_define
    BY <1>1, <2>4, DefineEndEffect
  <2> QED
    BY <2>1, <2>2, <2>3, <2>4
<1> QED
  BY <1>2, <1>3, <1>4, <1>5, <1>6, <1>7, <1>8 DEF Parse

LEMMA MInvNext == EInv /\ MInv /\ [Next]_vars => MInv'
<1> SUFFICES ASSUME EInv, MInv, [Next]_vars, phase' \in {"parse", "eval"}
             PROVE  threads'[1].callsym = NoName
  BY DEF MInv
<1>1. CASE UNCHANGED vars
  BY <1>1 DEF vars, pvars, heap, MInv
<1>2. CASE Parsing /\ Parse
  BY <1>2, ProgramParsed DEF Parsing, MInv
<1>3. CASE phase = "eval" /\ Running /\ Steps
  <2>1. 1 \in DOMAIN threads
    BY <1>3 DEF Running, World
  <2> QED
    BY <1>3, <2>1 DEF MInv, Steps, Kept, KeptThreads
<1> QED
  BY <1>1, <1>2, <1>3, StepIs

\* No frame is of the program's own block, which main() runs.
InnerFrame(B, fr) == /\ fr.f = "stack" => fr.t # 1
                     /\ fr.f = "branch" => B[fr.b][fr.side] # 1
AllInner(B, F) == \A k \in 1..Len(F) : InnerFrame(B, F[k])

LEMMA BodiesInner ==
  ASSUME Running, Fitted(threads, branches, excs, methods), NEW x \in DOMAIN excs
  PROVE  excs[x].body_thr # 1 /\ excs[x].rescue_thr # 1
<1>1. ASSUME NEW t \in DOMAIN threads, OfExc(excs, x, t) PROVE t # 1
  <2>1. Inside(threads, t, excs[x].thr)
    BY <1>1 DEF Fitted, Fits, Block
  <2>2. threads[t].up # 0
    BY <2>1, RunningFacts DEF Inside
  <2> QED
    BY <2>2 DEF Fitted
<1>2. 1 \in DOMAIN threads
  BY DEF Running, World
<1> QED
  BY <1>1, <1>2 DEF OfExc

LEMMA EntersInner ==
  ASSUME Running, Fitted(threads, branches, excs, methods), threads[1].callsym = NoName, Ready,
         NEW fr, NEW t \in DOMAIN threads, Enters(fr, t)
  PROVE  t # 1 /\ InnerFrame(branches, fr)
<1>1. CASE Eval("branch") /\ \E s \in {"cond_true", "cond_false"} :
             t = branches[Now.ref][s] /\ fr = BranchFrame(Now.ref, s)
  <2>1. /\ threads[branches[Now.ref].cond_true].up = Here /\ Now.ref \in DOMAIN branches
        /\ Here # 0
    BY <1>1, NowHome, NowFacts, RunningFacts DEF Eval, CellRef
  <2>2. OfBranch(branches, Now.ref, t)
    BY <1>1 DEF OfBranch
  <2>3. threads[t].up # 0
    BY <2>1, <2>2 DEF Fitted, Fits, Block, Inside
  <2>4. t # 1
    BY <2>3 DEF Fitted
  <2> QED
    BY <1>1, <2>4 DEF InnerFrame, BranchFrame
<1>2. CASE Eval("exc") /\ t = excs[Now.ref].body_thr /\ fr = ExcFrame(Now.ref)
  <2>1. Now.ref \in DOMAIN excs
    BY <1>2, NowFacts DEF Eval, CellRef
  <2> QED
    BY <1>2, <2>1, BodiesInner DEF InnerFrame, ExcFrame
<1>3. CASE Eval("call") /\ t = methods[Now.ref] /\ t # 0 /\ fr = CallFrame
  <2>1. Now.ref \in Name
    BY <1>3, NowFacts DEF Eval, CellRef
  <2>2. threads[t].callsym # NoName
    BY <1>3, <2>1 DEF Fitted, Fits, IsMethod
  <2> QED
    BY <1>3, <2>2 DEF InnerFrame, CallFrame
<1>4. CASE \E x \in {Handler, threads[cur_thr].excobj}, a \in BOOLEAN :
             HasRescue(x) /\ t = excs[x].rescue_thr /\ fr = ThrowFrame(a)
  <2>1. PICK x \in {Handler, threads[cur_thr].excobj}, a \in BOOLEAN :
          HasRescue(x) /\ t = excs[x].rescue_thr /\ fr = ThrowFrame(a)
    BY <1>4
  <2>2. x \in DOMAIN excs
    BY <2>1, RunningFacts DEF HasRescue
  <2> QED
    BY <2>1, <2>2, BodiesInner DEF InnerFrame, ThrowFrame
<1> QED
  BY <1>1, <1>2, <1>3, <1>4 DEF Enters

LEMMA StepInner ==
  ASSUME Running, Fitted(threads, branches, excs, methods), threads[1].callsym = NoName, Steps,
         AllInner(branches, frames)
  PROVE  AllInner(branches, frames')
<1>1. ASSUME Deepens PROVE AllInner(branches, frames')
  <2>1. PICK fr \in Frame, t \in DOMAIN threads :
          Ready /\ Enters(fr, t) /\ frames' = Base \o <<fr, StackFrame(t, t)>>
    BY <1>1 DEF Deepens
  <2>2. t # 1 /\ InnerFrame(branches, fr)
    BY <2>1, EntersInner
  <2>3. /\ Below(frames, frames', Len(frames))
        /\ frames'[Len(frames)+1] = fr /\ frames'[Len(frames)+2] = StackFrame(t, t)
        /\ \A k \in 1..Len(frames') : k \in 1..Len(frames) \/ k = Len(frames)+1 \/ k = Len(frames)+2
    BY <2>1, DeepFrames
  <2>4. InnerFrame(branches, StackFrame(t, t))
    BY <2>2 DEF InnerFrame, StackFrame
  <2>5. \A k \in 1..Len(frames) : InnerFrame(branches, frames'[k])
    BY <2>3 DEF Below, Like, AllInner, InnerFrame
  <2> QED
    BY <2>2, <2>3, <2>4, <2>5 DEF AllInner
<1>2. ASSUME Gives PROVE AllInner(branches, frames')
  <2>1. Ready /\ frames' = Base
    BY <1>2 DEF Gives
  <2> QED
    BY <2>1, BaseFacts DEF Like, AllInner, InnerFrame
<1>3. ASSUME Leaves PROVE AllInner(branches, frames')
  <2>1. frames # <<>> /\ frames' = Front(frames)
    BY <1>3 DEF Leaves
  <2> QED
    BY <2>1, TopFacts DEF AllInner
<1>4. ASSUME Repeats PROVE AllInner(branches, frames')
  <2>1. PICK t \in DOMAIN threads :
          /\ frames' = Append(frames, StackFrame(t, cur_thr'))
          /\ \/ Top.f = "branch" /\ t = branches[Top.b][Top.side]
             \/ Top.f = "exc" /\ t = excs[Top.x].body_thr
    BY <1>4 DEF Repeats
  <2>2. /\ InnerFrame(branches, Top) /\ FrameIn(threads, branches, excs, Top)
        /\ cur_thr' \in DOMAIN threads
    BY <1>4, TopFacts DEF Repeats, AllInner, Steps
  <2>3. t # 1
    BY <2>1, <2>2, BodiesInner DEF InnerFrame, FrameIn
  <2>4. InnerFrame(branches, StackFrame(t, cur_thr'))
    BY <2>3 DEF InnerFrame, StackFrame
  <2> QED
    BY <2>1, <2>2, <2>4, MoreFrames DEF AllInner
<1>5. ASSUME GoesOn PROVE AllInner(branches, frames')
  BY <1>5 DEF GoesOn
<1> QED
  BY <1>1, <1>2, <1>3, <1>4, <1>5 DEF Steps, Shapes

\* What a step frees.
LEMMA StepFrees ==
  ASSUME Running, Fitted(threads, branches, excs, methods), ~RunsGc, EvalNext,
         Ordered(branches, excs, frames, cur_thr), AllInner(branches, frames)
  PROVE  freed' = freed \/ (freed' = freed \cup Listed(cur_thr) /\ cur_thr # 1)
<1>1. ASSUME StackDone \/ StackReturn PROVE frames # <<>> /\ Top.f = "stack"
  BY <1>1 DEF StackDone, StackReturn, Returning, Running, Ready, InMain
<1>2. ASSUME frames # <<>>, Top.f = "stack" PROVE cur_thr # 1
  <2>1. Len(frames) \in 1..Len(frames) /\ Len(frames) # 0 /\ Top = frames[Len(frames)]
    BY <1>2, TopFacts
  <2> QED
    BY <1>2, <2>1 DEF Ordered, AtRest, Runner, AllInner, InnerFrame
<1>3. CASE StackDone \/ StackReturn
  BY <1>1, <1>2, <1>3 DEF StackDone, StackReturn, SweepOf
<1>4. ~gc_s_run
  <2> SUFFICES ASSUME Ready, ~AtEnd, Now.kind = "gc" PROVE FALSE
    BY DEF gc_s_run, Eval
  <2> QED
    BY NowFacts DEF RunsGc
<1>5. CASE ~(StackDone \/ StackReturn \/ gc_s_run)
  BY <1>5 DEF EvalNext, ReadFreed
<1> QED
  BY <1>3, <1>4, <1>5

FreedInner == /\ \A x \in freed : x \in DOMAIN excs /\ excs[x].thr # 1
              /\ phase = "dangling" => freed # {}

FInv == /\ phase = "parse" => freed = {}
        /\ (phase = "eval" /\ WellFormed(script)) => AllInner(branches, frames)
        /\ (phase \in {"eval", "dangling"} /\ WellFormed(script) /\ AllRescued /\ ~RunsGc)
             => FreedInner

LEMMA FInvInit == Init => FInv
BY DEF Init, ParseInit, EvalInit, FInv

LEMMA FInvNext == EInv /\ WInv /\ MInv /\ FInv /\ [Next]_vars => FInv'
<1> SUFFICES ASSUME EInv, WInv, MInv, FInv, [Next]_vars PROVE FInv'
  OBVIOUS
<1>1. CASE UNCHANGED vars
  BY <1>1 DEF vars, pvars, heap, FInv, FreedInner, AllRescued, RunsGc, AllInner
<1>2. CASE Parsing /\ Parse /\ frames = <<>> /\ UNCHANGED <<frames, freed>>
  <2>1. freed' = {} /\ Len(frames') = 0
    BY <1>2 DEF FInv, Parsing
  <2>2. phase' # "dangling"
    BY <1>2 DEF Parsing, Parse, parse_stmt, parse_begin, parse_rescue, parse_if, parse_else,
                parse_define, parse_end, parse_eof, end_if, end_begin, end_define, Stop
  <2> QED
    BY <2>1, <2>2 DEF FInv, FreedInner, AllInner
<1>3. CASE phase = "eval" /\ Running /\ EvalNext /\ Steps /\ phase' = "eval" /\ UNCHANGED script
  <2>1. Kept(threads, threads', excs, excs') /\ UNCHANGED <<branches, methods>>
    BY <1>3 DEF Steps
  <2>2. (AllRescued' <=> AllRescued) /\ (RunsGc' <=> RunsGc)
    BY <2>1 DEF AllRescued, RunsGc, Kept, KeptExcs, KeptThreads
  <2>3. ASSUME WellFormed(script)
        PROVE  /\ Fitted(threads, branches, excs, methods) /\ threads[1].callsym = NoName
               /\ AllInner(branches, frames)
    BY <1>3, <2>3 DEF EInv, MInv, FInv
  <2>4. WellFormed(script)' => AllInner(branches', frames')
    BY <1>3, <2>1, <2>3, StepInner
  <2>5. ASSUME WellFormed(script)', AllRescued', ~RunsGc' PROVE FreedInner'
    <3>1. /\ Ordered(branches, excs, frames, cur_thr) /\ FreedInner
          /\ Fitted(threads, branches, excs, methods) /\ AllInner(branches, frames)
      BY <1>3, <2>2, <2>3, <2>5 DEF WInv, FInv
    <3>2. freed' = freed \/ (freed' = freed \cup Listed(cur_thr) /\ cur_thr # 1)
      BY <1>3, <2>2, <2>5, <3>1, StepFrees
    <3>3. \A x \in freed' : x \in DOMAIN excs /\ excs[x].thr # 1
      BY <3>1, <3>2 DEF FreedInner, Listed
    <3> QED
      BY <1>3, <2>1, <3>3 DEF FreedInner, Kept, KeptExcs
  <2> QED
    BY <1>3, <2>4, <2>5 DEF FInv
<1>4. CASE phase = "eval" /\ EvalNext /\ phase' # "eval" /\ phase' # "parse" /\ UNCHANGED script
  <2> SUFFICES ASSUME phase' = "dangling", WellFormed(script)', AllRescued', ~RunsGc'
               PROVE  FreedInner'
    BY <1>4 DEF FInv
  <2>1. ReadFreed
    BY <1>4 DEF EvalNext, eval_stmt, eval_break, gc_s_run, eval_exit, eval_branch,
                eval_exception, eval_thread, throw_exc, exception_retry, StackDone, StackReturn,
                LoopAgain, BranchReturn, BodyAgain, BodyReturn, RescueReturn, CallReturn,
                MainNext, MainEnd, Returns, Calls, Pops, Aborts, Fails, RunRescue
  <2>2. UNCHANGED <<heap, freed>> /\ freed # {}
    BY <2>1 DEF ReadFreed, Dangles
  <2>3. FreedInner
    BY <1>4, <2>2 DEF FInv, heap, AllRescued, RunsGc
  <2> QED
    BY <2>2, <2>3 DEF FreedInner, heap
<1> QED
  BY <1>1, <1>2, <1>3, <1>4, StepIs

\* No sweep takes a begin block of the program itself, in a well-formed script
\* whose begins have rescues and which does not run the collector itself: such
\* a script reads a freed exception object only if it has a begin inside another
\* block (eval.c:245, gc.c:46-57, parse.y:108-116).
THEOREM ProgramBeginsStayAlways == Spec => []ProgramBeginsStay
<1>1. FInv => ProgramBeginsStay
  <2> SUFFICES ASSUME FInv, phase \in {"eval", "dangling"}, WellFormed(script), AllRescued, ~RunsGc
               PROVE  /\ \A x \in freed : excs[x].thr # 1
                      /\ phase = "dangling" => \E x \in DOMAIN excs : excs[x].thr # 1
    BY DEF ProgramBeginsStay
  <2>1. FreedInner
    BY DEF FInv
  <2> QED
    BY <2>1 DEF FreedInner
<1> QED
  BY <1>1, EInvInit, EInvNext, WInvInit, WInvNext, MInvInit, MInvNext, FInvInit, FInvNext,
     PTL DEF Spec
=============================================================================
