------------------------------- MODULE Cells -------------------------------
(***************************************************************************)
(* What parser and evaluator share: the threads, which are blocks of code  *)
(* (the main program, the sides of a branch, the body and the rescue of a  *)
(* begin, a method), and the branch and exception objects their cells      *)
(* refer to (toi.h).  Objects are numbered in the order they are made;     *)
(* 0 is the null pointer and 1 the main thread.                            *)
(***************************************************************************)
EXTENDS Integers, Sequences, SequencesExt

CONSTANT Name           \* method names

VARIABLES threads,      \* thr_stk, in order of creation
          branches, excs,
          cur_thr,
          methods,      \* the thread each name is defined as, or 0
          phase         \* what the process is doing, or how it ended

heap == <<threads, branches, excs, cur_thr, methods>>

\* yyerror exits, fail() aborts, a null pointer is a crash, endless
\* recursion exhausts the C stack, and what follows a read of freed memory is
\* not defined; exit ends the script as it should.
Ended == {"yyerror", "fail", "crash", "overflow", "dangling", "exit"}

NoName == "no callsym"

\* What thread_new() fills in, when cur_thr is u.
thread_new(u) == [up |-> u, branch |-> threads[u].branch, excobj |-> 0,
                  callsym |-> NoName, ip |-> 0, stack |-> <<>>]

Cell(kind, ref) == [kind |-> kind, ref |-> ref]

\* The cells that are not blocks, gc being GC.run(); a call carries the name of
\* the method.
SimpleKinds == {"stmt", "break", "throw", "retry", "gc"}

push_cell(T, t, c) == [T EXCEPT ![t].stack = Append(@, c)]

HeapInit ==
  /\ threads = <<[up |-> 0, branch |-> 0, excobj |-> 0, callsym |-> NoName,
                  ip |-> 0, stack |-> <<>>]>>
  /\ branches = <<>> /\ excs = <<>>
  /\ cur_thr = 1
  /\ methods = [n \in Name |-> 0]
=============================================================================
