----------------------------- MODULE Evaluator -----------------------------
(***************************************************************************)
(* main()'s loop, eval_stack, eval_cell, eval_thread (eval.c) and          *)
(* throw_exc and exception_retry (exception.c).  The C stack is `frames';  *)
(* rv is the value being returned to its top frame, reduced to whether it  *)
(* is Qbreak.  One step of the model evaluates one cell or returns from    *)
(* one call.  Conditions are data: either outcome may come, every time.    *)
(*                                                                         *)
(* The cell of a begin block is an object like any other for the collector *)
(* (gc.c:87-104 does not have its type): nothing counts it, so it is freed *)
(* by the first sweep of the block it is listed in.  What the sweeps do to *)
(* the objects a script makes is in Gc.                                    *)
(***************************************************************************)
EXTENDS Cells

CONSTANT MaxFrames      \* depth at which the C stack is exhausted
ASSUME MaxFramesAssumption == MaxFrames \in Nat

VARIABLES frames, rv,
          freed,  \* the exception objects that have been freed
          why,          \* history: what the last Qbreak came from
          brk           \* history: the loop around the last break statement,
                        \* as its place in frames

evars == <<heap, phase, frames, rv, freed, why, brk>>

EvalInit == frames = <<>> /\ rv = "none" /\ freed = {} /\ why = "none" /\ brk = 0

\* Frames.  eval_stack runs the stack of t and writes its progress to the ip
\* of the thread that was current when it was called.
StackFrame(t, home)   == [f |-> "stack", t |-> t, home |-> home, i |-> 0]
BranchFrame(b, s)     == [f |-> "branch", b |-> b, side |-> s, save |-> cur_thr]
ExcFrame(x)           == [f |-> "exc", x |-> x]
ThrowFrame(aborts)    == [f |-> "throw", save |-> cur_thr, aborts |-> aborts]
CallFrame             == [f |-> "call", save |-> cur_thr]

Top == Last(frames)
Returning(f) == phase = "eval" /\ rv # "none" /\ frames # <<>> /\ Top.f = f

-----------------------------------------------------------------------------
(* The next cell: of eval_stack, if it is on top, or of the main loop *)

InMain  == frames = <<>>
Ready   == phase = "eval" /\ rv = "none"
Stack   == threads[IF InMain THEN cur_thr ELSE Top.t].stack
At      == IF InMain THEN threads[cur_thr].ip ELSE Top.i
AtEnd   == At >= Len(Stack)
Now     == Stack[At + 1]

\* eval_stack counts the cell before it evaluates it, main() after.
Fetched == IF InMain THEN threads ELSE [threads EXCEPT ![Top.home].ip = At + 1]
Base    == IF InMain THEN <<>> ELSE [frames EXCEPT ![Len(frames)].i = At + 1]

Eval(kind) == Ready /\ ~AtEnd /\ Now.kind = kind

\* The cell calls deeper, or returns v.
Calls(fs) == /\ \/ /\ Len(Base \o fs) <= MaxFrames
                   /\ frames' = Base \o fs /\ UNCHANGED phase
                \/ /\ Len(Base \o fs) > MaxFrames
                   /\ phase' = "overflow" /\ frames' = Base
             /\ UNCHANGED <<rv, why>>
Returns(v) == rv' = v /\ frames' = Base /\ UNCHANGED phase

\* The frames below return v to their caller, the top frame is gone.
Pops(v) == rv' = v /\ frames' = Front(frames) /\ UNCHANGED phase

\* Mutant: only the current thread is asked.
HandlerHere == threads[cur_thr].excobj

\* The exception object noted nearest, from the current thread outwards.
Handler ==
  LET look[t \in 0..Len(threads)] ==
        IF t = 0 THEN 0
        ELSE IF threads[t].excobj # 0 THEN threads[t].excobj ELSE look[threads[t].up]
  IN  look[cur_thr]

HasRescue(x) == x # 0 /\ excs[x].rescue_thr # 0

\* The rescue of x runs like a function called by throw.
RunRescue(x, aborts) ==
  LET r == excs[x].rescue_thr
  IN  /\ Calls(<<ThrowFrame(aborts), StackFrame(r, r)>>)
      /\ threads' = Fetched
      /\ cur_thr' = r
      /\ UNCHANGED <<branches, excs, methods>>

Aborts == /\ phase' = "fail" /\ frames' = Base
          /\ threads' = Fetched
          /\ UNCHANGED <<branches, excs, cur_thr, methods, rv, why>>

\* The macro fail(): with an exception object noted in cur_thr itself, the
\* rescue runs before the process aborts.
Fails == LET x == threads[cur_thr].excobj
         IN  \/ ~HasRescue(x) /\ Aborts
             \/ HasRescue(x) /\ RunRescue(x, TRUE)

-----------------------------------------------------------------------------
(* The collector, as far as it frees what the parser made *)

\* The exception objects in the obj_stk of a block: of the begins in it.
Listed(t) == {x \in DOMAIN excs : excs[x].thr = t}

\* mutant: the sweep comes when cur_thr is back in the block around
SweepOfOuter(t) == freed' = freed \cup Listed(threads[t].up)

\* vector_foreach(obj_stk, object_refcount_check) at the end of eval_stack: of
\* cur_thr, whichever block that is.
SweepOf(t) == freed' = freed \cup Listed(t)

\* The current thread and those around it.
BlocksAround ==
  LET around[t \in 0..Len(threads)] ==
        IF t = 0 THEN {} ELSE {t} \cup around[threads[t].up]
  IN  around[cur_thr]

\* The exception object that the next step would read, if any.
ReadsExc == IF Returning("exc") THEN {Top.x}
         ELSE IF Eval("exc") THEN {Now.ref}
         ELSE IF Eval("throw") \/ Eval("retry") THEN {Handler}
         ELSE IF Eval("call") /\ methods[Now.ref] = 0 THEN {threads[cur_thr].excobj}
         ELSE {}
Dangles == ReadsExc \cap freed # {}

ReadFreed == /\ Dangles /\ phase' = "dangling"
             /\ UNCHANGED <<heap, frames, rv, freed, why>>

-----------------------------------------------------------------------------
(* eval_cell, by the type of the cell *)

eval_stmt == /\ Eval("stmt") /\ Returns("val")
             /\ threads' = Fetched
             /\ UNCHANGED <<branches, excs, cur_thr, methods, why>>

IsLoop(k) == frames[k].f = "branch" /\ branches[frames[k].b].loop

\* Qbreak is a value like any other, that eval_stack and T_BRANCH look for.
eval_break == /\ Eval("break") /\ Returns("break")
              /\ why' = "break"
              /\ brk' = Max({0} \cup {k \in DOMAIN frames : IsLoop(k)})
              /\ threads' = Fetched
              /\ UNCHANGED <<branches, excs, cur_thr, methods>>

\* gc_s_run sweeps the lists of the running block and of those around it.
gc_s_run == /\ Eval("gc") /\ Returns("val")
            /\ freed' = freed \cup UNION {Listed(t) : t \in BlocksAround}
            /\ threads' = Fetched
            /\ UNCHANGED <<branches, excs, cur_thr, methods, why>>

eval_exit == /\ Eval("exit") /\ phase' = "exit" /\ frames' = Base
             /\ threads' = Fetched
             /\ UNCHANGED <<branches, excs, cur_thr, methods, rv, why>>

\* T_BRANCH: the condition picks a side; without an else there may be none.
eval_branch ==
  /\ Eval("branch")
  /\ LET b == Now.ref
         sides == {"cond_true"} \cup (IF branches[b].always THEN {} ELSE {"cond_false"})
     IN  \E s \in sides : LET t == branches[b][s] IN
           \/ /\ t = 0 /\ Returns("val")
              /\ UNCHANGED <<cur_thr, why>>
           \/ /\ t # 0 /\ Calls(<<BranchFrame(b, s), StackFrame(t, t)>>)
              /\ cur_thr' = t
  /\ threads' = Fetched
  /\ UNCHANGED <<branches, excs, methods>>

\* The do loop of T_EXCEPTION, once: the body starts with no retry pending.
StartBody(x, T) == /\ cur_thr' = excs[x].body_thr
                   /\ threads' = [T EXCEPT ![excs[x].body_thr].ip = 0]
                   /\ excs' = [excs EXCEPT ![x].retry = FALSE]
                   /\ UNCHANGED <<branches, methods>>

eval_exception ==
  /\ Eval("exc") /\ ~Dangles
  /\ LET x == Now.ref
         b == excs[x].body_thr
     IN  StartBody(x, Fetched) /\ Calls(<<ExcFrame(x), StackFrame(b, b)>>)

\* A method called by name; mcall_call fails on a name it cannot find.
eval_thread ==
  /\ Eval("call") /\ ~Dangles
  /\ LET t == methods[Now.ref]
     IN  \/ t = 0 /\ Fails
         \/ /\ t # 0 /\ Calls(<<CallFrame, StackFrame(t, t)>>)
            /\ cur_thr' = t /\ threads' = Fetched
            /\ UNCHANGED <<branches, excs, methods>>

throw_exc ==
  /\ Eval("throw") /\ ~Dangles
  /\ LET x == Handler
     IN  \/ x = 0 /\ Aborts
         \/ HasRescue(x) /\ RunRescue(x, FALSE)
         \/ /\ x # 0 /\ ~HasRescue(x)
            /\ Returns("val")
            /\ cur_thr' = excs[x].thr /\ threads' = Fetched
            /\ UNCHANGED <<branches, excs, methods, why>>

exception_retry ==
  /\ Eval("retry") /\ ~Dangles
  /\ LET x == Handler
     IN  \/ x = 0 /\ Aborts
         \/ /\ x # 0 /\ Returns("break") /\ why' = "retry"
            /\ excs' = [excs EXCEPT ![x].retry = TRUE]
            /\ threads' = Fetched
            /\ UNCHANGED <<branches, cur_thr, methods>>

-----------------------------------------------------------------------------
(* Returning *)

\* The caller puts cur_thr back, as it must.
ResumeNot(t) == UNCHANGED heap
Resume(t)    == cur_thr' = t /\ UNCHANGED <<threads, branches, excs, methods>>

\* The stack is at its end; `val' was never assigned if it is empty.
StackDone == /\ Ready /\ ~InMain /\ AtEnd
             /\ \/ At > 0 /\ Pops("val")
                \/ At = 0 /\ \E v \in {"val", "break"} : Pops(v)
             /\ why' = (IF rv' = "break" THEN "uninitialised" ELSE why)
             /\ SweepOf(cur_thr)
             /\ UNCHANGED heap

\* Back in eval_stack, from eval_cell: the next cell, or the end by Qbreak,
\* which sweeps too.
StackReturn ==
  /\ Returning("stack")
  /\ \/ rv = "break" /\ Pops("break") /\ SweepOf(cur_thr)
     \/ rv = "val" /\ rv' = "none" /\ UNCHANGED <<frames, phase, freed>>
  /\ UNCHANGED <<heap, why>>

\* A loop tests its condition again, the false side waiting for it to hold.
LoopAgain ==
  /\ Returning("branch") /\ branches[Top.b].loop /\ rv = "val"
  /\ rv' = "none"
  /\ frames' = Append(frames, StackFrame(branches[Top.b][Top.side], cur_thr))
  /\ UNCHANGED <<heap, phase, why>>

\* What a branch makes of the value of its side: a loop keeps the break.  Mutants:
\* a loop passes it on, an if does not.
BranchValueKept(b, v) == v
BranchValueTaken(b, v) == "val"
BranchValue(b, v)     == IF v = "break" /\ branches[b].loop THEN "val" ELSE v

BranchReturn ==
  /\ Returning("branch")
  /\ branches[Top.b].loop /\ rv = "val" => ~branches[Top.b].always
  /\ Pops(BranchValue(Top.b, rv))
  /\ Resume(Top.save) /\ UNCHANGED why

BodyAgain == /\ Returning("exc") /\ ~Dangles /\ excs[Top.x].retry
             /\ StartBody(Top.x, threads)
             /\ rv' = "none"
             /\ frames' = Append(frames, StackFrame(cur_thr', cur_thr'))
             /\ UNCHANGED <<phase, why>>

\* The value of the body, Qbreak or not, becomes that of the cell.
BodyReturn == /\ Returning("exc") /\ ~Dangles /\ ~excs[Top.x].retry
              /\ Pops(rv)
              /\ Resume(excs[Top.x].thr) /\ UNCHANGED why

RescueReturn ==
  /\ Returning("throw")
  /\ \/ /\ ~Top.aborts /\ Pops("break") /\ why' = "throw"
        /\ Resume(Top.save)
     \/ Top.aborts /\ phase' = "fail" /\ UNCHANGED <<heap, frames, rv, why>>

CallReturn == /\ Returning("call") /\ Pops(rv)
              /\ Resume(Top.save) /\ UNCHANGED why

\* main() drops the value; the cell after it is next, in whatever is now the
\* current thread.
MainNextStays ==
            /\ phase = "eval" /\ InMain /\ rv # "none"
            /\ rv' = "none"
            /\ UNCHANGED <<heap, phase, frames, why>>
MainNext == /\ phase = "eval" /\ InMain /\ rv # "none"
            /\ threads' = [threads EXCEPT ![cur_thr].ip = @ + 1]
            /\ rv' = "none"
            /\ UNCHANGED <<branches, excs, cur_thr, methods, phase, frames, why>>

\* ... and goes on outside, when there is none.
MainEnd == /\ Ready /\ InMain /\ AtEnd
           /\ cur_thr' = threads[cur_thr].up
           /\ phase' = IF cur_thr' = 0 THEN "exit" ELSE phase
           /\ UNCHANGED <<threads, branches, excs, methods, frames, rv, why>>

EvalNext ==
  \/ eval_break /\ UNCHANGED freed
  \/ (StackDone \/ StackReturn \/ gc_s_run) /\ UNCHANGED brk
  \/ /\ \/ eval_stmt \/ eval_exit \/ eval_branch \/ eval_exception
        \/ eval_thread \/ throw_exc \/ exception_retry
        \/ LoopAgain \/ BranchReturn \/ BodyAgain \/ BodyReturn
        \/ RescueReturn \/ CallReturn \/ MainNext \/ MainEnd
     /\ UNCHANGED <<freed, brk>>
  \/ ReadFreed /\ UNCHANGED brk
=============================================================================
