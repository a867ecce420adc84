------------------------------- MODULE Interp -------------------------------
(***************************************************************************)
(* The interpreter: main() parses the whole script, then evaluates it.     *)
(***************************************************************************)
EXTENDS Parser, Evaluator

vars == <<pvars, frames, rv, freed, why, brk>>

Init == ParseInit /\ EvalInit

Next == \/ Parse /\ UNCHANGED <<frames, rv, freed, why, brk>>
        \/ EvalNext /\ UNCHANGED <<input, end_vector, opener, script>>
        \/ phase \in Ended /\ UNCHANGED vars

Spec == Init /\ [][Next]_vars

\* One process, which the operating system keeps running.
FairSpec == Spec /\ WF_vars(Next)

-----------------------------------------------------------------------------
(* Properties *)

Occurs(k) == \E p \in DOMAIN script : script[p].tok = k

\* Every begin block has a rescue.
AllRescued == \A x \in DOMAIN excs : excs[x].rescue_thr # 0

\* Variables are looked up from cur_thr outwards (symbol.c:164), so a block
\* must be evaluated with cur_thr at that block, however it was entered and
\* whatever returned to it.  It holds where every begin has a rescue.
RunsOwnThread ==
  (phase = "eval" /\ WellFormed(script) /\ AllRescued /\ rv = "none") =>
    IF frames = <<>> THEN cur_thr = 1
    ELSE Top.f = "stack" /\ cur_thr = Top.t

\* A retry is noted only for a begin block whose body is being evaluated, so
\* that the do loop of eval_cell (eval.c:296) is there to see it.
RetryReachesItsLoop ==
  WellFormed(script) =>
    \A x \in DOMAIN excs : (phase = "eval" /\ excs[x].retry) =>
      \E k \in DOMAIN frames : frames[k] = ExcFrame(x)

\* A break statement ends the innermost loop around it, and no loop outside
\* that one: its Qbreak is dropped there (eval.c:352), or by main() if there
\* is none -- unless a pending retry takes the body from the start instead.
BreakEndsOneLoop ==
  [][ (rv = "break" /\ why = "break" /\ rv' # "break"
       /\ \A x \in DOMAIN excs : ~excs[x].retry)
      => IF frames = <<>> THEN brk = 0 ELSE Len(frames) = brk ]_vars

\* Liveness: an evaluation that does not end is forever in a loop of the
\* script or retrying, whatever the conditions are.
EndsOrRepeats ==
  \/ <>(phase \in Ended)
  \/ []<>(Returning("branch") /\ branches[Top.b].loop)
  \/ []<>(Returning("exc") /\ excs[Top.x].retry)

\* Where the exception statements of the script are: the blocks around p,
\* innermost last, and whether p is in a body or a rescue itself.
OpenAt(p)   == BlocksAt(script, 1)[p-1]
Excs(p)     == SelectSeq(OpenAt(p), LAMBDA k : k \in {"begin", "rescue"})
InBody(p)   == Excs(p) # <<>> /\ Last(Excs(p)) = "begin"
InRescue(p) == Excs(p) # <<>> /\ Last(Excs(p)) = "rescue"

\* The sides of loops, and what is inside one.
LoopSides ==
  UNION {{branches[b].cond_true, branches[b].cond_false}
           : b \in {c \in DOMAIN branches : branches[c].loop}}
InLoop(t) ==
  LET in[s \in 0..Len(threads)] == s # 0 /\ (s \in LoopSides \/ in[threads[s].up])
  IN  in[t]

\* An exception thrown in the body of a begin block, or in blocks inside it,
\* is handled there, and a retry in a begin block finds it: the script ends
\* by its exit, not in an abort and not in freed memory.  Not so after a throw
\* in a rescue, whose rescue runs again until the C stack is full (parse.y:150);
\* after a begin block in a rescue or before one, whose end takes the note of
\* the block around it (parse.y:131); after a throw without a rescue, which goes
\* on in the block around the begin (exception.c:107); across a call, methods
\* being cut off from their callers (parse.y:191); with a begin block in a loop,
\* whose cell is freed after the first round (eval.c:245); or with GC.run().
EndsWell ==
  (/\ WellFormed(script) /\ ~BeginBeforeRescue(script)
   /\ ~Occurs("call") /\ ~Occurs("gc")
   /\ AllRescued
   /\ \A x \in DOMAIN excs : ~InLoop(excs[x].thr)
   /\ \A p \in DOMAIN script :
        /\ script[p].tok = "throw" => InBody(p)
        /\ script[p].tok = "retry" => Excs(p) # <<>>
        /\ script[p].tok = "begin" => ~InRescue(p))
  => phase \in {"parse", "eval", "exit"}

\* The blocks with a throw or a retry, and whether a loop is between such a
\* block and the body or rescue around it.
Throwers == {t \in DOMAIN threads :
               \E c \in Range(threads[t].stack) : c.kind \in {"throw", "retry"}}
Straight(t) ==
  LET out[s \in 0..Len(threads)] ==
        \/ s = 0
        \/ \E x \in DOMAIN excs : s \in {excs[x].body_thr, excs[x].rescue_thr}
        \/ s \notin LoopSides /\ out[threads[s].up]
  IN  out[t]

\* "After the `retry' statement (if you see this, it's a bug)",
\* exception.toi:20: no statement is evaluated between a retry, in a rescue or a
\* body, and the new try -- as long as no throw or retry is in a loop, which
\* would take the Qbreak for that of a break (eval.c:355).
NothingAfterRetry ==
  [][ (eval_stmt /\ WellFormed(script) /\ \A t \in Throwers : Straight(t))
      => \A x \in DOMAIN excs : ~excs[x].retry ]_vars

\* A script that runs the collector itself.
RunsGc == \E t \in DOMAIN threads : \E p \in DOMAIN threads[t].stack :
            threads[t].stack[p].kind = "gc"

\* The sweeps at the end of blocks and methods leave the begin blocks of the
\* program itself alone, although they go by cur_thr (eval.c:245): freed
\* memory is read only by scripts with a begin inside another block.
ProgramBeginsStay ==
  (phase \in {"eval", "dangling"} /\ WellFormed(script) /\ AllRescued /\ ~RunsGc) =>
    /\ \A x \in freed : excs[x].thr # 1
    /\ phase = "dangling" => \E x \in DOMAIN excs : excs[x].thr # 1

\* gc.c:103 says of T_BEGIN, T_TRY, T_RESCUE and the other types of cells that
\* they "should never be garbage collected": a begin block can be evaluated
\* as often as the script comes to it.
BeginsStay ==
  (WellFormed(script) /\ AllRescued /\ ~Occurs("gc")) => phase # "dangling"
=============================================================================
