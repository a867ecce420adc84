------------------------------- MODULE Parser -------------------------------
(***************************************************************************)
(* The grammar actions of parse.y: how a script, a sequence of tokens at   *)
(* the level of statements and block keywords, becomes threads of cells.   *)
(* Blocks are kept apart by end_vector, a stack of the functions that      *)
(* close them, and by where cur_thr points.                                *)
(***************************************************************************)
EXTENDS Cells

CONSTANT Scripts        \* the token sequences the parser may be given

\* The grammar asks for a name after def, and the lexer for one in a call.
Token == [tok  : SimpleKinds \cup {"call", "begin", "rescue", "if", "while", "loop",
                                  "else", "def", "end"},
          name : Name \cup {NoName}]
ASSUME ScriptsAssumption ==
  /\ NoName \notin Name
  /\ Scripts \subseteq Seq(Token)
  /\ \A s \in Scripts : \A p \in DOMAIN s :
       s[p].tok \in {"def", "call"} => s[p].name \in Name

VARIABLES input,        \* what is left of the script
          end_vector,   \* which end_ function closes each open block
          opener,       \* history: cur_thr when each open block was opened
          script        \* history: the script given

pvars == <<heap, phase, input, end_vector, opener, script>>

ParseInit == /\ HeapInit
             /\ phase = "parse"
             /\ script \in Scripts /\ input = script
             /\ end_vector = <<>> /\ opener = <<>>

Cur == threads[cur_thr]

\* The parser takes the next token; it is one of K.
Read(K) == /\ phase = "parse" /\ input # <<>> /\ Head(input).tok \in K
           /\ input' = Tail(input) /\ UNCHANGED script

Open(end_fn) == /\ end_vector' = Append(end_vector, end_fn)
                /\ opener' = Append(opener, cur_thr)
Close        == /\ end_vector' = Front(end_vector)
                /\ opener' = Front(opener)

Stop(how) == phase' = how /\ UNCHANGED <<heap, end_vector, opener>>

\* program: stmt -- a complete expression is pushed on the open block.
parse_stmt ==
  /\ Read(SimpleKinds \cup {"call"})
  /\ LET c == IF Head(input).tok = "call" THEN Cell("call", Head(input).name)
              ELSE Cell(Head(input).tok, 0)
     IN  threads' = push_cell(threads, cur_thr, c)
  /\ UNCHANGED <<branches, excs, cur_thr, methods, phase, end_vector, opener>>

NewExc(b) == [thr |-> cur_thr, body_thr |-> b, rescue_thr |-> 0, retry |-> FALSE]

\* begin_new notes the exception object in the enclosing thread; the body
\* gets a note of its own.
parse_begin ==
  /\ Read({"begin"})
  /\ LET x == Len(excs) + 1
         b == Len(threads) + 1
     IN  /\ excs' = Append(excs, NewExc(b))
         /\ threads' = Append([threads EXCEPT ![cur_thr].excobj = x],
                              [thread_new(cur_thr) EXCEPT !.excobj = x])
         /\ cur_thr' = b
  /\ Open("end_begin")
  /\ UNCHANGED <<branches, methods, phase>>

\* parse_rescue first moves cur_thr back to the thread of the begin.
NewRescueNoHack(x) == [thread_new(cur_thr) EXCEPT !.excobj = x]
NewRescue(x)       == [thread_new(excs[x].thr) EXCEPT !.excobj = x]

\* The exception object is the one noted in cur_thr.
parse_rescue ==
  /\ Read({"rescue"})
  /\ LET x == Cur.excobj
         r == Len(threads) + 1
     IN  \/ x = 0 /\ Stop("crash")
         \/ /\ x # 0
            /\ threads' = Append(threads, NewRescue(x))
            /\ excs' = [excs EXCEPT ![x].rescue_thr = r]
            /\ cur_thr' = r
            /\ UNCHANGED <<branches, methods, phase, end_vector, opener>>

\* parse_if, parse_while, parse_loop: the branch is a cell of the enclosing
\* block, its side a new thread.
parse_if ==
  /\ Read({"if", "while", "loop"})
  /\ LET b == Len(branches) + 1
         t == Len(threads) + 1
     IN  /\ branches' = Append(branches, [cond_true |-> t, cond_false |-> 0,
                                          loop |-> Head(input).tok # "if",
                                          always |-> Head(input).tok = "loop"])
         /\ threads' = Append(push_cell(threads, cur_thr, Cell("branch", b)),
                              [thread_new(cur_thr) EXCEPT !.branch = b])
         /\ cur_thr' = t
  /\ Open("end_if")
  /\ UNCHANGED <<excs, methods, phase>>

NewSideNoBranch == thread_new(Cur.up)
NewSide         == [thread_new(Cur.up) EXCEPT !.branch = Cur.branch]

WithSideTrue(b, t) == [branches EXCEPT ![b].cond_true = t]
WithSide(b, t)     == [branches EXCEPT ![b].cond_false = t]

\* else continues the branch noted in cur_thr, which thread_new may have
\* handed down from a block further out.
parse_else ==
  /\ Read({"else"})
  /\ \/ Cur.branch = 0 /\ Stop("yyerror")
     \/ /\ Cur.branch # 0
        /\ LET t == Len(threads) + 1
           IN  /\ threads' = Append(threads, NewSide)
               /\ branches' = WithSide(Cur.branch, t)
               /\ cur_thr' = t
        /\ UNCHANGED <<excs, methods, phase, end_vector, opener>>

parse_define ==
  /\ Read({"def"})
  /\ threads' = Append(threads, [thread_new(cur_thr) EXCEPT
                                   !.callsym = Head(input).name])
  /\ cur_thr' = Len(threads) + 1
  /\ Open("end_define")
  /\ UNCHANGED <<branches, excs, methods, phase>>

end_if ==
  /\ Last(end_vector) = "end_if"
  /\ phase' = IF Cur.branch = 0 THEN "yyerror" ELSE phase
  /\ cur_thr' = Cur.up
  /\ UNCHANGED <<threads, branches, excs, methods>>

MoveNoteKept(u, x) == [threads EXCEPT ![excs[x].body_thr].excobj = x]
MoveNote(u, x)     == [threads EXCEPT ![u].excobj = 0, ![excs[x].body_thr].excobj = x]

\* The note moves from the enclosing thread back to the body, and the
\* exception becomes a cell of the enclosing thread.
end_begin ==
  /\ Last(end_vector) = "end_begin"
  /\ LET u == Cur.up
         x == threads[u].excobj
     IN  /\ threads' = push_cell(MoveNote(u, x), u, Cell("exc", x))
         /\ cur_thr' = u
  /\ UNCHANGED <<branches, excs, methods, phase>>

\* A method loses its `up': it is not part of the block it is defined in.
end_define ==
  /\ Last(end_vector) = "end_define"
  /\ cur_thr' = Cur.up
  /\ threads' = [threads EXCEPT ![cur_thr].up = 0]
  /\ \/ /\ Cur.callsym # NoName
        /\ methods' = [methods EXCEPT ![Cur.callsym] = cur_thr]
        /\ UNCHANGED phase
     \/ /\ Cur.callsym = NoName
        /\ phase' = "fail"
        /\ UNCHANGED methods
  /\ UNCHANGED <<branches, excs>>

parse_end ==
  /\ Read({"end"})
  /\ \/ end_vector = <<>> /\ Stop("yyerror")
     \/ end_vector # <<>> /\ Close /\ (end_if \/ end_begin \/ end_define)

\* yylex pushes a call of exit on the thread it is in; main() evaluates.
parse_eof ==
  /\ phase = "parse" /\ input = <<>>
  /\ threads' = push_cell(threads, cur_thr, Cell("exit", 0))
  /\ phase' = "eval"
  /\ UNCHANGED <<branches, excs, cur_thr, methods, input, end_vector, opener, script>>

Parse == \/ parse_stmt \/ parse_begin \/ parse_rescue \/ parse_if \/ parse_else
         \/ parse_define \/ parse_end \/ parse_eof

\* The parser is done with the script, one way or the other.
Parsed == phase # "parse" /\ UNCHANGED pvars

ParseSpec == ParseInit /\ [][Parse \/ Parsed]_pvars

-----------------------------------------------------------------------------
(* What a script says, whatever the parser makes of it *)

\* One step of matching block keywords against each other: the stack of
\* blocks still open, or <<"bad">> once a keyword has no block to belong to.
Nest(open, t) ==
  LET k   == t.tok
      top == IF open = <<>> THEN "none" ELSE Last(open)
      again(as) == Append(Front(open), as)
  IN  IF open = <<"bad">> THEN open
      ELSE CASE k \in {"begin", "if", "while", "loop", "def"} -> Append(open, k)
             [] k = "rescue" -> IF top = "begin" THEN again("rescue") ELSE <<"bad">>
             [] k = "else"   -> IF top \in {"if", "while", "loop"} THEN again("else")
                                ELSE <<"bad">>
             [] k = "end"    -> IF top = "none" THEN <<"bad">> ELSE Front(open)
             [] OTHER        -> open

\* The blocks open before each token, and after the last, when matching
\* starts with the q-th token.
BlocksAt(s, q) ==
  LET nest[p \in (q-1)..Len(s)] == IF p = q-1 THEN <<>> ELSE Nest(nest[p-1], s[p])
  IN  nest

\* Every block is closed, and every else and rescue belongs to one.
WellFormed(s) == BlocksAt(s, 1)[Len(s)] = <<>>

\* A nested begin block before the rescue of the block it is in.
BeginBeforeRescue(s) ==
  \E p \in DOMAIN s : /\ s[p].tok = "rescue"
                      /\ \E q \in 1..(p-1) : /\ s[q].tok = "begin"
                                              /\ BlocksAt(s, q)[p-1] = <<>>

Tok(k) == [tok |-> k, name |-> NoName]

\* The script as it can be read back from the threads; a thread's blocks are
\* younger than it.  Definitions of methods leave no cell behind.
Unparse ==
  LET branchText(b, text) ==
        LET br == branches[b]
            kw == IF br.always THEN "loop" ELSE IF br.loop THEN "while" ELSE "if"
        IN  <<Tok(kw)>> \o text[br.cond_true]
            \o (IF br.cond_false = 0 THEN <<>> ELSE <<Tok("else")>> \o text[br.cond_false])
            \o <<Tok("end")>>
      excText(x, text) ==
        <<Tok("begin")>> \o text[excs[x].body_thr]
        \o (IF excs[x].rescue_thr = 0 THEN <<>>
            ELSE <<Tok("rescue")>> \o text[excs[x].rescue_thr])
        \o <<Tok("end")>>
      text[t \in DOMAIN threads] ==
        FlattenSeq([p \in DOMAIN threads[t].stack |->
          LET c == threads[t].stack[p]
          IN  CASE c.kind = "branch" -> branchText(c.ref, text)
                [] c.kind = "exc"    -> excText(c.ref, text)
                [] c.kind = "exit"   -> <<>>
                [] c.kind = "call"   -> <<[tok |-> "call", name |-> c.ref]>>
                [] OTHER             -> <<Tok(c.kind)>>])
  IN  text[1]

-----------------------------------------------------------------------------
(* Properties *)

\* An `end' leads back to where its block was opened: `up' of the block
\* being parsed is the thread that opened it, and so on outwards, down to
\* the main thread.  parse_rescue and parse_else replace cur_thr in the
\* middle of a block (the "hack" of parse.y:147), end_define clears `up'.
EndReturnsToOpener ==
  phase = "parse" =>
    /\ Cur.up = (IF opener = <<>> THEN 0 ELSE Last(opener))
    /\ opener = <<>> => cur_thr = 1
    /\ \A k \in DOMAIN opener :
         threads[opener[k]].up = (IF k = 1 THEN 0 ELSE opener[k-1])

\* The parser builds what a well-formed script says: its blocks, sides,
\* bodies and rescues can be read back from the threads in order.
BuildsTheScript ==
  (phase = "eval" /\ WellFormed(script) /\ ~\E p \in DOMAIN script : script[p].tok = "def")
    => Unparse = script

\* The exception object of a finished begin block is noted in its body,
\* where throw_exc and exception_retry look for it (exception.c:29, 64), and
\* no block outside it has it or any other noted, but for rescues.
HandlersInPlace ==
  (phase = "eval" /\ WellFormed(script)) =>
    /\ \A x \in DOMAIN excs : threads[excs[x].body_thr].excobj = x
    /\ \A t \in DOMAIN threads : \A x \in DOMAIN excs :
         threads[t].excobj = x => t \in {excs[x].body_thr, excs[x].rescue_thr}

\* A well-formed script is accepted, unless it nests a begin block before
\* the rescue of another.
AcceptsWellFormed ==
  (WellFormed(script) /\ ~BeginBeforeRescue(script)) => phase \notin Ended
=============================================================================
