------------------------------- MODULE Scope -------------------------------
(***************************************************************************)
(* Local variables.  Every block ("thread") points to a table of           *)
(* variables.  The blocks of an if or a while point to the table of the    *)
(* block around them, a link that is made once, by the parser; eval_thread *)
(* gives a method a new table when it calls itself.                        *)
(*                                                                         *)
(* The program is any: at each step the running block may assign, enter a  *)
(* block inside it, leave, or call a method.  A table is the map           *)
(* from names to their latest values (VarTable says when it is one);       *)
(* "self", which is bound like a parameter, is left out, and so are        *)
(* classes: all methods are in reach.                                      *)
(***************************************************************************)
EXTENDS Integers, Sequences, SequencesExt

CONSTANTS Thread, Main, Method, \* the blocks; the program; the methods
          Nobody,               \* the null pointer
          Parent,               \* the block around a block, for the parser
          Shares,               \* the blocks of if, else, while and loop
          Name, Val, Parm,      \* names, values, a method's parameter
          Nil, Unset,           \* the value of what has none; not there
          Args,                 \* what calls pass: nothing, a name or a value
          NumTables, MaxDepth   \* bounds: tables, calls and blocks entered

ASSUME BlocksAssumption ==
  /\ Main \in Thread \ Method /\ Method \subseteq Thread
  /\ Nobody \notin Thread
  /\ Shares \subseteq Thread \ (Method \cup {Main})
  /\ Parent \in [Thread \ {Main} -> Thread]
  /\ \A B \in SUBSET Thread :       \* blocks nest
        B # {} => \E b \in B : b = Main \/ Parent[b] \notin B
ASSUME NamesAssumption ==
  /\ Parm \in [Method -> Name \cup {Nobody}]
  /\ Args \subseteq {<<>>} \cup {<<a>> : a \in Name \cup Val}
  /\ Nil \in Val /\ Unset \notin Val /\ Name \cap Val = {} /\ Nobody \notin Name \cup Val
  /\ Name # {}
ASSUME BoundsAssumption == NumTables \in Nat \ {0} /\ MaxDepth \in Nat

VARIABLES env,      \* env_tbl of each thread
          tables,   \* the tables, <<>> if there is none of that number
          cur_thr,
          argv,     \* the argument cell in the T_MCALL of each method
          stack     \* the active calls, blocks and assignments of the C stack

vars == <<env, tables, cur_thr, argv, stack>>

TableId == 1..NumTables
Empty   == [n \in Name |-> Unset]
Live    == {t \in TableId : tables[t] # <<>>}

----------------------------------------------------------------------------
\* mutant: the method keeps the link to the block its definition is in
UpKept == [t \in Thread |-> IF t = Main THEN Nobody ELSE Parent[t]]

\* What the parser leaves behind.  A method is cut off from the blocks around
\* its definition.
up == [t \in Thread |-> IF t \in Method \cup {Main} THEN Nobody ELSE Parent[t]]

\* The block whose table a block uses.
Home[t \in Thread] == IF t \in Shares THEN Home[Parent[t]] ELSE t

Linked(e) == \A s, t \in Thread : e[s] = e[t] <=> Home[s] = Home[t]
Links     == CHOOSE e \in [Thread -> TableId] : Linked(e)

ASSUME TablesAssumption == \E e \in [Thread -> TableId] : Linked(e)

Init == /\ env = Links
        /\ tables = [t \in TableId |->
                       IF t \in {env[s] : s \in Thread} THEN Empty ELSE <<>>]
        /\ cur_thr = Main
        /\ argv = [m \in Method |-> Parm[m]]
        /\ stack = <<>>

----------------------------------------------------------------------------
\* var_in_scope: the first block from t outwards whose table has the name.
var_in_scope(n, t) ==
  LET from[s \in Thread \cup {Nobody}] ==
        IF s = Nobody THEN Nobody
        ELSE IF tables[env[s]][n] # Unset THEN s ELSE from[up[s]]
  IN  from[t]

\* sym2ref and get_variable: the variable in scope, or else the program's.
Lookup(n) == LET t == var_in_scope(n, cur_thr)
             IN  tables[env[IF t = Nobody THEN Main ELSE t]][n]

\* The block whose variable an assignment changes, or makes.
Target(n) == LET t == var_in_scope(n, cur_thr)
             IN  IF t = Nobody THEN cur_thr ELSE t

\* The C function on top of the stack runs statements.
Running == stack # <<>> => Last(stack).kind # "assign"
Store(tbl, n, v) == tables' = [tables EXCEPT ![tbl][n] = v]

Assign(n, v) == /\ Running
                /\ Store(env[Target(n)], n, v)
                /\ UNCHANGED <<env, cur_thr, argv, stack>>

----------------------------------------------------------------------------
\* The records of the C stack: of eval_thread, with its locals; of assign0;
\* of eval_cell on a block.  envs, before and shared are history: the links
\* at the call, the caller's variables then, and whether a block has run since
\* on the caller's table without being the caller's.
Frame(m, sav_env) ==
  [kind |-> "call", block |-> m, saved |-> cur_thr, sav_env |-> sav_env,
   envs |-> env, before |-> tables[env[cur_thr]], shared |-> FALSE]
Note(frames, tbl) ==
  [k \in DOMAIN frames |->
     IF frames[k].kind = "call" /\ frames[k].envs[frames[k].saved] = tbl
     THEN [frames[k] EXCEPT !.shared = TRUE] ELSE frames[k]]

EvalCell(cell) == IF cell \in Val THEN cell
                  ELSE IF cell = Nobody \/ Lookup(cell) = Unset THEN Nil
                  ELSE Lookup(cell)

\* eval_thread's store of the parameter, in a new table or in an old one.
Bound(m, v) == IF Parm[m] = Nobody THEN Empty
               ELSE [Empty EXCEPT ![Parm[m]] = v]
Bind(m, tbl, v) == IF Parm[m] = Nobody THEN UNCHANGED tables
                   ELSE Store(tbl, Parm[m], v)

\* mutant: the caller's table is not kept
CallInPlace(m, args, frames) ==
  LET cell == IF args = <<>> THEN argv[m] ELSE args[1]
  IN  /\ Running /\ Len(stack) + Len(frames) < MaxDepth
      /\ argv' = [argv EXCEPT ![m] = cell]
      /\ cur_thr' = m
      /\ Bind(m, env[m], EvalCell(cell))
      /\ stack' = Note(stack, env[m]) \o frames \o <<Frame(m, 0)>>
      /\ UNCHANGED env

\* mcall_call writes the argument, if there is one, to the T_MCALL of the
\* method, evaluates what is there, and runs eval_thread.
Call(m, args, frames) ==
  LET cell == IF args = <<>> THEN argv[m] ELSE args[1]
      arg  == EvalCell(cell)
  IN  /\ Running /\ Len(stack) + Len(frames) < MaxDepth
      /\ argv' = [argv EXCEPT ![m] = cell]
      /\ cur_thr' = m
      /\ \/ /\ cur_thr # m
            /\ Bind(m, env[m], arg)
            /\ stack' = Note(stack \o frames \o <<Frame(m, 0)>>, env[m])
            /\ UNCHANGED env
         \/ /\ cur_thr = m
            /\ \E fresh \in TableId \ Live :
                 /\ \A t \in TableId \ Live : fresh <= t
                 /\ env' = [env EXCEPT ![m] = fresh]
                 /\ tables' = [tables EXCEPT ![fresh] = Bound(m, arg)]
            /\ stack' = stack \o frames \o <<Frame(m, env[m])>>

\* mutant: the table of the inner call stays linked
ReturnNoRestore ==
  LET top == Last(stack)
  IN  /\ stack # <<>> /\ top.kind = "call"
      /\ cur_thr' = top.saved
      /\ stack' = Front(stack)
      /\ UNCHANGED <<env, tables, argv>>

\* mutant: the table is freed after the old one is back in its place
ReturnFreesSaved ==
  LET top == Last(stack)
  IN  /\ stack # <<>> /\ top.kind = "call"
      /\ cur_thr' = top.saved
      /\ stack' = Front(stack)
      /\ \/ top.sav_env = 0 /\ UNCHANGED <<env, tables>>
         \/ /\ top.sav_env # 0
            /\ env' = [env EXCEPT ![top.saved] = top.sav_env]
            /\ tables' = [tables EXCEPT ![env'[top.block]] = <<>>]
      /\ UNCHANGED argv

\* The end of eval_thread.
Return ==
  LET top == Last(stack)
  IN  /\ stack # <<>> /\ top.kind = "call"
      /\ cur_thr' = top.saved
      /\ stack' = Front(stack)
      /\ \/ top.sav_env = 0 /\ UNCHANGED <<env, tables>>
         \/ /\ top.sav_env # 0
            /\ env' = [env EXCEPT ![top.saved] = top.sav_env]
            /\ tables' = [tables EXCEPT ![env[top.block]] = <<>>]
      /\ UNCHANGED argv

\* assign0 with a call on the right: the table is chosen before the call and
\* written after it.
AssignCall(n, m, args) ==
  Call(m, args, <<[kind |-> "assign", name |-> n, tbl |-> env[Target(n)]]>>)
AssignEnd(v) ==
  /\ ~Running
  /\ Store(Last(stack).tbl, Last(stack).name, v)
  /\ stack' = Front(stack)
  /\ UNCHANGED <<env, cur_thr, argv>>

\* eval_cell on a branch or a begin block of the running block.
Enter(b) == /\ Running /\ Len(stack) < MaxDepth
            /\ up[b] = cur_thr
            /\ cur_thr' = b
            /\ stack' = (IF env[b] = env[cur_thr] THEN stack
                                                  ELSE Note(stack, env[b]))
                        \o <<[kind |-> "block", saved |-> cur_thr]>>
            /\ UNCHANGED <<env, tables, argv>>
Leave == /\ stack # <<>> /\ Last(stack).kind = "block"
         /\ cur_thr' = Last(stack).saved
         /\ stack' = Front(stack)
         /\ UNCHANGED <<env, tables, argv>>

Next == \/ \E n \in Name, v \in Val : Assign(n, v)
        \/ \E m \in Method, args \in Args : Call(m, args, <<>>)
        \/ \E n \in Name, m \in Method, args \in Args : AssignCall(n, m, args)
        \/ Return \/ Leave
        \/ \E v \in Val : AssignEnd(v)
        \/ \E b \in Thread : Enter(b)

Spec == Init /\ [][Next]_vars

----------------------------------------------------------------------------
Saved == {k \in DOMAIN stack : stack[k].kind = "call" /\ stack[k].sav_env # 0}

\* No block is linked to a table that was freed, none will be when the calls
\* return, and no table waits for two of them.
TypeOK ==
  /\ env \in [Thread -> Live]
  /\ tables \in [TableId -> [Name -> Val \cup {Unset}] \cup {<<>>}]
  /\ cur_thr \in Thread
  /\ argv \in [Method -> Name \cup Val \cup {Nobody}]
  /\ \A k \in DOMAIN stack : stack[k].kind = "assign" => stack[k].tbl \in Live
  /\ \A k \in Saved : stack[k].sav_env \in Live
  /\ \A j, k \in Saved : stack[j].sav_env = stack[k].sav_env => j = k

Returning == /\ stack # <<>> /\ Last(stack).kind = "call"
             /\ stack' = Front(stack)

\* When a call returns every block is linked to the table it was linked to at
\* the call, whatever calls and recursions there were in between
\* (eval.c:197-204, 219-225).
CallsRestoreEnv == [][Returning => env' = Last(stack).envs]_vars

\* A call leaves its caller's variables alone -- unless a method's table is
\* used by two of its calls: after a call from a block of the method or by way
\* of another method, and after entering an if in a call that has a table of
\* its own (parse.y:207, eval.c:200).
CallerKeepsLocals ==
  [][Returning => \/ Last(stack).shared
                  \/ tables'[env'[cur_thr']] = Last(stack).before]_vars

\* A method changes no variable of the program, nor of the blocks its
\* definition is written in: var_in_scope ends at the method (parse.y:184).
MethodsLeaveMainAlone ==
  [][(\E k \in DOMAIN stack : stack[k].kind = "call")
       => tables'[env[Main]] = tables[env[Main]]]_vars

\* "Note also proper scope handling", recurse.toi:2 says of a recursion in an
\* else: a call leaves its caller's variables alone.
RecursionKeepsLocals ==
  [][Returning => tables'[env'[cur_thr']] = Last(stack).before]_vars
=============================================================================
