------------------------------ MODULE VarTable ------------------------------
(***************************************************************************)
(* A table of variables (a thread's env_tbl) or of methods (a class's      *)
(* im_tbl, sm_tbl), as eval.c, class.c and symbol.c use it: a definition   *)
(* or assignment never replaces the entry of the name, it pushes another   *)
(* one with st_add_direct and relies on the newest being found first.      *)
(* The history variables say what the program assigned.                    *)
(***************************************************************************)
EXTENDS StTable

CONSTANT MaxWrites      \* bound: assignments in a run

VARIABLES latest,       \* the value last assigned to each name
          lastName,     \* the name assigned last
          writes        \* number of assignments

history == <<latest, lastName, writes>>
vvars   == <<vars, history>>

VInit == /\ Init
         /\ latest = [k \in Key |-> Never]
         /\ lastName = Never
         /\ writes = 0

\* mutant: a name that is there already is not stored again
assign0Once(k, r) ==
  /\ writes < MaxWrites
  /\ pc = "ready"
  /\ \/ Matches(k) = {} /\ ADD_DIRECT(k, r)
     \/ Matches(k) # {} /\ UNCHANGED vars
  /\ latest' = [latest EXCEPT ![k] = r]
  /\ lastName' = k
  /\ writes' = writes + 1

\* assign0 and the define_ functions: what they store, they add.
assign0(k, r) ==
  /\ writes < MaxWrites
  /\ st_add_direct(k, r)
  /\ latest' = [latest EXCEPT ![k] = r]
  /\ lastName' = k
  /\ writes' = writes + 1

\* sym2ref, check_variable, get_method: a reference looks the name up.
check_variable(k) == st_lookup(k) /\ UNCHANGED history

VNext == \/ \E k \in Key : check_variable(k)
         \/ \E k \in Key, r \in Record : assign0(k, r)
         \/ Rehash /\ UNCHANGED history

VSpec == VInit /\ [][VNext]_vvars

----------------------------------------------------------------------------
\* The record a reference to k finds now.
Found(k) == LET M == Matches(k)
            IN  IF M = {} THEN Never
                ELSE Chain(k)[CHOOSE p \in M : \A q \in M : p <= q].record

\* A variable that was assigned is found, before and after any growth.
DefinedStaysDefined ==
  pc = "ready" => \A k \in Key : latest[k] # Never => Found(k) # Never

\* The assignment just made is the one seen, also when it made the table
\* grow: ADD_DIRECT pushes after rehash() has reversed the older entries.
ReadYourWrite ==
  pc = "ready" /\ lastName # Never => Found(lastName) = latest[lastName]

\* What symbol.c:8-9 promises of these tables: each name has the value it
\* was last given.  rehash() walks a chain from its head and pushes each
\* entry on the head of its new chain, so that after a growth the oldest
\* value of a name comes first.
LatestWins == pc = "ready" => \A k \in Key : Found(k) = latest[k]
=============================================================================
