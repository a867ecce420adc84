---------------------------- MODULE ScopeProofs ----------------------------
(***************************************************************************)
(* Proofs about Scope, for every nest of blocks, every set of methods and  *)
(* names, any number of tables and any depth of calls.                     *)
(***************************************************************************)
EXTENDS Scope, Induction

\* The links the parser leaves follow the nest.
LEMMA BlocksEnd ==
  /\ \A t \in Shares : Parent[t] \in Thread
  /\ Ends(Thread, Thread \ Shares, Parent)
  /\ Closed(Thread, Thread \ Shares, Parent)
BY BlocksAssumption DEF Ends, Closed

\* The recursive definition of Home defines a function.
LEMMA HomeDef ==
  /\ Home = [t \in Thread |-> IF t \in Shares THEN Home[Parent[t]] ELSE t]
  /\ \A t \in Thread : Home[t] \in Thread
<1>1. PICK f : f = [t \in Thread |-> IF t \in Thread \ Shares THEN t ELSE f[Parent[t]]]
  BY BlocksEnd, WalkExists
<1>2. f = [t \in Thread |-> IF t \in Shares THEN f[Parent[t]] ELSE t]
  BY <1>1
<1>3. \E g : g = [t \in Thread |-> IF t \in Shares THEN g[Parent[t]] ELSE t]
  BY <1>2
<1>4. Home = [t \in Thread |-> IF t \in Shares THEN Home[Parent[t]] ELSE t]
  BY <1>3 DEF Home
<1>5. \A t \in Thread : Home[t] = IF t \in Thread \ Shares THEN t ELSE Home[Parent[t]]
  BY <1>4
<1>6. \A t \in Thread : Home[t] \in Thread
  BY <1>5, BlocksEnd, WalkStays
<1> QED
  BY <1>4, <1>6

LEMMA HomeOf ==
  /\ \A m \in Method : Home[m] = m
  /\ Home[Main] = Main
  /\ \A t \in Shares : Home[t] = Home[Parent[t]]
  /\ \A t \in Thread \ Shares : Home[t] = t
BY HomeDef, BlocksAssumption

LEMMA LinksType == Links \in [Thread -> TableId] /\ Linked(Links)
BY TablesAssumption DEF Links

LEMMA UpType ==
  /\ up \in [Thread -> Thread \cup {Nobody}]
  /\ up[Main] = Nobody /\ \A m \in Method : up[m] = Nobody
  /\ \A t \in Thread : up[t] # Nobody => up[t] = Parent[t] /\ t # Main
BY BlocksAssumption DEF up

\* The search for a variable ends, at a block outwards of where it began, or
\* nowhere: Z is any set of blocks that holds with each block the next one.
LEMMA ScopeWalk ==
  ASSUME NEW n, NEW Z \in SUBSET Thread, \A z \in Z : up[z] \in Z \cup {Nobody},
         NEW t \in Z
  PROVE  var_in_scope(n, t) \in Z \cup {Nobody}
<1> DEFINE S == Thread \cup {Nobody}
           Stop == {Nobody} \cup {s \in Thread : tables[env[s]][n] # Unset}
           from == CHOOSE g : g = [s \in S |->
                      IF s = Nobody THEN Nobody
                      ELSE IF tables[env[s]][n] # Unset THEN s ELSE g[up[s]]]
<1>1. Ends(S, Stop, up)
  <2> SUFFICES ASSUME NEW T \in SUBSET S, T # {}
               PROVE  \E s \in T : s \in Stop \/ up[s] \notin T
    BY DEF Ends
  <2>1. CASE Nobody \in T
    BY <2>1
  <2>2. CASE Nobody \notin T
    <3>1. T \in SUBSET Thread
      BY <2>2
    <3>2. PICK b \in T : b = Main \/ Parent[b] \notin T
      BY <3>1, BlocksAssumption
    <3>3. up[b] \notin T
      BY <2>2, <3>1, <3>2, UpType
    <3> QED
      BY <3>3
  <2> QED
    BY <2>1, <2>2
<1>2. Closed(S, Stop, up)
  BY UpType DEF Closed
<1>3. PICK f : f = [s \in S |-> IF s \in Stop THEN s ELSE f[up[s]]]
  <2> HIDE DEF S, Stop
  <2> QED
    BY <1>1, <1>2, WalkExists
<1>4. f = [s \in S |-> IF s = Nobody THEN Nobody
                       ELSE IF tables[env[s]][n] # Unset THEN s ELSE f[up[s]]]
  BY <1>3, BlocksAssumption
<1>5. \E g : g = [s \in S |-> IF s = Nobody THEN Nobody
                       ELSE IF tables[env[s]][n] # Unset THEN s ELSE g[up[s]]]
  BY <1>4
<1>6. from = [s \in S |-> IF s = Nobody THEN Nobody
                          ELSE IF tables[env[s]][n] # Unset THEN s ELSE from[up[s]]]
  BY <1>5
<1>7. var_in_scope(n, t) = from[t]
  BY DEF var_in_scope
<1> HIDE DEF from
<1>8. \A s \in S : from[s] = IF s \in Stop THEN s ELSE from[up[s]]
  BY <1>6, BlocksAssumption
<1>9. Closed(Z \cup {Nobody}, Stop, up) /\ Z \cup {Nobody} \in SUBSET S
  BY DEF Closed
<1> HIDE DEF S, Stop
<1>10. from[t] \in Z \cup {Nobody}
  BY <1>1, <1>8, <1>9, WalkStays
<1> QED
  BY <1>7, <1>10

----------------------------------------------------------------------------
(***************************************************************************)
(* The moments of a run: the frames of the C stack st, and before and      *)
(* after each of them the links E of the blocks and the running block C.   *)
(***************************************************************************)
Table     == [Name -> Val \cup {Unset}]
CallRec   == [kind : {"call"}, block : Method, saved : Thread, sav_env : 0..NumTables,
              envs : [Thread -> TableId], before : Table, shared : BOOLEAN]
AssignRec == [kind : {"assign"}, name : Name, tbl : TableId]
BlockRec  == [kind : {"block"}, saved : Thread]
FrameRec  == CallRec \cup AssignRec \cup BlockRec

\* A method that is called by itself is linked to another table.
Relinked(f, e, c, e2) == /\ f.sav_env = e[f.block] /\ c = f.block
                         /\ e2 = [e EXCEPT ![f.block] = e2[f.block]]

\* Frame f leads from the links e and the block c to e2 and c2.
Leads(f, e, c, e2, c2) ==
  \/ f \in AssignRec /\ e2 = e /\ c2 = c /\ \E t \in Thread : f.tbl = e[t]
  \/ f \in BlockRec /\ e2 = e /\ f.saved = c /\ up[c2] = c
  \/ /\ f \in CallRec /\ c2 = f.block /\ f.saved = c /\ f.envs = e
     /\ \/ f.sav_env = 0 /\ e2 = e
        \/ Relinked(f, e, c, e2)

Path(st, E, C) ==
  /\ st \in Seq(FrameRec)
  /\ E \in Seq([Thread -> TableId]) /\ Len(E) = Len(st) + 1
  /\ C \in Seq(Thread) /\ Len(C) = Len(st) + 1 /\ C[1] = Main
  /\ \A k \in 1..Len(st) : Leads(st[k], E[k], C[k], E[k+1], C[k+1])

Calls(st) == {k \in 1..Len(st) : st[k].kind = "call"}

\* The table a method got for a call of itself was nobody's before.
Fresh(st, E) ==
  \A k \in Calls(st) : st[k].sav_env # 0 =>
     \A i \in 1..k, j \in (k+1)..Len(E), t \in Thread : E[j][st[k].block] # E[i][t]

\* Two methods never have the same table, not even at different moments.
Apart(E) == \A i, j \in 1..Len(E) : \A m, n \in Method : m # n => E[i][m] # E[j][n]

\* A block that ran, or is to be assigned to, on the table of a caller.
Noted(st, E, C) ==
  \A j \in Calls(st) :
     /\ \A k \in (j+1)..Len(E) : E[k][C[k]] = E[j][C[j]] => st[j].shared
     /\ \A k \in (j+1)..Len(st) :
           st[k].kind = "assign" /\ st[k].tbl = E[j][C[j]] => st[j].shared

\* Inside a call nothing uses the table of the program.
OffMain(st, E, C) ==
  /\ \A k \in 1..Len(E) : E[k][Main] = E[1][Main]
  /\ \A k \in 1..Len(E), t \in Thread : Home[t] # Main => E[k][t] # E[1][Main]
  /\ \A j \in Calls(st) :
        /\ \A k \in (j+1)..Len(E) : Home[C[k]] # Main
        /\ \A k \in (j+1)..Len(st) : st[k].kind = "assign" => st[k].tbl # E[1][Main]

Kept(st, E, C, tb) ==
  \A j \in Calls(st) : st[j].shared \/ tb[E[j][C[j]]] = st[j].before

AllThere(E, tb) ==
  /\ tb \in [TableId -> Table \cup {<<>>}]
  /\ \A k \in 1..Len(E), t \in Thread : tb[E[k][t]] # <<>>

Sound(st, E, C, tb) ==
  /\ Path(st, E, C) /\ Fresh(st, E) /\ Apart(E) /\ Noted(st, E, C)
  /\ OffMain(st, E, C) /\ Kept(st, E, C, tb) /\ AllThere(E, tb)

\* What Append does.
LEMMA Appended ==
  ASSUME NEW S, NEW s \in Seq(S), NEW x \in S
  PROVE  /\ Append(s, x) \in Seq(S) /\ Len(Append(s, x)) = Len(s) + 1
         /\ \A k \in 1..Len(s) : Append(s, x)[k] = s[k]
         /\ Append(s, x)[Len(s) + 1] = x
OBVIOUS

\* What Front does.
LEMMA Shortened ==
  ASSUME NEW S, NEW s \in Seq(S), s # <<>>
  PROVE  /\ Front(s) \in Seq(S) /\ Len(Front(s)) = Len(s) - 1
         /\ \A k \in 1..(Len(s)-1) : Front(s)[k] = s[k]
         /\ Last(s) = s[Len(s)] /\ Len(s) \in Nat \ {0}
<1>1. Len(s) \in Nat \ {0}
  OBVIOUS
<1>2. /\ SubSeq(s, 1, Len(s)-1) \in Seq(S)
      /\ Len(SubSeq(s, 1, Len(s)-1)) = Len(s) - 1
      /\ \A k \in 1..(Len(s)-1) : SubSeq(s, 1, Len(s)-1)[k] = s[k]
  <2>1. \A p \in 1..Len(s) : /\ SubSeq(s, 1, p-1) \in Seq(S)
                             /\ Len(SubSeq(s, 1, p-1)) = p-1
                             /\ \A q \in 1..(p-1) : SubSeq(s, 1, p-1)[q] = s[q]
    OBVIOUS
  <2>2. Len(s) \in 1..Len(s)
    BY <1>1
  <2> QED
    BY <2>1, <2>2
<1> QED
  BY <1>1, <1>2 DEF Front, Last

\* A table is not the null pointer.
LEMMA TableIsNone == <<>> \notin Table
BY NamesAssumption DEF Table

----------------------------------------------------------------------------
\* A store in a table that no caller counts on.
LEMMA StoreSound ==
  ASSUME NEW st, NEW E, NEW C, NEW tb, Sound(st, E, C, tb),
         NEW tbl \in TableId, tb[tbl] # <<>>, NEW n \in Name, NEW v \in Val,
         \A j \in Calls(st) : E[j][C[j]] = tbl => st[j].shared
  PROVE  Sound(st, E, C, [tb EXCEPT ![tbl][n] = v])
<1> DEFINE tc == [tb EXCEPT ![tbl][n] = v]
<1>1. tb[tbl] \in Table /\ tb \in [TableId -> Table \cup {<<>>}]
  BY DEF Sound, AllThere
<1>2. [tb[tbl] EXCEPT ![n] = v] \in Table
  BY <1>1 DEF Table
<1>3. /\ tc \in [TableId -> Table \cup {<<>>}] /\ tc[tbl] # <<>>
      /\ \A t \in TableId : t # tbl => tc[t] = tb[t]
  BY <1>1, <1>2, TableIsNone
<1> HIDE DEF tc
<1>4. ASSUME NEW k \in 1..Len(E), NEW t \in Thread
      PROVE  E[k][t] \in TableId /\ tb[E[k][t]] # <<>>
  BY DEF Sound, Path, AllThere
<1>5. AllThere(E, tc)
  BY <1>3, <1>4 DEF AllThere
<1>6. Kept(st, E, C, tc)
  <2> SUFFICES ASSUME NEW j \in Calls(st)
               PROVE  st[j].shared \/ tc[E[j][C[j]]] = st[j].before
    BY DEF Kept
  <2>1. E[j][C[j]] \in TableId
    BY DEF Sound, Path, Calls
  <2> QED
    BY <1>3, <2>1 DEF Sound, Kept
<1> QED
  BY <1>5, <1>6 DEF Sound, tc

\* A table that no block is linked to, now or after a return.
LEMMA OtherTableSound ==
  ASSUME NEW st, NEW E, NEW C, NEW tb, Sound(st, E, C, tb),
         NEW tbl \in TableId, NEW x \in Table \cup {<<>>},
         \A k \in 1..Len(E), t \in Thread : E[k][t] # tbl
  PROVE  Sound(st, E, C, [tb EXCEPT ![tbl] = x])
<1> DEFINE tc == [tb EXCEPT ![tbl] = x]
<1>1. /\ tc \in [TableId -> Table \cup {<<>>}]
      /\ \A t \in TableId : t # tbl => tc[t] = tb[t]
  BY DEF Sound, AllThere
<1> HIDE DEF tc
<1>2. ASSUME NEW k \in 1..Len(E), NEW t \in Thread
      PROVE  E[k][t] \in TableId /\ tc[E[k][t]] = tb[E[k][t]]
  BY <1>1 DEF Sound, Path
<1>3. AllThere(E, tc)
  BY <1>1, <1>2 DEF AllThere, Sound
<1>4. Kept(st, E, C, tc)
  <2> SUFFICES ASSUME NEW j \in Calls(st)
               PROVE  st[j].shared \/ tc[E[j][C[j]]] = st[j].before
    BY DEF Kept
  <2>1. tc[E[j][C[j]]] = tb[E[j][C[j]]]
    BY <1>2 DEF Sound, Path, Calls
  <2> QED
    BY <2>1 DEF Sound, Kept
<1> QED
  BY <1>3, <1>4 DEF Sound, tc

\* The end of the topmost frame.
LEMMA PopSound ==
  ASSUME NEW st, NEW E, NEW C, NEW tb, Sound(st, E, C, tb), st # <<>>
  PROVE  Sound(Front(st), Front(E), Front(C), tb)
<1> DEFINE s == Front(st)
           F == Front(E)
           D == Front(C)
<1>1. /\ s \in Seq(FrameRec) /\ Len(s) = Len(st) - 1 /\ Len(st) \in Nat \ {0}
      /\ \A k \in 1..Len(s) : s[k] = st[k]
  BY Shortened DEF Sound, Path
<1>2. /\ F \in Seq([Thread -> TableId]) /\ Len(F) = Len(s) + 1 /\ Len(E) = Len(st) + 1
      /\ \A k \in 1..Len(F) : F[k] = E[k]
  <2>1. E \in Seq([Thread -> TableId]) /\ Len(E) = Len(st) + 1 /\ E # <<>>
    BY <1>1 DEF Sound, Path
  <2>2. /\ F \in Seq([Thread -> TableId]) /\ Len(F) = Len(E) - 1
        /\ \A k \in 1..(Len(E)-1) : F[k] = E[k]
    BY <2>1, Shortened
  <2> HIDE DEF F
  <2> QED
    BY <1>1, <2>1, <2>2
<1>3. /\ D \in Seq(Thread) /\ Len(D) = Len(s) + 1
      /\ \A k \in 1..Len(D) : D[k] = C[k]
  <2>1. C \in Seq(Thread) /\ Len(C) = Len(st) + 1 /\ C # <<>>
    BY <1>1 DEF Sound, Path
  <2>2. /\ D \in Seq(Thread) /\ Len(D) = Len(C) - 1
        /\ \A k \in 1..(Len(C)-1) : D[k] = C[k]
    BY <2>1, Shortened
  <2> HIDE DEF D
  <2> QED
    BY <1>1, <2>1, <2>2
<1> HIDE DEF s, F, D
<1>4. Calls(s) \subseteq Calls(st) /\ \A k \in Calls(s) : k \in 1..Len(s) /\ s[k] = st[k]
  BY <1>1 DEF Calls
<1>0. \A k \in 1..Len(s) :
         /\ k \in 1..Len(st) /\ k \in 1..Len(F) /\ k+1 \in 1..Len(F) /\ k+1 \in 1..Len(E)
         /\ s[k] = st[k] /\ F[k] = E[k] /\ F[k+1] = E[k+1] /\ D[k] = C[k] /\ D[k+1] = C[k+1]
  BY <1>1, <1>2, <1>3
<1>a. /\ 1 \in 1..Len(F) /\ Len(F) = Len(s) + 1 /\ Len(s) \in Nat
      /\ Len(E) = Len(s) + 2 /\ Len(st) = Len(s) + 1 /\ Len(D) = Len(F)
  BY <1>1, <1>2, <1>3
<1>b. /\ \A k \in 1..Len(F) : k \in 1..Len(E) /\ F[k] = E[k] /\ D[k] = C[k]
  BY <1>a, <1>2, <1>3
<1>c. \A j \in Calls(s) : j \in 1..Len(F) /\ j \in 1..Len(s) /\ j \in Calls(st) /\ s[j] = st[j]
  BY <1>a, <1>4
<1>5. Path(s, F, D)
  <2>1. Path(st, E, C)
    BY DEF Sound
  <2>2. D[1] = Main
    BY <2>1, <1>a, <1>b DEF Path
  <2>3. \A k \in 1..Len(s) : Leads(s[k], F[k], D[k], F[k+1], D[k+1])
    BY <2>1, <1>0 DEF Path
  <2> QED
    BY <1>1, <1>2, <1>3, <2>2, <2>3 DEF Path
<1>6. Fresh(s, F)
  BY <1>1, <1>2, <1>4 DEF Sound, Fresh
<1>7. Apart(F)
  BY <1>1, <1>2 DEF Sound, Apart
<1>8. Noted(s, F, D)
  <2> SUFFICES ASSUME NEW j \in Calls(s)
               PROVE  /\ \A k \in (j+1)..Len(F) : F[k][D[k]] = F[j][D[j]] => s[j].shared
                      /\ \A k \in (j+1)..Len(s) :
                            s[k].kind = "assign" /\ s[k].tbl = F[j][D[j]] => s[j].shared
    BY DEF Noted
  <2>1. /\ \A k \in (j+1)..Len(E) : E[k][C[k]] = E[j][C[j]] => st[j].shared
        /\ \A k \in (j+1)..Len(st) :
              st[k].kind = "assign" /\ st[k].tbl = E[j][C[j]] => st[j].shared
    BY <1>4 DEF Sound, Noted
  <2>2. \A k \in (j+1)..Len(F) : k \in 1..Len(F) /\ k \in (j+1)..Len(E)
    BY <1>a, <1>c
  <2>3. \A k \in (j+1)..Len(s) : k \in 1..Len(s) /\ k \in (j+1)..Len(st) /\ s[k] = st[k]
    BY <1>a, <1>c, <1>0
  <2> QED
    BY <1>b, <1>c, <2>1, <2>2, <2>3
<1>9. OffMain(s, F, D)
  <2>1. /\ \A k \in 1..Len(F) : k \in 1..Len(E) /\ F[k] = E[k] /\ D[k] = C[k]
        /\ 1 \in 1..Len(F)
    BY <1>1, <1>2, <1>3
  <2>2. /\ \A k \in 1..Len(F) : F[k][Main] = F[1][Main]
        /\ \A k \in 1..Len(F), t \in Thread : Home[t] # Main => F[k][t] # F[1][Main]
    BY <2>1 DEF Sound, OffMain
  <2>3. ASSUME NEW j \in Calls(s)
        PROVE  /\ \A k \in (j+1)..Len(F) : Home[D[k]] # Main
               /\ \A k \in (j+1)..Len(s) : s[k].kind = "assign" => s[k].tbl # F[1][Main]
    <3>1. /\ \A k \in (j+1)..Len(E) : Home[C[k]] # Main
          /\ \A k \in (j+1)..Len(st) : st[k].kind = "assign" => st[k].tbl # E[1][Main]
      BY <1>4 DEF Sound, OffMain
    <3>2. \A k \in (j+1)..Len(F) : k \in 1..Len(F) /\ k \in (j+1)..Len(E)
      BY <1>a, <1>c
    <3>3. \A k \in (j+1)..Len(s) : k \in 1..Len(s) /\ k \in (j+1)..Len(st) /\ s[k] = st[k]
      BY <1>a, <1>c, <1>0
    <3> QED
      BY <1>b, <1>c, <2>1, <3>1, <3>2, <3>3
  <2> QED
    BY <2>2, <2>3 DEF OffMain
<1>10. Kept(s, F, D, tb)
  BY <1>1, <1>2, <1>3, <1>4, SMTT(30) DEF Sound, Kept
<1>11. AllThere(F, tb)
  BY <1>1, <1>2 DEF Sound, AllThere
<1> QED
  BY <1>5, <1>6, <1>7, <1>8, <1>9, <1>10, <1>11 DEF Sound, s, F, D

\* The calls whose caller is on table tbl, marked as such.
LEMMA NoteSound ==
  ASSUME NEW st, NEW E, NEW C, NEW tb, Sound(st, E, C, tb), NEW tbl
  PROVE  /\ Sound(Note(st, tbl), E, C, tb)
         /\ Len(Note(st, tbl)) = Len(st) /\ Calls(Note(st, tbl)) = Calls(st)
         /\ \A j \in Calls(st) : E[j][C[j]] = tbl => Note(st, tbl)[j].shared
<1> DEFINE s == Note(st, tbl)
<1>1. /\ st \in Seq(FrameRec) /\ Len(st) \in Nat /\ DOMAIN st = 1..Len(st)
      /\ \A k \in 1..Len(st) : Leads(st[k], E[k], C[k], E[k+1], C[k+1])
  BY DEF Sound, Path
<1>2. ASSUME NEW k \in 1..Len(st)
      PROVE  /\ s[k] \in FrameRec /\ s[k].kind = st[k].kind
             /\ st[k].kind # "call" => s[k] = st[k]
             /\ st[k].kind = "call" =>
                  /\ st[k] \in CallRec /\ s[k] \in CallRec
                  /\ st[k].envs = E[k] /\ st[k].saved = C[k]
                  /\ s[k].block = st[k].block /\ s[k].saved = st[k].saved
                  /\ s[k].sav_env = st[k].sav_env /\ s[k].envs = st[k].envs
                  /\ s[k].before = st[k].before
                  /\ st[k].shared => s[k].shared
                  /\ E[k][C[k]] = tbl => s[k].shared
  <2>1. Leads(st[k], E[k], C[k], E[k+1], C[k+1]) /\ st[k] \in FrameRec
    BY <1>1
  <2>2. CASE st[k].kind # "call"
    <3>1. s[k] = st[k]
      BY <1>1, <2>2 DEF Note
    <3> QED
      BY <2>1, <2>2, <3>1
  <2>3. CASE st[k].kind = "call"
    <3>1. st[k] \in CallRec /\ st[k].envs = E[k] /\ st[k].saved = C[k]
      BY <2>1, <2>3 DEF Leads, AssignRec, BlockRec
    <3>2. s[k] = IF E[k][C[k]] = tbl THEN [st[k] EXCEPT !.shared = TRUE] ELSE st[k]
      BY <1>1, <2>3, <3>1 DEF Note
    <3>3. CASE E[k][C[k]] = tbl
      <4>1. s[k] = [st[k] EXCEPT !.shared = TRUE]
        BY <3>2, <3>3
      <4>2. s[k] \in CallRec /\ s[k].shared = TRUE
        BY <3>1, <4>1 DEF CallRec
      <4>3. /\ s[k].block = st[k].block /\ s[k].saved = st[k].saved
            /\ s[k].sav_env = st[k].sav_env /\ s[k].envs = st[k].envs
            /\ s[k].before = st[k].before /\ s[k].kind = st[k].kind
        BY <3>1, <4>1 DEF CallRec
      <4> HIDE DEF s
      <4> QED
        BY <2>3, <3>1, <4>2, <4>3 DEF FrameRec
    <3>4. CASE E[k][C[k]] # tbl
      <4> HIDE DEF s
      <4> QED
        BY <2>1, <2>3, <3>1, <3>2, <3>4
    <3> QED
      BY <3>3, <3>4
  <2> QED
    BY <2>2, <2>3
<1>3. s \in Seq(FrameRec) /\ Len(s) = Len(st)
  <2>1. s = [k \in 1..Len(st) |-> s[k]]
    BY <1>1 DEF Note
  <2> HIDE DEF s
  <2>2. \A k \in 1..Len(st) : s[k] \in FrameRec
    BY <1>2
  <2> QED
    BY <1>1, <2>1, <2>2
<1> HIDE DEF s
<1>4. Calls(s) = Calls(st)
  BY <1>2, <1>3 DEF Calls
<1>5. \A k \in Calls(st) : k \in 1..Len(st) /\ st[k].kind = "call"
  BY DEF Calls
<1>6. Path(s, E, C)
  <2> SUFFICES ASSUME NEW k \in 1..Len(st)
               PROVE  Leads(s[k], E[k], C[k], E[k+1], C[k+1])
    BY <1>3 DEF Sound, Path
  <2>1. Leads(st[k], E[k], C[k], E[k+1], C[k+1])
    BY <1>1
  <2>2. CASE st[k].kind # "call"
    BY <1>2, <2>1, <2>2
  <2>3. CASE st[k].kind = "call"
    BY <1>2, <2>1, <2>3 DEF Leads, AssignRec, BlockRec, Relinked
  <2> QED
    BY <2>2, <2>3
<1>7. Fresh(s, E)
  BY <1>2, <1>4, <1>5 DEF Sound, Fresh
<1>8. Noted(s, E, C)
  <2> SUFFICES ASSUME NEW j \in Calls(st)
               PROVE  /\ \A k \in (j+1)..Len(E) : E[k][C[k]] = E[j][C[j]] => s[j].shared
                      /\ \A k \in (j+1)..Len(st) :
                            s[k].kind = "assign" /\ s[k].tbl = E[j][C[j]] => s[j].shared
    BY <1>3, <1>4 DEF Noted
  <2>1. /\ \A k \in (j+1)..Len(E) : E[k][C[k]] = E[j][C[j]] => st[j].shared
        /\ \A k \in (j+1)..Len(st) :
              st[k].kind = "assign" /\ st[k].tbl = E[j][C[j]] => st[j].shared
    BY DEF Sound, Noted
  <2>2. st[j].shared => s[j].shared
    BY <1>2, <1>5
  <2>3. \A k \in (j+1)..Len(st) : k \in 1..Len(st)
    BY <1>1, <1>5
  <2>4. \A k \in (j+1)..Len(st) : s[k].kind = "assign" => s[k] = st[k] /\ st[k].kind = "assign"
    BY <1>2, <2>3
  <2> QED
    BY <2>1, <2>2, <2>4
<1>9. OffMain(s, E, C)
  <2>1. ASSUME NEW j \in Calls(st), NEW k \in (j+1)..Len(st), s[k].kind = "assign"
        PROVE  s[k].tbl # E[1][Main]
    <3>1. k \in 1..Len(st)
      BY <1>1, <1>5
    <3>2. s[k] = st[k] /\ st[k].kind = "assign"
      BY <1>2, <2>1, <3>1
    <3> QED
      BY <3>2 DEF Sound, OffMain
  <2> QED
    BY <1>3, <1>4, <2>1 DEF Sound, OffMain
<1>10. Kept(s, E, C, tb)
  BY <1>2, <1>4, <1>5 DEF Sound, Kept
<1> QED
  BY <1>2, <1>3, <1>4, <1>5, <1>6, <1>7, <1>8, <1>9, <1>10 DEF Sound, s

\* Where a number between others lies.
LEMMA Between ==
  ASSUME NEW n \in Nat, NEW j \in 1..(n-1)
  PROVE  /\ \A k \in (j+1)..(n+1) : k = n+1 \/ (k \in (j+1)..n /\ k \in 1..n)
         /\ \A k \in (j+1)..n : k = n \/ (k \in (j+1)..(n-1) /\ k \in 1..(n-1))
OBVIOUS

\* A new frame on top, that leads to the links e and the block c.
LEMMA PushSound ==
  ASSUME NEW st, NEW E, NEW C, NEW tb, Sound(st, E, C, tb),
         NEW n, n = Len(st) + 1,
         NEW f \in FrameRec, NEW e \in [Thread -> TableId], NEW c \in Thread,
         Leads(f, E[n], C[n], e, c),
         \A t \in Thread : tb[e[t]] # <<>>,
         f.kind = "call" => /\ f.sav_env # 0 =>
                                 \A i \in 1..n, t \in Thread : e[f.block] # E[i][t]
                            /\ E[n][C[n]] = e[c] => f.shared
                            /\ f.shared \/ tb[E[n][C[n]]] = f.before,
         \A j \in Calls(st) : /\ e[c] = E[j][C[j]] => st[j].shared
                              /\ f.kind = "assign" /\ f.tbl = E[j][C[j]] => st[j].shared,
         Calls(st) # {} \/ f.kind = "call" => Home[c] # Main,
         Calls(st) # {} /\ f.kind = "assign" => f.tbl # E[1][Main]
  PROVE  Sound(Append(st, f), Append(E, e), Append(C, c), tb)
<1> DEFINE s == Append(st, f)
           F == Append(E, e)
           D == Append(C, c)
<1>1. /\ s \in Seq(FrameRec) /\ Len(s) = n /\ n \in Nat \ {0}
      /\ \A k \in 1..(n-1) : s[k] = st[k]
      /\ s[n] = f
  <2>1. st \in Seq(FrameRec) /\ Len(st) \in Nat
    BY DEF Sound, Path
  <2>2. /\ s \in Seq(FrameRec) /\ Len(s) = Len(st) + 1
        /\ \A k \in 1..Len(st) : s[k] = st[k]
        /\ s[Len(st)+1] = f
    BY <2>1, Appended
  <2> HIDE DEF s
  <2> QED
    BY <2>1, <2>2
<1>2. /\ F \in Seq([Thread -> TableId]) /\ Len(F) = n + 1 /\ Len(E) = n
      /\ \A k \in 1..n : F[k] = E[k]
      /\ F[n+1] = e
  <2>1. E \in Seq([Thread -> TableId]) /\ Len(E) = n
    BY DEF Sound, Path
  <2>2. /\ F \in Seq([Thread -> TableId]) /\ Len(F) = Len(E) + 1
        /\ \A k \in 1..Len(E) : F[k] = E[k]
        /\ F[Len(E)+1] = e
    BY <2>1, Appended
  <2> HIDE DEF F
  <2> QED
    BY <2>1, <2>2
<1>3. /\ D \in Seq(Thread) /\ Len(D) = n + 1 /\ Len(C) = n
      /\ \A k \in 1..n : D[k] = C[k]
      /\ D[n+1] = c
  <2>1. C \in Seq(Thread) /\ Len(C) = n
    BY DEF Sound, Path
  <2>2. /\ D \in Seq(Thread) /\ Len(D) = Len(C) + 1
        /\ \A k \in 1..Len(C) : D[k] = C[k]
        /\ D[Len(C)+1] = c
    BY <2>1, Appended
  <2> HIDE DEF D
  <2> QED
    BY <2>1, <2>2
<1> HIDE DEF s, F, D
<1>4. /\ Calls(s) = Calls(st) \cup (IF f.kind = "call" THEN {n} ELSE {})
      /\ \A k \in Calls(st) : k \in 1..(n-1)
  BY <1>1 DEF Calls
<1>5. ASSUME NEW t \in Thread
      PROVE  \/ e[t] = E[n][t]
             \/ /\ f.kind = "call" /\ f.sav_env # 0 /\ t = f.block /\ t \in Method
                /\ \A i \in 1..n, u \in Thread : e[t] # E[i][u]
  <2>1. E[n] \in [Thread -> TableId]
    BY <1>1, <1>2 DEF Sound, Path
  <2>2. CASE e = E[n]
    BY <2>2
  <2>3. CASE f \in CallRec /\ Relinked(f, E[n], C[n], e)
    <3>1. f.kind = "call" /\ f.block \in Method /\ f.sav_env \in TableId
      BY <2>1, <2>3, BlocksAssumption DEF CallRec, Relinked
    <3>2. f.sav_env # 0
      BY <3>1 DEF TableId
    <3>3. e = [E[n] EXCEPT ![f.block] = e[f.block]]
      BY <2>3 DEF Relinked
    <3>4. CASE t = f.block
      BY <3>1, <3>2, <3>4
    <3>5. CASE t # f.block
      <4>1. \A g \in [Thread -> TableId] : \A x, y : x # t => [g EXCEPT ![x] = y][t] = g[t]
        OBVIOUS
      <4> QED
        BY <2>1, <3>3, <3>5, <4>1
    <3> QED
      BY <3>4, <3>5
  <2> QED
    BY <2>2, <2>3 DEF Leads
<1>6. 1 \in 1..n /\ n \in 1..n /\ \A k \in 1..(n-1) : k \in 1..n /\ k+1 \in 1..n
  BY <1>1
<1>7. Path(s, F, D)
  <2>1. D[1] = Main
    BY <1>3, <1>6 DEF Sound, Path
  <2>2. ASSUME NEW k \in 1..n
        PROVE  Leads(s[k], F[k], D[k], F[k+1], D[k+1])
    <3>1. CASE k = n
      BY <1>1, <1>2, <1>3, <1>6, <3>1
    <3>2. CASE k # n
      <4>1. k \in 1..(n-1) /\ k \in 1..Len(st)
        BY <1>1, <3>2
      <4>2. Leads(st[k], E[k], C[k], E[k+1], C[k+1])
        BY <4>1 DEF Sound, Path
      <4> QED
        BY <1>1, <1>2, <1>3, <1>6, <4>1, <4>2
    <3> QED
      BY <3>1, <3>2
  <2> QED
    BY <1>1, <1>2, <1>3, <2>1, <2>2 DEF Path
<1>8. Fresh(s, F)
  <2> SUFFICES ASSUME NEW k \in Calls(s), s[k].sav_env # 0,
                      NEW i \in 1..k, NEW j \in (k+1)..(n+1), NEW t \in Thread
               PROVE  F[j][s[k].block] # F[i][t]
    BY <1>2 DEF Fresh
  <2>1. k \in 1..n /\ i \in 1..n /\ F[i] = E[i]
    BY <1>1, <1>2, <1>4
  <2>2. CASE k = n
    <3>1. j = n + 1 /\ f.kind = "call"
      BY <1>1, <1>4, <2>2
    <3> QED
      BY <1>1, <1>2, <2>1, <2>2, <3>1
  <2>3. CASE k # n
    <3>1. k \in Calls(st) /\ s[k] = st[k] /\ k \in 1..(n-1)
      BY <1>1, <1>4, <2>1, <2>3
    <3>2. \A q \in (k+1)..n : E[q][st[k].block] # E[i][t]
      BY <1>2, <2>1, <3>1 DEF Sound, Fresh
    <3>3. CASE j # n + 1
      <4>1. j \in (k+1)..n /\ j \in 1..n
        BY <1>1, <3>1, <3>3, Between
      <4> QED
        BY <1>2, <2>1, <3>1, <3>2, <4>1
    <3>4. CASE j = n + 1
      <4>1. n \in (k+1)..n
        BY <1>1, <3>1
      <4>2. E[n][st[k].block] # E[i][t]
        BY <3>2, <4>1
      <4>3. st[k].block \in Thread
        <5>1. Leads(st[k], E[k], C[k], E[k+1], C[k+1]) /\ st[k].kind = "call"
          BY <3>1 DEF Sound, Path, Calls
        <5> QED
          BY <5>1, BlocksAssumption DEF Leads, AssignRec, BlockRec, CallRec
      <4> QED
        BY <1>2, <1>5, <2>1, <3>1, <3>4, <4>2, <4>3
    <3> QED
      BY <3>3, <3>4
  <2> QED
    BY <2>2, <2>3
<1>9. Apart(F)
  <2>1. ASSUME NEW i \in 1..n, NEW m \in Method, NEW p \in Method, m # p
        PROVE  E[i][m] # e[p] /\ e[p] # e[m]
    <3>0. m \in Thread /\ p \in Thread
      BY BlocksAssumption
    <3>1. E[i][m] # E[n][p] /\ E[n][m] # E[n][p]
      BY <1>2, <1>6, <2>1 DEF Sound, Apart
    <3> QED
      BY <1>5, <1>6, <2>1, <3>0, <3>1
  <2>2. \A i \in 1..(n+1) : i \in 1..n \/ i = n+1
    BY <1>1
  <2> SUFFICES ASSUME NEW i \in 1..(n+1), NEW j \in 1..(n+1),
                      NEW m \in Method, NEW p \in Method, m # p
               PROVE  F[i][m] # F[j][p]
    BY <1>2 DEF Apart
  <2>3. CASE i \in 1..n /\ j \in 1..n
    BY <1>2, <2>3 DEF Sound, Apart
  <2>4. CASE i \in 1..n /\ j = n+1
    BY <1>2, <2>1, <2>4
  <2>5. CASE i = n+1 /\ j \in 1..n
    BY <1>2, <2>1, <2>5
  <2>6. CASE i = n+1 /\ j = n+1
    BY <1>2, <1>6, <2>1, <2>6
  <2> QED
    BY <2>2, <2>3, <2>4, <2>5, <2>6
<1>10. Noted(s, F, D)
  <2> SUFFICES ASSUME NEW j \in Calls(s)
               PROVE  /\ \A k \in (j+1)..(n+1) : F[k][D[k]] = F[j][D[j]] => s[j].shared
                      /\ \A k \in (j+1)..n :
                            s[k].kind = "assign" /\ s[k].tbl = F[j][D[j]] => s[j].shared
    BY <1>1, <1>2 DEF Noted
  <2>1. CASE j = n
    <3>1. f.kind = "call" /\ \A k \in (j+1)..(n+1) : k = n+1
      BY <1>1, <1>4, <2>1
    <3>2. (j+1)..n = {}
      BY <1>1, <2>1
    <3> QED
      BY <1>1, <1>2, <1>3, <1>6, <2>1, <3>1, <3>2
  <2>2. CASE j # n
    <3>1. j \in Calls(st) /\ j \in 1..(n-1) /\ j \in 1..n /\ s[j] = st[j]
      BY <1>1, <1>4, <2>2, <1>6
    <3>2. /\ \A k \in (j+1)..n : E[k][C[k]] = E[j][C[j]] => st[j].shared
          /\ \A k \in (j+1)..Len(st) :
                st[k].kind = "assign" /\ st[k].tbl = E[j][C[j]] => st[j].shared
      BY <1>2, <3>1 DEF Sound, Noted
    <3>3. ASSUME NEW k \in (j+1)..(n+1), F[k][D[k]] = F[j][D[j]]
          PROVE  s[j].shared
      <4>1. CASE k = n + 1
        BY <1>2, <1>3, <3>1, <3>3, <4>1
      <4>2. CASE k # n + 1
        <5>1. k \in (j+1)..n /\ k \in 1..n
          BY <1>1, <3>1, <4>2, Between
        <5> QED
          BY <1>2, <1>3, <3>1, <3>2, <3>3, <5>1
      <4> QED
        BY <4>1, <4>2
    <3>4. ASSUME NEW k \in (j+1)..n, s[k].kind = "assign", s[k].tbl = F[j][D[j]]
          PROVE  s[j].shared
      <4>1. CASE k = n
        BY <1>1, <1>2, <1>3, <3>1, <3>4, <4>1
      <4>2. CASE k # n
        <5>1. k \in (j+1)..Len(st) /\ k \in 1..(n-1)
          BY <1>1, <3>1, <4>2
        <5> QED
          BY <1>1, <1>2, <1>3, <3>1, <3>2, <3>4, <5>1
      <4> QED
        BY <4>1, <4>2
    <3> QED
      BY <3>3, <3>4
  <2> QED
    BY <2>1, <2>2
<1>11. OffMain(s, F, D)
  <2>0. F[1] = E[1] /\ \A k \in 1..(n+1) : (k \in 1..n /\ F[k] = E[k]) \/ (k = n+1 /\ F[k] = e)
    BY <1>1, <1>2, <1>6
  <2>1. e[Main] = E[1][Main]
    <3>1. E[n][Main] = E[1][Main]
      BY <1>2, <1>6 DEF Sound, OffMain
    <3> QED
      BY <1>5, <3>1, BlocksAssumption
  <2>2. \A t \in Thread : Home[t] # Main => e[t] # E[1][Main]
    <3>1. \A t \in Thread : Home[t] # Main => E[n][t] # E[1][Main]
      BY <1>2, <1>6 DEF Sound, OffMain
    <3> QED
      BY <1>5, <1>6, <3>1, BlocksAssumption
  <2>3. /\ \A k \in 1..(n+1) : F[k][Main] = F[1][Main]
        /\ \A k \in 1..(n+1), t \in Thread : Home[t] # Main => F[k][t] # F[1][Main]
    <3>1. /\ \A k \in 1..n : E[k][Main] = E[1][Main]
          /\ \A k \in 1..n, t \in Thread : Home[t] # Main => E[k][t] # E[1][Main]
      BY <1>2 DEF Sound, OffMain
    <3> QED
      BY <2>0, <2>1, <2>2, <3>1
  <2>4. ASSUME NEW j \in Calls(s)
        PROVE  /\ \A k \in (j+1)..(n+1) : Home[D[k]] # Main
               /\ \A k \in (j+1)..n : s[k].kind = "assign" => s[k].tbl # F[1][Main]
    <3>1. CASE j = n
      <4>1. f.kind = "call" /\ (\A k \in (j+1)..(n+1) : k = n+1) /\ (j+1)..n = {}
        BY <1>1, <1>4, <3>1
      <4> QED
        BY <1>3, <4>1
    <3>2. CASE j # n
      <4>1. j \in Calls(st) /\ j \in 1..(n-1)
        BY <1>4, <3>2
      <4>2. /\ \A k \in (j+1)..n : Home[C[k]] # Main
            /\ \A k \in (j+1)..Len(st) : st[k].kind = "assign" => st[k].tbl # E[1][Main]
        BY <1>2, <4>1 DEF Sound, OffMain
      <4>3. Home[c] # Main /\ (f.kind = "assign" => f.tbl # E[1][Main])
        BY <4>1
      <4>4. \A k \in (j+1)..(n+1) : k = n+1 \/ (k \in (j+1)..n /\ k \in 1..n)
        BY <1>1, <4>1, Between
      <4>5. \A k \in (j+1)..n : k = n \/ (k \in (j+1)..Len(st) /\ k \in 1..(n-1))
        BY <1>1, <4>1
      <4>6. \A k \in (j+1)..(n+1) : Home[D[k]] # Main
        BY <1>3, <4>2, <4>3, <4>4
      <4> QED
        BY <1>1, <2>0, <4>2, <4>3, <4>5, <4>6
    <3> QED
      BY <3>1, <3>2
  <2> QED
    BY <1>1, <1>2, <2>3, <2>4 DEF OffMain
<1>12. Kept(s, F, D, tb)
  <2> SUFFICES ASSUME NEW j \in Calls(s)
               PROVE  s[j].shared \/ tb[F[j][D[j]]] = s[j].before
    BY DEF Kept
  <2>1. CASE j = n
    BY <1>1, <1>2, <1>3, <1>4, <1>6, <2>1
  <2>2. CASE j # n
    <3>1. j \in Calls(st) /\ j \in 1..(n-1) /\ j \in 1..n
      BY <1>4, <1>6, <2>2
    <3>2. st[j].shared \/ tb[E[j][C[j]]] = st[j].before
      BY <3>1 DEF Sound, Kept
    <3> QED
      BY <1>1, <1>2, <1>3, <3>1, <3>2
  <2> QED
    BY <2>1, <2>2
<1>13. AllThere(F, tb)
  <2>1. \A k \in 1..(n+1) : (k \in 1..n /\ F[k] = E[k]) \/ F[k] = e
    BY <1>1, <1>2
  <2> QED
    BY <1>2, <2>1 DEF Sound, AllThere
<1> QED
  BY <1>7, <1>8, <1>9, <1>10, <1>11, <1>12, <1>13 DEF Sound, s, F, D

----------------------------------------------------------------------------
\* The moments since the last call that is still active began.
Above(st) == {k \in 1..(Len(st)+1) : \A i \in k..Len(st) : st[i].kind # "call"}

\* The frames since the last call changed no link.
LEMMA AboveSame ==
  ASSUME NEW st, NEW E, NEW C, Path(st, E, C), NEW k \in Above(st)
  PROVE  E[k] = E[Len(st)+1]
<1> DEFINE n == Len(st) + 1
           T == {d \in Nat : n - d \in Above(st) /\ E[n-d] # E[n]}
<1>1. n \in Nat \ {0} /\ Len(st) = n - 1
  BY DEF Path
<1>2. SUFFICES ASSUME E[k] # E[n] PROVE FALSE
  OBVIOUS
<1>3. n - k \in T
  <2>1. k \in 1..n
    BY DEF Above
  <2>2. n - k \in Nat /\ n - (n - k) = k
    BY <1>1, <2>1
  <2> HIDE DEF n
  <2> QED
    BY <1>2, <2>2
<1>4. PICK d \in T : \A x \in T : d <= x
  <2>1. T \in SUBSET Nat /\ T # {}
    BY <1>3
  <2> HIDE DEF T
  <2> QED
    BY <2>1, LeastNumber
<1>5. d \in Nat /\ n - d \in Above(st) /\ E[n-d] # E[n] /\ n - d \in 1..n
  BY <1>4 DEF Above
<1> HIDE DEF n
<1>6. d # 0
  BY <1>1, <1>5
<1>7. n - d \in 1..Len(st) /\ n - d + 1 \in 1..n /\ d - 1 \in Nat /\ n - (d-1) = n - d + 1
  BY <1>1, <1>5, <1>6
<1>8. n - d + 1 \in Above(st) /\ st[n-d].kind # "call"
  <2>1. \A i \in (n-d)..Len(st) : st[i].kind # "call"
    BY <1>5 DEF Above
  <2>2. n - d \in (n-d)..Len(st) /\ \A i \in (n-d+1)..Len(st) : i \in (n-d)..Len(st)
    BY <1>1, <1>7
  <2> QED
    BY <1>7, <2>1, <2>2 DEF Above, n
<1>9. E[n-d+1] = E[n-d]
  <2>1. Leads(st[n-d], E[n-d], C[n-d], E[n-d+1], C[n-d+1])
    BY <1>7 DEF Path
  <2> QED
    BY <1>8, <2>1 DEF Leads, CallRec
<1>10. d - 1 \in T
  BY <1>5, <1>7, <1>8, <1>9
<1> QED
  BY <1>4, <1>5, <1>10

\* The block around a block that runs, if it is not cut off, is the one that
\* entered it, in the same call.
LEMMA AboveClosed ==
  ASSUME NEW st, NEW E, NEW C, Path(st, E, C), NEW z \in {C[k] : k \in Above(st)}
  PROVE  up[z] \in {C[k] : k \in Above(st)} \cup {Nobody}
<1> DEFINE T == {k \in Above(st) : C[k] = z}
<1>1. PICK k \in T : \A x \in T : k <= x
  <2>1. T \in SUBSET Nat /\ T # {}
    BY DEF Above
  <2> HIDE DEF T
  <2> QED
    BY <2>1, LeastNumber
<1>2. k \in 1..(Len(st)+1) /\ Len(st) \in Nat /\ C[k] = z /\ k \in Above(st)
  BY <1>1 DEF Above, Path
<1>3. CASE k = 1
  BY <1>2, <1>3, UpType DEF Path
<1>4. CASE k # 1
  <2>1. k - 1 \in 1..Len(st) /\ k - 1 + 1 = k /\ k - 1 \in 1..(Len(st)+1)
    BY <1>2, <1>4
  <2>2. Leads(st[k-1], E[k-1], C[k-1], E[k], C[k])
    BY <2>1 DEF Path
  <2>3. CASE st[k-1].kind = "call"
    <3>1. C[k] \in Method
      BY <2>2, <2>3 DEF Leads, AssignRec, BlockRec, CallRec
    <3> QED
      BY <1>2, <3>1, UpType
  <2>4. CASE st[k-1].kind # "call"
    <3>1. k - 1 \in Above(st)
      <4>1. \A i \in k..Len(st) : st[i].kind # "call"
        BY <1>2 DEF Above
      <4>2. \A i \in (k-1)..Len(st) : i = k - 1 \/ i \in k..Len(st)
        BY <2>1
      <4> QED
        BY <2>1, <2>4, <4>1, <4>2 DEF Above
    <3>2. CASE st[k-1] \in AssignRec /\ C[k] = C[k-1]
      <4>1. k - 1 \in T
        BY <1>2, <3>1, <3>2
      <4> QED
        BY <1>1, <1>2, <4>1
    <3>3. CASE up[C[k]] = C[k-1]
      BY <1>2, <3>1, <3>3
    <3> QED
      BY <2>2, <2>4, <3>2, <3>3 DEF Leads, CallRec
  <2> QED
    BY <2>3, <2>4
<1> QED
  BY <1>3, <1>4

\* The path ends in the present: in the links and the block of now.
Now(st, E, C) == env = E[Len(st)+1] /\ cur_thr = C[Len(st)+1]

\* What an assignment changes belongs to no caller, unless it is marked, and
\* in a call not to the program.
LEMMA TargetNoted ==
  ASSUME NEW E, NEW C, Sound(stack, E, C, tables), Now(stack, E, C), NEW n
  PROVE  /\ Target(n) \in Thread
         /\ env[Target(n)] \in TableId /\ tables[env[Target(n)]] # <<>>
         /\ \A j \in Calls(stack) : /\ E[j][C[j]] = env[Target(n)] => stack[j].shared
                                    /\ env[Target(n)] # E[1][Main]
<1> DEFINE Z == {C[k] : k \in Above(stack)}
<1>1. Path(stack, E, C) /\ Len(stack) \in Nat
  BY DEF Sound, Path
<1>2. Z \in SUBSET Thread
  BY <1>1 DEF Path, Above
<1>3. cur_thr \in Z
  <2>1. Len(stack) + 1 \in Above(stack)
    BY <1>1 DEF Above
  <2> QED
    BY <2>1 DEF Now
<1>4. \A z \in Z : up[z] \in Z \cup {Nobody}
  BY <1>1, AboveClosed
<1> HIDE DEF Z
<1>5. var_in_scope(n, cur_thr) \in Z \cup {Nobody}
  BY <1>2, <1>3, <1>4, ScopeWalk
<1>6. Target(n) \in Z
  BY <1>2, <1>3, <1>5 DEF Target
<1>7. PICK k \in Above(stack) : Target(n) = C[k]
  BY <1>6 DEF Z
<1>8. env = E[k] /\ k \in 1..Len(E) /\ Target(n) \in Thread
  BY <1>1, <1>2, <1>6, AboveSame DEF Now, Above, Path
<1>9. env[Target(n)] \in TableId /\ tables[env[Target(n)]] # <<>>
  BY <1>1, <1>8 DEF Path, Sound, AllThere
<1>10. ASSUME NEW j \in Calls(stack)
       PROVE  /\ E[j][C[j]] = env[Target(n)] => stack[j].shared
              /\ env[Target(n)] # E[1][Main]
  <2>1. j \in 1..Len(stack) /\ stack[j].kind = "call"
    BY DEF Calls
  <2>2. k \in (j+1)..Len(E)
    <3>1. ~(j \in k..Len(stack)) /\ k \in 1..(Len(stack)+1)
      BY <2>1 DEF Above
    <3> QED
      BY <1>1, <2>1, <3>1 DEF Path
  <2>3. E[j][C[j]] = E[k][C[k]] => stack[j].shared
    BY <2>2 DEF Sound, Noted
  <2>4. Home[C[k]] # Main
    BY <2>2 DEF Sound, OffMain
  <2>5. C[k] \in Thread
    BY <1>7, <1>8
  <2>6. E[k][C[k]] # E[1][Main]
    BY <1>8, <2>4, <2>5 DEF Sound, OffMain
  <2> QED
    BY <1>7, <1>8, <2>3, <2>6
<1> QED
  BY <1>8, <1>9, <1>10

----------------------------------------------------------------------------
\* The links of the present, and the tables they lead to.
LEMMA LinkType ==
  ASSUME NEW st, NEW E, NEW C, Sound(st, E, C, tables), Now(st, E, C)
  PROVE  /\ env \in [Thread -> TableId] /\ cur_thr \in Thread
         /\ tables[env[cur_thr]] \in Table
         /\ \A t \in Thread : tables[env[t]] # <<>>
<1>1. Len(st)+1 \in 1..Len(E) /\ Len(st)+1 \in 1..Len(C)
  BY DEF Sound, Path
<1>2. env \in [Thread -> TableId] /\ cur_thr \in Thread
  BY <1>1 DEF Sound, Path, Now
<1>3. \A t \in Thread : tables[env[t]] # <<>>
  BY <1>1 DEF Sound, AllThere, Now
<1>4. tables[env[cur_thr]] \in Table
  BY <1>2, <1>3 DEF Sound, AllThere
<1> QED
  BY <1>2, <1>3, <1>4

\* The frame of a call.
LEMMA FrameType ==
  ASSUME NEW st, NEW E, NEW C, Sound(st, E, C, tables), Now(st, E, C),
         NEW m \in Method, NEW s \in 0..NumTables
  PROVE  Frame(m, s) \in CallRec
BY LinkType DEF Frame, CallRec

\* Sequences with the same elements are the same.
LEMMA SameSeq ==
  ASSUME NEW S, NEW s \in Seq(S), NEW t \in Seq(S), Len(s) = Len(t),
         \A k \in 1..Len(s) : s[k] = t[k]
  PROVE  s = t
OBVIOUS

\* Marking reaches the topmost frame as well.
LEMMA NoteAppend ==
  ASSUME NEW st \in Seq(FrameRec), NEW f \in CallRec, NEW tbl
  PROVE  Note(Append(st, f), tbl)
           = Append(Note(st, tbl),
                    IF f.envs[f.saved] = tbl THEN [f EXCEPT !.shared = TRUE] ELSE f)
<1> DEFINE g == IF f.envs[f.saved] = tbl THEN [f EXCEPT !.shared = TRUE] ELSE f
<1>1. f \in FrameRec /\ f.kind = "call"
  BY DEF FrameRec, CallRec
<1>2. DOMAIN st = 1..Len(st) /\ Len(st) \in Nat
  OBVIOUS
<1>3. /\ DOMAIN Append(st, f) = 1..(Len(st)+1)
      /\ \A k \in 1..Len(st) : Append(st, f)[k] = st[k]
      /\ Append(st, f)[Len(st)+1] = f
  BY <1>1
<1> DEFINE q == Note(st, tbl)
           s == Note(Append(st, f), tbl)
           S == {q[k] : k \in 1..Len(st)} \cup {g}
<1>4. /\ s = [k \in 1..(Len(st)+1) |-> s[k]]
      /\ \A k \in 1..Len(st) : s[k] = q[k]
      /\ s[Len(st)+1] = g
  <2>1. s = [k \in 1..(Len(st)+1) |-> s[k]]
    BY <1>3 DEF Note
  <2>2. \A k \in 1..(Len(st)+1) :
           s[k] = IF Append(st, f)[k].kind = "call"
                        /\ Append(st, f)[k].envs[Append(st, f)[k].saved] = tbl
                  THEN [Append(st, f)[k] EXCEPT !.shared = TRUE] ELSE Append(st, f)[k]
    BY <1>3 DEF Note
  <2>3. \A k \in 1..Len(st) :
           q[k] = IF st[k].kind = "call" /\ st[k].envs[st[k].saved] = tbl
                  THEN [st[k] EXCEPT !.shared = TRUE] ELSE st[k]
    BY <1>2 DEF Note
  <2> HIDE DEF s, q
  <2>4. \A k \in 1..Len(st) : k \in 1..(Len(st)+1)
    BY <1>2
  <2>5. \A k \in 1..Len(st) : s[k] = q[k]
    <3> SUFFICES ASSUME NEW k \in 1..Len(st) PROVE s[k] = q[k]
      OBVIOUS
    <3>1. Append(st, f)[k] = st[k]
      BY ONLY <1>3, k \in 1..Len(st)
    <3>2. s[k] = IF Append(st, f)[k].kind = "call"
                      /\ Append(st, f)[k].envs[Append(st, f)[k].saved] = tbl
                 THEN [Append(st, f)[k] EXCEPT !.shared = TRUE] ELSE Append(st, f)[k]
      BY ONLY <2>2, <2>4, k \in 1..Len(st)
    <3> QED
      BY ONLY <2>3, <3>1, <3>2, k \in 1..Len(st)
  <2>6. Len(st) + 1 \in 1..(Len(st)+1)
    BY <1>2
  <2> QED
    BY <1>1, <1>3, <2>1, <2>2, <2>5, <2>6
<1>5. q = [k \in 1..Len(st) |-> q[k]]
  BY <1>2 DEF Note
<1> HIDE DEF q, s, g
<1>6. q \in Seq(S) /\ Len(q) = Len(st)
  BY <1>2, <1>5
<1>7. s \in Seq(S) /\ Len(s) = Len(st) + 1
  <2>1. \A k \in 1..(Len(st)+1) : s[k] \in S
    <3>1. \A k \in 1..(Len(st)+1) : k \in 1..Len(st) \/ k = Len(st)+1
      BY <1>2
    <3> QED
      BY <1>4, <3>1
  <2> HIDE DEF S
  <2> QED
    BY <1>2, <1>4, <2>1
<1>8. /\ Append(q, g) \in Seq(S) /\ Len(Append(q, g)) = Len(st) + 1
      /\ \A k \in 1..Len(st) : Append(q, g)[k] = q[k]
      /\ Append(q, g)[Len(st)+1] = g
  <2>1. g \in S
    OBVIOUS
  <2> HIDE DEF S
  <2> QED
    BY <1>6, <2>1, Appended
<1>9. \A k \in 1..(Len(st)+1) : s[k] = Append(q, g)[k]
  <2>1. \A k \in 1..(Len(st)+1) : k \in 1..Len(st) \/ k = Len(st)+1
    BY <1>2
  <2> QED
    BY <1>4, <1>8, <2>1
<1> HIDE DEF S
<1>10. s = Append(q, g)
  BY <1>7, <1>8, <1>9, SameSeq
<1> QED
  BY <1>10 DEF s, q, g

\* Every caller on table tbl is marked.
Marked(st, E, C, tbl) == \A j \in Calls(st) : E[j][C[j]] = tbl => st[j].shared

\* A call of a method that is not the running block.
LEMMA CallSame ==
  ASSUME NEW st, NEW E, NEW C, Sound(st, E, C, tables), Now(st, E, C),
         NEW m \in Method, NEW s, s = Note(Append(st, Frame(m, 0)), env[m]),
         NEW F, F = Append(E, env), NEW D, D = Append(C, m)
  PROVE  /\ Sound(s, F, D, tables) /\ Len(s) = Len(st) + 1
         /\ Marked(s, F, D, env[m])
<1> DEFINE f == Frame(m, 0)
           n == Len(st) + 1
           tbl == env[m]
           g == IF f.envs[f.saved] = tbl THEN [f EXCEPT !.shared = TRUE] ELSE f
           q == Note(st, tbl)
<1>1. /\ env \in [Thread -> TableId] /\ cur_thr \in Thread /\ f \in CallRec
      /\ tables[env[cur_thr]] \in Table
      /\ \A t \in Thread : tables[env[t]] # <<>>
  <2>1. 0 \in 0..NumTables
    BY BoundsAssumption
  <2>2. f \in CallRec
    BY <2>1, FrameType
  <2> QED
    BY <2>2, LinkType
<1>2. /\ f.kind = "call" /\ f.block = m /\ f.saved = cur_thr /\ f.sav_env = 0
      /\ f.envs = env /\ f.before = tables[env[cur_thr]]
  BY DEF Frame
<1>3. /\ g \in CallRec /\ g.kind = "call" /\ g.block = m /\ g.saved = cur_thr
      /\ g.sav_env = 0 /\ g.envs = env /\ g.before = tables[env[cur_thr]]
      /\ env[cur_thr] = tbl => g.shared
  BY <1>1, <1>2 DEF CallRec
<1>4. st \in Seq(FrameRec) /\ Len(st) \in Nat /\ Len(E) = n /\ Len(C) = n
  BY DEF Sound, Path
<1>5. s = Append(q, g)
  BY <1>1, <1>4, NoteAppend
<1> HIDE DEF f, g
<1>6. /\ Sound(q, E, C, tables) /\ Len(q) = Len(st) /\ Calls(q) = Calls(st)
      /\ \A j \in Calls(st) : E[j][C[j]] = tbl => q[j].shared
  BY NoteSound
<1>7. m \in Thread /\ Home[m] # Main
  BY HomeOf, BlocksAssumption
<1> HIDE DEF q
<1>8. Sound(Append(q, g), F, D, tables)
  <2>1. g \in FrameRec
    BY <1>3 DEF FrameRec
  <2>2. Leads(g, E[n], C[n], env, m)
    BY <1>3 DEF Leads, Now
  <2> QED
    BY <1>1, <1>3, <1>6, <1>7, <2>1, <2>2, PushSound DEF Now
<1>9. Len(Append(q, g)) = n /\ \A k \in 1..(n-1) : Append(q, g)[k] = q[k]
  <2>1. q \in Seq(FrameRec) /\ g \in FrameRec
    BY <1>3, <1>6 DEF Sound, Path, FrameRec
  <2> QED
    BY <1>4, <1>6, <2>1, Appended
<1>10. \A k \in 1..n : F[k] = E[k] /\ D[k] = C[k]
  <2>1. E \in Seq([Thread -> TableId]) /\ C \in Seq(Thread)
    BY DEF Sound, Path
  <2> QED
    BY <1>1, <1>4, <1>7, <2>1, Appended
<1>11. ASSUME NEW j \in Calls(Append(q, g)), F[j][D[j]] = tbl
       PROVE  Append(q, g)[j].shared
  <2>1. j \in 1..n /\ Append(q, g)[j].kind = "call"
    BY <1>9 DEF Calls
  <2>2. E[j][C[j]] = tbl
    BY <1>10, <1>11, <2>1
  <2>3. CASE j = n
    <3>1. Append(q, g)[n] = g
      <4>1. q \in Seq(FrameRec) /\ g \in FrameRec
        BY <1>3, <1>6 DEF Sound, Path, FrameRec
      <4> QED
        BY <1>6, <4>1, Appended
    <3> QED
      BY <1>3, <2>2, <2>3, <3>1 DEF Now
  <2>4. CASE j # n
    <3>1. j \in 1..(n-1) /\ j \in 1..Len(q)
      BY <1>4, <1>6, <2>1, <2>4
    <3>2. j \in Calls(q)
      BY <1>9, <2>1, <3>1 DEF Calls
    <3> QED
      BY <1>6, <1>9, <2>2, <3>1, <3>2
  <2> QED
    BY <2>3, <2>4
<1> QED
  BY <1>5, <1>8, <1>9, <1>11 DEF f, Marked

\* What a call writes in a table.
LEMMA BoundType ==
  ASSUME NEW m \in Method, NEW v \in Val
  PROVE  Bound(m, v) \in Table /\ (Parm[m] # Nobody => Parm[m] \in Name)
<1>1. Empty \in Table
  BY DEF Empty, Table
<1>2. Parm[m] \in Name \cup {Nobody}
  BY NamesAssumption
<1>3. CASE Parm[m] = Nobody
  BY <1>1, <1>3 DEF Bound
<1>4. CASE Parm[m] # Nobody
  <2>1. Parm[m] \in Name
    BY <1>2, <1>4
  <2>2. [Empty EXCEPT ![Parm[m]] = v] \in Table
    BY <1>1, <2>1 DEF Table
  <2> QED
    BY <1>4, <2>1, <2>2 DEF Bound
<1> QED
  BY <1>3, <1>4

\* A call of the running method by itself, in a table that is free.
LEMMA CallFresh ==
  ASSUME NEW st, NEW E, NEW C, Sound(st, E, C, tables), Now(st, E, C),
         NEW m \in Method, cur_thr = m, NEW v \in Val,
         NEW fresh \in TableId \ Live
  PROVE  /\ Sound(Append(st, Frame(m, env[m])), Append(E, [env EXCEPT ![m] = fresh]),
                  Append(C, m), [tables EXCEPT ![fresh] = Bound(m, v)])
         /\ env[Main] # fresh
<1> DEFINE f == Frame(m, env[m])
           n == Len(st) + 1
           e == [env EXCEPT ![m] = fresh]
           tb == [tables EXCEPT ![fresh] = Bound(m, v)]
<1>1. /\ env \in [Thread -> TableId] /\ m \in Thread /\ Main \in Thread
      /\ \A t \in Thread : tables[env[t]] # <<>>
  BY LinkType, BlocksAssumption
<1>2. f \in CallRec /\ tables[env[m]] \in Table /\ env[m] \in TableId
  <2>1. env[m] \in TableId /\ env[m] \in 0..NumTables
    BY <1>1 DEF TableId
  <2> QED
    BY <2>1, FrameType, LinkType
<1>3. /\ f.kind = "call" /\ f.block = m /\ f.saved = m /\ f.sav_env = env[m]
      /\ f.envs = env /\ f.before = tables[env[m]]
  BY DEF Frame
<1> HIDE DEF f
<1>4. fresh \in TableId /\ tables[fresh] = <<>>
  BY DEF Live
<1>5. \A k \in 1..Len(E), t \in Thread : E[k][t] # fresh
  BY <1>4 DEF Sound, AllThere
<1>6. Bound(m, v) \in Table /\ Bound(m, v) # <<>>
  BY BoundType, TableIsNone
<1>7. Sound(st, E, C, tb)
  BY <1>4, <1>5, <1>6, OtherTableSound
<1>8. tb[fresh] # <<>> /\ \A t \in TableId : t # fresh => tb[t] = tables[t]
  <2>1. tables \in [TableId -> Table \cup {<<>>}]
    BY DEF Sound, AllThere
  <2> QED
    BY <1>4, <1>6, <2>1
<1> HIDE DEF tb
<1>9. /\ e \in [Thread -> TableId] /\ e[m] = fresh
      /\ \A t \in Thread : t # m => e[t] = env[t]
  BY <1>1, <1>4
<1>10. n \in 1..Len(E) /\ Len(E) = n /\ Len(st) \in Nat /\ \A j \in Calls(st) : j \in 1..Len(E) /\ C[j] \in Thread
  BY DEF Sound, Path, Calls
<1>11. \A t \in Thread : env[t] # fresh
  BY <1>5, <1>10 DEF Now
<1>12. \A t \in Thread : tb[e[t]] # <<>>
  BY <1>1, <1>8, <1>9, <1>11
<1>13. Leads(f, E[n], C[n], e, m)
  <2>1. Relinked(f, env, m, e)
    BY <1>3, <1>9 DEF Relinked
  <2> HIDE DEF e
  <2> QED
    BY <1>2, <1>3, <2>1 DEF Leads, Now
<1>14. f \in FrameRec
  BY <1>2 DEF FrameRec
<1> HIDE DEF e
<1>15. /\ \A i \in 1..n, t \in Thread : e[f.block] # E[i][t]
       /\ E[n][C[n]] # e[m] /\ tb[E[n][C[n]]] = f.before
  BY <1>1, <1>3, <1>5, <1>8, <1>9, <1>10, <1>11 DEF Now
<1>16. \A j \in Calls(st) : e[m] # E[j][C[j]]
  BY <1>5, <1>9, <1>10
<1>17. Home[m] # Main
  BY HomeOf, BlocksAssumption
<1> HIDE DEF n
<1>18. Sound(Append(st, f), Append(E, e), Append(C, m), tb)
  BY <1>1, <1>3, <1>7, <1>9, <1>12, <1>13, <1>14, <1>15, <1>16, <1>17, PushSound DEF n
<1> QED
  BY <1>1, <1>11, <1>18 DEF f, e, tb

\* What is passed is a value.
LEMMA EvalType ==
  ASSUME NEW E, NEW C, Sound(stack, E, C, tables), Now(stack, E, C),
         NEW cell \in Name \cup Val \cup {Nobody}
  PROVE  EvalCell(cell) \in Val
<1>1. /\ env \in [Thread -> TableId] /\ cur_thr \in Thread
      /\ \A t \in Thread : tables[env[t]] \in Table
  <2>1. Len(stack)+1 \in 1..Len(E) /\ Len(stack)+1 \in 1..Len(C)
    BY DEF Sound, Path
  <2>2. env \in [Thread -> TableId] /\ cur_thr \in Thread
    BY <2>1 DEF Sound, Path, Now
  <2> QED
    BY <2>1, <2>2 DEF Sound, AllThere, Now
<1>2. CASE cell \in Val \/ cell = Nobody
  BY <1>2, NamesAssumption DEF EvalCell
<1>3. CASE cell \in Name
  <2>1. var_in_scope(cell, cur_thr) \in Thread \cup {Nobody}
    BY <1>1, UpType, ScopeWalk
  <2>2. PICK t \in Thread : Lookup(cell) = tables[env[t]][cell]
    BY <2>1, BlocksAssumption DEF Lookup
  <2>3. Lookup(cell) \in Val \cup {Unset}
    BY <1>1, <1>3, <2>2 DEF Table
  <2> QED
    BY <1>3, <2>3, NamesAssumption DEF EvalCell
<1> QED
  BY <1>2, <1>3

\* Either call, from a C stack st that goes on from the present one.
LEMMA CallSound ==
  ASSUME NEW st, NEW E, NEW C, Sound(st, E, C, tables), Now(st, E, C),
         NEW m \in Method, NEW v \in Val, cur_thr' = m,
         \/ /\ Bind(m, env[m], v) /\ env' = env
            /\ stack' = Note(Append(st, Frame(m, 0)), env[m])
         \/ /\ cur_thr = m
            /\ \E fresh \in TableId \ Live :
                 /\ env' = [env EXCEPT ![m] = fresh]
                 /\ tables' = [tables EXCEPT ![fresh] = Bound(m, v)]
            /\ stack' = Append(st, Frame(m, env[m]))
  PROVE  /\ \E F, D : /\ Sound(stack', F, D, tables')
                      /\ env' = F[Len(stack')+1] /\ cur_thr' = D[Len(stack')+1]
         /\ Len(stack') = Len(st) + 1
         /\ tables'[env[Main]] = tables[env[Main]]
<1> DEFINE n == Len(st) + 1
           F == Append(E, env')
           D == Append(C, m)
<1>1. /\ env \in [Thread -> TableId] /\ m \in Thread /\ Main \in Thread
      /\ \A t \in Thread : tables[env[t]] # <<>>
  BY LinkType, BlocksAssumption
<1>2. /\ Len(st) \in Nat /\ n \in Nat /\ st \in Seq(FrameRec) /\ Len(E) = n /\ Len(C) = n
      /\ E \in Seq([Thread -> TableId]) /\ C \in Seq(Thread)
  BY DEF Sound, Path
<1>3. tables \in [TableId -> Table \cup {<<>>}]
  BY DEF Sound, AllThere
<1>4. env' \in [Thread -> TableId] => F[n+1] = env' /\ D[n+1] = m
  BY <1>1, <1>2, Appended
<1>5. CASE /\ Bind(m, env[m], v) /\ env' = env
           /\ stack' = Note(Append(st, Frame(m, 0)), env[m])
  <2>1. /\ Sound(stack', F, D, tables) /\ Len(stack') = n
        /\ \A j \in Calls(stack') : F[j][D[j]] = env[m] => stack'[j].shared
    <3>1. PICK s : s = Note(Append(st, Frame(m, 0)), env[m])
      OBVIOUS
    <3>2. PICK G : G = Append(E, env)
      OBVIOUS
    <3>3. PICK H : H = Append(C, m)
      OBVIOUS
    <3>4. /\ Sound(s, G, H, tables) /\ Len(s) = Len(st) + 1
          /\ Marked(s, G, H, env[m])
      BY ONLY Sound(st, E, C, tables), Now(st, E, C),
              m \in Method, <3>1, <3>2, <3>3, CallSame
    <3>5. F = G /\ D = H /\ stack' = s
      BY <1>5, <3>1, <3>2, <3>3
    <3> QED
      BY <3>4, <3>5 DEF Marked
  <2>2. Sound(stack', F, D, tables')
    <3>1. CASE Parm[m] = Nobody
      BY <1>5, <2>1, <3>1 DEF Bind
    <3>2. CASE Parm[m] # Nobody
      <4>1. tables' = [tables EXCEPT ![env[m]][Parm[m]] = v] /\ Parm[m] \in Name
        BY <1>5, <3>2, BoundType DEF Bind, Store
      <4>2. env[m] \in TableId /\ tables[env[m]] # <<>>
        BY <1>1
      <4> HIDE DEF F, D
      <4> QED
        BY <2>1, <4>1, <4>2, StoreSound
    <3> QED
      BY <3>1, <3>2
  <2>3. env[m] # env[Main]
    <3>1. Home[m] # Main /\ n \in 1..Len(E)
      BY <1>2, HomeOf, BlocksAssumption
    <3> QED
      BY <1>1, <1>2, <3>1 DEF Sound, OffMain, Now
  <2>4. tables'[env[Main]] = tables[env[Main]]
    <3>1. env[Main] \in TableId /\ env[m] \in TableId
      BY <1>1
    <3> QED
      BY <1>3, <1>5, <2>3, <3>1 DEF Bind, Store
  <2>5. env' = F[Len(stack')+1] /\ cur_thr' = D[Len(stack')+1]
    BY <1>1, <1>4, <1>5, <2>1
  <2> QED
    BY <2>1, <2>2, <2>4, <2>5
<1>6. ASSUME cur_thr = m, NEW fresh \in TableId \ Live,
             env' = [env EXCEPT ![m] = fresh],
             tables' = [tables EXCEPT ![fresh] = Bound(m, v)],
             stack' = Append(st, Frame(m, env[m]))
      PROVE  /\ Sound(stack', F, D, tables') /\ Len(stack') = n
             /\ tables'[env[Main]] = tables[env[Main]]
             /\ env' = F[Len(stack')+1] /\ cur_thr' = D[Len(stack')+1]
  <2>1. Sound(stack', F, D, tables') /\ env[Main] # fresh
    BY <1>6, CallFresh
  <2>2. tables'[env[Main]] = tables[env[Main]]
    BY <1>1, <1>3, <1>6, <2>1
  <2>3. Len(stack') = n
    <3>1. env[m] \in 0..NumTables
      BY <1>1 DEF TableId
    <3>2. Frame(m, env[m]) \in FrameRec
      BY <3>1, FrameType DEF FrameRec
    <3> QED
      BY <1>2, <1>6, <3>2, Appended
  <2>4. env' \in [Thread -> TableId]
    BY <1>1, <1>6
  <2> QED
    BY <1>4, <2>1, <2>2, <2>3, <2>4
<1> QED
  BY <1>5, <1>6

----------------------------------------------------------------------------
\* The end of a call.
LEMMA ReturnSound ==
  ASSUME NEW E, NEW C, Sound(stack, E, C, tables), Now(stack, E, C), Return
  PROVE  /\ Sound(stack', Front(E), Front(C), tables')
         /\ env' = Front(E)[Len(stack')+1] /\ cur_thr' = Front(C)[Len(stack')+1]
         /\ tables'[env[Main]] = tables[env[Main]]
         /\ env' = Last(stack).envs
         /\ Last(stack).shared \/ tables'[env'[cur_thr']] = Last(stack).before
<1> DEFINE n == Len(stack)
           top == Last(stack)
<1>1. /\ stack \in Seq(FrameRec) /\ stack # <<>> /\ stack' = Front(stack)
      /\ top.kind = "call" /\ cur_thr' = top.saved
  BY DEF Return, Sound, Path
<1>2. n \in Nat \ {0} /\ Len(stack') = n - 1 /\ top = stack[n] /\ Len(stack')+1 = n
  BY <1>1, Shortened
<1> HIDE DEF top
<1>3. /\ E \in Seq([Thread -> TableId]) /\ Len(E) = n + 1 /\ E # <<>>
      /\ C \in Seq(Thread) /\ Len(C) = n + 1 /\ C # <<>>
  BY <1>2 DEF Sound, Path
<1>4. /\ Front(E) \in Seq([Thread -> TableId]) /\ Len(Front(E)) = n
      /\ \A k \in 1..n : Front(E)[k] = E[k]
  <2>1. /\ Front(E) \in Seq([Thread -> TableId]) /\ Len(Front(E)) = Len(E) - 1
        /\ \A k \in 1..(Len(E)-1) : Front(E)[k] = E[k]
    BY <1>3, Shortened
  <2> QED
    BY <1>2, <1>3, <2>1
<1>5. Len(Front(C)) = n /\ \A k \in 1..n : Front(C)[k] = C[k]
  <2>1. Len(Front(C)) = Len(C) - 1 /\ \A k \in 1..(Len(C)-1) : Front(C)[k] = C[k]
    BY <1>3, Shortened
  <2> QED
    BY <1>2, <1>3, <2>1
<1>6. n \in 1..n /\ 1 \in 1..n /\ n \in 1..Len(E) /\ n+1 \in 1..Len(E) /\ n \in 1..Len(C)
  BY <1>2, <1>3
<1>7. n \in Calls(stack)
  BY <1>1, <1>2, <1>6 DEF Calls
<1>8. /\ top \in CallRec /\ C[n+1] = top.block /\ top.saved = C[n] /\ top.envs = E[n]
      /\ \/ top.sav_env = 0 /\ E[n+1] = E[n]
         \/ Relinked(top, E[n], C[n], E[n+1])
  <2>1. Leads(top, E[n], C[n], E[n+1], C[n+1])
    BY <1>2, <1>6 DEF Sound, Path
  <2> QED
    BY <1>1, <2>1 DEF Leads, AssignRec, BlockRec
<1>9. E[n] \in [Thread -> TableId] /\ E[n+1] \in [Thread -> TableId] /\ C[n] \in Thread
  BY <1>3, <1>6
<1>10. env = E[n+1] /\ env[Main] = E[1][Main] /\ E[n][Main] = E[1][Main]
  BY <1>6 DEF Now, Sound, OffMain
<1>11. Main \in Thread
  BY BlocksAssumption
<1>12. Sound(stack', Front(E), Front(C), tables)
  BY <1>1, PopSound
<1>13. Kept(stack, E, C, tables)
  BY DEF Sound
<1>14. top.shared \/ tables[E[n][C[n]]] = top.before
  BY <1>2, <1>7, <1>13 DEF Kept
<1>15. CASE top.sav_env = 0
  <2>1. UNCHANGED <<env, tables>>
    BY <1>15 DEF Return, top
  <2>2. env' = E[n]
    <3>1. ~Relinked(top, E[n], C[n], E[n+1])
      <4>1. top.block \in Thread
        BY <1>8, BlocksAssumption DEF CallRec
      <4>2. E[n][top.block] # 0
        BY <1>9, <4>1 DEF TableId
      <4> QED
        BY <1>15, <4>2 DEF Relinked
    <3> QED
      BY <1>8, <1>10, <2>1, <3>1
  <2>3. tables' = tables /\ cur_thr' = C[n]
    BY <1>1, <1>8, <2>1
  <2> QED
    BY <1>2, <1>4, <1>5, <1>6, <1>8, <1>12, <1>14, <2>2, <2>3 DEF top
<1>16. CASE top.sav_env # 0
  <2>1. /\ env' = [env EXCEPT ![top.saved] = top.sav_env]
        /\ tables' = [tables EXCEPT ![env[top.block]] = <<>>]
    BY <1>16 DEF Return, top
  <2>2. Relinked(top, E[n], C[n], E[n+1])
    BY <1>8, <1>16
  <2> DEFINE b == top.block
             tbl == E[n+1][b]
  <2>3. b \in Thread /\ top.saved = b
    BY <1>8, <2>2, BlocksAssumption DEF CallRec, Relinked
  <2>4. env' = E[n]
    <3>1. E[n+1] = [E[n] EXCEPT ![b] = E[n+1][b]] /\ top.sav_env = E[n][b]
      BY <2>2 DEF Relinked
    <3>2. env' = [E[n+1] EXCEPT ![b] = E[n][b]]
      BY <1>10, <2>1, <2>3, <3>1
    <3> HIDE DEF b
    <3>3. \A f, g \in [Thread -> TableId] :
             g = [f EXCEPT ![b] = g[b]] => [g EXCEPT ![b] = f[b]] = f
      OBVIOUS
    <3> QED
      BY <1>9, <3>1, <3>2, <3>3
  <2>5. \A k \in 1..n, t \in Thread : tbl # E[k][t]
    <3>1. n + 1 \in (n+1)..Len(E)
      BY <1>2, <1>3
    <3>2. stack[n].sav_env # 0 /\ stack[n].block = b
      BY <1>2, <1>16
    <3>3. Fresh(stack, E)
      BY DEF Sound
    <3> QED
      BY <1>7, <3>1, <3>2, <3>3 DEF Fresh
  <2>6. tbl \in TableId
    BY <1>9, <2>3
  <2>7. tables' = [tables EXCEPT ![tbl] = <<>>]
    BY <1>10, <2>1
  <2> HIDE DEF tbl, b
  <2>8. \A k \in 1..Len(Front(E)), t \in Thread : Front(E)[k][t] # tbl
    BY <1>4, <2>5
  <2>9. Sound(stack', Front(E), Front(C), tables')
    <3>1. <<>> \in Table \cup {<<>>}
      OBVIOUS
    <3> QED
      BY <1>12, <2>6, <2>7, <2>8, <3>1, OtherTableSound
  <2>10. \A t \in Thread : tables'[E[n][t]] = tables[E[n][t]]
    <3>1. \A t \in Thread : E[n][t] \in TableId /\ E[n][t] # tbl
      BY <1>6, <1>9, <2>5
    <3>2. tables \in [TableId -> Table \cup {<<>>}]
      BY DEF Sound, AllThere
    <3> QED
      BY <2>6, <2>7, <3>1, <3>2
  <2>11. cur_thr' = C[n]
    BY <1>1, <1>8
  <2>12. tables'[env[Main]] = tables[env[Main]]
    BY <1>10, <1>11, <2>10
  <2>13. top.shared \/ tables'[env'[cur_thr']] = top.before
    BY <1>9, <1>14, <2>4, <2>10, <2>11
  <2>14. env' = Front(E)[Len(stack')+1] /\ cur_thr' = Front(C)[Len(stack')+1]
    BY <1>2, <1>4, <1>5, <1>6, <2>4, <2>11
  <2> QED
    BY <1>8, <2>4, <2>9, <2>12, <2>13, <2>14 DEF top
<1> QED
  BY <1>15, <1>16

\* The end of a block of the running block, and of an assignment.
LEMMA TopSound ==
  ASSUME NEW E, NEW C, Sound(stack, E, C, tables), Now(stack, E, C),
         stack # <<>>, Last(stack).kind # "call", stack' = Front(stack)
  PROVE  /\ Sound(stack', Front(E), Front(C), tables)
         /\ env = Front(E)[Len(stack')+1]
         /\ Last(stack).kind = "block" => Last(stack).saved = Front(C)[Len(stack')+1]
         /\ Last(stack).kind = "assign" =>
              LET top == Last(stack)
              IN  /\ cur_thr = Front(C)[Len(stack')+1]
                  /\ top.tbl \in TableId /\ top.name \in Name /\ tables[top.tbl] # <<>>
                  /\ \A j \in Calls(stack') : Front(E)[j][Front(C)[j]] = top.tbl => stack'[j].shared
                  /\ Calls(stack) # {} => top.tbl # env[Main]
<1> DEFINE n == Len(stack)
           top == Last(stack)
<1>1. /\ stack \in Seq(FrameRec) /\ n \in Nat \ {0} /\ top = stack[n]
      /\ Len(stack') = n - 1 /\ Len(stack')+1 = n
      /\ \A k \in 1..(n-1) : stack'[k] = stack[k]
  BY Shortened DEF Sound, Path
<1> HIDE DEF top
<1>2. /\ E \in Seq([Thread -> TableId]) /\ Len(E) = n + 1 /\ E # <<>>
      /\ C \in Seq(Thread) /\ Len(C) = n + 1 /\ C # <<>>
  BY <1>1 DEF Sound, Path
<1>3. \A k \in 1..n : Front(E)[k] = E[k]
  <2>1. \A k \in 1..(Len(E)-1) : Front(E)[k] = E[k]
    BY <1>2, Shortened
  <2> QED
    BY <1>1, <1>2, <2>1
<1>4. \A k \in 1..n : Front(C)[k] = C[k]
  <2>1. \A k \in 1..(Len(C)-1) : Front(C)[k] = C[k]
    BY <1>2, Shortened
  <2> QED
    BY <1>1, <1>2, <2>1
<1>5. n \in 1..n /\ 1 \in 1..n /\ n \in 1..Len(E) /\ n+1 \in 1..Len(E) /\ n+1 \in 1..Len(C)
  BY <1>1, <1>2
<1>6. Leads(top, E[n], C[n], E[n+1], C[n+1]) /\ top \in FrameRec
  BY <1>1, <1>5 DEF Sound, Path
<1>7. E[n+1] = E[n] /\ env = E[n]
  BY <1>6 DEF Leads, CallRec, Now, top
<1>8. Sound(stack', Front(E), Front(C), tables)
  BY PopSound
<1>9. top.kind = "block" => top.saved = C[n]
  BY <1>6 DEF Leads, AssignRec, CallRec
<1>10. ASSUME top.kind = "assign"
       PROVE  /\ cur_thr = C[n] /\ top.tbl \in TableId /\ top.name \in Name
              /\ tables[top.tbl] # <<>>
              /\ \A j \in Calls(stack') : E[j][C[j]] = top.tbl => stack'[j].shared
              /\ Calls(stack) # {} => top.tbl # env[Main]
  <2>1. top \in AssignRec /\ C[n+1] = C[n] /\ \E t \in Thread : top.tbl = E[n][t]
    BY <1>6, <1>10 DEF Leads, BlockRec, CallRec
  <2>2. top.tbl \in TableId /\ top.name \in Name /\ tables[top.tbl] # <<>>
    BY <1>5, <2>1 DEF AssignRec, Sound, AllThere
  <2>3. ASSUME NEW j \in Calls(stack)
        PROVE  n \in (j+1)..Len(stack)
    <3>1. j \in 1..n /\ stack[j].kind = "call" /\ j # n
      BY <1>1, <1>10 DEF Calls
    <3> QED
      BY <1>1, <3>1
  <2>4. \A j \in Calls(stack) : E[j][C[j]] = top.tbl => stack[j].shared
    BY <1>1, <1>10, <2>3 DEF Sound, Noted
  <2>5. \A j \in Calls(stack') : j \in Calls(stack) /\ stack'[j] = stack[j]
    <3>1. \A k \in 1..(n-1) : k \in 1..n
      BY <1>1
    <3> QED
      BY <1>1, <3>1 DEF Calls
  <2>6. \A j \in Calls(stack) : top.tbl # E[1][Main]
    BY <1>1, <1>10, <2>3 DEF Sound, OffMain
  <2>7. env[Main] = E[1][Main]
    BY <1>5, <1>7 DEF Sound, OffMain
  <2>8. cur_thr = C[n]
    BY <2>1 DEF Now
  <2> QED
    BY <2>2, <2>4, <2>5, <2>6, <2>7, <2>8
<1>11. \A j \in Calls(stack') : j \in 1..n
  BY <1>1 DEF Calls
<1> QED
  BY <1>1, <1>3, <1>4, <1>5, <1>7, <1>8, <1>9, <1>10, <1>11 DEF top

----------------------------------------------------------------------------
\* A sequence of one after another.
LEMMA OneMore ==
  ASSUME NEW S, NEW s \in Seq(S), NEW x
  PROVE  s \o <<x>> = Append(s, x)
OBVIOUS

\* The running block enters one of its blocks.
LEMMA EnterSound ==
  ASSUME NEW E, NEW C, Sound(stack, E, C, tables), Now(stack, E, C),
         NEW b \in Thread, Enter(b)
  PROVE  /\ Sound(stack', Append(E, env), Append(C, b), tables)
         /\ Len(stack') = Len(stack) + 1
<1> DEFINE n == Len(stack) + 1
           f == [kind |-> "block", saved |-> cur_thr]
           st == IF env[b] = env[cur_thr] THEN stack ELSE Note(stack, env[b])
<1>1. /\ env \in [Thread -> TableId] /\ cur_thr \in Thread
      /\ \A t \in Thread : tables[env[t]] # <<>>
  BY LinkType
<1>2. /\ Len(E) = n /\ Len(stack) \in Nat /\ n \in 1..Len(E) /\ env = E[n] /\ cur_thr = C[n]
  BY DEF Sound, Path, Now
<1>3. /\ Sound(Note(stack, env[b]), E, C, tables)
      /\ Len(Note(stack, env[b])) = Len(stack)
      /\ Calls(Note(stack, env[b])) = Calls(stack)
      /\ \A j \in Calls(stack) : E[j][C[j]] = env[b] => Note(stack, env[b])[j].shared
  BY NoteSound
<1>4. /\ Sound(st, E, C, tables) /\ Len(st) = Len(stack) /\ Calls(st) = Calls(stack)
      /\ \A j \in Calls(st) : E[j][C[j]] = env[b] => st[j].shared
  <2>1. CASE env[b] = env[cur_thr]
    <3>1. ASSUME NEW j \in Calls(stack), E[j][C[j]] = env[b] PROVE stack[j].shared
      <4>1. n \in (j+1)..Len(E)
        BY <1>2 DEF Calls
      <4> QED
        BY <1>2, <2>1, <3>1, <4>1 DEF Sound, Noted
    <3> QED
      BY <2>1, <3>1
  <2>2. CASE env[b] # env[cur_thr]
    BY <1>3, <2>2
  <2> QED
    BY <2>1, <2>2
<1> HIDE DEF st
<1>5. up[b] = C[n] /\ stack' = Append(st, f)
  <2>1. stack' = st \o <<f>>
    BY DEF Enter, st
  <2>2. st \in Seq(FrameRec)
    BY <1>4 DEF Sound, Path
  <2> QED
    BY <1>2, <2>1, <2>2, OneMore DEF Enter
<1>6. f \in BlockRec /\ f.kind = "block" /\ f.saved = C[n]
  BY <1>1, <1>2 DEF BlockRec
<1> HIDE DEF f
<1>7. ASSUME Calls(st) # {} PROVE Home[b] # Main
  <2>1. PICK j \in Calls(stack) : TRUE
    BY <1>4, <1>7
  <2>2. n \in (j+1)..Len(E)
    BY <1>2 DEF Calls
  <2>3. Home[cur_thr] # Main
    BY <1>2, <2>2 DEF Sound, OffMain
  <2>4. Parent[b] = cur_thr /\ b # Main
    BY <1>1, <1>2, <1>5, UpType, BlocksAssumption
  <2> QED
    BY <2>3, <2>4, HomeOf
<1>8. Leads(f, E[n], C[n], env, b) /\ f \in FrameRec
  BY <1>2, <1>5, <1>6 DEF Leads, FrameRec
<1>9. n = Len(st) + 1
  BY <1>4
<1> HIDE DEF n
<1>10. Sound(Append(st, f), Append(E, env), Append(C, b), tables)
  BY <1>1, <1>4, <1>6, <1>7, <1>8, <1>9, PushSound
<1>11. Len(Append(st, f)) = Len(st) + 1
  BY <1>4, <1>8, Appended DEF Sound, Path
<1> QED
  BY <1>4, <1>5, <1>10, <1>11

\* The table of an assignment is chosen, its right side still to be evaluated.
LEMMA AssignSound ==
  ASSUME NEW E, NEW C, Sound(stack, E, C, tables), Now(stack, E, C),
         NEW n \in Name, NEW a, a = [kind |-> "assign", name |-> n, tbl |-> env[Target(n)]]
  PROVE  /\ Sound(Append(stack, a), Append(E, env), Append(C, cur_thr), tables)
         /\ Now(Append(stack, a), Append(E, env), Append(C, cur_thr))
         /\ a \in FrameRec
<1> DEFINE p == Len(stack) + 1
<1>1. /\ env \in [Thread -> TableId] /\ cur_thr \in Thread
      /\ \A t \in Thread : tables[env[t]] # <<>>
  BY LinkType
<1>2. /\ Len(E) = p /\ Len(C) = p /\ Len(stack) \in Nat /\ p \in 1..Len(E)
      /\ env = E[p] /\ cur_thr = C[p]
      /\ stack \in Seq(FrameRec) /\ E \in Seq([Thread -> TableId]) /\ C \in Seq(Thread)
  BY DEF Sound, Path, Now
<1>3. /\ Target(n) \in Thread /\ env[Target(n)] \in TableId
      /\ \A j \in Calls(stack) : /\ E[j][C[j]] = env[Target(n)] => stack[j].shared
                                 /\ env[Target(n)] # E[1][Main]
  BY TargetNoted
<1>4. /\ a \in AssignRec /\ a.kind = "assign" /\ a.tbl = env[Target(n)]
  BY <1>3 DEF AssignRec
<1>5. Leads(a, E[p], C[p], env, cur_thr) /\ a \in FrameRec
  BY <1>2, <1>3, <1>4 DEF Leads, FrameRec
<1>6. ASSUME NEW j \in Calls(stack)
      PROVE  /\ env[cur_thr] = E[j][C[j]] => stack[j].shared
             /\ Home[cur_thr] # Main
  <2>1. p \in (j+1)..Len(E)
    BY <1>2 DEF Calls
  <2> QED
    BY <1>2, <2>1 DEF Sound, Noted, OffMain
<1> HIDE DEF p
<1>7. Sound(Append(stack, a), Append(E, env), Append(C, cur_thr), tables)
  BY <1>1, <1>3, <1>4, <1>5, <1>6, PushSound DEF p
<1>8. Now(Append(stack, a), Append(E, env), Append(C, cur_thr))
  <2>1. Len(Append(stack, a)) = p
    BY <1>2, <1>5, Appended DEF p
  <2>2. Append(E, env)[Len(E)+1] = env /\ Append(C, cur_thr)[Len(C)+1] = cur_thr
    BY <1>1, <1>2, Appended
  <2> QED
    BY <1>2, <2>1, <2>2 DEF Now
<1> QED
  BY <1>5, <1>7, <1>8

----------------------------------------------------------------------------
(***************************************************************************)
(* The inductive invariant: the C stack is sound.                          *)
(***************************************************************************)
Cell == Name \cup Val \cup {Nobody}
SInv == /\ argv \in [Method -> Cell]
        /\ \E E, C : Sound(stack, E, C, tables) /\ Now(stack, E, C)

\* What a step does.
Goal == /\ \E E, C : /\ Sound(stack', E, C, tables')
                     /\ env' = E[Len(stack')+1] /\ cur_thr' = C[Len(stack')+1]
        /\ argv' \in [Method -> Cell]

LEMMA CallsSound ==
  ASSUME NEW E, NEW C, Sound(stack, E, C, tables), Now(stack, E, C),
         argv \in [Method -> Cell],
         NEW m \in Method, NEW args \in Args, NEW frames,
         \/ frames = <<>>
         \/ \E n \in Name : frames = <<[kind |-> "assign", name |-> n, tbl |-> env[Target(n)]]>>,
         Call(m, args, frames)
  PROVE  Goal /\ Len(stack') > Len(stack) /\ tables'[env[Main]] = tables[env[Main]]
<1> DEFINE cell == IF args = <<>> THEN argv[m] ELSE args[1]
           v == EvalCell(cell)
<1>1. cell \in Cell
  BY NamesAssumption DEF Cell
<1>2. v \in Val
  BY <1>1, EvalType DEF Cell
<1>3. argv' \in [Method -> Cell]
  BY <1>1 DEF Call
<1> HIDE DEF cell
<1>4. stack \in Seq(FrameRec) /\ Len(stack) \in Nat
  BY DEF Sound, Path
<1>5. PICK st, F, D : /\ Sound(st, F, D, tables) /\ Now(st, F, D)
                      /\ st \in Seq(FrameRec) /\ Len(st) >= Len(stack) /\ stack \o frames = st
  <2>1. CASE frames = <<>>
    <3>1. stack \o frames = stack
      BY <1>4, <2>1
    <3> QED
      BY <1>4, <3>1
  <2>2. ASSUME NEW n \in Name,
               frames = <<[kind |-> "assign", name |-> n, tbl |-> env[Target(n)]]>>
        PROVE  \E st, F, D : /\ Sound(st, F, D, tables) /\ Now(st, F, D)
                             /\ st \in Seq(FrameRec) /\ Len(st) >= Len(stack)
                             /\ stack \o frames = st
    <3>1. PICK a : a = [kind |-> "assign", name |-> n, tbl |-> env[Target(n)]]
      OBVIOUS
    <3>2. /\ Sound(Append(stack, a), Append(E, env), Append(C, cur_thr), tables)
          /\ Now(Append(stack, a), Append(E, env), Append(C, cur_thr))
          /\ a \in FrameRec
      BY <3>1, AssignSound
    <3>3. stack \o frames = Append(stack, a)
      BY <1>4, <2>2, <3>1, OneMore
    <3>4. Append(stack, a) \in Seq(FrameRec) /\ Len(Append(stack, a)) = Len(stack) + 1
      BY <1>4, <3>2, Appended
    <3>5. Len(Append(stack, a)) >= Len(stack)
      BY <1>4, <3>4
    <3> QED
      BY <3>2, <3>3, <3>4, <3>5, Zenon
  <2> QED
    BY <2>1, <2>2
<1>6. \A f : stack \o frames \o <<f>> = Append(st, f)
  BY <1>5, OneMore
<1>7. /\ cur_thr' = m
      /\ \/ /\ Bind(m, env[m], v) /\ env' = env
            /\ stack' = Note(Append(st, Frame(m, 0)), env[m])
         \/ /\ cur_thr = m
            /\ \E fresh \in TableId \ Live :
                 /\ env' = [env EXCEPT ![m] = fresh]
                 /\ tables' = [tables EXCEPT ![fresh] = Bound(m, v)]
            /\ stack' = Append(st, Frame(m, env[m]))
  <2>1. /\ cur_thr' = m
        /\ \/ /\ Bind(m, env[m], v) /\ env' = env
              /\ stack' = Note(stack \o frames \o <<Frame(m, 0)>>, env[m])
           \/ /\ cur_thr = m
              /\ \E fresh \in TableId \ Live :
                   /\ env' = [env EXCEPT ![m] = fresh]
                   /\ tables' = [tables EXCEPT ![fresh] = Bound(m, v)]
              /\ stack' = stack \o frames \o <<Frame(m, env[m])>>
    BY DEF Call, cell
  <2> HIDE DEF v
  <2> QED
    BY <1>6, <2>1
<1> HIDE DEF v
<1>8. /\ \E X, Y : /\ Sound(stack', X, Y, tables')
                   /\ env' = X[Len(stack')+1] /\ cur_thr' = Y[Len(stack')+1]
      /\ Len(stack') = Len(st) + 1
      /\ tables'[env[Main]] = tables[env[Main]]
  BY <1>2, <1>5, <1>7, CallSound
<1> QED
  BY <1>3, <1>4, <1>5, <1>8 DEF Goal

\* Every step keeps the C stack sound, and inside a call none of them changes
\* a variable of the program.
LEMMA StepSound ==
  ASSUME NEW E, NEW C, Sound(stack, E, C, tables), Now(stack, E, C),
         argv \in [Method -> Cell], [Next]_vars
  PROVE  Goal /\ (Calls(stack) # {} => tables'[env[Main]] = tables[env[Main]])
<1>1. /\ env \in [Thread -> TableId] /\ Main \in Thread
      /\ tables \in [TableId -> Table \cup {<<>>}]
      /\ Len(E) = Len(stack)+1 /\ Len(stack)+1 \in 1..Len(E)
      /\ stack \in Seq(FrameRec) /\ Len(stack) \in Nat
  <2>1. env \in [Thread -> TableId]
    BY LinkType
  <2>2. Main \in Thread
    BY BlocksAssumption
  <2>3. Path(stack, E, C) /\ AllThere(E, tables)
    BY DEF Sound
  <2>4. tables \in [TableId -> Table \cup {<<>>}]
    BY ONLY <2>3 DEF AllThere
  <2>5. stack \in Seq(FrameRec) /\ Len(E) = Len(stack)+1
    BY ONLY <2>3 DEF Path
  <2>6. Len(stack) \in Nat
    BY ONLY <2>5
  <2>7. Len(stack)+1 \in 1..Len(E)
    BY ONLY <2>5, <2>6
  <2> QED
    BY ONLY <2>1, <2>2, <2>4, <2>5, <2>6, <2>7
<1>2. env[Main] = E[1][Main]
  BY <1>1 DEF Now, Sound, OffMain
<1>3. CASE UNCHANGED vars
  BY <1>3 DEF vars, Goal, Now
<1>4. ASSUME NEW n \in Name, NEW v \in Val, Assign(n, v)
      PROVE  Goal /\ (Calls(stack) # {} => tables'[env[Main]] = tables[env[Main]])
  <2>1. /\ env[Target(n)] \in TableId /\ tables[env[Target(n)]] # <<>>
        /\ \A j \in Calls(stack) : /\ E[j][C[j]] = env[Target(n)] => stack[j].shared
                                   /\ env[Target(n)] # E[1][Main]
    BY TargetNoted
  <2>2. tables' = [tables EXCEPT ![env[Target(n)]][n] = v] /\ UNCHANGED <<env, cur_thr, argv, stack>>
    BY <1>4 DEF Assign, Store
  <2>3. Sound(stack, E, C, [tables EXCEPT ![env[Target(n)]][n] = v])
    BY <2>1, StoreSound
  <2>4. Goal
    BY <2>2, <2>3 DEF Goal, Now
  <2>5. Calls(stack) # {} => tables'[env[Main]] = tables[env[Main]]
    BY <1>1, <1>2, <2>1, <2>2
  <2> QED
    BY <2>4, <2>5
<1>5. ASSUME NEW m \in Method, NEW args \in Args, Call(m, args, <<>>)
      PROVE  Goal /\ tables'[env[Main]] = tables[env[Main]]
  BY <1>5, CallsSound
<1>6. ASSUME NEW n \in Name, NEW m \in Method, NEW args \in Args, AssignCall(n, m, args)
      PROVE  Goal /\ tables'[env[Main]] = tables[env[Main]]
  BY <1>6, CallsSound DEF AssignCall
<1>7. CASE Return
  <2>1. argv' = argv
    BY <1>7 DEF Return
  <2> QED
    BY <1>7, <2>1, ReturnSound DEF Goal
<1>8. CASE Leave
  <2>1. /\ stack # <<>> /\ Last(stack).kind = "block" /\ cur_thr' = Last(stack).saved
        /\ stack' = Front(stack) /\ UNCHANGED <<env, tables, argv>>
    BY <1>8 DEF Leave
  <2>2. /\ Sound(stack', Front(E), Front(C), tables)
        /\ env = Front(E)[Len(stack')+1]
        /\ Last(stack).saved = Front(C)[Len(stack')+1]
    BY <2>1, TopSound
  <2> QED
    BY <2>1, <2>2 DEF Goal
<1>9. ASSUME NEW v \in Val, AssignEnd(v)
      PROVE  Goal /\ (Calls(stack) # {} => tables'[env[Main]] = tables[env[Main]])
  <2> DEFINE top == Last(stack)
  <2>1. /\ stack # <<>> /\ top.kind = "assign" /\ stack' = Front(stack)
        /\ tables' = [tables EXCEPT ![top.tbl][top.name] = v]
        /\ UNCHANGED <<env, cur_thr, argv>>
    BY <1>9 DEF AssignEnd, Running, Store
  <2>2. /\ Sound(stack', Front(E), Front(C), tables)
        /\ env = Front(E)[Len(stack')+1] /\ cur_thr = Front(C)[Len(stack')+1]
        /\ top.tbl \in TableId /\ top.name \in Name /\ tables[top.tbl] # <<>>
        /\ \A j \in Calls(stack') : Front(E)[j][Front(C)[j]] = top.tbl => stack'[j].shared
        /\ Calls(stack) # {} => top.tbl # env[Main]
    BY <2>1, TopSound
  <2> HIDE DEF top
  <2>3. Sound(stack', Front(E), Front(C), tables')
    BY <2>1, <2>2, StoreSound
  <2>4. Calls(stack) # {} => tables'[env[Main]] = tables[env[Main]]
    BY <1>1, <2>1, <2>2
  <2> QED
    BY <2>1, <2>2, <2>3, <2>4 DEF Goal
<1>10. ASSUME NEW b \in Thread, Enter(b)
       PROVE  Goal /\ tables'[env[Main]] = tables[env[Main]]
  <2>1. cur_thr' = b /\ UNCHANGED <<env, tables, argv>>
    BY <1>10 DEF Enter
  <2>2. Sound(stack', Append(E, env), Append(C, b), tables) /\ Len(stack') = Len(stack) + 1
    BY <1>10, EnterSound
  <2>3. Append(E, env)[Len(stack')+1] = env /\ Append(C, b)[Len(stack')+1] = b
    BY <1>1, <2>2, Appended DEF Sound, Path
  <2> QED
    BY <2>1, <2>2, <2>3 DEF Goal
<1> QED
  BY <1>3, <1>4, <1>5, <1>6, <1>7, <1>8, <1>9, <1>10 DEF Next

\* The program begins with an empty C stack.
LEMMA InitSound == Init => SInv
<1> SUFFICES ASSUME Init PROVE SInv
  OBVIOUS
<1>1. PICK E : E = <<Links>>
  OBVIOUS
<1>2. PICK C : C = <<Main>>
  OBVIOUS
<1>3. /\ env = Links /\ cur_thr = Main /\ stack = <<>> /\ argv = [m \in Method |-> Parm[m]]
      /\ tables = [t \in TableId |-> IF t \in {env[s] : s \in Thread} THEN Empty ELSE <<>>]
  BY DEF Init
<1>4. Links \in [Thread -> TableId] /\ Main \in Thread
  BY LinksType, BlocksAssumption
<1>5. \A s, t \in Thread : Links[s] = Links[t] <=> Home[s] = Home[t]
  BY LinksType DEF Linked
<1>6. /\ E \in Seq([Thread -> TableId]) /\ Len(E) = 1 /\ E[1] = Links /\ 1..Len(E) = {1}
      /\ C \in Seq(Thread) /\ Len(C) = 1 /\ C[1] = Main
      /\ Len(stack) = 0 /\ stack \in Seq(FrameRec) /\ Calls(stack) = {}
  BY <1>1, <1>2, <1>3, <1>4 DEF Calls
<1>7. Path(stack, E, C)
  BY <1>6 DEF Path
<1>8. Fresh(stack, E) /\ Noted(stack, E, C) /\ Kept(stack, E, C, tables)
  BY <1>6 DEF Fresh, Noted, Kept
<1>9. Apart(E)
  BY <1>5, <1>6, HomeOf, BlocksAssumption DEF Apart
<1>10. OffMain(stack, E, C)
  BY <1>4, <1>5, <1>6, HomeOf DEF OffMain
<1>11. AllThere(E, tables)
  <2>1. Empty \in Table
    BY DEF Empty, Table
  <2>2. \A t \in Thread : tables[Links[t]] = Empty
    BY <1>3, <1>4
  <2> QED
    BY <1>3, <1>6, <2>1, <2>2, TableIsNone DEF AllThere
<1>12. Now(stack, E, C)
  BY <1>3, <1>6 DEF Now
<1>13. argv \in [Method -> Cell]
  BY <1>3, NamesAssumption DEF Cell
<1> QED
  BY <1>7, <1>8, <1>9, <1>10, <1>11, <1>12, <1>13 DEF SInv, Sound

LEMMA NextSound == SInv /\ [Next]_vars => SInv'
<1> SUFFICES ASSUME SInv, [Next]_vars PROVE SInv'
  OBVIOUS
<1>1. PICK E, C : Sound(stack, E, C, tables) /\ Now(stack, E, C)
  BY DEF SInv
<1>2. Goal
  BY <1>1, StepSound DEF SInv
<1> QED
  BY <1>2 DEF Goal, SInv, Now

\* In every state the C stack is sound: the frames lead, one after another,
\* from the links the parser made to the present ones, and the tables they
\* hold are there and are not mixed up (eval.c:182-227).
THEOREM StackSound == Spec => []SInv
BY InitSound, NextSound, PTL DEF Spec

\* What a sound C stack says of the links: TypeOK.
LEMMA SoundTyped == SInv => TypeOK
<1> SUFFICES ASSUME SInv PROVE TypeOK
  OBVIOUS
<1>1. PICK E, C : Sound(stack, E, C, tables) /\ Now(stack, E, C)
  BY DEF SInv
<1>2. /\ env \in [Thread -> TableId] /\ cur_thr \in Thread
      /\ \A t \in Thread : tables[env[t]] # <<>>
  BY <1>1, LinkType
<1>3. env \in [Thread -> Live]
  BY <1>2 DEF Live
<1>4. tables \in [TableId -> [Name -> Val \cup {Unset}] \cup {<<>>}]
  BY <1>1 DEF Sound, AllThere, Table
<1>5. argv \in [Method -> Name \cup Val \cup {Nobody}]
  BY DEF SInv, Cell
<1>6. /\ stack \in Seq(FrameRec) /\ Len(stack) \in Nat /\ DOMAIN stack = 1..Len(stack)
      /\ Len(E) = Len(stack) + 1
      /\ \A k \in 1..Len(stack) : Leads(stack[k], E[k], C[k], E[k+1], C[k+1])
      /\ E \in Seq([Thread -> TableId])
  BY <1>1 DEF Sound, Path
<1>7. ASSUME NEW k \in 1..Len(stack), stack[k].kind = "assign" PROVE stack[k].tbl \in Live
  <2>1. Leads(stack[k], E[k], C[k], E[k+1], C[k+1]) /\ k \in 1..Len(E)
    BY <1>6
  <2>2. PICK t \in Thread : stack[k].tbl = E[k][t]
    BY <1>7, <2>1 DEF Leads, BlockRec, CallRec
  <2> QED
    BY <1>1, <1>6, <2>1, <2>2 DEF Sound, AllThere, Live
<1>8. ASSUME NEW k \in Saved
      PROVE  /\ k \in 1..Len(stack) /\ k \in Calls(stack) /\ stack[k].sav_env # 0
             /\ stack[k].block \in Method /\ stack[k].sav_env = E[k][stack[k].block]
             /\ k \in 1..Len(E) /\ stack[k].block \in Thread
  <2>1. k \in 1..Len(stack) /\ stack[k].kind = "call" /\ stack[k].sav_env # 0
    BY <1>6 DEF Saved
  <2>2. Leads(stack[k], E[k], C[k], E[k+1], C[k+1])
    BY <1>6, <2>1
  <2>3. stack[k] \in CallRec /\ stack[k].sav_env = E[k][stack[k].block]
    BY <2>1, <2>2 DEF Leads, AssignRec, BlockRec, Relinked
  <2> QED
    BY <1>6, <2>1, <2>3, BlocksAssumption DEF Calls, CallRec
<1>9. \A k \in Saved : stack[k].sav_env \in Live
  BY <1>1, <1>6, <1>8 DEF Sound, AllThere, Live
<1>10. ASSUME NEW j \in Saved, NEW k \in Saved, j < k
       PROVE  stack[j].sav_env # stack[k].sav_env
  <2>1. CASE stack[j].block = stack[k].block
    <3>1. k \in (j+1)..Len(E) /\ j \in 1..j
      BY <1>6, <1>8, <1>10
    <3>2. Fresh(stack, E)
      BY <1>1 DEF Sound
    <3> QED
      BY <1>8, <2>1, <3>1, <3>2 DEF Fresh
  <2>2. CASE stack[j].block # stack[k].block
    BY <1>1, <1>8, <2>2 DEF Sound, Apart
  <2> QED
    BY <2>1, <2>2
<1>11. \A j, k \in Saved : stack[j].sav_env = stack[k].sav_env => j = k
  <2>1. \A j, k \in Saved : j \in Nat /\ k \in Nat
    BY <1>6, <1>8
  <2> QED
    BY <1>10, <2>1
<1> QED
  BY <1>2, <1>3, <1>4, <1>5, <1>6, <1>7, <1>9, <1>11 DEF TypeOK

\* No block is linked to a table that was freed, and none will be when the
\* calls return (eval.c:197-204, 219-225).
THEOREM TablesThere == Spec => []TypeOK
BY StackSound, SoundTyped, PTL

\* A step that ends a call is Return.
LEMMA OnlyReturn ==
  ASSUME SInv, Next, Returning
  PROVE  Return
<1>1. PICK E, C : Sound(stack, E, C, tables) /\ Now(stack, E, C)
  BY DEF SInv
<1>2. /\ stack \in Seq(FrameRec) /\ Len(stack) \in Nat \ {0} /\ stack # <<>>
      /\ Last(stack).kind = "call" /\ stack' = Front(stack) /\ Len(stack') = Len(stack) - 1
  BY <1>1, Shortened DEF Returning, Sound, Path
<1>3. argv \in [Method -> Cell]
  BY DEF SInv
<1>4. ASSUME NEW n \in Name, NEW v \in Val, Assign(n, v) PROVE FALSE
  BY <1>2, <1>4 DEF Assign
<1>5. ASSUME NEW m \in Method, NEW args \in Args, Call(m, args, <<>>) PROVE FALSE
  <2>1. Len(stack') > Len(stack)
    BY <1>1, <1>3, <1>5, CallsSound
  <2> QED
    BY <1>2, <2>1
<1>6. ASSUME NEW n \in Name, NEW m \in Method, NEW args \in Args, AssignCall(n, m, args)
      PROVE FALSE
  <2>1. Len(stack') > Len(stack)
    BY <1>1, <1>3, <1>6, CallsSound DEF AssignCall
  <2> QED
    BY <1>2, <2>1
<1>7. CASE Leave
  BY <1>2, <1>7 DEF Leave
<1>8. ASSUME NEW v \in Val, AssignEnd(v) PROVE FALSE
  BY <1>2, <1>8 DEF AssignEnd, Running
<1>9. ASSUME NEW b \in Thread, Enter(b) PROVE FALSE
  <2>1. Len(stack') = Len(stack) + 1
    BY <1>1, <1>9, EnterSound
  <2> QED
    BY <1>2, <2>1
<1> QED
  BY <1>4, <1>5, <1>6, <1>7, <1>8, <1>9 DEF Next

\* When a call returns every block is linked to the table it was linked to at
\* the call (eval.c:197-204, 219-225).
THEOREM CallsRestore == Spec => CallsRestoreEnv
<1>1. SInv /\ [Next]_vars => [Returning => env' = Last(stack).envs]_vars
  <2> SUFFICES ASSUME SInv, Next, Returning PROVE env' = Last(stack).envs
    BY DEF vars
  <2>1. PICK E, C : Sound(stack, E, C, tables) /\ Now(stack, E, C)
    BY DEF SInv
  <2> QED
    BY <2>1, OnlyReturn, ReturnSound
<1> QED
  BY <1>1, StackSound, PTL DEF Spec, CallsRestoreEnv

\* A call leaves its caller's variables alone, unless something ran on the
\* caller's table (parse.y:207, eval.c:200).
THEOREM CallerKeeps == Spec => CallerKeepsLocals
<1>1. SInv /\ [Next]_vars =>
        [Returning => \/ Last(stack).shared
                      \/ tables'[env'[cur_thr']] = Last(stack).before]_vars
  <2> SUFFICES ASSUME SInv, Next, Returning
               PROVE  Last(stack).shared \/ tables'[env'[cur_thr']] = Last(stack).before
    BY DEF vars
  <2>1. PICK E, C : Sound(stack, E, C, tables) /\ Now(stack, E, C)
    BY DEF SInv
  <2> QED
    BY <2>1, OnlyReturn, ReturnSound
<1> QED
  BY <1>1, StackSound, PTL DEF Spec, CallerKeepsLocals

\* Whatever a method does, no step inside a call changes a variable of the
\* program (parse.y:184).
THEOREM MainLeftAlone == Spec => MethodsLeaveMainAlone
<1>1. SInv /\ [Next]_vars =>
        [(\E k \in DOMAIN stack : stack[k].kind = "call")
            => tables'[env[Main]] = tables[env[Main]]]_vars
  <2> SUFFICES ASSUME SInv, Next, NEW k \in DOMAIN stack, stack[k].kind = "call"
               PROVE  tables'[env[Main]] = tables[env[Main]]
    BY DEF vars
  <2>1. PICK E, C : Sound(stack, E, C, tables) /\ Now(stack, E, C)
    BY DEF SInv
  <2>2. k \in Calls(stack)
    BY <2>1 DEF Sound, Path, Calls
  <2> QED
    BY <2>1, <2>2, StepSound DEF SInv
<1> QED
  BY <1>1, StackSound, PTL DEF Spec, MethodsLeaveMainAlone

=============================================================================
