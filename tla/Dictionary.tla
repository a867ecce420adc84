----------------------------- MODULE Dictionary -----------------------------
(***************************************************************************)
(* What a symbol table promises its callers: a partial map from keys to    *)
(* records.  symbol.c:8-9 and README.md describe st.c by the words         *)
(* "dictionaries/associative-arrays"; StTable shows that the hash table    *)
(* of st.c is one, as long as nobody uses st_add_direct on a key that is   *)
(* already there.                                                          *)
(***************************************************************************)
CONSTANTS Key,      \* the keys callers use
          Record,   \* the records they store
          Absent    \* what a lookup yields for a key without a record

VARIABLES dict,     \* the map
          ret       \* what the last operation returned

vars == <<dict, ret>>

TypeOK == /\ dict \in [Key -> Record \cup {Absent}]
          /\ ret \in Record \cup {Absent, 0, 1}

Init == /\ dict = [k \in Key |-> Absent]
        /\ ret = Absent

Lookup(k) == /\ ret' = dict[k]
             /\ UNCHANGED dict

\* Store r under k; tell the caller whether k had a record before.
Insert(k, r) == /\ dict' = [dict EXCEPT ![k] = r]
                /\ ret' = IF dict[k] = Absent THEN 0 ELSE 1

\* Forget k; hand its record back.
Delete(k) == /\ dict' = [dict EXCEPT ![k] = Absent]
             /\ ret' = dict[k]

Clear == /\ dict' = [k \in Key |-> Absent]
         /\ ret' = Absent

Next == \/ \E k \in Key : Lookup(k) \/ Delete(k)
        \/ \E k \in Key, r \in Record : Insert(k, r)
        \/ Clear

Spec == Init /\ [][Next]_vars
=============================================================================
