------------------------------- MODULE List -------------------------------
(***************************************************************************)
(* What vector.c promises its callers: a list of elements, read and        *)
(* changed the way the comments above its functions say.                   *)
(***************************************************************************)
EXTENDS Integers, Sequences, SequencesExt

CONSTANTS Elem,   \* what callers store
          Index,  \* the indices they use
          NULL    \* what a call returns that has no element to return

VARIABLES items,  \* the list
          call,   \* the last call and its arguments
          ret     \* the element, or the new list, it returned

Called(op, args) == call' = [op |-> op, args |-> args]

\* Indices count from 0, and from the end if they are negative.
Place(k)   == IF k < 0 THEN Len(items) + k + 1 ELSE k + 1
InRange(k) == Place(k) \in DOMAIN items
At(k)      == IF InRange(k) THEN items[Place(k)] ELSE NULL

Init == items = <<>> /\ call = [op |-> "new", args |-> <<>>] /\ ret = NULL

Push(x)    == /\ Called("push", <<x>>)
              /\ items' = Append(items, x) /\ ret' = NULL
Unshift(x) == /\ Called("unshift", <<x>>)
              /\ items' = <<x>> \o items /\ ret' = NULL

\* Take the last, the first element.
Pop   == /\ Called("pop", <<>>)
         /\ ret' = At(-1)
         /\ items' = IF items = <<>> THEN items ELSE Front(items)
Shift == /\ call' \in [op : {"shift", "shift_safe"}, args : {<<>>}]
         /\ ret' = At(0)
         /\ items' = IF items = <<>> THEN items ELSE Tail(items)

Aref(k)     == /\ Called("aref", <<k>>)
               /\ ret' = At(k) /\ UNCHANGED items
Aset(k, x)  == /\ Called("aset", <<k, x>>)
               /\ ret' = NULL
               /\ items' = IF InRange(k) THEN [items EXCEPT ![Place(k)] = x]
                                         ELSE items
DeleteAt(k) == /\ Called("delete_at", <<k>>)
               /\ ret' = At(k)
               /\ items' = IF InRange(k) THEN RemoveAt(items, Place(k))
                                         ELSE items

\* "A new vector consisting of a range of values" (vector.c:326), in either
\* order of its bounds.
Slice(lo, hi) == /\ Called("range", <<lo, hi>>)
                 /\ InRange(lo) /\ InRange(hi)
                 /\ ret' = IF Place(lo) <= Place(hi)
                           THEN SubSeq(items, Place(lo), Place(hi))
                           ELSE SubSeq(items, Place(hi), Place(lo))
                 /\ UNCHANGED items

Clear == Called("clear", <<>>) /\ items' = <<>> /\ ret' = NULL

\* Calls about memory keep the list; only vector_resize may cut its end off.
Memory(op, k) == /\ Called(op, <<k>>)
                 /\ ret' = NULL
                 /\ \/ UNCHANGED items
                    \/ /\ op = "resize"
                       /\ \E n \in DOMAIN items : items' = SubSeq(items, 1, n)

\* A walk over the elements: vector_foreach's callback may ask for removals,
\* vector_delete removes elements that match.
Walk == /\ call' \in {[op |-> "foreach", args |-> <<>>]}
                    \cup [op : {"delete"}, args : {<<x>> : x \in Elem}]
        /\ ret' = NULL /\ UNCHANGED items
Drop(p) == /\ items' = RemoveAt(items, p)
           /\ \/ /\ call.op = "foreach"
                 /\ UNCHANGED ret
              \/ /\ call = [op |-> "delete", args |-> <<items[p]>>]
                 /\ ret' = items[p]
           /\ UNCHANGED call

Next == \/ \E x \in Elem : Push(x) \/ Unshift(x)
        \/ Pop \/ Shift \/ Clear \/ Walk
        \/ \E p \in DOMAIN items : Drop(p)
        \/ \E k \in Index : Aref(k) \/ DeleteAt(k)
        \/ \E k \in Index, x \in Elem : Aset(k, x)
        \/ \E lo, hi \in Index : Slice(lo, hi)
        \/ \E op \in {"shrink", "optimize", "resize"}, k \in Index \cup {NULL} :
              Memory(op, k)
=============================================================================
