------------------------------ MODULE StTable ------------------------------
(***************************************************************************)
(* The chained hash table of st.c, on which the interpreter keeps its      *)
(* variables, its methods, its symbols and its Hash objects.               *)
(*                                                                         *)
(* A chain is the sequence of its entries, head first.  The table grows    *)
(* one entry at a time, as the loop of rehash() does, and a clean-up       *)
(* walks the chains one entry at a time, as st_foreach() does: the         *)
(* invariants hold between any two iterations of these loops, not only     *)
(* between calls.  Between calls pc is "ready".                            *)
(***************************************************************************)
EXTENDS Integers, Sequences, SequencesExt, FiniteSets

CONSTANTS Key, Record,
          Never,        \* the mark st_delete_safe writes; "no record" too
          Hash,         \* type->hash, as a function
          MINSIZE, Primes, MAX_DENSITY,
          MaxChain      \* bound: a push needs a chain shorter than this

ASSUME HashAssumption == Hash \in [Key -> Nat]
ASSUME NeverAssumption == Never \notin Key \cup Record
ASSUME SizeAssumption == /\ Primes \in Seq(Nat \ {0})
                         /\ MINSIZE \in Nat \ {0}
                         /\ MAX_DENSITY \in Nat
                         /\ MaxChain \in Nat

VARIABLES bins, num_bins, num_entries,  \* struct st_table
          pc,                           \* which loop is running
          new_bins, new_num_bins,       \* locals of rehash()
          i,                            \* bin index of the running loop
          pending,                      \* the entry ADD_DIRECT has to push
          pos,                          \* ptr of st_foreach(): place in chain i
          saved,                        \* num_entries of st_cleanup_safe()
          ret                           \* result of the last call

table  == <<bins, num_bins, num_entries>>
growth == <<new_bins, new_num_bins, pending>>
walk   == <<pos, saved>>
vars   == <<table, pc, growth, i, walk, ret>>

Entry == [hash : Nat, key : Key \cup {Never}, record : Record \cup {Never}]

----------------------------------------------------------------------------
\* new_size: the first size MINSIZE * 2^n above `size' selects the prime.
FirstFit(n, size) == /\ MINSIZE * 2^(n-1) > size
                     /\ \A m \in 1..(n-1) : MINSIZE * 2^(m-1) <= size
new_size(size) == {Primes[n] : n \in {m \in DOMAIN Primes : FirstFit(m, size)}}

EmptyBins(n) == [b \in 0..(n-1) |-> <<>>]

\* do_hash_bin: the chain a key belongs to.
Chain(k) == bins[Hash[k] % num_bins]

\* The places FIND_ENTRY and EQUAL accept, and the first of them.
Matches(k)  == {p \in DOMAIN Chain(k) : /\ Chain(k)[p].hash = Hash[k]
                                        /\ Chain(k)[p].key = k}
EqualKey(k) == {p \in DOMAIN Chain(k) : Chain(k)[p].key = k}
First(S, p) == p \in S /\ \A q \in S : p <= q

----------------------------------------------------------------------------
Init == /\ num_bins \in new_size(0)
        /\ bins = EmptyBins(num_bins)
        /\ num_entries = 0
        /\ pc = "ready"
        /\ new_bins = EmptyBins(0) /\ new_num_bins = 0 /\ pending = <<>>
        /\ i = 0 /\ pos = 1 /\ saved = 0
        /\ ret = Never

\* Put e at the head of its chain of B, a table of n bins.
Push(B, n, e) == [B EXCEPT ![e.hash % n] = <<e>> \o @]

Dense == num_entries \div num_bins > MAX_DENSITY

\* ADD_DIRECT pushes at once, or after rehash() when the table is dense.
ADD_DIRECT(k, r) ==
  LET e == [hash |-> Hash[k], key |-> k, record |-> r]
  IN  /\ Len(Chain(k)) < MaxChain
      /\ \/ /\ ~Dense
            /\ bins' = Push(bins, num_bins, e)
            /\ num_entries' = num_entries + 1
            /\ ret' = 0
            /\ UNCHANGED <<num_bins, pc, growth, i, walk>>
         \/ /\ Dense
            /\ new_num_bins' \in new_size(num_bins + 1)
            /\ new_bins' = EmptyBins(new_num_bins')
            /\ pending' = <<e>>
            /\ pc' = "rehash" /\ i' = 0
            /\ UNCHANGED <<table, walk, ret>>

st_lookup(k) ==
  /\ pc = "ready"
  /\ \/ \E p \in DOMAIN Chain(k) : First(Matches(k), p) /\ ret' = Chain(k)[p].record
     \/ Matches(k) = {} /\ ret' = Never
  /\ UNCHANGED <<table, pc, growth, i, walk>>

\* mutant: st_insert does not look for the key first
st_insertBlind(k, r) == pc = "ready" /\ ADD_DIRECT(k, r)

st_insert(k, r) ==
  /\ pc = "ready"
  /\ \/ Matches(k) = {} /\ ADD_DIRECT(k, r)
     \/ \E p \in DOMAIN Chain(k) :
          /\ First(Matches(k), p)
          /\ bins' = [bins EXCEPT ![Hash[k] % num_bins][p].record = r]
          /\ ret' = 1
          /\ UNCHANGED <<num_bins, num_entries, pc, growth, i, walk>>

st_add_direct(k, r) == pc = "ready" /\ ADD_DIRECT(k, r)

st_delete(k) ==
  /\ pc = "ready"
  /\ \/ \E p \in DOMAIN Chain(k) :
          /\ First(EqualKey(k), p)
          /\ ret' = Chain(k)[p].record
          /\ bins' = [bins EXCEPT ![Hash[k] % num_bins] = RemoveAt(@, p)]
          /\ num_entries' = num_entries - 1
     \/ EqualKey(k) = {} /\ ret' = Never /\ UNCHANGED <<bins, num_entries>>
  /\ UNCHANGED <<num_bins, pc, growth, i, walk>>

\* st_delete_safe leaves the entry where it is and marks it.
st_delete_safe(k) ==
  /\ pc = "ready"
  /\ \/ \E p \in DOMAIN Chain(k) :
          /\ First(EqualKey(k), p)
          /\ ret' = Chain(k)[p].record
          /\ bins' = [bins EXCEPT ![Hash[k] % num_bins][p] =
                        [hash |-> @.hash, key |-> Never, record |-> Never]]
          /\ num_entries' = num_entries - 1
     \/ EqualKey(k) = {} /\ ret' = Never /\ UNCHANGED <<bins, num_entries>>
  /\ UNCHANGED <<num_bins, pc, growth, i, walk>>

\* st_copy clones every chain onto the head of its copy; the client goes on
\* with the copy.
st_copy ==
  /\ pc = "ready"
  /\ bins' = [b \in DOMAIN bins |-> Reverse(bins[b])]
  /\ UNCHANGED <<num_bins, num_entries, pc, growth, i, walk, ret>>

\* st_free_table, and the st_init_table that makes the client's next table.
st_free_table ==
  /\ pc = "ready"
  /\ num_bins' \in new_size(0)
  /\ bins' = EmptyBins(num_bins')
  /\ num_entries' = 0
  /\ ret' = Never
  /\ UNCHANGED <<pc, growth, i, walk>>

----------------------------------------------------------------------------
\* mutant: the bin in the new table is computed with the old size
RehashMoveOldSize ==
  /\ pc = "rehash" /\ i < num_bins /\ bins[i] # <<>>
  /\ new_bins' = Push(new_bins, num_bins, Head(bins[i]))
  /\ bins' = [bins EXCEPT ![i] = Tail(@)]
  /\ UNCHANGED <<num_bins, num_entries, pc, new_num_bins, pending, i, walk, ret>>

\* mutant: ptr->next is read after it was relinked, the rest is lost
RehashMoveDrop ==
  /\ pc = "rehash" /\ i < num_bins /\ bins[i] # <<>>
  /\ new_bins' = Push(new_bins, new_num_bins, Head(bins[i]))
  /\ bins' = [bins EXCEPT ![i] = <<>>]
  /\ UNCHANGED <<num_bins, num_entries, pc, new_num_bins, pending, i, walk, ret>>

\* rehash(): bins[i] is what the inner loop has left of chain i.
RehashMove ==
  /\ pc = "rehash" /\ i < num_bins /\ bins[i] # <<>>
  /\ new_bins' = Push(new_bins, new_num_bins, Head(bins[i]))
  /\ bins' = [bins EXCEPT ![i] = Tail(@)]
  /\ UNCHANGED <<num_bins, num_entries, pc, new_num_bins, pending, i, walk, ret>>

RehashNextBin ==
  /\ pc = "rehash" /\ i < num_bins /\ bins[i] = <<>>
  /\ i' = i + 1
  /\ UNCHANGED <<table, pc, growth, walk, ret>>

\* mutant: num_bins keeps the old size
RehashDoneOldSize ==
  /\ pc = "rehash" /\ i = num_bins
  /\ num_bins' = num_bins
  /\ bins' = Push(new_bins, new_num_bins, Head(pending))
  /\ num_entries' = num_entries + 1
  /\ pc' = "ready" /\ i' = 0
  /\ new_bins' = EmptyBins(0) /\ new_num_bins' = 0 /\ pending' = <<>>
  /\ ret' = 0
  /\ UNCHANGED walk

\* The table takes the new bins over and ADD_DIRECT pushes the entry that
\* was waiting, at its bin_pos in the larger table.
RehashDone ==
  /\ pc = "rehash" /\ i = num_bins
  /\ num_bins' = new_num_bins
  /\ bins' = Push(new_bins, new_num_bins, Head(pending))
  /\ num_entries' = num_entries + 1
  /\ pc' = "ready" /\ i' = 0
  /\ new_bins' = EmptyBins(0) /\ new_num_bins' = 0 /\ pending' = <<>>
  /\ ret' = 0
  /\ UNCHANGED walk

Rehash == RehashMove \/ RehashNextBin \/ RehashDone

----------------------------------------------------------------------------
\* st_cleanup_safe: st_foreach(delete_never), then num_entries as it was.
st_cleanup_safe ==
  /\ pc = "ready"
  /\ pc' = "cleanup" /\ saved' = num_entries /\ i' = 0 /\ pos' = 1
  /\ UNCHANGED <<table, growth, ret>>

\* One call of delete_never: ST_DELETE unlinks, ST_CONTINUE moves on.
CleanupDelete ==
  /\ pc = "cleanup" /\ i < num_bins /\ pos \in DOMAIN bins[i]
  /\ bins[i][pos].record = Never
  /\ bins' = [bins EXCEPT ![i] = RemoveAt(@, pos)]
  /\ num_entries' = num_entries - 1
  /\ UNCHANGED <<num_bins, pc, growth, i, walk, ret>>

\* mutant: ST_CONTINUE does not advance ptr
CleanupContinueStuck ==
  /\ pc = "cleanup" /\ i < num_bins /\ pos \in DOMAIN bins[i]
  /\ bins[i][pos].record # Never
  /\ UNCHANGED <<table, pc, growth, i, walk, ret>>

CleanupContinue ==
  /\ pc = "cleanup" /\ i < num_bins /\ pos \in DOMAIN bins[i]
  /\ bins[i][pos].record # Never
  /\ pos' = pos + 1
  /\ UNCHANGED <<table, pc, growth, i, saved, ret>>

CleanupNextBin ==
  /\ pc = "cleanup" /\ i < num_bins /\ pos \notin DOMAIN bins[i]
  /\ i' = i + 1 /\ pos' = 1
  /\ UNCHANGED <<table, pc, growth, saved, ret>>

\* mutant: num_entries is not put back after st_foreach
CleanupDoneCount ==
  /\ pc = "cleanup" /\ i = num_bins
  /\ pc' = "ready" /\ i' = 0 /\ saved' = 0
  /\ UNCHANGED <<table, growth, pos, ret>>

CleanupDone ==
  /\ pc = "cleanup" /\ i = num_bins
  /\ num_entries' = saved
  /\ pc' = "ready" /\ i' = 0 /\ saved' = 0
  /\ UNCHANGED <<bins, num_bins, growth, pos, ret>>

Cleanup == CleanupDelete \/ CleanupContinue \/ CleanupNextBin \/ CleanupDone

----------------------------------------------------------------------------
\* Clients that keep to the dictionary calls (hash.c): no st_add_direct.
Call == \/ \E k \in Key : st_lookup(k) \/ st_delete(k) \/ st_delete_safe(k)
        \/ \E k \in Key, r \in Record : st_insert(k, r)
        \/ st_copy \/ st_free_table \/ st_cleanup_safe

Next == Call \/ Rehash \/ Cleanup

Spec == Init /\ [][Next]_vars

\* One thread runs the loops to their end before it returns to the caller.
FairSpec == Spec /\ WF_vars(Rehash) /\ WF_vars(Cleanup)

----------------------------------------------------------------------------
\* Everything the table holds, wherever a growth has moved it by now.
InBins(B) == UNION {{B[b][p] : p \in DOMAIN B[b]} : b \in DOMAIN B}
Live      == {e \in InBins(bins) \cup InBins(new_bins) : e.key # Never}
Contents  == [k \in Key |-> IF \E e \in Live : e.key = k
                            THEN (CHOOSE e \in Live : e.key = k).record
                            ELSE Never]
LivePlaces(B) == UNION {{b} \X {p \in DOMAIN B[b] : B[b][p].key # Never} :
                          b \in DOMAIN B}

\* Types of the table, and of the locals of the loops that work on it.
TypeOK ==
  /\ num_bins \in Nat \ {0}
  /\ bins \in [0..(num_bins-1) -> Seq(Entry)]
  /\ num_entries \in Int
  /\ pc \in {"ready", "rehash", "cleanup"}
  /\ new_num_bins \in Nat
  /\ new_bins \in [0..(new_num_bins-1) -> Seq(Entry)]
  /\ pending \in Seq(Entry)
  /\ pc = "rehash" <=> new_num_bins # 0
  /\ pc = "rehash" <=> pending # <<>>
  /\ pc = "ready" => i = 0
  /\ i \in 0..num_bins /\ pos \in Nat \ {0} /\ saved \in Int
  /\ ret \in Record \cup {Never, 0, 1}

\* An entry is where do_hash_bin looks for it, whether it still hangs in the
\* old bins or already in the new ones, and a live one has its key's hash:
\* otherwise FIND_ENTRY loses it for good, and only after some growth.
OwnHash(e) == e.key # Never => e.hash = Hash[e.key]
PlacedIn(B, n) == \A b \in DOMAIN B : \A p \in DOMAIN B[b] :
                    B[b][p].hash % n = b /\ OwnHash(B[b][p])
Placement == /\ PlacedIn(bins, num_bins)
             /\ PlacedIn(new_bins, new_num_bins)
             /\ \A n \in DOMAIN pending : OwnHash(pending[n])

\* No key has two live entries, across both sets of bins and the entry that
\* waits for its push: a second one would come to light when st_delete
\* removes the first, or when a growth or a copy reverses their order.
Distinct(B) == \A b \in DOMAIN B : \A p, q \in DOMAIN B[b] :
                  p # q /\ B[b][p].key # Never => B[b][p].key # B[b][q].key
Disjoint(B, C) == \A b \in DOMAIN B, c \in DOMAIN C :
                    \A p \in DOMAIN B[b], q \in DOMAIN C[c] :
                       B[b][p].key # Never => B[b][p].key # C[c][q].key
Awaited(B) == \A b \in DOMAIN B : \A p \in DOMAIN B[b], n \in DOMAIN pending :
                  pending[n].key \notin {Never, B[b][p].key}
UniqueKeys == /\ Distinct(bins) /\ Distinct(new_bins)
              /\ Disjoint(bins, new_bins)
              /\ Awaited(bins) /\ Awaited(new_bins)

\* Between calls num_entries counts the live entries, although
\* st_delete_safe leaves its entries in the chains and st_foreach counts
\* them a second time when st_cleanup_safe unlinks them.
CountMatches ==
  pc = "ready" => num_entries = Cardinality(LivePlaces(bins))

\* The table is a dictionary: every call acts on Contents as the abstract
\* operation does and returns what it returns; the steps of growth and of
\* clean-up change nothing a caller can see.
Dict == INSTANCE Dictionary WITH dict <- Contents, Absent <- Never
ImplementsDictionary == Dict!Spec

\* The loops of rehash() and st_foreach() end: the call returns.
LoopsEnd == pc # "ready" ~> pc = "ready"
=============================================================================
