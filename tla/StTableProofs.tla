--------------------------- MODULE StTableProofs ---------------------------
(***************************************************************************)
(* Proofs about StTable, for every key set, hash function, table of sizes  *)
(* and density.                                                            *)
(***************************************************************************)
EXTENDS VarTable, FiniteSetTheorems, Induction

\* What <<e>> \o s is.
LEMMA Prepend ==
  ASSUME NEW S, NEW e \in S, NEW s \in Seq(S)
  PROVE  /\ <<e>> \o s \in Seq(S)
         /\ Len(<<e>> \o s) = Len(s) + 1
         /\ (<<e>> \o s)[1] = e
         /\ \A p \in 2..(Len(s) + 1) : (<<e>> \o s)[p] = s[p-1]
  OBVIOUS

\* What RemoveAt leaves.
LEMMA Removed ==
  ASSUME NEW S, NEW s \in Seq(S), NEW p \in DOMAIN s
  PROVE  /\ RemoveAt(s, p) \in Seq(S)
         /\ Len(RemoveAt(s, p)) = Len(s) - 1
         /\ \A q \in 1..(Len(s) - 1) :
               RemoveAt(s, p)[q] = IF q < p THEN s[q] ELSE s[q+1]
  <1> DEFINE a == SubSeq(s, 1, p-1)
             b == SubSeq(s, p+1, Len(s))
  <1>1. p \in 1..Len(s)
    OBVIOUS
  <1>2. /\ a \in Seq(S) /\ Len(a) = p-1
        /\ \A q \in 1..(p-1) : a[q] = s[q]
    BY <1>1
  <1>3. /\ b \in Seq(S) /\ Len(b) = Len(s) - p
        /\ \A q \in 1..(Len(s) - p) : b[q] = s[p+q]
    BY <1>1
  <1> HIDE DEF a, b
  <1>4. a \o b \in Seq(S) /\ Len(a \o b) = Len(s) - 1
    BY <1>1, <1>2, <1>3
  <1>5. ASSUME NEW q \in 1..(Len(s) - 1)
        PROVE  (a \o b)[q] = IF q < p THEN s[q] ELSE s[q+1]
    <2>1. CASE q < p
      BY <1>1, <1>2, <1>3, <2>1
    <2>2. CASE ~(q < p)
      <3>1. (a \o b)[q] = b[q - (p-1)]
        BY <1>1, <1>2, <1>3, <2>2, SMTT(30)
      <3>2. q - (p-1) \in 1..(Len(s) - p) /\ p + (q - (p-1)) = q + 1
        BY <1>1, <2>2
      <3>3. QED
        BY <2>2, <3>1, <3>2, <1>3
    <2>3. QED
      BY <2>1, <2>2
  <1>6. QED
    BY <1>4, <1>5 DEF RemoveAt, a, b

LEMMA Reversed ==
  ASSUME NEW S, NEW s \in Seq(S)
  PROVE  /\ Reverse(s) \in Seq(S)
         /\ Len(Reverse(s)) = Len(s)
         /\ \A q \in 1..Len(s) : Reverse(s)[q] = s[Len(s) - q + 1]
  BY DEF Reverse

LEMMA SizeType == ASSUME NEW n, NEW size \in new_size(n) PROVE size \in Nat \ {0}
  BY SizeAssumption DEF new_size

----------------------------------------------------------------------------
\* A call of st_add_direct is a step of some clients (VarTable).
Step == Next \/ \E k \in Key, r \in Record : st_add_direct(k, r)

LEMMA PushType ==
  ASSUME NEW n \in Nat \ {0}, NEW B \in [0..(n-1) -> Seq(Entry)], NEW e \in Entry
  PROVE  /\ e.hash % n \in 0..(n-1)
         /\ Push(B, n, e) \in [0..(n-1) -> Seq(Entry)]
  <1>1. e.hash % n \in 0..(n-1)
    BY DEF Entry
  <1>2. <<e>> \o B[e.hash % n] \in Seq(Entry)
    BY <1>1, Prepend
  <1>3. QED
    BY <1>1, <1>2 DEF Push

LEMMA ChainType ==
  ASSUME TypeOK, NEW k \in Key
  PROVE  /\ Hash[k] % num_bins \in 0..(num_bins - 1)
         /\ Chain(k) \in Seq(Entry)
         /\ \A p \in DOMAIN Chain(k) : Chain(k)[p] \in Entry
  BY HashAssumption DEF TypeOK, Chain

LEMMA AddType ==
  ASSUME TypeOK, NEW k \in Key, NEW r \in Record, pc = "ready", ADD_DIRECT(k, r)
  PROVE  TypeOK'
  <1> DEFINE e == [hash |-> Hash[k], key |-> k, record |-> r]
  <1>1. e \in Entry
    BY HashAssumption DEF Entry
  <1>2. CASE ~Dense
    <2>1. bins' = Push(bins, num_bins, e) /\ num_entries' = num_entries + 1 /\ ret' = 0
          /\ UNCHANGED <<num_bins, pc, growth, i, walk>>
      BY <1>2 DEF ADD_DIRECT
    <2>2. bins' \in [0..(num_bins-1) -> Seq(Entry)]
      BY <1>1, <2>1, PushType DEF TypeOK
    <2>3. num_entries' \in Int /\ ret' = 0
      BY <2>1 DEF TypeOK
    <2>4. QED
      BY <2>1, <2>2, <2>3 DEF TypeOK, growth, walk
  <1>3. CASE Dense
    <2>1. /\ new_num_bins' \in new_size(num_bins + 1)
          /\ new_bins' = EmptyBins(new_num_bins')
          /\ pending' = <<e>>
          /\ pc' = "rehash" /\ i' = 0
          /\ UNCHANGED <<table, walk, ret>>
      BY <1>3 DEF ADD_DIRECT
    <2>2. new_num_bins' \in Nat \ {0}
      BY <2>1, SizeType
    <2>3. new_bins' \in [0..(new_num_bins'-1) -> Seq(Entry)]
      BY <2>1 DEF EmptyBins
    <2>4. pending' \in Seq(Entry) /\ pending' # <<>>
      BY <1>1, <2>1
    <2>5. QED
      BY <2>1, <2>2, <2>3, <2>4 DEF TypeOK, table, walk
  <1>4. QED
    BY <1>2, <1>3

LEMMA TypeStep == ASSUME TypeOK, [Step]_vars PROVE TypeOK'
  <1>1. ASSUME NEW k \in Key, st_lookup(k) PROVE TypeOK'
    <2>1. ret' \in Record \cup {Never}
      BY <1>1, ChainType DEF st_lookup, First, Entry
    <2>2. UNCHANGED <<table, pc, growth, i, walk>>
      BY <1>1 DEF st_lookup
    <2>3. QED
      BY <2>1, <2>2 DEF TypeOK, table, growth, walk
  <1>2. ASSUME NEW k \in Key, st_delete(k) PROVE TypeOK'
    <2>1. CASE EqualKey(k) = {}
      BY <1>2, <2>1 DEF st_delete, First, TypeOK, growth, walk
    <2>2. CASE EqualKey(k) # {}
      <3>1. PICK p \in DOMAIN Chain(k) :
              /\ ret' = Chain(k)[p].record
              /\ bins' = [bins EXCEPT ![Hash[k] % num_bins] = RemoveAt(@, p)]
              /\ num_entries' = num_entries - 1
        BY <1>2, <2>2 DEF st_delete
      <3>2. RemoveAt(Chain(k), p) \in Seq(Entry)
        BY ChainType, Removed
      <3>3. bins' \in [0..(num_bins-1) -> Seq(Entry)]
        BY <3>1, <3>2, ChainType DEF Chain, TypeOK
      <3>4. ret' \in Record \cup {Never}
        BY <3>1, ChainType DEF Entry
      <3>5. UNCHANGED <<num_bins, pc, growth, i, walk>>
        BY <1>2 DEF st_delete
      <3>6. QED
        BY <3>1, <3>3, <3>4, <3>5 DEF TypeOK, growth, walk
    <2>3. QED
      BY <2>1, <2>2
  <1>3. ASSUME NEW k \in Key, st_delete_safe(k) PROVE TypeOK'
    <2>1. CASE EqualKey(k) = {}
      BY <1>3, <2>1 DEF st_delete_safe, First, TypeOK, growth, walk
    <2>2. CASE EqualKey(k) # {}
      <3>1. PICK p \in DOMAIN Chain(k) :
              /\ ret' = Chain(k)[p].record
              /\ bins' = [bins EXCEPT ![Hash[k] % num_bins][p] =
                            [hash |-> @.hash, key |-> Never, record |-> Never]]
              /\ num_entries' = num_entries - 1
        BY <1>3, <2>2 DEF st_delete_safe
      <3>2. [hash |-> Chain(k)[p].hash, key |-> Never, record |-> Never] \in Entry
        BY ChainType DEF Entry
      <3>3. bins' \in [0..(num_bins-1) -> Seq(Entry)]
        BY <3>1, <3>2, ChainType DEF Chain, TypeOK
      <3>4. ret' \in Record \cup {Never}
        BY <3>1, ChainType DEF Entry
      <3>5. UNCHANGED <<num_bins, pc, growth, i, walk>>
        BY <1>3 DEF st_delete_safe
      <3>6. QED
        BY <3>1, <3>3, <3>4, <3>5, SMTT(30) DEF TypeOK, growth, walk
    <2>3. QED
      BY <2>1, <2>2
  <1>4. ASSUME NEW k \in Key, NEW r \in Record, st_insert(k, r) PROVE TypeOK'
    <2>1. CASE Matches(k) = {}
      BY <1>4, <2>1, AddType DEF st_insert, First
    <2>2. CASE Matches(k) # {}
      <3>1. PICK p \in DOMAIN Chain(k) :
              /\ bins' = [bins EXCEPT ![Hash[k] % num_bins][p].record = r]
              /\ ret' = 1
              /\ UNCHANGED <<num_bins, num_entries, pc, growth, i, walk>>
        BY <1>4, <2>2 DEF st_insert
      <3>2. [Chain(k)[p] EXCEPT !.record = r] \in Entry
        BY ChainType DEF Entry
      <3>3. bins' \in [0..(num_bins-1) -> Seq(Entry)]
        BY <3>1, <3>2, ChainType DEF Chain, TypeOK
      <3>4. QED
        BY <3>1, <3>3 DEF TypeOK, growth, walk
    <2>3. QED
      BY <2>1, <2>2
  <1>5. ASSUME NEW k \in Key, NEW r \in Record, st_add_direct(k, r) PROVE TypeOK'
    BY <1>5, AddType DEF st_add_direct
  <1>6. ASSUME st_copy PROVE TypeOK'
    <2>1. bins' \in [0..(num_bins-1) -> Seq(Entry)]
      BY <1>6, Reversed DEF st_copy, TypeOK
    <2>2. QED
      BY <1>6, <2>1 DEF st_copy, TypeOK, growth, walk
  <1>7. ASSUME st_free_table PROVE TypeOK'
    <2>1. num_bins' \in Nat \ {0}
      BY <1>7, SizeType DEF st_free_table
    <2>2. QED
      BY <1>7, <2>1 DEF st_free_table, EmptyBins, TypeOK, growth, walk
  <1>8. ASSUME RehashMove PROVE TypeOK'
    <2>1. i \in 0..(num_bins-1) /\ bins[i] \in Seq(Entry) /\ bins[i] # <<>>
      BY <1>8 DEF RehashMove, TypeOK
    <2>2. Head(bins[i]) \in Entry /\ Tail(bins[i]) \in Seq(Entry)
      BY <2>1
    <2>3. new_bins' \in [0..(new_num_bins-1) -> Seq(Entry)]
      BY <1>8, <2>2, PushType DEF RehashMove, TypeOK
    <2>4. bins' \in [0..(num_bins-1) -> Seq(Entry)]
      BY <1>8, <2>1, <2>2 DEF RehashMove, TypeOK
    <2>5. QED
      BY <1>8, <2>3, <2>4 DEF RehashMove, TypeOK, walk
  <1>9. ASSUME RehashNextBin PROVE TypeOK'
    BY <1>9, SMTT(30) DEF RehashNextBin, TypeOK, table, growth, walk
  <1>10. ASSUME RehashDone PROVE TypeOK'
    <2>1. Head(pending) \in Entry
      <3>1. pending \in Seq(Entry) /\ pending # <<>>
        BY <1>10 DEF RehashDone, TypeOK
      <3>2. QED
        BY <3>1
    <2>2. bins' \in [0..(num_bins'-1) -> Seq(Entry)]
      BY <1>10, <2>1, PushType DEF RehashDone, TypeOK
    <2>3. /\ new_num_bins \in Nat \ {0}
          /\ new_bins' \in [0..(new_num_bins'-1) -> Seq(Entry)]
      BY <1>10 DEF RehashDone, TypeOK, EmptyBins
    <2>4. pc' = "ready" /\ i' = 0 /\ 0 \in 0..num_bins' /\ pending' \in Seq(Entry)
      BY <1>10, <2>3 DEF RehashDone
    <2>5. num_entries' \in Int /\ ret' = 0
      BY <1>10 DEF RehashDone, TypeOK
    <2>6. num_bins' \in Nat \ {0} /\ new_num_bins' \in Nat /\ UNCHANGED <<pos, saved>>
      BY <1>10, <2>3 DEF RehashDone, walk
    <2>7. new_num_bins' = 0 /\ pending' = <<>>
      BY <1>10 DEF RehashDone
    <2>8. QED
      BY <2>2, <2>3, <2>4, <2>5, <2>6, <2>7 DEF TypeOK
  <1>11. ASSUME st_cleanup_safe PROVE TypeOK'
    BY <1>11 DEF st_cleanup_safe, TypeOK, table, growth
  <1>12. ASSUME CleanupDelete PROVE TypeOK'
    <2>1. i \in 0..(num_bins-1) /\ bins[i] \in Seq(Entry) /\ pos \in DOMAIN bins[i]
      BY <1>12 DEF CleanupDelete, TypeOK
    <2>2. RemoveAt(bins[i], pos) \in Seq(Entry)
      BY <2>1, Removed
    <2>3. bins' \in [0..(num_bins-1) -> Seq(Entry)]
      BY <1>12, <2>1, <2>2 DEF CleanupDelete, TypeOK
    <2>4. QED
      BY <1>12, <2>3 DEF CleanupDelete, TypeOK, growth, walk
  <1>13. ASSUME CleanupContinue PROVE TypeOK'
    BY <1>13 DEF CleanupContinue, TypeOK, table, growth
  <1>14. ASSUME CleanupNextBin PROVE TypeOK'
    BY <1>14 DEF CleanupNextBin, TypeOK, table, growth
  <1>15. ASSUME CleanupDone PROVE TypeOK'
    BY <1>15 DEF CleanupDone, TypeOK, growth
  <1>16. CASE UNCHANGED vars
    BY <1>16 DEF vars, table, growth, walk, TypeOK
  <1>17. QED
    BY <1>1, <1>2, <1>3, <1>4, <1>5, <1>6, <1>7, <1>8, <1>9, <1>10, <1>11,
       <1>12, <1>13, <1>14, <1>15, <1>16
       DEF Step, Next, Call, Rehash, Cleanup

\* The table and the locals of its loops keep their types, whatever the
\* calls: in particular a chain index is always inside the table.
THEOREM TypeCorrect == Spec => []TypeOK
  <1>1. Init => TypeOK
    <2> SUFFICES ASSUME Init PROVE TypeOK
      OBVIOUS
    <2>1. num_bins \in Nat \ {0}
      BY SizeType DEF Init
    <2>2. QED
      BY <2>1 DEF Init, TypeOK, EmptyBins
  <1>2. TypeOK /\ [Next]_vars => TypeOK'
    BY TypeStep DEF Step
  <1>3. QED
    BY <1>1, <1>2, PTL DEF Spec

----------------------------------------------------------------------------
(***************************************************************************)
(* Where the entries are and how often a key occurs.  Every operation but  *)
(* the pushes turns the chains into thinner ones: chains of entries that   *)
(* were there before, in some order, some of them left out or marked.      *)
(***************************************************************************)
Thins(C, B) ==
  /\ DOMAIN C = DOMAIN B
  /\ \A b \in DOMAIN B : \E f \in [DOMAIN C[b] -> DOMAIN B[b]] :
       /\ \A p, q \in DOMAIN C[b] : f[p] = f[q] => p = q
       /\ \A p \in DOMAIN C[b] : /\ C[b][p].hash = B[b][f[p]].hash
                                 /\ C[b][p].key \in {B[b][f[p]].key, Never}

LEMMA ThinsPlaced ==
  ASSUME NEW B, NEW C, NEW n, Thins(C, B), PlacedIn(B, n)
  PROVE  PlacedIn(C, n)
  BY DEF Thins, PlacedIn, OwnHash

LEMMA ThinsDistinct ==
  ASSUME NEW B, NEW C, Thins(C, B), Distinct(B)
  PROVE  Distinct(C)
  BY DEF Thins, Distinct

LEMMA ThinsDisjoint ==
  ASSUME NEW B, NEW C, NEW D, Thins(C, B), Disjoint(B, D)
  PROVE  Disjoint(C, D)
  BY DEF Thins, Disjoint

\* A chain that loses or keeps entries is thinner than it was.
LEMMA ThinsOne ==
  ASSUME NEW n \in Nat, NEW B \in [0..(n-1) -> Seq(Entry)], NEW x \in 0..(n-1),
         NEW s, NEW f \in [DOMAIN s -> DOMAIN B[x]],
         \A p, q \in DOMAIN s : f[p] = f[q] => p = q,
         \A p \in DOMAIN s : /\ s[p].hash = B[x][f[p]].hash
                             /\ s[p].key \in {B[x][f[p]].key, Never}
  PROVE  Thins([B EXCEPT ![x] = s], B)
  <1> DEFINE C == [B EXCEPT ![x] = s]
  <1>1. DOMAIN C = DOMAIN B
    OBVIOUS
  <1>2. ASSUME NEW b \in DOMAIN B
        PROVE  \E g \in [DOMAIN C[b] -> DOMAIN B[b]] :
                 /\ \A p, q \in DOMAIN C[b] : g[p] = g[q] => p = q
                 /\ \A p \in DOMAIN C[b] : /\ C[b][p].hash = B[b][g[p]].hash
                                           /\ C[b][p].key \in {B[b][g[p]].key, Never}
    <2>1. CASE b = x
      BY <2>1
    <2>2. CASE b # x
      <3> DEFINE g == [p \in DOMAIN B[b] |-> p]
      <3>1. C[b] = B[b]
        BY <2>2
      <3>2. g \in [DOMAIN C[b] -> DOMAIN B[b]]
        BY <3>1
      <3>3. WITNESS g \in [DOMAIN C[b] -> DOMAIN B[b]]
      <3>4. QED
        BY <3>1
    <2>3. QED
      BY <2>1, <2>2
  <1>3. QED
    BY <1>1, <1>2 DEF Thins

LEMMA ThinsRemove ==
  ASSUME NEW n \in Nat, NEW B \in [0..(n-1) -> Seq(Entry)], NEW x \in 0..(n-1),
         NEW p \in DOMAIN B[x]
  PROVE  Thins([B EXCEPT ![x] = RemoveAt(@, p)], B)
  <1> DEFINE s == RemoveAt(B[x], p)
             f == [q \in 1..(Len(B[x]) - 1) |-> IF q < p THEN q ELSE q + 1]
  <1>1. /\ s \in Seq(Entry) /\ DOMAIN s = 1..(Len(B[x]) - 1)
        /\ \A q \in 1..(Len(B[x]) - 1) : s[q] = B[x][f[q]]
    <2>1. B[x] \in Seq(Entry)
      OBVIOUS
    <2>2. /\ s \in Seq(Entry) /\ Len(s) = Len(B[x]) - 1
          /\ \A q \in 1..(Len(B[x]) - 1) :
                s[q] = IF q < p THEN B[x][q] ELSE B[x][q+1]
      BY <2>1, Removed
    <2> HIDE DEF s
    <2>3. QED
      BY <2>1, <2>2
  <1>2. f \in [DOMAIN s -> DOMAIN B[x]]
    BY <1>1
  <1>3. \A q, r \in DOMAIN s : f[q] = f[r] => q = r
    BY <1>1
  <1> HIDE DEF s, f
  <1>4. \A q \in DOMAIN s : /\ s[q].hash = B[x][f[q]].hash
                            /\ s[q].key \in {B[x][f[q]].key, Never}
    BY <1>1
  <1>5. Thins([B EXCEPT ![x] = s], B)
    BY <1>2, <1>3, <1>4, ThinsOne
  <1>6. QED
    BY <1>5 DEF s

LEMMA ThinsTail ==
  ASSUME NEW n \in Nat, NEW B \in [0..(n-1) -> Seq(Entry)], NEW x \in 0..(n-1),
         B[x] # <<>>
  PROVE  Thins([B EXCEPT ![x] = Tail(@)], B)
  <1> DEFINE s == Tail(B[x])
             f == [q \in 1..(Len(B[x]) - 1) |-> q + 1]
  <1>1. /\ s \in Seq(Entry) /\ DOMAIN s = 1..(Len(B[x]) - 1)
        /\ \A q \in 1..(Len(B[x]) - 1) : s[q] = B[x][f[q]]
    OBVIOUS
  <1>2. f \in [DOMAIN s -> DOMAIN B[x]]
    BY <1>1
  <1>3. \A q, r \in DOMAIN s : f[q] = f[r] => q = r
    BY <1>1
  <1> HIDE DEF s, f
  <1>4. \A q \in DOMAIN s : /\ s[q].hash = B[x][f[q]].hash
                            /\ s[q].key \in {B[x][f[q]].key, Never}
    BY <1>1
  <1>5. Thins([B EXCEPT ![x] = s], B)
    BY <1>2, <1>3, <1>4, ThinsOne
  <1>6. QED
    BY <1>5 DEF s

LEMMA ThinsReverse ==
  ASSUME NEW n \in Nat, NEW B \in [0..(n-1) -> Seq(Entry)]
  PROVE  Thins([b \in DOMAIN B |-> Reverse(B[b])], B)
  <1> DEFINE C == [b \in DOMAIN B |-> Reverse(B[b])]
  <1>1. ASSUME NEW b \in DOMAIN B
        PROVE  \E g \in [DOMAIN C[b] -> DOMAIN B[b]] :
                 /\ \A p, q \in DOMAIN C[b] : g[p] = g[q] => p = q
                 /\ \A p \in DOMAIN C[b] : /\ C[b][p].hash = B[b][g[p]].hash
                                           /\ C[b][p].key \in {B[b][g[p]].key, Never}
    <2> DEFINE g == [p \in 1..Len(B[b]) |-> Len(B[b]) - p + 1]
    <2>1. B[b] \in Seq(Entry)
      OBVIOUS
    <2>2. /\ DOMAIN C[b] = 1..Len(B[b])
          /\ \A p \in 1..Len(B[b]) : C[b][p] = B[b][Len(B[b]) - p + 1]
      BY <2>1, Reversed
    <2> HIDE DEF C
    <2>3. g \in [DOMAIN C[b] -> DOMAIN B[b]]
      BY <2>1, <2>2
    <2>4. /\ \A p, q \in DOMAIN C[b] : g[p] = g[q] => p = q
          /\ \A p \in DOMAIN C[b] : /\ C[b][p].hash = B[b][g[p]].hash
                                    /\ C[b][p].key \in {B[b][g[p]].key, Never}
      BY <2>1, <2>2
    <2>5. QED
      BY <2>3, <2>4
  <1>2. DOMAIN C = DOMAIN B
    OBVIOUS
  <1>3. QED
    BY <1>1, <1>2 DEF Thins

\* An entry that gets another record, or the mark, keeps its hash.
LEMMA ThinsRewrite ==
  ASSUME NEW n \in Nat, NEW B \in [0..(n-1) -> Seq(Entry)], NEW x \in 0..(n-1),
         NEW p \in DOMAIN B[x], NEW e \in Entry,
         e.hash = B[x][p].hash, e.key \in {B[x][p].key, Never}
  PROVE  Thins([B EXCEPT ![x][p] = e], B)
  <1> DEFINE s == [B[x] EXCEPT ![p] = e]
             f == [q \in DOMAIN B[x] |-> q]
  <1>1. DOMAIN s = DOMAIN B[x] /\ f \in [DOMAIN s -> DOMAIN B[x]]
    OBVIOUS
  <1>2. \A q, r \in DOMAIN s : f[q] = f[r] => q = r
    OBVIOUS
  <1>3. \A q \in DOMAIN s : /\ s[q].hash = B[x][f[q]].hash
                            /\ s[q].key \in {B[x][f[q]].key, Never}
    OBVIOUS
  <1> HIDE DEF s, f
  <1>4. Thins([B EXCEPT ![x] = s], B)
    BY <1>1, <1>2, <1>3, ThinsOne
  <1>5. QED
    BY <1>4 DEF s

\* A push adds one entry to one chain and keeps all others.
Adds(C, B, n, e) ==
  /\ DOMAIN C = DOMAIN B
  /\ \A b \in DOMAIN B : \E f \in [DOMAIN C[b] -> DOMAIN B[b] \cup {0}] :
       /\ \A p, q \in DOMAIN C[b] : f[p] = f[q] => p = q
       /\ \A p \in DOMAIN C[b] : \/ f[p] = 0 /\ b = e.hash % n /\ C[b][p] = e
                                 \/ f[p] \in DOMAIN B[b] /\ C[b][p] = B[b][f[p]]

LEMMA AddsPlaced ==
  ASSUME NEW B, NEW C, NEW n, NEW e, Adds(C, B, n, e), PlacedIn(B, n), OwnHash(e)
  PROVE  PlacedIn(C, n)
  BY DEF Adds, PlacedIn

LEMMA AddsDistinct ==
  ASSUME NEW B, NEW C, NEW n, NEW e, Adds(C, B, n, e), Distinct(B),
         \A b \in DOMAIN B : \A p \in DOMAIN B[b] : B[b][p].key # e.key
  PROVE  Distinct(C)
  BY DEF Adds, Distinct

LEMMA PushAdds ==
  ASSUME NEW n \in Nat \ {0}, NEW B \in [0..(n-1) -> Seq(Entry)], NEW e \in Entry
  PROVE  Adds(Push(B, n, e), B, n, e)
  <1> DEFINE h == e.hash % n
             C == [B EXCEPT ![h] = <<e>> \o @]
  <1>1. h \in 0..(n-1) /\ DOMAIN C = DOMAIN B /\ DOMAIN B = 0..(n-1)
    BY DEF Entry
  <1> HIDE DEF h
  <1>2. ASSUME NEW b \in DOMAIN B
        PROVE  \E f \in [DOMAIN C[b] -> DOMAIN B[b] \cup {0}] :
                 /\ \A p, q \in DOMAIN C[b] : f[p] = f[q] => p = q
                 /\ \A p \in DOMAIN C[b] :
                      \/ f[p] = 0 /\ b = h /\ C[b][p] = e
                      \/ f[p] \in DOMAIN B[b] /\ C[b][p] = B[b][f[p]]
    <2>1. CASE b # h
      <3> DEFINE f == [p \in DOMAIN B[b] |-> p]
      <3>1. C[b] = B[b]
        BY <2>1
      <3>2. f \in [DOMAIN C[b] -> DOMAIN B[b] \cup {0}]
        BY <3>1
      <3>3. WITNESS f \in [DOMAIN C[b] -> DOMAIN B[b] \cup {0}]
      <3>4. QED
        BY <3>1
    <2>2. CASE b = h
      <3> DEFINE f == [p \in 1..(Len(B[b]) + 1) |-> p - 1]
      <3>1. C[b] = <<e>> \o B[b] /\ B[b] \in Seq(Entry)
        BY <1>1, <2>2
      <3>2. /\ DOMAIN C[b] = 1..(Len(B[b]) + 1)
            /\ C[b][1] = e
            /\ \A p \in 2..(Len(B[b]) + 1) : C[b][p] = B[b][p-1]
        BY <3>1, Prepend
      <3> HIDE DEF C
      <3>3. f \in [DOMAIN C[b] -> DOMAIN B[b] \cup {0}]
        BY <3>1, <3>2
      <3>4. \A p, q \in DOMAIN C[b] : f[p] = f[q] => p = q
        BY <3>1, <3>2
      <3>5. ASSUME NEW p \in DOMAIN C[b]
            PROVE  \/ f[p] = 0 /\ b = h /\ C[b][p] = e
                   \/ f[p] \in DOMAIN B[b] /\ C[b][p] = B[b][f[p]]
        <4>1. CASE p = 1
          BY <2>2, <3>1, <3>2, <4>1
        <4>2. CASE p # 1
          BY <3>1, <3>2, <4>2
        <4>3. QED
          BY <4>1, <4>2
      <3>6. QED
        BY <3>3, <3>4, <3>5
    <2>3. QED
      BY <2>1, <2>2
  <1>3. QED
    BY <1>1, <1>2 DEF Adds, Push, h

----------------------------------------------------------------------------
LEMMA ThinsSame ==
  ASSUME NEW n \in Nat, NEW B \in [0..(n-1) -> Seq(Entry)]
  PROVE  Thins(B, B)
  <1>1. ASSUME NEW b \in DOMAIN B
        PROVE  \E f \in [DOMAIN B[b] -> DOMAIN B[b]] :
                 /\ \A p, q \in DOMAIN B[b] : f[p] = f[q] => p = q
                 /\ \A p \in DOMAIN B[b] : /\ B[b][p].hash = B[b][f[p]].hash
                                           /\ B[b][p].key \in {B[b][f[p]].key, Never}
    <2>1. WITNESS [p \in DOMAIN B[b] |-> p] \in [DOMAIN B[b] -> DOMAIN B[b]]
    <2>2. QED
      OBVIOUS
  <1>2. QED
    BY <1>1 DEF Thins

\* The steps that only thin the chains of the table.
ThinStep == \/ \E k \in Key : st_lookup(k) \/ st_delete(k) \/ st_delete_safe(k)
            \/ \E k \in Key, r \in Record : st_insert(k, r) /\ Matches(k) # {}
            \/ st_copy \/ st_cleanup_safe \/ Cleanup \/ RehashNextBin
            \/ UNCHANGED vars

LEMMA ThinStepThins ==
  ASSUME TypeOK, ThinStep
  PROVE  Thins(bins', bins) /\ UNCHANGED <<num_bins, growth>>
  <1>0. num_bins \in Nat /\ bins \in [0..(num_bins-1) -> Seq(Entry)]
    BY DEF TypeOK
  <1>1. ASSUME NEW k \in Key, st_delete(k), EqualKey(k) # {}
        PROVE  Thins(bins', bins)
    <2>1. PICK p \in DOMAIN Chain(k) :
            bins' = [bins EXCEPT ![Hash[k] % num_bins] = RemoveAt(@, p)]
      BY <1>1 DEF st_delete
    <2>2. QED
      BY <1>0, <2>1, ChainType, ThinsRemove DEF Chain
  <1>2. ASSUME NEW k \in Key, st_delete_safe(k), EqualKey(k) # {}
        PROVE  Thins(bins', bins)
    <2> DEFINE h == Hash[k] % num_bins
    <2>1. PICK p \in DOMAIN Chain(k) :
            bins' = [bins EXCEPT ![h][p] =
                       [hash |-> @.hash, key |-> Never, record |-> Never]]
      BY <1>2 DEF st_delete_safe
    <2>2. PICK e : e = [hash |-> bins[h][p].hash, key |-> Never, record |-> Never]
      OBVIOUS
    <2>3. e \in Entry /\ e.hash = bins[h][p].hash /\ e.key = Never
      BY <2>2, ChainType DEF Chain, Entry
    <2>4. bins' = [bins EXCEPT ![h][p] = e]
      BY <2>1, <2>2
    <2>5. h \in 0..(num_bins-1) /\ p \in DOMAIN bins[h]
      BY ChainType DEF Chain
    <2> HIDE DEF h
    <2>6. QED
      BY <1>0, <2>3, <2>4, <2>5, ThinsRewrite
  <1>3. ASSUME NEW k \in Key, NEW r \in Record, st_insert(k, r), Matches(k) # {}
        PROVE  Thins(bins', bins) /\ UNCHANGED <<num_bins, growth>>
    <2> DEFINE h == Hash[k] % num_bins
    <2>1. PICK p \in DOMAIN Chain(k) :
            /\ bins' = [bins EXCEPT ![h][p].record = r]
            /\ UNCHANGED <<num_bins, growth>>
      BY <1>3 DEF st_insert
    <2>2. PICK e : e = [bins[h][p] EXCEPT !.record = r]
      OBVIOUS
    <2>3. e \in Entry /\ e.hash = bins[h][p].hash /\ e.key = bins[h][p].key
      BY <2>2, ChainType DEF Chain, Entry
    <2>4. bins' = [bins EXCEPT ![h][p] = e]
      BY <2>1, <2>2
    <2>5. h \in 0..(num_bins-1) /\ p \in DOMAIN bins[h]
      BY ChainType DEF Chain
    <2> HIDE DEF h
    <2>6. Thins([bins EXCEPT ![h][p] = e], bins)
      BY <1>0, <2>3, <2>5, ThinsRewrite
    <2>7. QED
      BY <2>1, <2>4, <2>6
  <1>4. ASSUME st_copy PROVE Thins(bins', bins) /\ UNCHANGED <<num_bins, growth>>
    BY <1>0, <1>4, ThinsReverse DEF st_copy
  <1>5. ASSUME CleanupDelete
        PROVE  Thins(bins', bins) /\ UNCHANGED <<num_bins, growth>>
    <2>1. i \in 0..(num_bins-1) /\ pos \in DOMAIN bins[i]
      BY <1>5 DEF CleanupDelete, TypeOK
    <2>2. QED
      BY <1>0, <1>5, <2>1, ThinsRemove DEF CleanupDelete
  <1>6. ASSUME bins' = bins PROVE Thins(bins', bins)
    BY <1>0, <1>6, ThinsSame
  <1>7. ASSUME NEW k \in Key, st_lookup(k) \/ st_delete(k) \/ st_delete_safe(k)
        PROVE  Thins(bins', bins) /\ UNCHANGED <<num_bins, growth>>
    BY <1>1, <1>2, <1>6, <1>7 DEF st_lookup, st_delete, st_delete_safe, First, table
  <1>8. ASSUME st_cleanup_safe \/ CleanupContinue \/ CleanupNextBin \/ CleanupDone
               \/ RehashNextBin \/ UNCHANGED vars
        PROVE  Thins(bins', bins) /\ UNCHANGED <<num_bins, growth>>
    BY <1>6, <1>8 DEF st_cleanup_safe, CleanupContinue, CleanupNextBin, CleanupDone,
                      RehashNextBin, vars, table
  <1>9. QED
    BY <1>3, <1>4, <1>5, <1>7, <1>8 DEF ThinStep, Cleanup

LEMMA ThinStepPlaced ==
  ASSUME TypeOK, ThinStep, Placement PROVE Placement'
  <1>1. PlacedIn(bins', num_bins)
    BY ThinStepThins, ThinsPlaced DEF Placement
  <1>2. QED
    BY <1>1, ThinStepThins DEF Placement, growth

LEMMA ThinStepUnique ==
  ASSUME TypeOK, ThinStep, UniqueKeys PROVE UniqueKeys'
  <1>1. Thins(bins', bins) /\ UNCHANGED <<new_bins, pending>>
    BY ThinStepThins DEF growth
  <1>2. Distinct(bins') /\ Disjoint(bins', new_bins)
    BY <1>1, ThinsDistinct, ThinsDisjoint DEF UniqueKeys
  <1>3. Awaited(bins)'
    BY <1>1 DEF UniqueKeys, Awaited, Thins
  <1>4. QED
    BY <1>1, <1>2, <1>3 DEF UniqueKeys, Awaited

----------------------------------------------------------------------------
\* What ADD_DIRECT does: a push, or the start of a growth.
LEMMA AddShape ==
  ASSUME TypeOK, NEW k \in Key, NEW r \in Record, ADD_DIRECT(k, r)
  PROVE  \E e \in Entry :
           /\ e.key = k /\ e.hash = Hash[k]
           /\ \/ /\ Adds(bins', bins, num_bins, e)
                 /\ UNCHANGED <<num_bins, growth>>
              \/ /\ UNCHANGED table
                 /\ pending' = <<e>>
                 /\ \A b \in DOMAIN new_bins' : new_bins'[b] = <<>>
  <1> DEFINE e == [hash |-> Hash[k], key |-> k, record |-> r]
  <1>1. e \in Entry /\ e.key = k /\ e.hash = Hash[k]
    BY HashAssumption DEF Entry
  <1>2. CASE ~Dense
    <2>1. bins' = Push(bins, num_bins, e) /\ UNCHANGED <<num_bins, growth>>
      BY <1>2 DEF ADD_DIRECT
    <2>2. Adds(bins', bins, num_bins, e)
      BY <1>1, <2>1, PushAdds DEF TypeOK
    <2>3. QED
      BY <1>1, <2>1, <2>2
  <1>3. CASE Dense
    <2>1. /\ UNCHANGED table /\ pending' = <<e>>
          /\ new_bins' = [b \in 0..(new_num_bins'-1) |-> <<>>]
      BY <1>3 DEF ADD_DIRECT, EmptyBins
    <2>2. QED
      BY <1>1, <2>1
  <1>4. QED
    BY <1>2, <1>3

\* What one iteration of the loop of rehash() does.
LEMMA MoveShape ==
  ASSUME TypeOK, RehashMove
  PROVE  /\ i \in DOMAIN bins /\ 1 \in DOMAIN bins[i]
         /\ Thins(bins', bins)
         /\ \A p \in DOMAIN bins'[i] : /\ p + 1 \in DOMAIN bins[i] /\ p + 1 # 1
                                       /\ bins'[i][p] = bins[i][p+1]
         /\ \A b \in DOMAIN bins : b # i => bins'[b] = bins[b]
         /\ Adds(new_bins', new_bins, new_num_bins, bins[i][1])
         /\ UNCHANGED <<num_bins, new_num_bins, pending>>
  <1>1. /\ num_bins \in Nat /\ bins \in [0..(num_bins-1) -> Seq(Entry)]
        /\ i \in 0..(num_bins-1) /\ bins[i] # <<>> /\ pc = "rehash"
        /\ bins' = [bins EXCEPT ![i] = Tail(@)]
        /\ new_bins' = Push(new_bins, new_num_bins, Head(bins[i]))
        /\ UNCHANGED <<num_bins, new_num_bins, pending>>
    BY DEF RehashMove, TypeOK
  <1>2. bins[i] \in Seq(Entry)
    BY <1>1
  <1>3. 1 \in DOMAIN bins[i] /\ Head(bins[i]) = bins[i][1] /\ bins[i][1] \in Entry
    BY <1>1, <1>2
  <1>4. Thins(bins', bins)
    BY <1>1, ThinsTail
  <1>5. \A p \in DOMAIN Tail(bins[i]) : /\ p + 1 \in DOMAIN bins[i] /\ p + 1 # 1
                                        /\ Tail(bins[i])[p] = bins[i][p+1]
    BY <1>1, <1>2
  <1>6. bins'[i] = Tail(bins[i])
    BY <1>1
  <1>7. \A b \in DOMAIN bins : b # i => bins'[b] = bins[b]
    BY <1>1
  <1>8. /\ new_num_bins \in Nat \ {0}
        /\ new_bins \in [0..(new_num_bins-1) -> Seq(Entry)]
    BY <1>1 DEF TypeOK
  <1>9. Adds(new_bins', new_bins, new_num_bins, bins[i][1])
    BY <1>1, <1>3, <1>8, PushAdds
  <1>10. i \in DOMAIN bins
    BY <1>1
  <1>11. QED
    BY <1>1, <1>3, <1>4, <1>5, <1>6, <1>7, <1>9, <1>10

\* What the end of rehash() and the push after it do.
LEMMA DoneShape ==
  ASSUME TypeOK, RehashDone
  PROVE  /\ pending \in Seq(Entry) /\ 1 \in DOMAIN pending
         /\ Adds(bins', new_bins, new_num_bins, pending[1])
         /\ num_bins' = new_num_bins
         /\ DOMAIN new_bins' = {} /\ DOMAIN pending' = {}
  <1>1. /\ pending \in Seq(Entry) /\ pending # <<>>
        /\ new_num_bins \in Nat \ {0}
        /\ new_bins \in [0..(new_num_bins-1) -> Seq(Entry)]
        /\ bins' = Push(new_bins, new_num_bins, Head(pending))
        /\ num_bins' = new_num_bins /\ pending' = <<>>
        /\ new_bins' = [b \in 0..(0-1) |-> <<>>]
    BY DEF RehashDone, TypeOK, EmptyBins
  <1>2. 1 \in DOMAIN pending /\ Head(pending) = pending[1] /\ pending[1] \in Entry
    BY <1>1
  <1>3. Adds(bins', new_bins, new_num_bins, pending[1])
    BY <1>1, <1>2, PushAdds
  <1>4. DOMAIN new_bins' = {} /\ DOMAIN pending' = {}
    BY <1>1
  <1>5. QED
    BY <1>1, <1>2, <1>3, <1>4

LEMMA FreeShape ==
  ASSUME TypeOK, st_free_table
  PROVE  /\ \A b \in DOMAIN bins' : bins'[b] = <<>>
         /\ UNCHANGED growth
  BY DEF st_free_table, EmptyBins

----------------------------------------------------------------------------
LEMMA AddPlaced ==
  ASSUME TypeOK, Placement, NEW k \in Key, NEW r \in Record, ADD_DIRECT(k, r)
  PROVE  Placement'
  <1>1. PICK e \in Entry :
           /\ e.key = k /\ e.hash = Hash[k]
           /\ \/ /\ Adds(bins', bins, num_bins, e)
                 /\ UNCHANGED <<num_bins, growth>>
              \/ /\ UNCHANGED table
                 /\ pending' = <<e>>
                 /\ \A b \in DOMAIN new_bins' : new_bins'[b] = <<>>
    BY AddShape
  <1>2. OwnHash(e)
    BY <1>1 DEF OwnHash
  <1>3. CASE Adds(bins', bins, num_bins, e) /\ UNCHANGED <<num_bins, growth>>
    <2>1. PlacedIn(bins', num_bins)
      BY <1>2, <1>3, AddsPlaced DEF Placement
    <2>2. QED
      BY <1>3, <2>1 DEF Placement, growth
  <1>4. CASE /\ UNCHANGED table
             /\ pending' = <<e>>
             /\ \A b \in DOMAIN new_bins' : new_bins'[b] = <<>>
    <2>1. PlacedIn(new_bins', new_num_bins')
      BY <1>4 DEF PlacedIn
    <2>2. \A n \in DOMAIN pending' : OwnHash(pending'[n])
      BY <1>2, <1>4
    <2>3. QED
      BY <1>4, <2>1, <2>2 DEF Placement, table
  <1>5. QED
    BY <1>1, <1>3, <1>4

LEMMA PlacementStep ==
  ASSUME TypeOK, Placement, [Step]_vars PROVE Placement'
  <1>1. ASSUME NEW k \in Key, NEW r \in Record, st_insert(k, r), Matches(k) = {}
        PROVE  Placement'
    BY <1>1, AddPlaced DEF st_insert, First
  <1>2. ASSUME RehashMove PROVE Placement'
    <2>1. PlacedIn(bins', num_bins)
      BY <1>2, MoveShape, ThinsPlaced DEF Placement
    <2>2. OwnHash(bins[i][1])
      BY <1>2, MoveShape DEF Placement, PlacedIn
    <2>3. PlacedIn(new_bins', new_num_bins)
      BY <1>2, <2>2, MoveShape, AddsPlaced DEF Placement
    <2>4. QED
      BY <1>2, <2>1, <2>3, MoveShape DEF Placement
  <1>3. ASSUME RehashDone PROVE Placement'
    <2>1. OwnHash(pending[1])
      BY <1>3, DoneShape DEF Placement
    <2>2. PlacedIn(bins', num_bins')
      BY <1>3, <2>1, DoneShape, AddsPlaced DEF Placement
    <2>3. PlacedIn(new_bins', new_num_bins')
      BY <1>3, DoneShape DEF PlacedIn
    <2>4. QED
      BY <1>3, <2>2, <2>3, DoneShape DEF Placement
  <1>4. ASSUME st_free_table PROVE Placement'
    <2>1. PlacedIn(bins', num_bins')
      BY <1>4, FreeShape DEF PlacedIn
    <2>2. QED
      BY <1>4, <2>1, FreeShape DEF Placement, growth
  <1>5. CASE ThinStep
    BY <1>5, ThinStepPlaced
  <1>6. ASSUME NEW k \in Key, NEW r \in Record, st_insert(k, r) PROVE Placement'
    BY <1>1, <1>5, <1>6 DEF ThinStep
  <1>7. CASE Next
    BY <1>2, <1>3, <1>4, <1>5, <1>6, <1>7 DEF Next, Call, Rehash, ThinStep
  <1>8. CASE UNCHANGED vars
    BY <1>5, <1>8 DEF ThinStep
  <1>9. ASSUME NEW k \in Key, NEW r \in Record, st_add_direct(k, r)
        PROVE  Placement'
    BY <1>9, AddPlaced DEF st_add_direct
  <1>10. QED
    BY <1>7, <1>8, <1>9 DEF Step

\* No growth, deletion, clean-up or copy ever leaves an entry in a chain
\* where st_lookup does not look for its key.
THEOREM PlacementHolds == Spec => []Placement
  <1>1. Init => Placement
    BY DEF Init, Placement, PlacedIn, EmptyBins
  <1>2. TypeOK /\ Placement /\ [Next]_vars => Placement'
    BY PlacementStep DEF Step
  <1>3. QED
    BY <1>1, <1>2, TypeCorrect, PTL DEF Spec

----------------------------------------------------------------------------
\* With every entry in its key's chain, a key FIND_ENTRY does not match has
\* no entry in the table.
LEMMA NotFound ==
  ASSUME TypeOK, Placement, NEW k \in Key, Matches(k) = {}
  PROVE  \A b \in DOMAIN bins : \A p \in DOMAIN bins[b] : bins[b][p].key # k
  <1>1. SUFFICES ASSUME NEW b \in DOMAIN bins, NEW p \in DOMAIN bins[b],
                        bins[b][p].key = k
                 PROVE  FALSE
    OBVIOUS
  <1>2. bins[b][p].hash = Hash[k] /\ bins[b][p].hash % num_bins = b
    BY <1>1, NeverAssumption DEF Placement, PlacedIn, OwnHash
  <1>3. Chain(k) = bins[b]
    BY <1>2 DEF Chain
  <1>4. p \in Matches(k)
    BY <1>1, <1>2, <1>3 DEF Matches
  <1>5. QED
    BY <1>4

LEMMA InsertUnique ==
  ASSUME TypeOK, Placement, UniqueKeys, pc = "ready",
         NEW k \in Key, NEW r \in Record, Matches(k) = {}, ADD_DIRECT(k, r)
  PROVE  UniqueKeys'
  <1>1. PICK e \in Entry :
           /\ e.key = k /\ e.hash = Hash[k]
           /\ \/ /\ Adds(bins', bins, num_bins, e)
                 /\ UNCHANGED <<num_bins, growth>>
              \/ /\ UNCHANGED table
                 /\ pending' = <<e>>
                 /\ \A b \in DOMAIN new_bins' : new_bins'[b] = <<>>
    BY AddShape
  <1>2. \A b \in DOMAIN bins : \A p \in DOMAIN bins[b] : bins[b][p].key # e.key
    BY <1>1, NotFound
  <1>3. e.key # Never
    BY <1>1, NeverAssumption
  <1>4. CASE Adds(bins', bins, num_bins, e) /\ UNCHANGED <<num_bins, growth>>
    <2>1. DOMAIN new_bins = {} /\ DOMAIN pending = {}
      BY DEF TypeOK
    <2>2. Distinct(bins')
      BY <1>2, <1>4, AddsDistinct DEF UniqueKeys
    <2>3. QED
      BY <1>4, <2>1, <2>2 DEF UniqueKeys, Distinct, Disjoint, Awaited, growth
  <1>5. CASE /\ UNCHANGED table
             /\ pending' = <<e>>
             /\ \A b \in DOMAIN new_bins' : new_bins'[b] = <<>>
    <2>1. bins' = bins
      BY <1>5 DEF table
    <2>2. Distinct(bins)' /\ Distinct(new_bins)' /\ Disjoint(bins, new_bins)'
      BY <1>5, <2>1 DEF UniqueKeys, Distinct, Disjoint
    <2>3. Awaited(bins)' /\ Awaited(new_bins)'
      BY <1>2, <1>3, <1>5, <2>1 DEF Awaited
    <2>4. QED
      BY <2>2, <2>3 DEF UniqueKeys
  <1>6. QED
    BY <1>1, <1>4, <1>5

LEMMA MoveUnique ==
  ASSUME TypeOK, Placement, UniqueKeys, RehashMove
  PROVE  UniqueKeys'
  <1> DEFINE e == bins[i][1]
  <1>1. Distinct(bins')
    BY MoveShape, ThinsDistinct DEF UniqueKeys
  <1>2. Disjoint(bins', new_bins)
    BY MoveShape, ThinsDisjoint DEF UniqueKeys
  <1>3. e.key # Never => \A b \in DOMAIN new_bins : \A p \in DOMAIN new_bins[b] :
                           new_bins[b][p].key # e.key
    BY MoveShape DEF UniqueKeys, Disjoint
  <1>4. ASSUME NEW b \in DOMAIN bins', NEW p \in DOMAIN bins'[b],
               bins'[b][p].key # Never
        PROVE  bins'[b][p].key # e.key
    <2>1. b \in DOMAIN bins
      BY MoveShape DEF Thins
    <2>2. CASE b = i
      BY <1>4, <2>2, MoveShape DEF UniqueKeys, Distinct
    <2>3. CASE b # i
      <3>1. bins'[b] = bins[b] /\ i \in DOMAIN bins /\ 1 \in DOMAIN bins[i]
        BY <2>1, <2>3, MoveShape
      <3>2. /\ bins[b][p].hash % num_bins = b /\ OwnHash(bins[b][p])
            /\ e.hash % num_bins = i /\ OwnHash(e)
        BY <1>4, <2>1, <3>1 DEF Placement, PlacedIn
      <3>3. QED
        BY <1>4, <2>3, <3>1, <3>2 DEF OwnHash
    <2>4. QED
      BY <2>2, <2>3
  <1> HIDE DEF e
  <1>5. Adds(new_bins', new_bins, new_num_bins, e)
    BY MoveShape DEF e
  <1>6. Distinct(new_bins')
    <2>1. CASE e.key # Never
      BY <1>3, <1>5, <2>1, AddsDistinct DEF UniqueKeys
    <2>2. CASE e.key = Never
      BY <1>5, <2>2 DEF UniqueKeys, Distinct, Adds
    <2>3. QED
      BY <2>1, <2>2
  <1>7. Disjoint(bins', new_bins')
    BY <1>2, <1>4, <1>5 DEF Disjoint, Adds
  <1>8. Awaited(bins)'
    BY MoveShape DEF UniqueKeys, Awaited, Thins
  <1>9. Awaited(new_bins)'
    <2>1. \A n \in DOMAIN pending : pending[n].key \notin {Never, e.key}
      BY MoveShape DEF UniqueKeys, Awaited, e
    <2>2. pending' = pending
      BY MoveShape
    <2>3. QED
      BY <1>5, <2>1, <2>2 DEF UniqueKeys, Awaited, Adds
  <1>10. QED
    BY <1>1, <1>6, <1>7, <1>8, <1>9 DEF UniqueKeys

\* Clients that keep to the dictionary calls never get two live entries for
\* one key, not even between two steps of a growth.
THEOREM KeysUnique == Spec => []UniqueKeys
  <1>1. Init => UniqueKeys
    BY DEF Init, UniqueKeys, Distinct, Disjoint, Awaited, EmptyBins
  <1>2. ASSUME TypeOK, Placement, UniqueKeys, [Next]_vars
        PROVE  UniqueKeys'
    <2>1. ASSUME NEW k \in Key, NEW r \in Record, st_insert(k, r), Matches(k) = {}
          PROVE  UniqueKeys'
      BY <2>1, <1>2, InsertUnique DEF st_insert, First
    <2>2. CASE RehashMove
      BY <1>2, <2>2, MoveUnique
    <2>3. CASE RehashDone
      <3>1. \A b \in DOMAIN new_bins : \A p \in DOMAIN new_bins[b] :
               new_bins[b][p].key # pending[1].key
        BY <1>2, <2>3, DoneShape DEF UniqueKeys, Awaited
      <3>2. Distinct(bins')
        BY <1>2, <2>3, <3>1, DoneShape, AddsDistinct DEF UniqueKeys
      <3>3. QED
        BY <1>2, <2>3, <3>2, DoneShape DEF UniqueKeys, Distinct, Disjoint, Awaited
    <2>4. CASE st_free_table
      BY <1>2, <2>4, FreeShape DEF UniqueKeys, Distinct, Disjoint, Awaited, growth
    <2>5. CASE ThinStep
      BY <1>2, <2>5, ThinStepUnique
    <2>6. QED
      BY <1>2, <2>1, <2>2, <2>3, <2>4, <2>5 DEF Next, Call, Rehash, ThinStep
  <1>3. QED
    BY <1>1, <1>2, TypeCorrect, PlacementHolds, PTL DEF Spec

----------------------------------------------------------------------------
(***************************************************************************)
(* What the table holds.  Others(B, x, p) is what B has elsewhere than at  *)
(* place p of chain x.                                                     *)
(***************************************************************************)
Others(B, x, p) == {e \in InBins(B) : \E b \in DOMAIN B : \E q \in DOMAIN B[b] :
                                        (b # x \/ q # p) /\ e = B[b][q]}

LEMMA InBinsMember ==
  ASSUME NEW B, NEW e
  PROVE  e \in InBins(B) <=> \E b \in DOMAIN B : \E p \in DOMAIN B[b] : e = B[b][p]
  BY DEF InBins

LEMMA OthersMember ==
  ASSUME NEW B, NEW x, NEW p, NEW e
  PROVE  e \in Others(B, x, p) <=>
           \E b \in DOMAIN B : \E q \in DOMAIN B[b] : (b # x \/ q # p) /\ e = B[b][q]
  BY InBinsMember DEF Others

LEMMA OthersAndOne ==
  ASSUME NEW B, NEW x \in DOMAIN B, NEW p \in DOMAIN B[x]
  PROVE  InBins(B) = Others(B, x, p) \cup {B[x][p]}
  BY InBinsMember, OthersMember

LEMMA InEmptyBins ==
  ASSUME NEW B, \A b \in DOMAIN B : B[b] = <<>>
  PROVE  InBins(B) = {}
  BY InBinsMember

LEMMA InPush ==
  ASSUME NEW n \in Nat \ {0}, NEW B \in [0..(n-1) -> Seq(Entry)], NEW e \in Entry
  PROVE  InBins(Push(B, n, e)) = InBins(B) \cup {e}
  <1> DEFINE h == e.hash % n
             C == [B EXCEPT ![h] = <<e>> \o @]
  <1>1. h \in 0..(n-1) /\ DOMAIN C = 0..(n-1) /\ DOMAIN B = 0..(n-1)
    BY DEF Entry
  <1> HIDE DEF h
  <1>2. /\ DOMAIN C[h] = 1..(Len(B[h]) + 1)
        /\ C[h][1] = e
        /\ \A p \in 2..(Len(B[h]) + 1) : C[h][p] = B[h][p-1]
    <2>1. C[h] = <<e>> \o B[h] /\ B[h] \in Seq(Entry)
      BY <1>1
    <2>2. QED
      BY <2>1, Prepend
  <1>3. B[h] \in Seq(Entry) /\ DOMAIN B[h] = 1..Len(B[h]) /\ Len(B[h]) \in Nat
    BY <1>1
  <1>4. \A b \in DOMAIN B : b # h => C[b] = B[b]
    OBVIOUS
  <1> HIDE DEF C
  <1>5. e \in InBins(C)
    <2>1. 1 \in DOMAIN C[h]
      BY <1>2, <1>3
    <2>2. QED
      BY <1>1, <1>2, <2>1, InBinsMember
  <1>6. ASSUME NEW f \in InBins(B) PROVE f \in InBins(C)
    <2>1. PICK b \in DOMAIN B : \E p \in DOMAIN B[b] : f = B[b][p]
      BY InBinsMember
    <2>2. PICK p \in DOMAIN B[b] : f = B[b][p]
      BY <2>1
    <2>3. CASE b = h
      <3>1. p + 1 \in DOMAIN C[h] /\ C[h][p+1] = f
        BY <1>2, <1>3, <2>2, <2>3
      <3>2. QED
        BY <1>1, <3>1, InBinsMember
    <2>4. CASE b # h
      BY <1>1, <1>4, <2>2, <2>4, InBinsMember
    <2>5. QED
      BY <2>3, <2>4
  <1>7. ASSUME NEW f \in InBins(C) PROVE f \in InBins(B) \cup {e}
    <2>1. PICK b \in DOMAIN C : \E p \in DOMAIN C[b] : f = C[b][p]
      BY InBinsMember
    <2>2. PICK p \in DOMAIN C[b] : f = C[b][p]
      BY <2>1
    <2>3. CASE b = h /\ p # 1
      <3>1. p - 1 \in DOMAIN B[h] /\ B[h][p-1] = f
        BY <1>2, <1>3, <2>2, <2>3
      <3>2. QED
        BY <1>1, <3>1, InBinsMember
    <2>4. CASE b # h
      BY <1>1, <1>4, <2>2, <2>4, InBinsMember
    <2>5. CASE b = h /\ p = 1
      BY <1>2, <2>2, <2>5
    <2>6. QED
      BY <2>3, <2>4, <2>5
  <1>8. QED
    BY <1>5, <1>6, <1>7 DEF Push, C, h

\* Chain x of C has the entries of chain x of B except the one at p, and the
\* new ones; the other chains are the same.
Patches(C, B, x, p, new) ==
  /\ DOMAIN C = DOMAIN B /\ x \in DOMAIN B /\ p \in DOMAIN B[x]
  /\ \A b \in DOMAIN B : b # x => C[b] = B[b]
  /\ \A q \in DOMAIN C[x] : \/ C[x][q] \in new
                           \/ \E r \in DOMAIN B[x] : r # p /\ C[x][q] = B[x][r]
  /\ \A r \in DOMAIN B[x] : r # p => \E q \in DOMAIN C[x] : C[x][q] = B[x][r]
  /\ \A e \in new : \E q \in DOMAIN C[x] : C[x][q] = e

LEMMA InPatched ==
  ASSUME NEW B, NEW C, NEW x, NEW p, NEW new, Patches(C, B, x, p, new)
  PROVE  InBins(C) = Others(B, x, p) \cup new
  <1>1. ASSUME NEW e \in InBins(C) PROVE e \in Others(B, x, p) \cup new
    <2>1. PICK b \in DOMAIN C : \E q \in DOMAIN C[b] : e = C[b][q]
      BY InBinsMember
    <2>2. PICK q \in DOMAIN C[b] : e = C[b][q]
      BY <2>1
    <2>3. CASE b = x
      BY <2>2, <2>3, OthersMember DEF Patches
    <2>4. CASE b # x
      BY <2>2, <2>4, OthersMember DEF Patches
    <2>5. QED
      BY <2>3, <2>4
  <1>2. ASSUME NEW e \in Others(B, x, p) PROVE e \in InBins(C)
    <2>1. PICK b \in DOMAIN B : \E q \in DOMAIN B[b] : (b # x \/ q # p) /\ e = B[b][q]
      BY OthersMember
    <2>2. PICK q \in DOMAIN B[b] : (b # x \/ q # p) /\ e = B[b][q]
      BY <2>1
    <2>3. CASE b = x
      BY <2>2, <2>3, InBinsMember DEF Patches
    <2>4. CASE b # x
      BY <2>2, <2>4, InBinsMember DEF Patches
    <2>5. QED
      BY <2>3, <2>4
  <1>3. ASSUME NEW e \in new PROVE e \in InBins(C)
    BY InBinsMember DEF Patches
  <1>4. QED
    BY <1>1, <1>2, <1>3

LEMMA InRemoved ==
  ASSUME NEW n \in Nat, NEW B \in [0..(n-1) -> Seq(Entry)], NEW x \in 0..(n-1),
         NEW p \in DOMAIN B[x]
  PROVE  InBins([B EXCEPT ![x] = RemoveAt(@, p)]) = Others(B, x, p)
  <1> DEFINE s == RemoveAt(B[x], p)
  <1>1. B[x] \in Seq(Entry) /\ DOMAIN B[x] = 1..Len(B[x]) /\ Len(B[x]) \in Nat
    OBVIOUS
  <1>2. /\ DOMAIN s = 1..(Len(B[x]) - 1)
        /\ \A q \in 1..(Len(B[x]) - 1) : s[q] = IF q < p THEN B[x][q] ELSE B[x][q+1]
    <2>1. /\ s \in Seq(Entry) /\ Len(s) = Len(B[x]) - 1
          /\ \A q \in 1..(Len(B[x]) - 1) :
                s[q] = IF q < p THEN B[x][q] ELSE B[x][q+1]
      BY <1>1, Removed
    <2> HIDE DEF s
    <2>2. QED
      BY <1>1, <2>1
  <1> HIDE DEF s
  <1>3. \A q \in DOMAIN s : \/ s[q] \in {}
                            \/ \E r \in DOMAIN B[x] : r # p /\ s[q] = B[x][r]
    <2>1. ASSUME NEW q \in DOMAIN s PROVE \E r \in DOMAIN B[x] : r # p /\ s[q] = B[x][r]
      <3>1. CASE q < p
        BY <1>1, <1>2, <3>1
      <3>2. CASE ~(q < p)
        <4>1. q + 1 \in DOMAIN B[x] /\ q + 1 # p /\ s[q] = B[x][q+1]
          BY <1>1, <1>2, <3>2
        <4>2. QED
          BY <4>1
      <3>3. QED
        BY <3>1, <3>2
    <2>2. QED
      BY <2>1
  <1>4. \A r \in DOMAIN B[x] : r # p => \E q \in DOMAIN s : s[q] = B[x][r]
    <2>1. ASSUME NEW r \in DOMAIN B[x], r # p PROVE \E q \in DOMAIN s : s[q] = B[x][r]
      <3>1. CASE r < p
        <4>1. r \in DOMAIN s /\ s[r] = B[x][r]
          BY <1>1, <1>2, <3>1
        <4>2. QED
          BY <4>1
      <3>2. CASE ~(r < p)
        <4>1. r - 1 \in DOMAIN s /\ s[r-1] = B[x][r]
          BY <1>1, <1>2, <2>1, <3>2
        <4>2. QED
          BY <4>1
      <3>3. QED
        BY <3>1, <3>2
    <2>2. QED
      BY <2>1
  <1> DEFINE none == {}
             C == [B EXCEPT ![x] = s]
  <1>5. Patches(C, B, x, p, none)
    BY <1>3, <1>4 DEF Patches
  <1> HIDE DEF none, C
  <1>6. InBins(C) = Others(B, x, p) \cup none
    BY <1>5, InPatched
  <1>7. QED
    BY <1>6 DEF s, C, none

LEMMA InTail ==
  ASSUME NEW n \in Nat, NEW B \in [0..(n-1) -> Seq(Entry)], NEW x \in 0..(n-1),
         B[x] # <<>>
  PROVE  InBins([B EXCEPT ![x] = Tail(@)]) = Others(B, x, 1)
  <1> DEFINE s == Tail(B[x])
  <1>1. B[x] \in Seq(Entry) /\ DOMAIN B[x] = 1..Len(B[x]) /\ Len(B[x]) \in Nat \ {0}
    OBVIOUS
  <1>2. /\ DOMAIN s = 1..(Len(B[x]) - 1)
        /\ \A q \in 1..(Len(B[x]) - 1) : s[q] = B[x][q+1]
    BY <1>1
  <1> HIDE DEF s
  <1>3. \A q \in DOMAIN s : \/ s[q] \in {}
                            \/ \E r \in DOMAIN B[x] : r # 1 /\ s[q] = B[x][r]
    <2>1. ASSUME NEW q \in DOMAIN s PROVE \E r \in DOMAIN B[x] : r # 1 /\ s[q] = B[x][r]
      <3>1. q + 1 \in DOMAIN B[x] /\ q + 1 # 1 /\ s[q] = B[x][q+1]
        BY <1>1, <1>2
      <3>2. QED
        BY <3>1
    <2>2. QED
      BY <2>1
  <1>4. \A r \in DOMAIN B[x] : r # 1 => \E q \in DOMAIN s : s[q] = B[x][r]
    <2>1. ASSUME NEW r \in DOMAIN B[x], r # 1 PROVE \E q \in DOMAIN s : s[q] = B[x][r]
      <3>1. r - 1 \in DOMAIN s /\ s[r-1] = B[x][r]
        BY <1>1, <1>2, <2>1
      <3>2. QED
        BY <3>1
    <2>2. QED
      BY <2>1
  <1>5. 1 \in DOMAIN B[x]
    BY <1>1
  <1> DEFINE none == {}
             C == [B EXCEPT ![x] = s]
  <1>6. Patches(C, B, x, 1, none)
    BY <1>3, <1>4, <1>5 DEF Patches
  <1> HIDE DEF none, C
  <1>7. InBins(C) = Others(B, x, 1) \cup none
    BY <1>6, InPatched
  <1>8. QED
    BY <1>7 DEF s, C, none

\* The entry at place p of chain x overwritten.
Rewritten(B, x, p, e) == [B EXCEPT ![x][p] = e]

LEMMA InRewritten ==
  ASSUME NEW B, NEW x \in DOMAIN B, NEW p \in DOMAIN B[x], NEW e
  PROVE  InBins(Rewritten(B, x, p, e)) = Others(B, x, p) \cup {e}
  <1> DEFINE s == [B[x] EXCEPT ![p] = e]
  <1>1. DOMAIN s = DOMAIN B[x] /\ s[p] = e /\ \A q \in DOMAIN B[x] : q # p => s[q] = B[x][q]
    OBVIOUS
  <1> HIDE DEF s
  <1>2. Patches([B EXCEPT ![x] = s], B, x, p, {e})
    BY <1>1 DEF Patches
  <1>3. QED
    BY <1>2, InPatched DEF s, Rewritten

LEMMA InReversed ==
  ASSUME NEW n \in Nat, NEW B \in [0..(n-1) -> Seq(Entry)]
  PROVE  InBins([b \in DOMAIN B |-> Reverse(B[b])]) = InBins(B)
  <1> DEFINE C == [b \in DOMAIN B |-> Reverse(B[b])]
  <1>1. DOMAIN C = DOMAIN B
    OBVIOUS
  <1>2. ASSUME NEW b \in DOMAIN B
        PROVE  /\ DOMAIN B[b] = 1..Len(B[b]) /\ Len(B[b]) \in Nat
               /\ DOMAIN C[b] = 1..Len(B[b])
               /\ \A q \in 1..Len(B[b]) : C[b][q] = B[b][Len(B[b]) - q + 1]
    <2>1. B[b] \in Seq(Entry)
      OBVIOUS
    <2>2. Reverse(B[b]) \in Seq(Entry) /\ Len(Reverse(B[b])) = Len(B[b])
      BY <2>1, Reversed
    <2>3. C[b] = Reverse(B[b])
      OBVIOUS
    <2> HIDE DEF C
    <2>4. QED
      BY <2>1, <2>2, <2>3, Reversed
  <1> HIDE DEF C
  <1>3. ASSUME NEW e \in InBins(C) PROVE e \in InBins(B)
    <2>1. PICK b \in DOMAIN C : \E q \in DOMAIN C[b] : e = C[b][q]
      BY InBinsMember
    <2>2. PICK q \in DOMAIN C[b] : e = C[b][q]
      BY <2>1
    <2>a. q \in 1..Len(B[b]) /\ Len(B[b]) \in Nat /\ e = B[b][Len(B[b]) - q + 1]
      BY <1>1, <1>2, <2>2
    <2>b. Len(B[b]) - q + 1 \in 1..Len(B[b])
      BY <2>a
    <2>3. Len(B[b]) - q + 1 \in DOMAIN B[b] /\ e = B[b][Len(B[b]) - q + 1]
      BY <1>1, <1>2, <2>a, <2>b
    <2>4. QED
      BY <1>1, <2>3, InBinsMember
  <1>4. ASSUME NEW e \in InBins(B) PROVE e \in InBins(C)
    <2>1. PICK b \in DOMAIN B : \E q \in DOMAIN B[b] : e = B[b][q]
      BY InBinsMember
    <2>2. PICK q \in DOMAIN B[b] : e = B[b][q]
      BY <2>1
    <2>3. /\ Len(B[b]) - q + 1 \in 1..Len(B[b])
          /\ Len(B[b]) - (Len(B[b]) - q + 1) + 1 = q
      BY <1>2, <2>2
    <2>4. Len(B[b]) - q + 1 \in DOMAIN C[b] /\ e = C[b][Len(B[b]) - q + 1]
      BY <1>2, <2>2, <2>3
    <2>5. QED
      BY <1>1, <2>4, InBinsMember
  <1>5. QED
    BY <1>3, <1>4 DEF C

----------------------------------------------------------------------------
(***************************************************************************)
(* The live entries as one set, and the map they stand for.                *)
(***************************************************************************)
Held(B) == {e \in InBins(B) : e.key # Never}

LEMMA LiveHeld == Live = Held(bins) \cup Held(new_bins)
  BY DEF Live, Held

OneEach(L) == \A e, f \in L : e.key = f.key => e = f

MapOf(L) == [k \in Key |-> IF \E e \in L : e.key = k
                           THEN (CHOOSE e \in L : e.key = k).record
                           ELSE Never]

LEMMA MapAt ==
  ASSUME NEW L, OneEach(L), NEW e \in L, e.key \in Key
  PROVE  MapOf(L)[e.key] = e.record
  <1>1. (CHOOSE f \in L : f.key = e.key) = e
    <2> DEFINE g == CHOOSE f \in L : f.key = e.key
    <2>1. g \in L /\ g.key = e.key
      OBVIOUS
    <2> HIDE DEF g
    <2>2. g = e
      BY <2>1 DEF OneEach
    <2>3. QED
      BY <2>2 DEF g
  <1>2. MapOf(L)[e.key] = (CHOOSE f \in L : f.key = e.key).record
    BY DEF MapOf
  <1>3. QED
    BY <1>1, <1>2

LEMMA MapNone ==
  ASSUME NEW L, NEW k \in Key, \A e \in L : e.key # k
  PROVE  MapOf(L)[k] = Never
  BY DEF MapOf

LEMMA MapDomain == ASSUME NEW L PROVE MapOf(L) = [k \in Key |-> MapOf(L)[k]]
  BY DEF MapOf

\* Two sets that agree on k have the same record for it.
LEMMA MapSame ==
  ASSUME NEW L, NEW M, OneEach(L), OneEach(M), NEW k \in Key,
         \A e : e.key = k => (e \in L <=> e \in M)
  PROVE  MapOf(L)[k] = MapOf(M)[k]
  <1>1. CASE \E e \in L : e.key = k
    <2>1. PICK e \in L : e.key = k
      BY <1>1
    <2>2. e \in M
      BY <2>1
    <2>3. QED
      BY <2>1, <2>2, MapAt
  <1>2. CASE ~\E e \in L : e.key = k
    BY <1>2, MapNone
  <1>3. QED
    BY <1>1, <1>2

LEMMA MapAdd ==
  ASSUME NEW L, OneEach(L), NEW e, e.key \in Key, \A f \in L : f.key # e.key
  PROVE  /\ OneEach(L \cup {e})
         /\ MapOf(L \cup {e}) = [MapOf(L) EXCEPT ![e.key] = e.record]
  <1>1. OneEach(L \cup {e})
    BY DEF OneEach
  <1>2. MapOf(L \cup {e})[e.key] = e.record
    <2>1. e \in L \cup {e}
      OBVIOUS
    <2>2. QED
      BY <1>1, <2>1, MapAt
  <1>3. ASSUME NEW k \in Key, k # e.key
        PROVE  MapOf(L \cup {e})[k] = MapOf(L)[k]
    BY <1>1, <1>3, MapSame
  <1>4. MapOf(L \cup {e}) = [k \in Key |-> MapOf(L \cup {e})[k]]
    BY MapDomain
  <1>5. [MapOf(L) EXCEPT ![e.key] = e.record]
          = [k \in Key |-> IF k = e.key THEN e.record ELSE MapOf(L)[k]]
    BY DEF MapOf
  <1>6. QED
    BY <1>1, <1>2, <1>3, <1>4, <1>5

LEMMA MapRemove ==
  ASSUME NEW L, OneEach(L), NEW e \in L, e.key \in Key
  PROVE  /\ OneEach(L \ {e})
         /\ MapOf(L \ {e}) = [MapOf(L) EXCEPT ![e.key] = Never]
  <1>1. OneEach(L \ {e})
    BY DEF OneEach
  <1>2. MapOf(L \ {e})[e.key] = Never
    <2>1. \A f \in L \ {e} : f.key # e.key
      BY DEF OneEach
    <2>2. QED
      BY <2>1, MapNone
  <1>3. ASSUME NEW k \in Key, k # e.key
        PROVE  MapOf(L \ {e})[k] = MapOf(L)[k]
    BY <1>1, <1>3, MapSame
  <1>4. MapOf(L \ {e}) = [k \in Key |-> MapOf(L \ {e})[k]]
    BY MapDomain
  <1>5. [MapOf(L) EXCEPT ![e.key] = Never]
          = [k \in Key |-> IF k = e.key THEN Never ELSE MapOf(L)[k]]
    BY DEF MapOf
  <1>6. QED
    BY <1>1, <1>2, <1>3, <1>4, <1>5

LEMMA MapReplace ==
  ASSUME NEW L, OneEach(L), NEW old \in L, NEW e, e.key = old.key, e.key \in Key
  PROVE  MapOf((L \ {old}) \cup {e}) = [MapOf(L) EXCEPT ![e.key] = e.record]
  <1> DEFINE R == L \ {old}
  <1>1. OneEach(R) /\ MapOf(R) = [MapOf(L) EXCEPT ![e.key] = Never]
    BY MapRemove
  <1>2. \A f \in R : f.key # e.key
    BY DEF OneEach
  <1> HIDE DEF R
  <1>3. MapOf(R \cup {e}) = [MapOf(R) EXCEPT ![e.key] = e.record]
    BY <1>1, <1>2, MapAdd
  <1>4. [[MapOf(L) EXCEPT ![e.key] = Never] EXCEPT ![e.key] = e.record]
          = [MapOf(L) EXCEPT ![e.key] = e.record]
    BY DEF MapOf
  <1>5. QED
    BY <1>1, <1>3, <1>4 DEF R

----------------------------------------------------------------------------
\* What a live entry, and the entry that waits, have in them.
LiveRecords ==
  /\ \A e \in Live : e.key \in Key /\ e.record \in Record
  /\ \A n \in DOMAIN pending : pending[n].key \in Key /\ pending[n].record \in Record

\* The chains that rehash() has passed are empty.
Swept == pc = "rehash" => \A b \in 0..(i-1) : bins[b] = <<>>

\* No other entry has the key of a live one.
LEMMA OneKeyOnePlace ==
  ASSUME TypeOK, Placement, UniqueKeys,
         NEW x \in DOMAIN bins, NEW p \in DOMAIN bins[x], bins[x][p].key # Never
  PROVE  /\ \A e \in Others(bins, x, p) : e.key # bins[x][p].key
         /\ \A e \in InBins(new_bins) : e.key # bins[x][p].key
  <1>1. ASSUME NEW e \in Others(bins, x, p) PROVE e.key # bins[x][p].key
    <2>1. PICK b \in DOMAIN bins : \E q \in DOMAIN bins[b] :
                                     (b # x \/ q # p) /\ e = bins[b][q]
      BY OthersMember
    <2>2. PICK q \in DOMAIN bins[b] : (b # x \/ q # p) /\ e = bins[b][q]
      BY <2>1
    <2>3. CASE b = x
      BY <2>2, <2>3 DEF UniqueKeys, Distinct
    <2>4. CASE b # x
      BY <2>2, <2>4 DEF Placement, PlacedIn, OwnHash
    <2>5. QED
      BY <2>3, <2>4
  <1>2. \A e \in InBins(new_bins) : e.key # bins[x][p].key
    BY InBinsMember DEF UniqueKeys, Disjoint
  <1>3. QED
    BY <1>1, <1>2

LEMMA LiveOneEach ==
  ASSUME TypeOK, Placement, UniqueKeys
  PROVE  OneEach(Live)
  <1>1. ASSUME NEW e \in Held(bins), NEW f \in Live, e.key = f.key PROVE e = f
    <2>1. PICK b \in DOMAIN bins : \E p \in DOMAIN bins[b] : e = bins[b][p]
      BY InBinsMember DEF Held
    <2>2. PICK p \in DOMAIN bins[b] : e = bins[b][p]
      BY <2>1
    <2>3. e.key # Never
      BY DEF Held
    <2>4. f \notin Others(bins, b, p) /\ f \notin InBins(new_bins)
      BY <1>1, <2>2, <2>3, OneKeyOnePlace
    <2>5. f \in InBins(bins)
      BY <2>4 DEF Live
    <2>6. QED
      BY <2>2, <2>4, <2>5, OthersAndOne
  <1>2. ASSUME NEW e \in Held(new_bins), NEW f \in Held(new_bins), e.key = f.key
        PROVE  e = f
    <2>1. PICK b \in DOMAIN new_bins : \E p \in DOMAIN new_bins[b] : e = new_bins[b][p]
      BY InBinsMember DEF Held
    <2>2. PICK p \in DOMAIN new_bins[b] : e = new_bins[b][p]
      BY <2>1
    <2>3. PICK c \in DOMAIN new_bins : \E q \in DOMAIN new_bins[c] : f = new_bins[c][q]
      BY InBinsMember DEF Held
    <2>4. PICK q \in DOMAIN new_bins[c] : f = new_bins[c][q]
      BY <2>3
    <2>5. e.key # Never /\ f.key # Never
      BY DEF Held
    <2>6. b = c
      BY <1>2, <2>2, <2>4, <2>5 DEF Placement, PlacedIn, OwnHash
    <2>7. QED
      BY <1>2, <2>2, <2>4, <2>5, <2>6 DEF UniqueKeys, Distinct
  <1>3. QED
    BY <1>1, <1>2, LiveHeld DEF OneEach

\* Between calls there is no second set of bins.
LEMMA NoNewBins ==
  ASSUME TypeOK, pc # "rehash"
  PROVE  InBins(new_bins) = {} /\ Live = Held(bins)
  <1>1. DOMAIN new_bins = {}
    BY DEF TypeOK
  <1>2. QED
    BY <1>1, InBinsMember DEF Live, Held

----------------------------------------------------------------------------
(***************************************************************************)
(* What each operation does to the live entries.                           *)
(***************************************************************************)
Sound == TypeOK /\ Placement /\ UniqueKeys /\ LiveRecords /\ Swept

\* A place of a chain of a ready table.
LEMMA FoundAt ==
  ASSUME Sound, NEW k \in Key, NEW p \in DOMAIN Chain(k), Chain(k)[p].key = k
  PROVE  /\ Hash[k] % num_bins \in DOMAIN bins
         /\ Chain(k)[p] = bins[Hash[k] % num_bins][p]
         /\ p \in DOMAIN bins[Hash[k] % num_bins]
         /\ Chain(k)[p] \in Live /\ Chain(k)[p].record \in Record
  <1>1. /\ Hash[k] % num_bins \in 0..(num_bins - 1)
        /\ DOMAIN bins = 0..(num_bins - 1)
    BY ChainType DEF Sound, TypeOK
  <1>2. Chain(k)[p] \in InBins(bins)
    BY <1>1, InBinsMember DEF Chain
  <1>3. Chain(k)[p] \in Live
    BY <1>2, NeverAssumption DEF Live
  <1>4. QED
    BY <1>1, <1>3 DEF Sound, LiveRecords, Chain

LEMMA NoKey ==
  ASSUME Sound, pc = "ready", NEW k \in Key, Matches(k) = {} \/ EqualKey(k) = {}
  PROVE  \A e \in Live : e.key # k
  <1>1. Matches(k) = {}
    BY DEF Matches, EqualKey
  <1>2. \A e \in InBins(bins) : e.key # k
    BY <1>1, NotFound, InBinsMember DEF Sound
  <1>3. QED
    BY <1>2, NoNewBins DEF Sound, Held

\* A live entry taken out of its chain is gone from the live ones, a dead
\* one was not there.
LEMMA WithoutOne ==
  ASSUME Sound, NEW x \in DOMAIN bins, NEW p \in DOMAIN bins[x]
  PROVE  {e \in Others(bins, x, p) : e.key # Never} \cup Held(new_bins)
           = IF bins[x][p].key = Never THEN Live ELSE Live \ {bins[x][p]}
  <1>1. InBins(bins) = Others(bins, x, p) \cup {bins[x][p]}
    BY OthersAndOne
  <1>2. CASE bins[x][p].key = Never
    BY <1>1, <1>2, LiveHeld DEF Held
  <1>3. CASE bins[x][p].key # Never
    <2>1. \A e \in Others(bins, x, p) \cup InBins(new_bins) : e # bins[x][p]
      BY <1>3, OneKeyOnePlace DEF Sound
    <2>2. QED
      BY <1>1, <1>3, <2>1, LiveHeld DEF Held
  <1>4. QED
    BY <1>2, <1>3

LEMMA InsertNewLive ==
  ASSUME Sound, pc = "ready", NEW k \in Key, NEW r \in Record, ADD_DIRECT(k, r)
  PROVE  \/ /\ Live' = Live \cup {[hash |-> Hash[k], key |-> k, record |-> r]}
            /\ num_entries' = num_entries + 1 /\ ret' = 0
            /\ pc' = "ready" /\ UNCHANGED <<pending, saved>>
         \/ /\ Live' = Live
            /\ pc' = "rehash" /\ i' = 0 /\ UNCHANGED <<num_entries, ret, saved>>
            /\ pending' = <<[hash |-> Hash[k], key |-> k, record |-> r]>>
  <1> DEFINE e == [hash |-> Hash[k], key |-> k, record |-> r]
  <1>1. e \in Entry /\ e.key # Never
    BY HashAssumption, NeverAssumption DEF Entry
  <1> HIDE DEF e
  <1>2. CASE ~Dense
    <2>1. /\ bins' = Push(bins, num_bins, e) /\ num_entries' = num_entries + 1
          /\ ret' = 0 /\ UNCHANGED <<pc, growth, saved>>
      BY <1>2 DEF ADD_DIRECT, walk, e
    <2>2. InBins(bins') = InBins(bins) \cup {e}
      BY <1>1, <2>1, InPush DEF Sound, TypeOK
    <2>3. Live' = {f \in InBins(bins') \cup InBins(new_bins') : f.key # Never}
      BY DEF Live
    <2>4. InBins(new_bins') = InBins(new_bins)
      BY <2>1 DEF growth
    <2>5. Live' = Live \cup {e}
      BY <1>1, <2>2, <2>3, <2>4 DEF Live
    <2>6. QED
      BY <2>1, <2>5 DEF growth, e
  <1>3. CASE Dense
    <2>1. /\ new_bins' = EmptyBins(new_num_bins') /\ pending' = <<e>> /\ pc' = "rehash"
          /\ i' = 0 /\ UNCHANGED <<table, saved, ret>>
      BY <1>3 DEF ADD_DIRECT, walk, e
    <2>2. InBins(new_bins') = {}
      BY <2>1, InEmptyBins DEF EmptyBins
    <2>3. Live' = {f \in InBins(bins') \cup InBins(new_bins') : f.key # Never}
      BY DEF Live
    <2>4. InBins(bins') = InBins(bins)
      BY <2>1 DEF table
    <2>5. Live' = Live
      BY <2>2, <2>3, <2>4, NoNewBins DEF Live, Sound
    <2>6. QED
      BY <2>1, <2>5 DEF table, e
  <1>4. QED
    BY <1>2, <1>3

LEMMA InsertOldLive ==
  ASSUME Sound, NEW k \in Key, NEW r \in Record, st_insert(k, r), Matches(k) # {}
  PROVE  /\ \E old \in Live : \E e :
              /\ old.key = k /\ e.key = k /\ e.record = r
              /\ Live' = (Live \ {old}) \cup {e}
         /\ ret' = 1 /\ UNCHANGED <<num_entries, pc, i, pending, saved>>
  <1> DEFINE h == Hash[k] % num_bins
  <1>1. PICK p \in DOMAIN Chain(k) :
          /\ First(Matches(k), p)
          /\ bins' = [bins EXCEPT ![h][p].record = r]
          /\ ret' = 1
          /\ UNCHANGED <<num_bins, num_entries, pc, growth, i, walk>>
    BY DEF st_insert
  <1> DEFINE old == bins[h][p]
             e == [old EXCEPT !.record = r]
  <1>2. /\ h \in DOMAIN bins /\ p \in DOMAIN bins[h]
        /\ old = Chain(k)[p] /\ old.key = k /\ old \in Live
    BY <1>1, FoundAt DEF First, Matches
  <1>3. old \in Entry
    BY <1>2, ChainType DEF Sound
  <1>4. e \in Entry /\ e.key = k /\ e.record = r /\ e.key # Never
    BY <1>2, <1>3, NeverAssumption DEF Entry
  <1>5. bins' = [bins EXCEPT ![h][p] = e]
    BY <1>1
  <1> HIDE DEF e, old, h
  <1>6. InBins(bins') = Others(bins, h, p) \cup {e}
    <2>1. bins' = Rewritten(bins, h, p, e)
      BY <1>5 DEF Rewritten
    <2>2. InBins(Rewritten(bins, h, p, e)) = Others(bins, h, p) \cup {e}
      BY <1>2, InRewritten
    <2>3. QED
      BY <2>1, <2>2
  <1>7. Live' = {f \in InBins(bins') \cup InBins(new_bins') : f.key # Never}
    BY DEF Live
  <1>8. new_bins' = new_bins
    BY <1>1 DEF growth
  <1>9. Live' = ({f \in Others(bins, h, p) : f.key # Never} \cup Held(new_bins)) \cup {e}
    BY <1>4, <1>6, <1>7, <1>8 DEF Held
  <1>10. Live' = (Live \ {old}) \cup {e}
    BY <1>2, <1>4, <1>9, WithoutOne DEF old
  <1>11. QED
    BY <1>1, <1>2, <1>4, <1>10 DEF growth, walk

LEMMA DeleteLive ==
  ASSUME Sound, NEW k \in Key, st_delete(k) \/ st_delete_safe(k), EqualKey(k) # {}
  PROVE  /\ \E old \in Live : /\ old.key = k /\ ret' = old.record
                              /\ Live' = Live \ {old}
         /\ num_entries' = num_entries - 1 /\ UNCHANGED <<pc, i, pending, saved>>
  <1> DEFINE h == Hash[k] % num_bins
  <1>1. PICK p \in DOMAIN Chain(k) :
          /\ First(EqualKey(k), p)
          /\ ret' = Chain(k)[p].record
          /\ \/ bins' = [bins EXCEPT ![h] = RemoveAt(@, p)]
             \/ bins' = [bins EXCEPT ![h][p] =
                           [hash |-> @.hash, key |-> Never, record |-> Never]]
          /\ num_entries' = num_entries - 1
          /\ UNCHANGED <<num_bins, pc, growth, i, walk>>
    BY DEF st_delete, st_delete_safe
  <1> DEFINE old == bins[h][p]
             e == [hash |-> old.hash, key |-> Never, record |-> Never]
  <1>2. /\ h \in DOMAIN bins /\ p \in DOMAIN bins[h]
        /\ old = Chain(k)[p] /\ old.key = k /\ old \in Live
    BY <1>1, FoundAt DEF First, EqualKey
  <1>3. old \in Entry
    BY <1>2, ChainType DEF Sound
  <1>4. e \in Entry /\ e.key = Never
    BY <1>3 DEF Entry
  <1>5. \/ bins' = [bins EXCEPT ![h] = RemoveAt(@, p)]
        \/ bins' = [bins EXCEPT ![h][p] = e]
    BY <1>1
  <1> HIDE DEF e, old, h
  <1>6. InBins(bins') = Others(bins, h, p) \/ InBins(bins') = Others(bins, h, p) \cup {e}
    <2>1. /\ num_bins \in Nat /\ bins \in [0..(num_bins-1) -> Seq(Entry)]
          /\ h \in 0..(num_bins-1)
      BY <1>2 DEF Sound, TypeOK
    <2>2. CASE bins' = [bins EXCEPT ![h] = RemoveAt(@, p)]
      BY <1>2, <2>1, <2>2, InRemoved
    <2>3. CASE bins' = [bins EXCEPT ![h][p] = e]
      <3>1. bins' = Rewritten(bins, h, p, e)
        BY <2>3 DEF Rewritten
      <3>2. InBins(Rewritten(bins, h, p, e)) = Others(bins, h, p) \cup {e}
        BY <1>2, InRewritten
      <3>3. QED
        BY <3>1, <3>2
    <2>4. QED
      BY <1>5, <2>2, <2>3
  <1>7. Live' = {f \in InBins(bins') \cup InBins(new_bins') : f.key # Never}
    BY DEF Live
  <1>8. new_bins' = new_bins
    BY <1>1 DEF growth
  <1>9. Live' = {f \in Others(bins, h, p) : f.key # Never} \cup Held(new_bins)
    BY <1>4, <1>6, <1>7, <1>8 DEF Held
  <1>10. Live' = Live \ {old}
    BY <1>2, <1>9, WithoutOne, NeverAssumption DEF old
  <1>11. QED
    BY <1>1, <1>2, <1>10 DEF growth, walk

LEMMA CopyLive ==
  ASSUME Sound, st_copy
  PROVE  Live' = Live /\ UNCHANGED <<num_entries, pc, i, pending, saved, ret>>
  <1>1. InBins(bins') = InBins(bins)
    BY InReversed DEF st_copy, Sound, TypeOK
  <1>2. Live' = {f \in InBins(bins') \cup InBins(new_bins') : f.key # Never}
    BY DEF Live
  <1>3. QED
    BY <1>1, <1>2 DEF st_copy, growth, walk, Live

LEMMA FreeLive ==
  ASSUME Sound, st_free_table
  PROVE  Live' = {} /\ num_entries' = 0 /\ ret' = Never /\ UNCHANGED <<pc, i, pending, saved>>
  <1>1. InBins(bins') = {}
    BY InEmptyBins DEF st_free_table, EmptyBins
  <1>2. Live' = {f \in InBins(bins') \cup InBins(new_bins') : f.key # Never}
    BY DEF Live
  <1>3. InBins(new_bins') = {}
    BY NoNewBins DEF st_free_table, growth, Sound
  <1>4. QED
    BY <1>1, <1>2, <1>3 DEF st_free_table, growth, walk

LEMMA MoveLive ==
  ASSUME Sound, RehashMove
  PROVE  Live' = Live /\ UNCHANGED <<num_entries, pc, i, pending, saved, ret>>
  <1> DEFINE e == bins[i][1]
  <1>1. /\ i \in 0..(num_bins-1) /\ i \in DOMAIN bins /\ 1 \in DOMAIN bins[i]
        /\ num_bins \in Nat /\ bins \in [0..(num_bins-1) -> Seq(Entry)]
        /\ new_num_bins \in Nat \ {0}
        /\ new_bins \in [0..(new_num_bins-1) -> Seq(Entry)]
    BY MoveShape DEF RehashMove, Sound, TypeOK
  <1>2. bins[i] \in Seq(Entry) /\ Head(bins[i]) = e /\ e \in Entry
    BY <1>1
  <1>3. InBins(bins') = Others(bins, i, 1)
    BY <1>1, InTail DEF RehashMove
  <1>4. InBins(bins) = Others(bins, i, 1) \cup {e}
    BY <1>1, OthersAndOne
  <1>5. InBins(new_bins') = InBins(new_bins) \cup {e}
    <2>1. new_bins' = Push(new_bins, new_num_bins, e)
      BY <1>2 DEF RehashMove
    <2> HIDE DEF e
    <2>2. QED
      BY <1>1, <1>2, <2>1, InPush
  <1> HIDE DEF e
  <1>6. Live' = {f \in InBins(bins') \cup InBins(new_bins') : f.key # Never}
    BY DEF Live
  <1>7. Live' = Live
    BY <1>3, <1>4, <1>5, <1>6 DEF Live
  <1>8. QED
    BY <1>7 DEF RehashMove, walk

LEMMA DoneLive ==
  ASSUME Sound, RehashDone
  PROVE  /\ 1 \in DOMAIN pending /\ Live' = Live \cup {pending[1]}
         /\ pending[1].key \in Key /\ pending[1].record \in Record
         /\ \A e \in Live : e.key # pending[1].key
         /\ num_entries' = num_entries + 1 /\ ret' = 0
         /\ pc' = "ready" /\ pending' = <<>> /\ saved' = saved
  <1> DEFINE e == pending[1]
  <1>1. /\ new_num_bins \in Nat \ {0}
        /\ new_bins \in [0..(new_num_bins-1) -> Seq(Entry)]
        /\ pending \in Seq(Entry) /\ pending # <<>>
    BY DEF RehashDone, Sound, TypeOK
  <1>2. 1 \in DOMAIN pending /\ Head(pending) = e /\ e \in Entry
    BY <1>1
  <1>3. e.key \in Key /\ e.record \in Record /\ e.key # Never
    BY <1>2, NeverAssumption DEF Sound, LiveRecords
  <1>4. InBins(bins) = {}
    <2>1. \A b \in DOMAIN bins : bins[b] = <<>>
      BY DEF RehashDone, Sound, Swept, TypeOK
    <2>2. QED
      BY <2>1, InEmptyBins
  <1>5. InBins(bins') = InBins(new_bins) \cup {e}
    BY <1>1, <1>2, InPush DEF RehashDone
  <1>6. InBins(new_bins') = {}
    BY InEmptyBins DEF RehashDone, EmptyBins
  <1>7. \A f \in Live : f.key # e.key
    BY <1>2, InBinsMember DEF Live, Sound, UniqueKeys, Awaited
  <1> HIDE DEF e
  <1>8. Live' = {f \in InBins(bins') \cup InBins(new_bins') : f.key # Never}
    BY DEF Live
  <1>9. Live' = Live \cup {e}
    BY <1>3, <1>4, <1>5, <1>6, <1>8 DEF Live
  <1>10. QED
    BY <1>2, <1>3, <1>7, <1>9 DEF RehashDone, walk, e

LEMMA CleanupDeleteLive ==
  ASSUME Sound, CleanupDelete
  PROVE  Live' = Live /\ UNCHANGED <<pc, i, pending, saved, ret>>
  <1>1. /\ i \in 0..(num_bins-1) /\ i \in DOMAIN bins /\ pos \in DOMAIN bins[i]
        /\ num_bins \in Nat /\ bins \in [0..(num_bins-1) -> Seq(Entry)]
        /\ bins' = [bins EXCEPT ![i] = RemoveAt(@, pos)]
        /\ bins[i][pos].record = Never
        /\ UNCHANGED <<pc, i, growth, saved, ret>>
    BY DEF CleanupDelete, Sound, TypeOK, walk
  <1>2. bins[i][pos].key = Never
    <2>1. bins[i][pos] \in InBins(bins)
      BY <1>1, InBinsMember
    <2>2. QED
      BY <1>1, <2>1, NeverAssumption DEF Sound, LiveRecords, Live
  <1>3. InBins(bins') = Others(bins, i, pos)
    BY <1>1, InRemoved
  <1>4. Live' = {f \in InBins(bins') \cup InBins(new_bins') : f.key # Never}
    BY DEF Live
  <1>5. Live' = {f \in Others(bins, i, pos) : f.key # Never} \cup Held(new_bins)
    BY <1>1, <1>3, <1>4 DEF growth, Held
  <1>6. QED
    BY <1>1, <1>2, <1>5, WithoutOne DEF growth

LEMMA SameBinsLive ==
  ASSUME UNCHANGED <<bins, new_bins>> PROVE Live' = Live
  BY DEF Live

----------------------------------------------------------------------------
\* One step of the table, by what it does to the live entries.
Keeps == Live' = Live /\ UNCHANGED <<num_entries, pc, pending, saved, ret>>
Looks == Live' = Live /\ UNCHANGED <<num_entries, pc, pending, saved>>
Waits(e) == /\ Live' = Live /\ e.key \in Key /\ e.record \in Record
            /\ UNCHANGED <<num_entries, saved, ret>>
            /\ pc = "ready" /\ pc' = "rehash" /\ pending' = <<e>>
Gains(e) == /\ Live' = Live \cup {e} /\ e.key \in Key /\ e.record \in Record
            /\ \A f \in Live : f.key # e.key
            /\ num_entries' = num_entries + 1 /\ ret' = 0
            /\ pc # "cleanup" /\ pc' = "ready" /\ pending' \in {pending, <<>>}
Swaps(old, e) == /\ old \in Live /\ e.key = old.key /\ e.record \in Record
                 /\ Live' = (Live \ {old}) \cup {e}
                 /\ ret' = 1 /\ UNCHANGED <<num_entries, pc, pending, saved>>
Loses(old) == /\ old \in Live /\ Live' = Live \ {old} /\ ret' = old.record
              /\ num_entries' = num_entries - 1
              /\ pc = "ready" /\ UNCHANGED <<pc, pending, saved>>
Empties == /\ Live' = {} /\ num_entries' = 0 /\ ret' = Never
           /\ pc = "ready" /\ UNCHANGED <<pc, pending, saved>>
Cleans == /\ Live' = Live /\ UNCHANGED <<pending, ret>>
          /\ \/ pc = "ready" /\ pc' = "cleanup" /\ saved' = num_entries
             \/ pc = "cleanup" /\ pc' = "cleanup" /\ saved' = saved
             \/ pc = "cleanup" /\ pc' = "ready" /\ num_entries' = saved
Finds == \E k \in Key : /\ Looks
                        /\ ret' = MapOf(Live)[k]

Effect == \/ Keeps \/ Finds \/ Empties \/ Cleans
          \/ \E e : Waits(e) \/ Gains(e) \/ Loses(e)
          \/ \E old, e : Swaps(old, e)

LEMMA StepEffect == ASSUME Sound, [Next]_vars PROVE Effect
  <1>0. TypeOK /\ OneEach(Live)
    BY LiveOneEach DEF Sound
  <1>1. ASSUME NEW k \in Key, st_lookup(k) PROVE Finds
    <2>1. Looks
      BY <1>1, SameBinsLive DEF st_lookup, Looks, table, growth, walk
    <2>2. CASE Matches(k) = {}
      <3>1. ret' = Never /\ pc = "ready"
        BY <1>1, <2>2 DEF st_lookup, First
      <3>2. MapOf(Live)[k] = Never
        BY <2>2, <3>1, NoKey, MapNone
      <3>3. QED
        BY <2>1, <3>1, <3>2 DEF Finds
    <2>3. CASE Matches(k) # {}
      <3>1. PICK p \in DOMAIN Chain(k) : First(Matches(k), p) /\ ret' = Chain(k)[p].record
        BY <1>1, <2>3 DEF st_lookup
      <3>2. Chain(k)[p] \in Live /\ Chain(k)[p].key = k
        BY <3>1, FoundAt DEF First, Matches
      <3>3. MapOf(Live)[k] = Chain(k)[p].record
        BY <1>0, <3>2, MapAt
      <3>4. QED
        BY <2>1, <3>1, <3>3 DEF Finds
    <2>4. QED
      BY <2>2, <2>3
  <1>2. ASSUME NEW k \in Key, st_delete(k) \/ st_delete_safe(k) PROVE Effect
    <2>1. pc = "ready"
      BY <1>2 DEF st_delete, st_delete_safe
    <2>2. CASE EqualKey(k) = {}
      <3>1. Looks /\ ret' = Never
        BY <1>2, <2>2, SameBinsLive
           DEF st_delete, st_delete_safe, First, Looks, growth, walk
      <3>2. MapOf(Live)[k] = Never
        BY <2>1, <2>2, NoKey, MapNone
      <3>3. QED
        BY <3>1, <3>2 DEF Effect, Finds
    <2>3. CASE EqualKey(k) # {}
      <3>1. PICK old \in Live : old.key = k /\ ret' = old.record /\ Live' = Live \ {old}
        BY <1>2, <2>3, DeleteLive
      <3>2. Loses(old)
        BY <1>2, <2>1, <2>3, <3>1, DeleteLive DEF Loses
      <3>3. QED
        BY <3>2 DEF Effect
    <2>4. QED
      BY <2>2, <2>3
  <1>3. ASSUME NEW k \in Key, NEW r \in Record, st_insert(k, r) PROVE Effect
    <2>1. pc = "ready"
      BY <1>3 DEF st_insert
    <2>2. CASE Matches(k) = {}
      <3> DEFINE e == [hash |-> Hash[k], key |-> k, record |-> r]
      <3>1. ADD_DIRECT(k, r)
        BY <1>3, <2>2 DEF st_insert, First
      <3>2. \A f \in Live : f.key # k
        BY <2>1, <2>2, NoKey
      <3>3. Gains(e) \/ Waits(e)
        BY <2>1, <3>1, <3>2, InsertNewLive DEF Gains, Waits
      <3>4. QED
        BY <3>3 DEF Effect
    <2>3. CASE Matches(k) # {}
      <3>1. PICK old \in Live : \E e :
              /\ old.key = k /\ e.key = k /\ e.record = r
              /\ Live' = (Live \ {old}) \cup {e}
        BY <1>3, <2>3, InsertOldLive
      <3>2. PICK e :
              /\ old.key = k /\ e.key = k /\ e.record = r
              /\ Live' = (Live \ {old}) \cup {e}
        BY <3>1
      <3>3. Swaps(old, e)
        BY <1>3, <2>3, <3>2, InsertOldLive DEF Swaps
      <3>4. QED
        BY <3>3 DEF Effect
    <2>4. QED
      BY <2>2, <2>3
  <1>4. ASSUME st_copy PROVE Keeps
    BY <1>4, CopyLive DEF Keeps
  <1>5. ASSUME st_free_table PROVE Empties
    BY <1>5, FreeLive DEF Empties, st_free_table
  <1>6. ASSUME RehashMove PROVE Keeps
    BY <1>6, MoveLive DEF Keeps
  <1>7. ASSUME RehashNextBin PROVE Keeps
    BY <1>7, SameBinsLive DEF RehashNextBin, Keeps, table, growth, walk
  <1>8. ASSUME RehashDone PROVE Gains(pending[1])
    BY <1>8, DoneLive DEF Gains, RehashDone
  <1>9. ASSUME st_cleanup_safe \/ CleanupContinue \/ CleanupNextBin \/ CleanupDone
        PROVE  Cleans
    BY <1>9, SameBinsLive DEF Cleans, st_cleanup_safe, CleanupContinue, CleanupNextBin,
       CleanupDone, table, growth
  <1>10. ASSUME CleanupDelete PROVE Cleans
    BY <1>10, CleanupDeleteLive DEF Cleans, CleanupDelete
  <1>11. CASE UNCHANGED vars
    BY <1>11, SameBinsLive DEF vars, table, growth, walk, Effect, Keeps
  <1>12. QED
    BY <1>1, <1>2, <1>3, <1>4, <1>5, <1>6, <1>7, <1>8, <1>9, <1>10, <1>11
       DEF Next, Call, Rehash, Cleanup, Effect

LEMMA LiveRecordsStep ==
  ASSUME LiveRecords, Effect PROVE LiveRecords'
  <1>1. ASSUME NEW e, Waits(e) PROVE LiveRecords'
    BY <1>1 DEF Waits, LiveRecords
  <1>2. ASSUME NEW e, Gains(e) PROVE LiveRecords'
    BY <1>2 DEF Gains, LiveRecords
  <1>3. ASSUME NEW e, Loses(e) PROVE LiveRecords'
    BY <1>3 DEF Loses, LiveRecords
  <1>4. ASSUME NEW old, NEW e, Swaps(old, e) PROVE LiveRecords'
    BY <1>4 DEF Swaps, LiveRecords
  <1>5. CASE Keeps \/ Finds \/ Empties \/ Cleans
    BY <1>5 DEF Keeps, Finds, Looks, Empties, Cleans, LiveRecords
  <1>6. QED
    BY <1>1, <1>2, <1>3, <1>4, <1>5 DEF Effect

LEMMA SweptStep ==
  ASSUME TypeOK, Swept, [Step]_vars PROVE Swept'
  <1>1. ASSUME NEW k \in Key, NEW r \in Record, ADD_DIRECT(k, r), pc = "ready"
        PROVE  Swept'
    BY <1>1 DEF ADD_DIRECT, Swept
  <1>2. ASSUME NEW k \in Key, NEW r \in Record, st_insert(k, r) PROVE Swept'
    BY <1>1, <1>2 DEF st_insert, Swept
  <1>3. ASSUME RehashMove PROVE Swept'
    <2>1. /\ bins' = [bins EXCEPT ![i] = Tail(@)] /\ i' = i /\ i \in 0..num_bins
          /\ pc = "rehash" /\ bins \in [0..(num_bins-1) -> Seq(Entry)]
          /\ num_bins \in Nat
      BY <1>3 DEF RehashMove, TypeOK
    <2>2. \A b \in 0..(i-1) : bins'[b] = bins[b]
      BY <2>1
    <2>3. QED
      BY <2>1, <2>2 DEF Swept
  <1>4. ASSUME RehashNextBin PROVE Swept'
    <2>1. i' = i + 1 /\ bins' = bins /\ bins[i] = <<>> /\ i \in 0..num_bins /\ pc = "rehash"
      BY <1>4 DEF RehashNextBin, table, TypeOK
    <2>2. \A b \in 0..(i'-1) : b = i \/ b \in 0..(i-1)
      BY <2>1
    <2>3. QED
      BY <2>1, <2>2 DEF Swept
  <1>5. ASSUME pc' # "rehash" PROVE Swept'
    BY <1>5 DEF Swept
  <1>6. CASE Call
    BY <1>2, <1>5, <1>6 DEF Call, st_lookup, st_delete, st_delete_safe, st_copy,
       st_free_table, st_cleanup_safe
  <1>7. CASE Rehash
    BY <1>3, <1>4, <1>5, <1>7 DEF Rehash, RehashDone
  <1>8. CASE Cleanup
    BY <1>5, <1>8 DEF Cleanup, CleanupDelete, CleanupContinue, CleanupNextBin, CleanupDone
  <1>9. CASE UNCHANGED vars
    BY <1>9 DEF vars, table, Swept
  <1>10. ASSUME NEW k \in Key, NEW r \in Record, st_add_direct(k, r) PROVE Swept'
    BY <1>1, <1>10 DEF st_add_direct
  <1>11. QED
    BY <1>6, <1>7, <1>8, <1>9, <1>10 DEF Next, Step

\* Entries have keys and records as long as they are live, and rehash()
\* leaves nothing behind.
THEOREM SoundAlways == Spec => []Sound
  <1>1. Init => LiveRecords /\ Swept
    <2> SUFFICES ASSUME Init PROVE LiveRecords /\ Swept
      OBVIOUS
    <2>1. InBins(bins) = {} /\ InBins(new_bins) = {}
      BY InEmptyBins DEF Init, EmptyBins
    <2>2. QED
      BY <2>1 DEF Init, LiveRecords, Swept, Live
  <1>2. ASSUME TypeOK, Placement, UniqueKeys, LiveRecords, Swept, [Next]_vars
        PROVE  LiveRecords' /\ Swept'
    BY <1>2, StepEffect, LiveRecordsStep, SweptStep DEF Sound, Step
  <1>3. QED
    BY <1>1, <1>2, TypeCorrect, PlacementHolds, KeysUnique, PTL DEF Spec, Sound

----------------------------------------------------------------------------
\* The number that num_entries must have when the call returns.
CountInv ==
  /\ IsFiniteSet(Live)
  /\ Cardinality(Live) = IF pc = "cleanup" THEN saved ELSE num_entries

LEMMA CountStep == ASSUME CountInv, OneEach(Live), Effect PROVE CountInv'
  <1>1. ASSUME NEW e, Gains(e) PROVE CountInv'
    <2>1. e \notin Live /\ Live' = Live \cup {e} /\ num_entries' = num_entries + 1
          /\ pc # "cleanup" /\ pc' = "ready"
      BY <1>1 DEF Gains
    <2>2. IsFiniteSet(Live \cup {e}) /\ Cardinality(Live \cup {e}) = Cardinality(Live) + 1
      BY <2>1, FS_AddElement DEF CountInv
    <2>3. QED
      BY <2>1, <2>2 DEF CountInv
  <1>2. ASSUME NEW e, Loses(e) PROVE CountInv'
    <2>1. IsFiniteSet(Live \ {e}) /\ Cardinality(Live \ {e}) = Cardinality(Live) - 1
      BY <1>2, FS_RemoveElement DEF CountInv, Loses
    <2>2. QED
      BY <1>2, <2>1 DEF CountInv, Loses
  <1>3. ASSUME NEW old, NEW e, Swaps(old, e) PROVE CountInv'
    <2>1. IsFiniteSet(Live \ {old}) /\ Cardinality(Live \ {old}) = Cardinality(Live) - 1
      BY <1>3, FS_RemoveElement DEF CountInv, Swaps
    <2>2. e \notin Live \ {old}
      BY <1>3 DEF Swaps, OneEach
    <2>3. /\ IsFiniteSet((Live \ {old}) \cup {e})
          /\ Cardinality((Live \ {old}) \cup {e}) = Cardinality(Live) - 1 + 1
      BY <2>1, <2>2, FS_AddElement
    <2>4. Cardinality(Live) \in Nat
      BY FS_CardinalityType DEF CountInv
    <2>5. QED
      BY <1>3, <2>3, <2>4 DEF CountInv, Swaps
  <1>4. ASSUME NEW e, Waits(e) PROVE CountInv'
    BY <1>4 DEF Waits, CountInv
  <1>5. CASE Empties
    BY <1>5, FS_EmptySet DEF Empties, CountInv
  <1>6. CASE Keeps \/ Finds \/ Cleans
    BY <1>6 DEF Keeps, Finds, Looks, Cleans, CountInv
  <1>7. QED
    BY <1>1, <1>2, <1>3, <1>4, <1>5, <1>6 DEF Effect

\* A live entry has one place, and a live place one entry.
LEMMA PlacesCount ==
  ASSUME Sound, pc = "ready", IsFiniteSet(Live)
  PROVE  Cardinality(LivePlaces(bins)) = Cardinality(Live)
  <1> DEFINE P == LivePlaces(bins)
             g == [pl \in P |-> bins[pl[1]][pl[2]]]
  <1>1. ASSUME NEW b, NEW p
        PROVE  <<b, p>> \in P <=> /\ b \in DOMAIN bins /\ p \in DOMAIN bins[b]
                                  /\ bins[b][p].key # Never
    BY DEF LivePlaces
  <1>2. ASSUME NEW pl \in P PROVE \E b, p : pl = <<b, p>>
    BY DEF LivePlaces
  <1> HIDE DEF P
  <1>3. Live = Held(bins)
    BY NoNewBins DEF Sound
  <1>4. g \in [P -> Live]
    <2>1. ASSUME NEW pl \in P PROVE bins[pl[1]][pl[2]] \in Live
      <3>1. PICK b, p : pl = <<b, p>>
        BY <1>2
      <3>2. QED
        BY <1>1, <1>3, <3>1, InBinsMember DEF Held
    <2>2. QED
      BY <2>1
  <1>5. ASSUME NEW x \in P, NEW y \in P, g[x] = g[y] PROVE x = y
    <2>1. PICK b, p : x = <<b, p>>
      BY <1>2
    <2>2. PICK c, q : y = <<c, q>>
      BY <1>2
    <2>3. /\ b \in DOMAIN bins /\ p \in DOMAIN bins[b] /\ bins[b][p].key # Never
          /\ c \in DOMAIN bins /\ q \in DOMAIN bins[c]
          /\ bins[b][p] = bins[c][q]
      BY <1>1, <1>5, <2>1, <2>2
    <2>4. bins[c][q] \notin Others(bins, b, p)
      BY <2>3, OneKeyOnePlace DEF Sound
    <2>5. b = c /\ p = q
      BY <2>3, <2>4, OthersMember
    <2>6. QED
      BY <2>1, <2>2, <2>5
  <1>6. ASSUME NEW e \in Live PROVE \E x \in P : g[x] = e
    <2>1. PICK b \in DOMAIN bins : \E p \in DOMAIN bins[b] : e = bins[b][p]
      BY <1>3, InBinsMember DEF Held
    <2>2. PICK p \in DOMAIN bins[b] : e = bins[b][p]
      BY <2>1
    <2>3. <<b, p>> \in P
      BY <1>1, <1>3, <2>2 DEF Held
    <2>4. g[<<b, p>>] = e
      BY <2>2, <2>3
    <2>5. QED
      BY <2>3, <2>4
  <1> HIDE DEF g
  <1>7. g \in Injection(P, Live) /\ g \in Surjection(P, Live)
    BY <1>4, <1>5, <1>6 DEF Injection, Surjection, IsInjective
  <1>8. QED
    BY <1>7, FS_Injection DEF P

\* Between calls num_entries is the number of live entries, whatever was
\* deleted in place, unlinked, copied, rehashed or cleaned up before.
THEOREM CountCorrect == Spec => []CountMatches
  <1>1. Init => CountInv
    <2> SUFFICES ASSUME Init PROVE CountInv
      OBVIOUS
    <2>1. InBins(bins) = {} /\ InBins(new_bins) = {}
      BY InEmptyBins DEF Init, EmptyBins
    <2>2. Live = {}
      BY <2>1 DEF Live
    <2>3. QED
      BY <2>2, FS_EmptySet DEF Init, CountInv
  <1>2. Sound /\ CountInv /\ [Next]_vars => CountInv'
    BY CountStep, StepEffect, LiveOneEach DEF Sound
  <1>3. Sound /\ CountInv => CountMatches
    BY PlacesCount DEF CountMatches, CountInv
  <1>4. QED
    BY <1>1, <1>2, <1>3, SoundAlways, PTL DEF Spec

----------------------------------------------------------------------------
LEMMA ContentsMap == Contents = MapOf(Live)
  BY DEF Contents, MapOf

\* Every step of the table is a step of the dictionary or changes nothing
\* that the dictionary has.
LEMMA DictionaryStep ==
  ASSUME Sound, Effect, OneEach(Live)
  PROVE  [Dict!Next]_(Dict!vars)
  <1>1. Contents = MapOf(Live) /\ Contents' = MapOf(Live')
    BY ContentsMap DEF Contents, MapOf
  <1>2. ASSUME NEW k \in Key PROVE MapOf(Live)[k] = Never \/ MapOf(Live)[k] \in Record
    <2>1. CASE \E e \in Live : e.key = k
      BY <2>1, MapAt DEF Sound, LiveRecords
    <2>2. CASE ~\E e \in Live : e.key = k
      BY <2>2, MapNone
    <2>3. QED
      BY <2>1, <2>2
  <1>3. CASE Keeps \/ Cleans
    BY <1>1, <1>3 DEF Keeps, Cleans, Dict!vars
  <1>4. CASE Finds
    BY <1>1, <1>4 DEF Finds, Looks, Dict!Next, Dict!Lookup
  <1>5. CASE Empties
    <2>1. MapOf({}) = [k \in Key |-> Never]
      BY DEF MapOf
    <2>2. QED
      BY <1>1, <1>5, <2>1 DEF Empties, Dict!Next, Dict!Clear
  <1>6. ASSUME NEW e, Waits(e) PROVE [Dict!Next]_(Dict!vars)
    BY <1>1, <1>6 DEF Waits, Dict!vars
  <1>7. ASSUME NEW e, Gains(e) PROVE Dict!Next
    <2>1. e.key \in Key /\ e.record \in Record /\ ret' = 0
          /\ Live' = Live \cup {e} /\ \A f \in Live : f.key # e.key
      BY <1>7 DEF Gains
    <2>2. MapOf(Live') = [MapOf(Live) EXCEPT ![e.key] = e.record]
      BY <2>1, MapAdd
    <2>3. MapOf(Live)[e.key] = Never
      BY <2>1, MapNone
    <2>4. Dict!Insert(e.key, e.record)
      BY <1>1, <2>1, <2>2, <2>3 DEF Dict!Insert
    <2>5. QED
      BY <2>1, <2>4 DEF Dict!Next
  <1>8. ASSUME NEW e, Loses(e) PROVE Dict!Next
    <2>1. e \in Live /\ e.key \in Key /\ ret' = e.record /\ Live' = Live \ {e}
      BY <1>8 DEF Loses, Sound, LiveRecords
    <2>2. MapOf(Live') = [MapOf(Live) EXCEPT ![e.key] = Never]
      BY <2>1, MapRemove
    <2>3. MapOf(Live)[e.key] = e.record
      BY <2>1, MapAt
    <2>4. Dict!Delete(e.key)
      BY <1>1, <2>1, <2>2, <2>3 DEF Dict!Delete
    <2>5. QED
      BY <2>1, <2>4 DEF Dict!Next
  <1>9. ASSUME NEW old, NEW e, Swaps(old, e) PROVE Dict!Next
    <2>1. /\ old \in Live /\ old.key \in Key /\ old.record \in Record
          /\ e.key = old.key /\ e.record \in Record
          /\ ret' = 1 /\ Live' = (Live \ {old}) \cup {e}
      BY <1>9 DEF Swaps, Sound, LiveRecords
    <2>2. MapOf(Live') = [MapOf(Live) EXCEPT ![e.key] = e.record]
      BY <2>1, MapReplace
    <2>3. MapOf(Live)[e.key] = old.record /\ old.record # Never
      BY <2>1, MapAt, NeverAssumption
    <2>4. Dict!Insert(e.key, e.record)
      BY <1>1, <2>1, <2>2, <2>3 DEF Dict!Insert
    <2>5. QED
      BY <2>1, <2>4 DEF Dict!Next
  <1>10. QED
    BY <1>3, <1>4, <1>5, <1>6, <1>7, <1>8, <1>9 DEF Effect

\* The hash table is a dictionary: through growth, clean-up, copying and
\* deletion in place, each call reads and writes the map from keys to records
\* as the abstract operation does, and the steps in between change nothing.
THEOREM DictionaryImplemented == Spec => ImplementsDictionary
  <1>1. Init => Dict!Init
    <2> SUFFICES ASSUME Init PROVE Dict!Init
      OBVIOUS
    <2>1. InBins(bins) = {} /\ InBins(new_bins) = {}
      BY InEmptyBins DEF Init, EmptyBins
    <2>2. Live = {}
      BY <2>1 DEF Live
    <2>3. Contents = [k \in Key |-> Never]
      BY <2>2 DEF Contents
    <2>4. QED
      BY <2>3 DEF Init, Dict!Init
  <1>2. Sound /\ [Next]_vars => [Dict!Next]_(Dict!vars)
    BY StepEffect, LiveOneEach, DictionaryStep DEF Sound
  <1>3. QED
    BY <1>1, <1>2, SoundAlways, PTL DEF Spec, ImplementsDictionary, Dict!Spec

----------------------------------------------------------------------------
(***************************************************************************)
(* Tables of variables and methods: an assignment only ever adds.          *)
(***************************************************************************)
\* Everything there is, the entry that waits for its push included.
Stored == InBins(bins) \cup InBins(new_bins) \cup {pending[n] : n \in DOMAIN pending}

NewEntry(k, r) == [hash |-> Hash[k], key |-> k, record |-> r]

\* The place a reference to the last name looks at first.
AtHead == IF pc = "rehash"
          THEN pending = <<NewEntry(lastName, latest[lastName])>>
          ELSE /\ Chain(lastName) # <<>>
               /\ Chain(lastName)[1] = NewEntry(lastName, latest[lastName])

VInv == /\ TypeOK /\ Placement /\ Swept
        /\ latest \in [Key -> Record \cup {Never}]
        /\ Len(pending) <= 1
        /\ \A e \in Stored : e.key \in Key /\ e.record \in Record
        /\ \A k \in Key : latest[k] # Never => \E e \in Stored : e.key = k
        /\ lastName # Never => lastName \in Key /\ AtHead

LEMMA VStepIsStep == ASSUME [VNext]_vvars PROVE [Step]_vars
  <1>1. ASSUME NEW k \in Key, check_variable(k) PROVE Step
    BY <1>1 DEF check_variable, Step, Next, Call
  <1>2. ASSUME NEW k \in Key, NEW r \in Record, assign0(k, r) PROVE Step
    BY <1>2 DEF assign0, Step
  <1>3. CASE Rehash
    BY <1>3 DEF Step, Next
  <1>4. CASE UNCHANGED vvars
    BY <1>4 DEF vvars
  <1>5. QED
    BY <1>1, <1>2, <1>3, <1>4 DEF VNext

\* An assignment adds its entry, to the table or to what waits.
LEMMA AddStored ==
  ASSUME VInv, NEW k \in Key, NEW r \in Record, st_add_direct(k, r)
  PROVE  /\ Stored' = Stored \cup {NewEntry(k, r)}
         /\ Len(pending') <= 1
         /\ IF pc' = "rehash" THEN pending' = <<NewEntry(k, r)>>
            ELSE Chain(k)' # <<>> /\ Chain(k)'[1] = NewEntry(k, r)
  <1> DEFINE e == NewEntry(k, r)
  <1>1. e \in Entry /\ e.hash = Hash[k] /\ pc = "ready"
    BY HashAssumption DEF Entry, NewEntry, st_add_direct
  <1> HIDE DEF e
  <1>2. /\ num_bins \in Nat \ {0} /\ bins \in [0..(num_bins-1) -> Seq(Entry)]
        /\ pending = <<>> /\ InBins(new_bins) = {}
    BY <1>1, NoNewBins DEF VInv, TypeOK
  <1>3. CASE ~Dense
    <2>1. /\ bins' = Push(bins, num_bins, e)
          /\ UNCHANGED <<num_bins, pc, growth>>
      BY <1>3 DEF st_add_direct, ADD_DIRECT, e, NewEntry
    <2>2. InBins(bins') = InBins(bins) \cup {e}
      BY <1>1, <1>2, <2>1, InPush
    <2>3. Stored' = InBins(bins') \cup InBins(new_bins') \cup {pending'[n] : n \in DOMAIN pending'}
      BY DEF Stored
    <2>4. Stored' = Stored \cup {e}
      BY <2>1, <2>2, <2>3 DEF Stored, growth
    <2>5. Hash[k] % num_bins \in 0..(num_bins-1)
      BY <1>2, HashAssumption
    <2>6. bins'[Hash[k] % num_bins] = <<e>> \o bins[Hash[k] % num_bins]
      BY <1>1, <1>2, <2>1, <2>5 DEF Push
    <2>7. Chain(k)' = <<e>> \o bins[Hash[k] % num_bins]
      BY <2>1, <2>6 DEF Chain
    <2>8. Chain(k)' # <<>> /\ Chain(k)'[1] = e
      BY <1>1, <1>2, <2>5, <2>7, Prepend
    <2>9. QED
      BY <1>1, <1>2, <2>1, <2>4, <2>8 DEF growth, e
  <1>4. CASE Dense
    <2>1. /\ new_bins' = EmptyBins(new_num_bins') /\ pending' = <<e>>
          /\ pc' = "rehash" /\ UNCHANGED table
      BY <1>4 DEF st_add_direct, ADD_DIRECT, e, NewEntry
    <2>2. InBins(new_bins') = {}
      BY <2>1, InEmptyBins DEF EmptyBins
    <2>3. {pending'[n] : n \in DOMAIN pending'} = {e}
      BY <2>1
    <2>4. Stored = InBins(bins)
      BY <1>2 DEF Stored
    <2>5. Stored' = InBins(bins') \cup InBins(new_bins') \cup {pending'[n] : n \in DOMAIN pending'}
      BY DEF Stored
    <2>6. Stored' = Stored \cup {e}
      BY <2>1, <2>2, <2>3, <2>4, <2>5 DEF table
    <2>7. QED
      BY <2>1, <2>6 DEF e
  <1>5. QED
    BY <1>3, <1>4

\* Growing loses nothing and ends with the push of the entry that waited.
LEMMA RehashStored ==
  ASSUME VInv, Rehash
  PROVE  /\ Stored' = Stored /\ pc = "rehash" /\ Len(pending') <= 1
         /\ \/ pc' = "rehash" /\ pending' = pending
            \/ /\ pc' = "ready"
               /\ \A k \in Key : pending[1].key = k =>
                     Chain(k)' # <<>> /\ Chain(k)'[1] = pending[1]
  <1>1. CASE RehashMove
    <2> DEFINE e == bins[i][1]
    <2>1. /\ i \in 0..(num_bins-1) /\ i \in DOMAIN bins /\ 1 \in DOMAIN bins[i]
          /\ num_bins \in Nat /\ bins \in [0..(num_bins-1) -> Seq(Entry)]
          /\ new_num_bins \in Nat \ {0}
          /\ new_bins \in [0..(new_num_bins-1) -> Seq(Entry)]
      BY <1>1, MoveShape DEF RehashMove, VInv, TypeOK
    <2>2. bins[i] \in Seq(Entry) /\ Head(bins[i]) = e /\ e \in Entry
      BY <2>1
    <2>3. InBins(bins') = Others(bins, i, 1)
      BY <1>1, <2>1, InTail DEF RehashMove
    <2>4. InBins(bins) = Others(bins, i, 1) \cup {e}
      BY <2>1, OthersAndOne
    <2>5. new_bins' = Push(new_bins, new_num_bins, e) /\ pending' = pending /\ pc' = pc
      BY <1>1, <2>2 DEF RehashMove
    <2> HIDE DEF e
    <2>6. InBins(new_bins') = InBins(new_bins) \cup {e}
      BY <2>1, <2>2, <2>5, InPush, SMTT(30)
    <2>7. Stored' = InBins(bins') \cup InBins(new_bins') \cup {pending'[n] : n \in DOMAIN pending'}
      BY DEF Stored
    <2>8. Stored' = Stored
      BY <2>3, <2>4, <2>5, <2>6, <2>7 DEF Stored
    <2>9. QED
      BY <1>1, <2>5, <2>8 DEF VInv, RehashMove
  <1>2. CASE RehashNextBin
    BY <1>2 DEF RehashNextBin, table, growth, Stored, VInv
  <1>3. CASE RehashDone
    <2> DEFINE e == pending[1]
    <2>1. /\ new_num_bins \in Nat \ {0}
          /\ new_bins \in [0..(new_num_bins-1) -> Seq(Entry)]
          /\ pending \in Seq(Entry) /\ pending # <<>> /\ Len(pending) <= 1
      BY <1>3 DEF RehashDone, VInv, TypeOK
    <2>2. /\ 1 \in DOMAIN pending /\ Head(pending) = e /\ e \in Entry
          /\ {pending[n] : n \in DOMAIN pending} = {e}
      BY <2>1
    <2>3. InBins(bins) = {}
      <3>1. \A b \in DOMAIN bins : bins[b] = <<>>
        BY <1>3 DEF RehashDone, VInv, Swept, TypeOK
      <3>2. QED
        BY <3>1, InEmptyBins
    <2>4. /\ bins' = Push(new_bins, new_num_bins, e) /\ num_bins' = new_num_bins
          /\ pending' = <<>> /\ pc' = "ready" /\ pc = "rehash"
      BY <1>3, <2>2 DEF RehashDone
    <2>5. InBins(new_bins') = {}
      BY <1>3, InEmptyBins DEF RehashDone, EmptyBins
    <2>6. OwnHash(e)
      BY <2>2 DEF VInv, Placement
    <2> HIDE DEF e
    <2>7. InBins(bins') = InBins(new_bins) \cup {e}
      BY <2>1, <2>2, <2>4, InPush, SMTT(30)
    <2>8. Stored' = InBins(bins') \cup InBins(new_bins') \cup {pending'[n] : n \in DOMAIN pending'}
      BY DEF Stored
    <2>9. {pending'[n] : n \in DOMAIN pending'} = {}
      BY <2>4
    <2>10. Stored' = Stored
      BY <2>2, <2>3, <2>5, <2>7, <2>8, <2>9 DEF Stored
    <2>11. ASSUME NEW k \in Key, e.key = k PROVE Chain(k)' # <<>> /\ Chain(k)'[1] = e
      <3>1. e.hash = Hash[k]
        BY <2>6, <2>11, NeverAssumption DEF OwnHash
      <3>2. Hash[k] % new_num_bins \in 0..(new_num_bins-1)
        BY <2>1, HashAssumption
      <3>3. bins'[Hash[k] % new_num_bins] = <<e>> \o new_bins[Hash[k] % new_num_bins]
        BY <2>1, <2>4, <3>1, <3>2 DEF Push
      <3>4. Chain(k)' = <<e>> \o new_bins[Hash[k] % new_num_bins]
        BY <2>4, <3>3 DEF Chain
      <3>5. QED
        BY <2>1, <2>2, <3>2, <3>4, Prepend
    <2>12. Len(pending') <= 1
      BY <2>4
    <2>13. QED
      BY <2>4, <2>10, <2>11, <2>12 DEF e
  <1>4. QED
    BY <1>1, <1>2, <1>3 DEF Rehash

LEMMA VInvStep == ASSUME VInv, [VNext]_vvars PROVE VInv'
  <1>1. TypeOK' /\ Placement' /\ Swept'
    BY VStepIsStep, TypeStep, PlacementStep, SweptStep DEF VInv
  <1>2. ASSUME NEW k \in Key, NEW r \in Record, assign0(k, r) PROVE VInv'
    <2>1. /\ st_add_direct(k, r) /\ lastName' = k
          /\ latest' = [latest EXCEPT ![k] = r]
      BY <1>2 DEF assign0
    <2>2. Stored' = Stored \cup {NewEntry(k, r)} /\ Len(pending') <= 1
      BY <2>1, AddStored
    <2>3. latest' \in [Key -> Record \cup {Never}] /\ latest'[k] = r
      BY <2>1 DEF VInv
    <2>4. NewEntry(k, r).key = k /\ NewEntry(k, r).record = r
      BY DEF NewEntry
    <2>5. \A e \in Stored' : e.key \in Key /\ e.record \in Record
      BY <2>2, <2>4 DEF VInv
    <2>6. \A j \in Key : latest'[j] # Never => \E e \in Stored' : e.key = j
      BY <2>1, <2>2, <2>4 DEF VInv
    <2>7. AtHead'
      BY <2>1, <2>3, AddStored DEF AtHead, NewEntry
    <2>8. QED
      BY <1>1, <2>1, <2>2, <2>3, <2>5, <2>6, <2>7 DEF VInv
  <1>3. ASSUME Rehash, UNCHANGED history PROVE VInv'
    <2>1. Stored' = Stored /\ pc = "rehash" /\ Len(pending') <= 1
      BY <1>3, RehashStored
    <2>2. lastName # Never => lastName \in Key /\ AtHead'
      <3>1. SUFFICES ASSUME lastName # Never PROVE lastName \in Key /\ AtHead'
        OBVIOUS
      <3>2. /\ lastName \in Key
            /\ pending = <<NewEntry(lastName, latest[lastName])>>
        BY <2>1, <3>1 DEF VInv, AtHead
      <3>3. /\ pending[1] = NewEntry(lastName, latest[lastName])
            /\ pending[1].key = lastName
        BY <3>2 DEF NewEntry
      <3>4. CASE pc' = "rehash" /\ pending' = pending
        BY <1>3, <3>2, <3>4 DEF AtHead, NewEntry, history
      <3>5. CASE /\ pc' = "ready"
                 /\ Chain(lastName)' # <<>> /\ Chain(lastName)'[1] = pending[1]
        BY <1>3, <3>2, <3>3, <3>5 DEF AtHead, NewEntry, history, Chain
      <3>6. QED
        BY <1>3, <3>2, <3>3, <3>4, <3>5, RehashStored DEF history, Chain
    <2>3. QED
      BY <1>1, <1>3, <2>1, <2>2 DEF VInv, history
  <1>4. ASSUME UNCHANGED <<table, pc, growth, history>> PROVE VInv'
    <2>1. Stored' = Stored /\ AtHead' = AtHead
      BY <1>4 DEF Stored, AtHead, table, growth, history, Chain
    <2>2. QED
      BY <1>1, <1>4, <2>1 DEF VInv, growth, history
  <1>5. QED
    BY <1>2, <1>3, <1>4 DEF VNext, vvars, vars, check_variable, st_lookup

LEMMA VInvInit == ASSUME VInit PROVE VInv
  <1>1. Init
    BY DEF VInit
  <1>2. TypeOK
    BY <1>1, SizeType DEF Init, TypeOK, EmptyBins
  <1>3. InBins(bins) = {} /\ InBins(new_bins) = {}
    BY <1>1, InEmptyBins DEF Init, EmptyBins
  <1>4. Placement /\ Swept
    BY <1>1 DEF Init, Placement, PlacedIn, EmptyBins, Swept
  <1>5. Stored = {} /\ Len(pending) = 0
    BY <1>1, <1>3 DEF Init, Stored
  <1>6. QED
    BY <1>2, <1>4, <1>5, NeverAssumption DEF VInit, VInv

\* What Found is, by the first place that matches.
LEMMA FoundFirst ==
  ASSUME TypeOK, NEW k \in Key, Matches(k) # {}
  PROVE  \E p \in Matches(k) : /\ \A q \in Matches(k) : p <= q
                               /\ Found(k) = Chain(k)[p].record
  <1> DEFINE M == Matches(k)
             m == CHOOSE p \in M : \A q \in M : p <= q
  <1>1. M \in SUBSET Nat
    BY ChainType DEF Matches
  <1>2. \E p \in M : \A q \in M : p <= q
    BY <1>1, LeastNumber
  <1>3. m \in M /\ \A q \in M : m <= q
    BY <1>2
  <1>4. Found(k) = Chain(k)[m].record
    BY DEF Found
  <1>5. QED
    BY <1>3, <1>4

\* What a variable, a method or a class was given is found whenever it is
\* looked up, however often the table has grown since.
THEOREM VariablesStay == VSpec => []DefinedStaysDefined
  <1>1. VInv => DefinedStaysDefined
    <2> SUFFICES ASSUME VInv, pc = "ready", NEW k \in Key, latest[k] # Never
                 PROVE  Found(k) # Never
      BY DEF DefinedStaysDefined
    <2>1. PICK e \in Stored : e.key = k
      BY DEF VInv
    <2>2. e \in InBins(bins)
      BY <2>1, NoNewBins DEF VInv, Stored, TypeOK
    <2>3. \E p \in DOMAIN Chain(k) : Chain(k)[p].key = k
      <3>1. PICK b \in DOMAIN bins : \E p \in DOMAIN bins[b] : e = bins[b][p]
        BY <2>2, InBinsMember
      <3>2. PICK p \in DOMAIN bins[b] : e = bins[b][p]
        BY <3>1
      <3>3. b = Hash[k] % num_bins
        BY <2>1, <3>2, NeverAssumption DEF VInv, Placement, PlacedIn, OwnHash
      <3>4. QED
        BY <2>1, <3>2, <3>3 DEF Chain
    <2>4. Matches(k) # {}
      BY <2>3, NotFound, <2>1, <2>2, InBinsMember DEF VInv
    <2>5. PICK p \in Matches(k) : Found(k) = Chain(k)[p].record
      BY <2>4, FoundFirst DEF VInv
    <2>6. p \in DOMAIN Chain(k) /\ Hash[k] % num_bins \in DOMAIN bins
      BY <2>5, ChainType DEF Matches, VInv, TypeOK
    <2>7. Chain(k)[p] \in Stored
      BY <2>6, InBinsMember DEF Stored, Chain
    <2>8. QED
      BY <2>5, <2>7, NeverAssumption DEF VInv
  <1>2. VInit => VInv
    BY VInvInit
  <1>3. VInv /\ [VNext]_vvars => VInv'
    BY VInvStep
  <1>4. QED
    BY <1>1, <1>2, <1>3, PTL DEF VSpec

\* An assignment is what the next reference sees, also when it made the
\* table grow and the older entries of the name were turned round.
THEOREM WrittenIsRead == VSpec => []ReadYourWrite
  <1>1. VInv => ReadYourWrite
    <2> SUFFICES ASSUME VInv, pc = "ready", lastName # Never
                 PROVE  Found(lastName) = latest[lastName]
      BY DEF ReadYourWrite
    <2>1. /\ lastName \in Key /\ Chain(lastName) # <<>>
          /\ Chain(lastName)[1] = NewEntry(lastName, latest[lastName])
      BY DEF VInv, AtHead
    <2>2. Chain(lastName) \in Seq(Entry)
      BY <2>1, ChainType DEF VInv
    <2>3. 1 \in DOMAIN Chain(lastName)
      BY <2>1, <2>2
    <2>4. 1 \in Matches(lastName)
      BY <2>1, <2>3 DEF Matches, NewEntry
    <2>5. PICK p \in Matches(lastName) : /\ \A q \in Matches(lastName) : p <= q
                                         /\ Found(lastName) = Chain(lastName)[p].record
      BY <2>1, <2>4, FoundFirst DEF VInv
    <2>6. p = 1
      BY <2>2, <2>4, <2>5 DEF Matches
    <2>7. QED
      BY <2>1, <2>5, <2>6 DEF NewEntry
  <1>2. VInit => VInv
    BY VInvInit
  <1>3. VInv /\ [VNext]_vvars => VInv'
    BY VInvStep
  <1>4. QED
    BY <1>1, <1>2, <1>3, PTL DEF VSpec
=============================================================================
