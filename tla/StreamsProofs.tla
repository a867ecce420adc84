--------------------------- MODULE StreamsProofs ---------------------------
(***************************************************************************)
(* Theorems about Strings and Streams, for texts over any characters,      *)
(* chunks and buffers of any size, and any FILEs, objects and literals.    *)
(*                                                                         *)
(* First the buffers of dynstring.c, then what the methods of string.c do  *)
(* with texts, then the FILEs, and at last the invariant of Streams.       *)
(***************************************************************************)
EXTENDS Streams, SequenceTheorems, FiniteSetTheorems, Induction

Text == Seq(Char)
Buf == Seq(Char \cup {NUL})

----------------------------------------------------------------------------
(* Sequences *)

LEMMA TextIsBuf == ASSUME NEW t \in Text PROVE t \in Buf
BY SeqMonotonic DEF Text, Buf

\* What a part of a sequence is.
LEMMA Part ==
  ASSUME NEW S, NEW s \in Seq(S), NEW m \in 1 .. Len(s) + 1, NEW n \in 0 .. Len(s)
  PROVE  /\ SubSeq(s, m, n) \in Seq(S)
         /\ Len(SubSeq(s, m, n)) = IF m <= n THEN n - m + 1 ELSE 0
         /\ \A i \in 1 .. n - m + 1 : SubSeq(s, m, n)[i] = s[m + i - 1]
<1>1. m \in Int /\ n \in Int /\ Len(s) \in Nat
  BY LenProperties
<1>2. \A i \in m .. n : s[i] \in S
  BY <1>1, ElementOfSeq
<1> QED
  BY ONLY <1>1, <1>2, SubSeqProperties

----------------------------------------------------------------------------
(* Texts and buffers *)

\* A buffer has its text in front, and a NUL behind it.
LEMMA CstrOf ==
  ASSUME NEW buf \in Buf
  PROVE  /\ Cstr(buf) \in Text
         /\ Len(Cstr(buf)) \in 0 .. Len(buf)
         /\ \A k \in 1 .. Len(Cstr(buf)) : Cstr(buf)[k] = buf[k] /\ buf[k] # NUL
         /\ Len(Cstr(buf)) < Len(buf) => buf[Len(Cstr(buf)) + 1] = NUL
<1> DEFINE ends == {k \in 1 .. Len(buf) : buf[k] = NUL}
           end == CHOOSE k \in ends : \A j \in ends : k <= j
<1>1. Len(buf) \in Nat /\ \A k \in 1 .. Len(buf) : buf[k] \in Char \cup {NUL}
  BY LenProperties, ElementOfSeq DEF Buf
<1>2. CASE ends = {}
  <2>1. Cstr(buf) = buf
    BY <1>2 DEF Cstr
  <2>2. \A k \in 1 .. Len(buf) : buf[k] # NUL /\ buf[k] \in Char
    BY <1>1, <1>2
  <2>3. buf \in Seq(Char)
    BY <1>1, <2>2, LenProperties, SeqDef DEF Buf
  <2> QED
    BY <1>1, <2>1, <2>2, <2>3 DEF Text
<1>3. CASE ends # {}
  <2>1. end \in ends /\ \A j \in ends : end <= j
    <3>1. ends \in SUBSET Nat
      OBVIOUS
    <3>2. \E k \in ends : \A j \in ends : k <= j
      BY <1>3, <3>1, LeastNumber
    <3> QED
      BY <3>2
  <2>2. Cstr(buf) = SubSeq(buf, 1, end - 1)
    BY <1>3 DEF Cstr
  <2>3. end \in 1 .. Len(buf) /\ buf[end] = NUL /\ \A k \in 1 .. end - 1 : buf[k] # NUL
    BY <1>1, <2>1
  <2> HIDE DEF end, ends
  <2>4. \A k \in 1 .. end - 1 : buf[k] \in Char
    BY <1>1, <2>3
  <2>5. 1 \in Int /\ end - 1 \in Int /\ end \in Nat
    BY <1>1, <2>3
  <2>6. /\ SubSeq(buf, 1, end - 1) \in Seq(Char)
        /\ Len(SubSeq(buf, 1, end - 1)) = IF 1 <= end - 1 THEN end - 1 - 1 + 1 ELSE 0
        /\ \A i \in 1 .. end - 1 - 1 + 1 : SubSeq(buf, 1, end - 1)[i] = buf[1 + i - 1]
    BY ONLY <2>4, <2>5, SubSeqProperties
  <2>7. Len(Cstr(buf)) = end - 1
    BY <2>2, <2>3, <2>5, <2>6
  <2>8. \A i \in 1 .. end - 1 : Cstr(buf)[i] = buf[i]
    BY <2>2, <2>5, <2>6
  <2> QED
    BY <1>1, <2>2, <2>3, <2>5, <2>6, <2>7, <2>8 DEF Text
<1> QED
  BY <1>2, <1>3

\* The text ends at the first NUL.
LEMMA CstrIs ==
  ASSUME NEW buf \in Buf, NEW t \in Text, Len(t) < Len(buf), buf[Len(t) + 1] = NUL,
         \A k \in 1 .. Len(t) : buf[k] = t[k]
  PROVE  Cstr(buf) = t
<1> DEFINE c == Cstr(buf)
<1>1. /\ c \in Text /\ Len(c) \in 0 .. Len(buf)
      /\ \A k \in 1 .. Len(c) : c[k] = buf[k] /\ buf[k] # NUL
      /\ Len(c) < Len(buf) => buf[Len(c) + 1] = NUL
  BY CstrOf
<1> HIDE DEF c
<1>2. Len(buf) \in Nat /\ Len(t) \in Nat /\ \A k \in 1 .. Len(t) : t[k] \in Char /\ t[k] # NUL
  BY LenProperties, ElementOfSeq, CharsAssumption DEF Buf, Text
<1>3. Len(c) <= Len(t)
  BY <1>1, <1>2
<1>4. ~(Len(c) < Len(t))
  <2> SUFFICES ASSUME Len(c) < Len(t) PROVE FALSE
    OBVIOUS
  <2>1. Len(c) + 1 \in 1 .. Len(t) /\ buf[Len(c) + 1] = NUL
    BY <1>1, <1>2
  <2> QED
    BY <1>2, <2>1
<1>5. Len(c) = Len(t)
  BY <1>1, <1>2, <1>3, <1>4
<1>6. \A k \in 1 .. Len(c) : c[k] = t[k]
  BY <1>1, <1>2, <1>5
<1>7. c = t
  BY ONLY <1>1, <1>5, <1>6, t \in Text, SeqEqual DEF Text
<1> QED
  BY <1>7 DEF c

\* The doubling ends, and with more than n.
LEMMA CapaIs ==
  ASSUME NEW capa \in Nat \ {0}, NEW n \in Nat
  PROVE  Capa(capa, n) \in Nat /\ Capa(capa, n) > n /\ Capa(capa, n) >= capa
<1> DEFINE S == Nat \ {0}
           Stop == {c \in S : c > n}
           next == [c \in S |-> 2 * c]
           Z == {c \in S : c >= capa}
           Doubles(f) == f = [c \in S |-> IF c <= n THEN f[2 * c] ELSE c]
           double == CHOOSE f : Doubles(f)
<1>1. Ends(S, Stop, next)
  <2> SUFFICES ASSUME NEW T \in SUBSET S, T # {}
               PROVE  \E t \in T : t \in Stop \/ next[t] \notin T
    BY DEF Ends
  <2>1. CASE \E t \in T : t > n
    BY <2>1
  <2>2. CASE \A t \in T : t <= n
    <3> DEFINE D == {n - t : t \in T}
    <3>0. \A t \in T : t \in Nat /\ t > 0 /\ n - t \in Nat
      BY <2>2
    <3>1. D \in SUBSET Nat /\ D # {}
      BY <3>0
    <3>2. PICK d \in D : \A e \in D : d <= e
      BY ONLY <3>1, LeastNumber
    <3>3. PICK t \in T : d = n - t
      BY <3>2
    <3>4. t \in Nat /\ t > 0 /\ next[t] = 2 * t
      BY <3>3
    <3>5. ASSUME 2 * t \in T PROVE FALSE
      <4>1. n - 2 * t \in D
        BY <3>5
      <4>2. n - t <= n - 2 * t
        BY <3>2, <3>3, <4>1
      <4> HIDE DEF S, Stop, next, D
      <4> QED
        BY <3>4, <4>2
    <3> QED
      BY <3>4, <3>5
  <2> QED
    BY <2>1, <2>2
<1>2. Closed(S, Stop, next)
  BY DEF Closed
<1>3. \A c \in S : c \notin Stop <=> c <= n
  OBVIOUS
<1>4. \E f : Doubles(f)
  <2>1. PICK f : f = [c \in S |-> IF c \in Stop THEN c ELSE f[next[c]]]
    <3> HIDE DEF S, Stop, next
    <3> QED
      BY ONLY <1>1, <1>2, WalkExists
  <2>2. Doubles(f)
    BY <2>1
  <2> QED
    BY <2>2
<1>5. Doubles(double)
  BY <1>4
<1>6. \A c \in S : double[c] = IF c \in Stop THEN c ELSE double[next[c]]
  <2> HIDE DEF double
  <2>1. \A c \in S : double[c] = IF c <= n THEN double[2 * c] ELSE c
    BY <1>5
  <2> QED
    BY <2>1
<1>7. Z \in SUBSET S /\ Closed(Z, Stop, next) /\ capa \in Z
  BY DEF Closed
<1>8. double[capa] \in Z \cap Stop
  <2> HIDE DEF S, Stop, next, Z, double
  <2> QED
    BY ONLY <1>1, <1>6, <1>7, WalkStays
<1>9. Capa(capa, n) = double[capa]
  BY DEF Capa
<1> HIDE DEF double
<1> QED
  BY <1>8, <1>9

LEMMA FilledIs ==
  ASSUME NEW n \in Nat
  PROVE  Filled(n) \in Buf /\ Len(Filled(n)) = n
BY CharsAssumption DEF Filled, Buf

Sound(d) == d \in [ptr : Buf, len : Nat] /\ Len(d.ptr) \in Nat \ {0} /\ Terminated(d)

\* A new buffer has the text, and is terminated behind it.
LEMMA NewIs ==
  ASSUME NEW t \in Text
  PROVE  Sound(dstr_new(t)) /\ Cstr(dstr_new(t).ptr) = t
<1> DEFINE capa == Capa(DefaultSize, Len(t))
           one == t \o <<NUL>>
           all == one \o Filled(capa)
           ptr == SubSeq(all, 1, capa)
<1>1. DefaultSize \in Nat \ {0} /\ Len(t) \in Nat
  BY SizesAssumption, LenProperties DEF Text
<1>2. capa \in Nat /\ capa > Len(t) /\ capa >= DefaultSize
  BY <1>1, CapaIs
<1> HIDE DEF capa
<1>3. /\ one \in Buf /\ Len(one) = Len(t) + 1 /\ one[Len(t) + 1] = NUL
      /\ \A k \in 1 .. Len(t) : one[k] = t[k]
  <2>1. t \in Buf /\ <<NUL>> \in Buf /\ Len(<<NUL>>) = 1 /\ <<NUL>>[1] = NUL
    BY TextIsBuf DEF Buf
  <2>2. /\ one \in Buf /\ Len(one) = Len(t) + Len(<<NUL>>)
        /\ \A i \in 1 .. Len(t) + Len(<<NUL>>) :
             one[i] = IF i <= Len(t) THEN t[i] ELSE <<NUL>>[i - Len(t)]
    BY ONLY <2>1, ConcatProperties DEF Buf
  <2> QED
    BY <1>1, <2>1, <2>2
<1> HIDE DEF one
<1>4. /\ all \in Buf /\ Len(all) = Len(t) + 1 + capa
      /\ \A k \in 1 .. Len(t) + 1 : all[k] = one[k]
  <2>1. Filled(capa) \in Buf /\ Len(Filled(capa)) = capa
    BY <1>2, FilledIs
  <2>2. /\ all \in Buf /\ Len(all) = Len(one) + Len(Filled(capa))
        /\ \A i \in 1 .. Len(one) + Len(Filled(capa)) :
             all[i] = IF i <= Len(one) THEN one[i] ELSE Filled(capa)[i - Len(one)]
    BY ONLY <1>3, <2>1, ConcatProperties DEF Buf
  <2> QED
    BY <1>1, <1>2, <1>3, <2>1, <2>2
<1> HIDE DEF all
<1>5. /\ ptr \in Buf /\ Len(ptr) = capa
      /\ \A k \in 1 .. capa : ptr[k] = all[k]
  <2>1. 1 \in 1 .. Len(all) + 1 /\ capa \in 0 .. Len(all)
    BY <1>1, <1>2, <1>4
  <2>2. /\ ptr \in Buf
        /\ Len(ptr) = IF 1 <= capa THEN capa - 1 + 1 ELSE 0
        /\ \A i \in 1 .. capa - 1 + 1 : ptr[i] = all[1 + i - 1]
    BY ONLY <2>1, <1>4, Part DEF Buf
  <2> QED
    BY <1>1, <1>2, <2>2
<1> HIDE DEF ptr
<1>6. Cstr(ptr) = t
  <2>1. Len(t) < Len(ptr) /\ ptr[Len(t) + 1] = NUL /\ \A k \in 1 .. Len(t) : ptr[k] = t[k]
    BY <1>1, <1>2, <1>3, <1>4, <1>5
  <2> QED
    BY <1>5, <2>1, CstrIs
<1>7. dstr_new(t) = [ptr |-> ptr, len |-> Len(t)]
  BY DEF dstr_new, ptr, all, one, capa
<1> QED
  BY <1>1, <1>2, <1>3, <1>4, <1>5, <1>6, <1>7 DEF Sound, Terminated

\* What is written over a buffer that has the room for it.
LEMMA OverIs ==
  ASSUME NEW S, NEW d \in Seq(S), NEW t \in Seq(S), NEW pos \in 0 .. Len(d)
  PROVE  /\ Over(d, pos, t) \in Seq(S)
         /\ Len(Over(d, pos, t)) = IF pos + Len(t) <= Len(d) THEN Len(d) ELSE pos + Len(t)
         /\ \A k \in 1 .. Len(Over(d, pos, t)) :
              Over(d, pos, t)[k] = IF k <= pos THEN d[k]
                                   ELSE IF k <= pos + Len(t) THEN t[k - pos] ELSE d[k]
<1> DEFINE a == SubSeq(d, 1, pos)
           b == SubSeq(d, pos + Len(t) + 1, Len(d))
<1>1. Len(d) \in Nat /\ Len(t) \in Nat /\ pos \in Nat
  BY LenProperties
<1>2. a \in Seq(S) /\ Len(a) = pos /\ \A k \in 1 .. pos : a[k] = d[k]
  <2>1. 1 \in 1 .. Len(d) + 1
    BY <1>1
  <2>2. /\ a \in Seq(S) /\ Len(a) = IF 1 <= pos THEN pos - 1 + 1 ELSE 0
        /\ \A i \in 1 .. pos - 1 + 1 : a[i] = d[1 + i - 1]
    BY ONLY <2>1, pos \in 0 .. Len(d), d \in Seq(S), Part
  <2> QED
    BY <1>1, <2>2
<1>3. /\ b \in Seq(S) /\ Len(b) = IF pos + Len(t) <= Len(d) THEN Len(d) - (pos + Len(t)) ELSE 0
      /\ \A k \in 1 .. Len(b) : b[k] = d[pos + Len(t) + k]
  <2> DEFINE m == pos + Len(t) + 1
  <2>1. m \in Int /\ Len(d) \in Int /\ \A i \in m .. Len(d) : d[i] \in S
    BY <1>1, ElementOfSeq
  <2> HIDE DEF m
  <2>2. /\ SubSeq(d, m, Len(d)) \in Seq(S)
        /\ Len(SubSeq(d, m, Len(d))) = IF m <= Len(d) THEN Len(d) - m + 1 ELSE 0
        /\ \A i \in 1 .. Len(d) - m + 1 : SubSeq(d, m, Len(d))[i] = d[m + i - 1]
    BY ONLY <2>1, SubSeqProperties
  <2>3. b = SubSeq(d, m, Len(d)) /\ m = pos + Len(t) + 1
    BY DEF m
  <2> HIDE DEF b
  <2> QED
    BY <1>1, <2>2, <2>3
<1> DEFINE at == a \o t
<1>4. /\ at \in Seq(S) /\ Len(at) = pos + Len(t)
      /\ \A k \in 1 .. pos + Len(t) : at[k] = IF k <= pos THEN d[k] ELSE t[k - pos]
  <2> HIDE DEF a
  <2>1. /\ at \in Seq(S) /\ Len(at) = Len(a) + Len(t)
        /\ \A i \in 1 .. Len(a) + Len(t) : at[i] = IF i <= Len(a) THEN a[i] ELSE t[i - Len(a)]
    BY ONLY <1>2, t \in Seq(S), ConcatProperties
  <2> QED
    BY <1>1, <1>2, <2>1
<1> HIDE DEF a, b, at
<1> DEFINE w == at \o b
<1>5. /\ w \in Seq(S) /\ Len(w) = Len(at) + Len(b)
      /\ \A i \in 1 .. Len(at) + Len(b) : w[i] = IF i <= Len(at) THEN at[i] ELSE b[i - Len(at)]
  BY ONLY <1>3, <1>4, ConcatProperties
<1>6. Over(d, pos, t) = w
  BY DEF Over, w, at, a, b
<1> HIDE DEF w
<1>7. \A k \in 1 .. Len(w) : w[k] = IF k <= pos THEN d[k]
                                    ELSE IF k <= pos + Len(t) THEN t[k - pos] ELSE d[k]
  <2> SUFFICES ASSUME NEW k \in 1 .. Len(w)
               PROVE  w[k] = IF k <= pos THEN d[k]
                             ELSE IF k <= pos + Len(t) THEN t[k - pos] ELSE d[k]
    OBVIOUS
  <2>1. CASE k <= pos + Len(t)
    BY <1>1, <1>4, <1>5, <2>1
  <2>2. CASE k > pos + Len(t)
    <3>0. Len(b) \in Nat /\ Len(at) = pos + Len(t) /\ Len(w) = Len(at) + Len(b) /\ k \in Nat
      BY <1>1, <1>3, <1>4, <1>5
    <3>1. k - Len(at) \in 1 .. Len(b) /\ k \in Nat
      BY <1>1, <2>2, <3>0
    <3>2. w[k] = b[k - Len(at)]
      BY <1>1, <1>5, <2>2, <3>0
    <3>3. b[k - Len(at)] = d[pos + Len(t) + (k - Len(at))] /\ pos + Len(t) + (k - Len(at)) = k
      BY <1>1, <1>3, <1>4, <3>1
    <3> QED
      BY <1>1, <2>2, <3>1, <3>2, <3>3
  <2> QED
    BY <1>1, <2>1, <2>2
<1>8. Len(w) = IF pos + Len(t) <= Len(d) THEN Len(d) ELSE pos + Len(t)
  <2>1. /\ Len(w) = Len(at) + Len(b) /\ Len(at) = pos + Len(t)
        /\ Len(b) = IF pos + Len(t) <= Len(d) THEN Len(d) - (pos + Len(t)) ELSE 0
    BY <1>3, <1>4, <1>5
  <2>2. CASE pos + Len(t) <= Len(d)
    BY ONLY <1>1, <2>1, <2>2
  <2>3. CASE ~(pos + Len(t) <= Len(d))
    BY ONLY <1>1, <2>1, <2>3
  <2> QED
    BY ONLY <2>2, <2>3
<1> QED
  BY ONLY <1>5, <1>6, <1>7, <1>8

\* Concatenation appends, and makes room where there is none.
LEMMA AppendedTo ==
  ASSUME NEW d, Sound(d), NEW t \in Text
  PROVE  Sound(dstrcat(d, t)) /\ Cstr(dstrcat(d, t).ptr) = Cstr(d.ptr) \o t
<1> DEFINE end == d.len + Len(t)
           c == Cstr(d.ptr)
           big == dstr_grow_by(d, Len(t))
           buf == (IF end >= Len(d.ptr) THEN big ELSE d).ptr
           over == Over(buf, Len(Cstr(buf)), t \o <<NUL>>)
           done == [over EXCEPT ![end + 1] = NUL]
<1>1. /\ d.ptr \in Buf /\ d.len \in Nat /\ Len(d.ptr) \in Nat \ {0} /\ Len(t) \in Nat
      /\ d.len < Len(d.ptr) /\ d.ptr[d.len + 1] = NUL /\ Len(c) = d.len
      /\ c \in Text /\ \A k \in 1 .. d.len : c[k] = d.ptr[k]
  BY CstrOf, LenProperties DEF Sound, Terminated, Text
<1> HIDE DEF c
<1>2. /\ buf \in Buf /\ Len(buf) \in Nat /\ end < Len(buf) /\ Len(d.ptr) <= Len(buf)
      /\ \A k \in 1 .. Len(d.ptr) : buf[k] = d.ptr[k]
  <2>1. CASE end < Len(d.ptr)
    <3>1. buf = d.ptr
      BY <1>1, <2>1
    <3> QED
      BY <1>1, <2>1, <3>1
  <2>2. CASE end >= Len(d.ptr)
    <3> DEFINE capa == Capa(Len(d.ptr), end)
               more == Filled(capa - Len(d.ptr))
    <3>1. buf = d.ptr \o more
      BY <2>2 DEF dstr_grow_by
    <3>2. end \in Nat
      BY <1>1
    <3>3. capa \in Nat /\ capa > end /\ capa >= Len(d.ptr)
      BY <1>1, <3>2, CapaIs
    <3> HIDE DEF capa, end, buf
    <3>4. capa - Len(d.ptr) \in Nat
      BY <1>1, <3>3
    <3>5. more \in Buf /\ Len(more) = capa - Len(d.ptr)
      BY <3>4, FilledIs
    <3> HIDE DEF more
    <3>6. /\ buf \in Buf /\ Len(buf) = Len(d.ptr) + Len(more)
          /\ \A i \in 1 .. Len(d.ptr) + Len(more) :
               buf[i] = IF i <= Len(d.ptr) THEN d.ptr[i] ELSE more[i - Len(d.ptr)]
      <4>1. d.ptr \in Seq(Char \cup {NUL}) /\ more \in Seq(Char \cup {NUL})
        BY <1>1, <3>5 DEF Buf
      <4> QED
        BY ONLY <3>1, <4>1, ConcatProperties DEF Buf
    <3>7. Len(buf) = capa
      BY <1>1, <3>3, <3>5, <3>6
    <3>8. \A k \in 1 .. Len(d.ptr) : buf[k] = d.ptr[k]
      BY <1>1, <3>3, <3>5, <3>6
    <3> QED
      BY <1>1, <3>2, <3>3, <3>6, <3>7, <3>8
  <2> QED
    BY <1>1, <2>1, <2>2
<1> HIDE DEF buf
<1>3. Cstr(buf) = c
  <2>1. Len(c) < Len(buf)
    BY <1>1, <1>2
  <2>2. buf[Len(c) + 1] = NUL
    <3>1. Len(c) + 1 \in 1 .. Len(d.ptr)
      BY <1>1
    <3> QED
      BY <1>1, <1>2, <3>1
  <2>3. \A k \in 1 .. Len(c) : buf[k] = c[k]
    <3>1. \A k \in 1 .. Len(c) : k \in 1 .. Len(d.ptr)
      BY <1>1
    <3> QED
      BY <1>1, <1>2, <3>1
  <2> QED
    BY ONLY <1>1, <1>2, <2>1, <2>2, <2>3, CstrIs
<1> DEFINE one == t \o <<NUL>>
<1>4. /\ one \in Buf /\ Len(one) = Len(t) + 1 /\ one[Len(t) + 1] = NUL
      /\ \A k \in 1 .. Len(t) : one[k] = t[k]
  <2>1. t \in Buf /\ <<NUL>> \in Buf /\ Len(<<NUL>>) = 1 /\ <<NUL>>[1] = NUL
    BY TextIsBuf DEF Buf
  <2>2. /\ one \in Buf /\ Len(one) = Len(t) + Len(<<NUL>>)
        /\ \A i \in 1 .. Len(t) + Len(<<NUL>>) :
             one[i] = IF i <= Len(t) THEN t[i] ELSE <<NUL>>[i - Len(t)]
    BY ONLY <2>1, ConcatProperties DEF Buf
  <2> QED
    BY <1>1, <2>1, <2>2
<1> HIDE DEF one
<1> DEFINE n == Len(t)
           m == d.len
<1>5. /\ over \in Buf /\ Len(over) = Len(buf)
      /\ \A k \in 1 .. Len(buf) : over[k] = IF k <= m THEN buf[k]
                                            ELSE IF k <= m + (n + 1) THEN one[k - m] ELSE buf[k]
  <2>1. over = Over(buf, m, one)
    BY <1>1, <1>3 DEF one
  <2>2. m \in 0 .. Len(buf) /\ m + Len(one) <= Len(buf) /\ Len(one) = n + 1
    BY <1>1, <1>2, <1>4
  <2> HIDE DEF over, m, n
  <2>3. /\ over \in Buf
        /\ Len(over) = IF m + Len(one) <= Len(buf) THEN Len(buf) ELSE m + Len(one)
        /\ \A k \in 1 .. Len(over) :
             over[k] = IF k <= m THEN buf[k] ELSE IF k <= m + Len(one) THEN one[k - m] ELSE buf[k]
    BY ONLY <1>2, <1>4, <2>1, <2>2, OverIs DEF Buf
  <2> QED
    BY <2>2, <2>3
<1> HIDE DEF over
<1>6. /\ done \in Buf /\ Len(done) = Len(buf) /\ done[m + n + 1] = NUL
      /\ \A k \in 1 .. m + n : done[k] = over[k]
  <2>1. end + 1 \in 1 .. Len(over) /\ NUL \in Char \cup {NUL} /\ end = m + n
    BY <1>1, <1>2, <1>5
  <2>2. /\ done \in Buf /\ Len(done) = Len(over)
        /\ \A j \in 1 .. Len(over) : done[j] = IF j = end + 1 THEN NUL ELSE over[j]
    BY ONLY <1>5, <2>1, ExceptSeq DEF Buf
  <2> QED
    BY <1>1, <1>2, <1>5, <2>1, <2>2
<1> HIDE DEF done
<1> DEFINE ct == c \o t
<1>7. /\ ct \in Text /\ Len(ct) = m + n
      /\ \A k \in 1 .. m + n : ct[k] = IF k <= m THEN c[k] ELSE t[k - m]
  <2>1. /\ ct \in Text /\ Len(ct) = Len(c) + Len(t)
        /\ \A i \in 1 .. Len(c) + Len(t) : ct[i] = IF i <= Len(c) THEN c[i] ELSE t[i - Len(c)]
    BY ONLY <1>1, t \in Text, ConcatProperties DEF Text
  <2> QED
    BY <1>1, <2>1
<1> HIDE DEF ct
<1>8. \A k \in 1 .. m + n : done[k] = ct[k]
  <2> SUFFICES ASSUME NEW k \in 1 .. m + n PROVE done[k] = ct[k]
    OBVIOUS
  <2>0. k \in Nat /\ m \in Nat /\ n \in Nat /\ k \in 1 .. Len(buf)
    BY <1>1, <1>2
  <2>1. CASE k <= m
    BY <1>1, <1>2, <1>5, <1>6, <1>7, <2>0, <2>1
  <2>2. CASE k > m
    <3>1. k - m \in 1 .. n
      BY <2>0, <2>2
    <3>2. done[k] = one[k - m]
      <4>1. done[k] = over[k]
        BY <1>6
      <4>2. k <= m + (n + 1) /\ ~(k <= m)
        BY <2>0, <2>2
      <4>3. over[k] = one[k - m]
        BY <1>5, <2>0, <4>2
      <4> QED
        BY <4>1, <4>3
    <3>3. ct[k] = t[k - m]
      BY <1>7, <2>0, <2>2
    <3> QED
      BY <1>4, <3>1, <3>2, <3>3
  <2> QED
    BY <2>0, <2>1, <2>2
<1>9. Cstr(done) = ct
  <2>1. Len(ct) < Len(done)
    BY <1>1, <1>2, <1>6, <1>7
  <2>2. done[Len(ct) + 1] = NUL
    BY <1>6, <1>7
  <2> HIDE DEF m, n
  <2>3. \A k \in 1 .. Len(ct) : done[k] = ct[k]
    BY <1>7, <1>8
  <2> QED
    BY ONLY <1>6, <1>7, <2>1, <2>2, <2>3, CstrIs
<1>10. dstrcat(d, t) = [ptr |-> done, len |-> Len(ct)]
  <2>1. dstrcat(d, t) = [ptr |-> done, len |-> Len(Cstr(done))]
    BY DEF dstrcat, done, over, buf
  <2> QED
    BY <1>9, <2>1
<1> DEFINE r == dstrcat(d, t)
<1>11. r.ptr = done /\ r.len = Len(ct) /\ r = [ptr |-> done, len |-> Len(ct)]
  BY <1>10
<1> HIDE DEF r
<1>12. /\ Len(ct) \in Nat /\ Len(done) \in Nat \ {0} /\ Len(ct) < Len(done)
       /\ done[Len(ct) + 1] = NUL
  BY <1>1, <1>2, <1>6, <1>7
<1>13. Sound(r)
  BY <1>6, <1>9, <1>11, <1>12 DEF Sound, Terminated
<1> QED
  BY <1>9, <1>11, <1>13 DEF r, ct, c

----------------------------------------------------------------------------
(* Recursive functions on numbers *)

\* What is true of a, and with each number of the next, is true up to b.
LEMMA UpTo ==
  ASSUME NEW a \in Int, NEW b \in Int, NEW P,
         a \in P, \A k \in a + 1 .. b : k - 1 \in P => k \in P
  PROVE  \A k \in a .. b : k \in P
<1> DEFINE Q == {n \in Nat : a + n <= b => a + n \in P}
<1>1. 0 \in Q
  OBVIOUS
<1>2. ASSUME NEW n \in Nat, n \in Q PROVE n + 1 \in Q
  <2>1. ASSUME a + (n + 1) <= b PROVE a + (n + 1) \in P
    <3>1. a + (n + 1) \in a + 1 .. b /\ a + (n + 1) - 1 = a + n /\ a + n <= b
      BY <2>1
    <3>2. a + n \in P
      BY <1>2, <3>1
    <3> QED
      BY <3>1, <3>2
  <2> QED
    BY <2>1
<1>3. Nat \subseteq Q
  <2> HIDE DEF Q
  <2> QED
    BY ONLY <1>1, <1>2, InductiveSet
<1> SUFFICES ASSUME NEW k \in a .. b PROVE k \in P
  OBVIOUS
<1>4. k - a \in Nat /\ a + (k - a) = k /\ k <= b
  OBVIOUS
<1> QED
  BY <1>3, <1>4

\* A product is a text.
LEMMA MultiplyIsText ==
  ASSUME NEW t \in Text, NEW n \in Nat
  PROVE  string_multiply(t, n) \in Text
<1> DEFINE Def(f) == f = [k \in 0..n |-> IF k = 0 THEN <<>> ELSE f[k - 1] \o t]
           step == [p \in Int \X Text |-> p[2] \o t]
           buf == CHOOSE f : Def(f)
<1>0. <<>> \in Text /\ \A s \in Text : s \o t \in Text
  BY EmptySeq, ConcatProperties DEF Text
<1>1. step \in [Int \X Text -> Text] /\ \A k \in Int : \A s \in Text : step[k, s] = s \o t
  BY <1>0
<1> HIDE DEF step
<1>2. \E f : Def(f)
  <2>0. 0 \in Int /\ n \in Int
    OBVIOUS
  <2>1. PICK f : Recursive(f, 0..n, 0, <<>>, step) /\ \A k \in 0..n : f[k] \in Text
    BY ONLY <1>0, <1>1, <2>0, NumberRecursion
  <2>2. ASSUME NEW k \in 0..n, k # 0 PROVE step[k, f[k - 1]] = f[k - 1] \o t
    <3>1. k \in Int /\ k - 1 \in 0..n
      BY <2>2
    <3> QED
      BY <1>1, <2>1, <3>1
  <2>3. Def(f)
    BY <2>1, <2>2 DEF Recursive
  <2> QED
    BY <2>3
<1>3. Def(buf)
  BY <1>2
<1> HIDE DEF buf
<1>4. \A k \in 0..n : buf[k] = IF k = 0 THEN <<>> ELSE buf[k - 1] \o t
  BY <1>3
<1> DEFINE P == {k \in 0..n : buf[k] \in Text}
<1>5. 0 \in P
  BY <1>0, <1>4
<1>6. \A k \in 0 + 1 .. n : k - 1 \in P => k \in P
  BY <1>0, <1>4
<1>7. \A k \in 0 .. n : k \in P
  <2> HIDE DEF P
  <2> QED
    BY <1>5, <1>6, UpTo
<1>8. string_multiply(t, n) = buf[n]
  BY DEF string_multiply, buf
<1> QED
  BY <1>7, <1>8

\* The text without the n characters from place on.
Removed(t, place, n) == [i \in 1 .. Len(t) - n |-> IF i < place THEN t[i] ELSE t[i + n]]

LEMMA RemovedIs ==
  ASSUME NEW t \in Text, NEW n \in 1 .. Len(t), NEW place \in 1 .. Len(t) - n + 1
  PROVE  /\ Removed(t, place, n) \in Text
         /\ Len(Removed(t, place, n)) = Len(t) - n
         /\ \A i \in 1 .. Len(t) - n :
              Removed(t, place, n)[i] = IF i < place THEN t[i] ELSE t[i + n]
<1>1. Len(t) \in Nat /\ Len(t) - n \in Nat /\ \A i \in 1 .. Len(t) : t[i] \in Char
  BY LenProperties, ElementOfSeq DEF Text
<1>2. \A i \in 1 .. Len(t) - n : Removed(t, place, n)[i] \in Char
  BY <1>1 DEF Removed
<1> QED
  BY <1>1, <1>2 DEF Removed, Text

\* The loop that moves the rest down takes n characters out.
LEMMA MoveDownRemoves ==
  ASSUME NEW t \in Text, NEW n \in 1 .. Len(t), NEW place \in 1 .. Len(t) - n + 1
  PROVE  Cstr(MoveDown(t \o <<NUL>>, place, n)) = Removed(t, place, n)
<1> DEFINE buf == t \o <<NUL>>
           C == Char \cup {NUL}
           N == Len(t) + 1
           last == N - n
           Cell == [buf : [1..N -> C], done : BOOLEAN]
           base == [buf |-> buf, done |-> FALSE]
           Moved(k, s) == IF s.done THEN s
                          ELSE [buf  |-> [s.buf EXCEPT ![k] = s.buf[k + n], ![k + n] = NUL],
                                done |-> s.buf[k + n] = NUL]
           Def(f) == f = [k \in place - 1 .. last |->
                            IF k = place - 1 THEN base ELSE Moved(k, f[k - 1])]
           step == [p \in Int \X Cell |-> IF p[1] \in place .. last THEN Moved(p[1], p[2]) ELSE p[2]]
           ptr == CHOOSE f : Def(f)
<1>1. Len(t) \in Nat /\ n \in Nat /\ place \in Nat /\ N \in Nat /\ \A i \in 1 .. Len(t) : t[i] \in Char /\ t[i] # NUL
  BY LenProperties, ElementOfSeq, CharsAssumption DEF Text
<1>2. /\ buf \in Buf /\ Len(buf) = N /\ buf[N] = NUL /\ \A i \in 1 .. Len(t) : buf[i] = t[i]
      /\ buf \in [1..N -> C]
  <2>1. t \in Buf /\ <<NUL>> \in Buf /\ Len(<<NUL>>) = 1 /\ <<NUL>>[1] = NUL
    BY TextIsBuf DEF Buf
  <2>2. /\ buf \in Buf /\ Len(buf) = Len(t) + Len(<<NUL>>)
        /\ \A i \in 1 .. Len(t) + Len(<<NUL>>) :
             buf[i] = IF i <= Len(t) THEN t[i] ELSE <<NUL>>[i - Len(t)]
    BY ONLY <2>1, ConcatProperties DEF Buf
  <2>3. buf \in [1..Len(buf) -> C]
    BY ONLY <2>2, LenProperties DEF Buf
  <2> QED
    BY <1>1, <2>1, <2>2, <2>3
<1> HIDE DEF buf
<1>3. \A i \in 1..N : buf[i] = NUL <=> i = N
  BY <1>1, <1>2
<1>4. base \in Cell
  BY <1>2
<1>5. ASSUME NEW k \in place .. last, NEW s \in Cell PROVE Moved(k, s) \in Cell
  <2>1. k \in 1..N /\ k + n \in 1..N
    BY <1>1
  <2>2. s.buf[k + n] \in C /\ NUL \in C
    BY <2>1
  <2>3. [s.buf EXCEPT ![k] = s.buf[k + n], ![k + n] = NUL] \in [1..N -> C]
    BY <2>1, <2>2
  <2> QED
    BY <2>3
<1> HIDE DEF Moved, base
<1>6. step \in [Int \X Cell -> Cell] /\ \A k \in place .. last : \A s \in Cell : step[k, s] = Moved(k, s)
  <2>1. \A p \in Int \X Cell : (IF p[1] \in place .. last THEN Moved(p[1], p[2]) ELSE p[2]) \in Cell
    <3> HIDE DEF Cell, last
    <3> QED
      BY <1>5
  <2>2. place \in Int /\ last \in Int
    BY <1>1
  <2> HIDE DEF Cell, last
  <2>3. step \in [Int \X Cell -> Cell]
    BY <2>1
  <2>4. ASSUME NEW k \in place .. last, NEW s \in Cell PROVE step[k, s] = Moved(k, s)
    <3>1. <<k, s>> \in Int \X Cell
      BY <2>2
    <3> QED
      BY <3>1
  <2> QED
    BY <2>3, <2>4
<1> HIDE DEF step
<1>7. \E f : Def(f)
  <2>0. place - 1 \in Int /\ last \in Int
    BY <1>1
  <2> HIDE DEF Cell, last
  <2>1. PICK f : /\ Recursive(f, place - 1 .. last, place - 1, base, step)
                 /\ \A k \in place - 1 .. last : f[k] \in Cell
    BY ONLY <1>4, <1>6, <2>0, NumberRecursion
  <2>2. ASSUME NEW k \in place - 1 .. last, k # place - 1
        PROVE  step[k, f[k - 1]] = Moved(k, f[k - 1])
    <3>1. k \in place .. last /\ k - 1 \in place - 1 .. last
      BY <1>1, <2>0, <2>2
    <3> QED
      BY <1>6, <2>1, <3>1
  <2>3. f = [k \in place - 1 .. last |-> IF k = place - 1 THEN base ELSE step[k, f[k - 1]]]
    BY <2>1 DEF Recursive
  <2>4. Def(f)
    BY <2>2, <2>3
  <2> QED
    BY <2>4
<1>8. Def(ptr)
  BY <1>7
<1> HIDE DEF ptr
<1>9. \A k \in place - 1 .. last : ptr[k] = IF k = place - 1 THEN base ELSE Moved(k, ptr[k - 1])
  BY <1>8
<1> DEFINE Good(k, b) == /\ b \in [1..N -> C]
                         /\ \A i \in 1 .. place - 1 : b[i] = buf[i]
                         /\ \A i \in place .. k : b[i] = buf[i + n]
                         /\ \A i \in k + n + 1 .. N : b[i] = buf[i]
           P == {k \in place - 1 .. last : Good(k, ptr[k].buf) /\ (ptr[k].done <=> k = last)}
<1>10. place - 1 \in P
  <2>1. place - 1 \in place - 1 .. last /\ place - 1 # last
    BY <1>1
  <2>2. ptr[place - 1] = base
    BY <1>9, <2>1
  <2>3. ptr[place - 1].buf = buf /\ ptr[place - 1].done = FALSE
    BY <2>2 DEF base
  <2>4. Good(place - 1, buf)
    BY <1>1, <1>2
  <2> HIDE DEF Good, last
  <2> QED
    BY <2>1, <2>3, <2>4
<1>11. ASSUME NEW k \in place - 1 + 1 .. last, k - 1 \in P PROVE k \in P
  <2> DEFINE b == ptr[k - 1].buf
             c == [b EXCEPT ![k] = b[k + n], ![k + n] = NUL]
  <2>1. /\ k \in 1..N /\ k + n \in 1..N /\ k # place - 1 /\ k - 1 # last
        /\ k \in place .. last /\ k \in place - 1 .. last /\ k # k + n
    BY <1>1
  <2>2. Good(k - 1, b) /\ ~ptr[k - 1].done
    BY <1>11, <2>1
  <2>3. ptr[k] = Moved(k, ptr[k - 1])
    BY <1>9, <2>1
  <2>4. ptr[k] = [buf |-> c, done |-> b[k + n] = NUL]
    BY <2>2, <2>3 DEF Moved
  <2> HIDE DEF b
  <2>5. b[k + n] = buf[k + n]
    <3>1. k + n \in k - 1 + n + 1 .. N
      BY <1>1, <2>1
    <3> QED
      BY <2>2, <3>1
  <2>6. (b[k + n] = NUL) <=> k = last
    BY <1>1, <1>3, <2>1, <2>5
  <2>7. Good(k, c)
    <3>1. /\ c \in [1..N -> C]
          /\ \A i \in 1..N : c[i] = IF i = k + n THEN NUL ELSE IF i = k THEN buf[k + n] ELSE b[i]
      BY <2>1, <2>2, <2>5
    <3> HIDE DEF c
    <3>2. \A i \in 1 .. place - 1 : c[i] = buf[i]
      BY <1>1, <2>1, <2>2, <3>1
    <3>3. ASSUME NEW i \in place .. k PROVE c[i] = buf[i + n]
      <4>1. i \in 1..N /\ i # k + n /\ (i # k => i \in place .. k - 1)
        BY <1>1, <2>1
      <4> QED
        BY <2>2, <3>1, <4>1
    <3>4. \A i \in k + n + 1 .. N : c[i] = buf[i]
      BY <1>1, <2>1, <2>2, <3>1
    <3> QED
      BY <3>1, <3>2, <3>3, <3>4
  <2>8. ptr[k].buf = c /\ ptr[k].done = (b[k + n] = NUL)
    BY <2>4
  <2> HIDE DEF Good, last, c
  <2> QED
    BY <2>1, <2>6, <2>7, <2>8
<1>12. last \in P
  <2>1. place - 1 \in Int /\ last \in Int /\ last \in place - 1 .. last
    BY <1>1
  <2> HIDE DEF P, last
  <2> QED
    BY ONLY <1>10, <1>11, <2>1, UpTo
<1> DEFINE b == ptr[last].buf
           r == Removed(t, place, n)
<1>13. Good(last, b)
  BY <1>12
<1>14. MoveDown(t \o <<NUL>>, place, n) = b
  <2>1. last = Len(t \o <<NUL>>) - n
    BY <1>2 DEF buf
  <2> HIDE DEF last
  <2> QED
    BY <2>1 DEF MoveDown, b, ptr, Moved, base, buf
<1> HIDE DEF b
<1>15. /\ r \in Text /\ Len(r) = Len(t) - n
       /\ \A i \in 1 .. Len(t) - n : r[i] = IF i < place THEN t[i] ELSE t[i + n]
  BY RemovedIs
<1> HIDE DEF r
<1>16. b \in Buf /\ Len(b) = N
  BY <1>1, <1>13 DEF Buf
<1>17. Len(r) < Len(b) /\ Len(r) + 1 = last
  BY <1>1, <1>15, <1>16
<1>18. b[Len(r) + 1] = NUL
  <2>1. last \in place .. last /\ last + n = N
    BY <1>1
  <2>2. b[last] = buf[last + n]
    BY <1>13, <2>1
  <2> QED
    BY <1>2, <1>17, <2>1, <2>2
<1>19. \A i \in 1 .. Len(r) : b[i] = r[i]
  <2> SUFFICES ASSUME NEW i \in 1 .. Len(r) PROVE b[i] = r[i]
    OBVIOUS
  <2>1. CASE i < place
    <3>1. i \in 1 .. place - 1 /\ i \in 1 .. Len(t) /\ i \in 1 .. Len(t) - n
      BY <1>1, <1>15, <2>1
    <3> QED
      BY <1>2, <1>13, <1>15, <2>1, <3>1
  <2>2. CASE i >= place
    <3>1. i \in place .. last /\ i + n \in 1 .. Len(t) /\ i \in 1 .. Len(t) - n /\ ~(i < place)
      BY <1>1, <1>15, <2>2
    <3> QED
      BY <1>2, <1>13, <1>15, <3>1
  <2> QED
    BY <1>1, <1>15, <2>1, <2>2
<1>20. Cstr(b) = r
  <2> HIDE DEF N
  <2> QED
    BY ONLY <1>15, <1>16, <1>17, <1>18, <1>19, CstrIs
<1> QED
  BY <1>14, <1>20 DEF r

----------------------------------------------------------------------------
(* Subtraction *)

\* strstr finds the first place.
LEMMA StrstrIs ==
  ASSUME NEW t \in Text, NEW u \in Text, Found(t, u)
  PROVE  /\ strstr(t, u) \in 1 .. Len(t) - Len(u) + 1
         /\ Len(u) \in 0 .. Len(t)
         /\ \A i \in 1 .. Len(u) : t[strstr(t, u) + i - 1] = u[i]
<1> DEFINE place == strstr(t, u)
<1>1. Len(t) \in Nat /\ Len(u) \in Nat
  BY LenProperties DEF Text
<1>2. Places(t, u) \in SUBSET Nat /\ Places(t, u) # {}
  BY <1>1 DEF Found, Places
<1>3. place \in Places(t, u)
  BY <1>2, LeastNumber DEF strstr
<1> HIDE DEF place
<1>4. place \in 1 .. Len(t) - Len(u) + 1 /\ SubSeq(t, place, place + Len(u) - 1) = u
  BY <1>3 DEF Places
<1>5. Len(u) \in 0 .. Len(t)
  BY <1>1, <1>4
<1>6. ASSUME NEW i \in 1 .. Len(u) PROVE t[place + i - 1] = u[i]
  <2> DEFINE last == place + Len(u) - 1
  <2>1. place \in 1 .. Len(t) + 1 /\ last \in 0 .. Len(t)
    BY <1>1, <1>4, <1>6
  <2> HIDE DEF last
  <2>2. \A j \in 1 .. last - place + 1 : SubSeq(t, place, last)[j] = t[place + j - 1]
    BY ONLY t \in Text, <2>1, Part DEF Text
  <2>3. last - place + 1 = Len(u)
    BY <1>1, <1>4 DEF last
  <2>4. SubSeq(t, place, last) = u
    BY <1>4 DEF last
  <2> QED
    BY <2>2, <2>3, <2>4
<1> QED
  BY <1>4, <1>5, <1>6 DEF place

\* What is in a text is in what is taken out of it or in the rest.
LEMMA RemovedCounts ==
  ASSUME NEW t \in Text, NEW u \in Text, Len(u) \in 1 .. Len(t),
         NEW place \in 1 .. Len(t) - Len(u) + 1,
         \A i \in 1 .. Len(u) : t[place + i - 1] = u[i], NEW c \in Char
  PROVE  /\ Count(Removed(t, place, Len(u)), c) + Count(u, c) = Count(t, c)
         /\ Count(Removed(t, place, Len(u)), c) \in Nat /\ Count(u, c) \in Nat
<1> DEFINE n == Len(u)
           r == Removed(t, place, n)
           T == {k \in 1 .. Len(t) : t[k] = c}
           U == {k \in 1 .. n : u[k] = c}
           R == {k \in 1 .. Len(t) - n : r[k] = c}
           In == {k \in T : k >= place /\ k < place + n}
           Out == {k \in T : k < place \/ k >= place + n}
           f == [k \in U |-> k + place - 1]
           g == [k \in R |-> IF k < place THEN k ELSE k + n]
<1>1. Len(t) \in Nat /\ n \in Nat /\ n >= 1 /\ n <= Len(t) /\ place \in Nat
  BY LenProperties DEF Text
<1>2. /\ r \in Text /\ Len(r) = Len(t) - n
      /\ \A i \in 1 .. Len(t) - n : r[i] = IF i < place THEN t[i] ELSE t[i + n]
  BY RemovedIs
<1> HIDE DEF r
<1>3. DOMAIN t = 1 .. Len(t) /\ DOMAIN u = 1 .. n /\ DOMAIN r = 1 .. Len(t) - n
  BY <1>2, LenProperties DEF Text
<1>4. Count(t, c) = Cardinality(T) /\ Count(u, c) = Cardinality(U) /\ Count(r, c) = Cardinality(R)
  BY <1>3 DEF Count
<1>5. \A k \in 1 .. n : t[k + place - 1] = u[k]
  BY <1>1
<1> HIDE DEF n
<1>6. IsFiniteSet(T) /\ IsFiniteSet(U) /\ IsFiniteSet(R) /\ IsFiniteSet(In) /\ IsFiniteSet(Out)
  <2>1. IsFiniteSet(1 .. Len(t)) /\ IsFiniteSet(1 .. n) /\ IsFiniteSet(1 .. Len(t) - n)
    BY <1>1, FS_Interval
  <2>2. /\ T \in SUBSET (1 .. Len(t)) /\ U \in SUBSET (1 .. n) /\ R \in SUBSET (1 .. Len(t) - n)
        /\ In \in SUBSET (1 .. Len(t)) /\ Out \in SUBSET (1 .. Len(t))
    OBVIOUS
  <2> HIDE DEF T, U, R, In, Out
  <2> QED
    BY <2>1, <2>2, FS_Subset
<1>7. Cardinality(U) = Cardinality(In)
  <2>1. f \in [U -> In]
    <3> SUFFICES ASSUME NEW k \in U PROVE k + place - 1 \in In
      OBVIOUS
    <3>1. k \in 1 .. n /\ u[k] = c /\ t[k + place - 1] = u[k]
      BY <1>5
    <3>2. k + place - 1 \in 1 .. Len(t) /\ k + place - 1 >= place /\ k + place - 1 < place + n
      BY <1>1, <3>1 DEF n
    <3> QED
      BY <3>1, <3>2
  <2>2. \A a, b \in U : f[a] = f[b] => a = b
    BY <1>1
  <2>3. ASSUME NEW k \in In PROVE \E a \in U : f[a] = k
    <3>1. k - place + 1 \in 1 .. n /\ k - place + 1 + place - 1 = k
      BY <1>1
    <3>2. t[k - place + 1 + place - 1] = u[k - place + 1]
      BY <1>5, <3>1
    <3>3. k - place + 1 \in U
      BY <3>1, <3>2
    <3> QED
      BY <3>1, <3>3
  <2> HIDE DEF U, In, f
  <2>4. f \in Bijection(U, In)
    BY <2>1, <2>2, <2>3 DEF Bijection, Injection, Surjection, IsInjective
  <2> QED
    BY <1>6, <2>4, FS_Bijection DEF ExistsBijection
<1>8. Cardinality(R) = Cardinality(Out)
  <2>1. g \in [R -> Out]
    <3> SUFFICES ASSUME NEW k \in R PROVE (IF k < place THEN k ELSE k + n) \in Out
      OBVIOUS
    <3>1. k \in 1 .. Len(t) - n /\ r[k] = c
      OBVIOUS
    <3>2. CASE k < place
      <4>1. k \in 1 .. Len(t) /\ t[k] = c
        BY <1>1, <1>2, <3>1, <3>2
      <4> QED
        BY <3>2, <4>1
    <3>3. CASE k >= place
      <4>1. ~(k < place) /\ k + n \in 1 .. Len(t) /\ k + n >= place + n
        BY <1>1, <3>1, <3>3
      <4>2. t[k + n] = c
        BY <1>2, <3>1, <4>1
      <4> QED
        BY <4>1, <4>2
    <3> QED
      BY <1>1, <3>1, <3>2, <3>3
  <2>2. \A a, b \in R : g[a] = g[b] => a = b
    BY <1>1
  <2>3. ASSUME NEW k \in Out PROVE \E a \in R : g[a] = k
    <3>1. CASE k < place
      <4>1. k \in 1 .. Len(t) - n /\ t[k] = c
        BY <1>1, <3>1 DEF n
      <4>2. k \in R
        BY <1>2, <3>1, <4>1
      <4> QED
        BY <3>1, <4>2
    <3>2. CASE k >= place + n
      <4>1. k - n \in 1 .. Len(t) - n /\ t[k - n + n] = c /\ ~(k - n < place) /\ k - n + n = k
        BY <1>1, <3>2
      <4>2. k - n \in R
        BY <1>2, <4>1
      <4> QED
        BY <4>1, <4>2
    <3> QED
      BY <3>1, <3>2
  <2> HIDE DEF R, Out, g
  <2>4. g \in Bijection(R, Out)
    BY <2>1, <2>2, <2>3 DEF Bijection, Injection, Surjection, IsInjective
  <2> QED
    BY <1>6, <2>4, FS_Bijection DEF ExistsBijection
<1>9. In \cup Out = T /\ In \cap Out = {}
  <2>1. \A k \in T : k \in Nat
    OBVIOUS
  <2> QED
    BY <1>1, <2>1
<1> HIDE DEF T, U, R, In, Out
<1>10. /\ Cardinality(T) = Cardinality(In) + Cardinality(Out) - Cardinality(In \cap Out)
       /\ Cardinality(In \cap Out) = 0
       /\ Cardinality(In) \in Nat /\ Cardinality(Out) \in Nat
  BY <1>6, <1>9, FS_Union, FS_EmptySet, FS_CardinalityType
<1> QED
  BY <1>4, <1>7, <1>8, <1>10 DEF n, r

\* One round takes the first place out, if there is one.
Less(s, u) == IF Found(s, u) THEN Cstr(MoveDown(s \o <<NUL>>, strstr(s, u), Len(u))) ELSE s

LEMMA LessIs ==
  ASSUME NEW s \in Text, NEW u \in Text, u # <<>>
  PROVE  /\ Less(s, u) \in Text
         /\ Found(s, u) => /\ Len(Less(s, u)) = Len(s) - Len(u)
                           /\ \A c \in Char : /\ Count(Less(s, u), c) + Count(u, c) = Count(s, c)
                                              /\ Count(Less(s, u), c) \in Nat
                                              /\ Count(u, c) \in Nat
<1>1. CASE ~Found(s, u)
  BY <1>1 DEF Less
<1>2. CASE Found(s, u)
  <2> DEFINE n == Len(u)
             place == strstr(s, u)
  <2>1. n \in Nat \ {0} /\ Len(s) \in Nat
    BY LenProperties, EmptySeq DEF Text
  <2>2. /\ place \in 1 .. Len(s) - n + 1 /\ n \in 0 .. Len(s)
        /\ \A i \in 1 .. n : s[place + i - 1] = u[i]
    BY <1>2, StrstrIs
  <2>3. n \in 1 .. Len(s)
    BY <2>1, <2>2
  <2> HIDE DEF place
  <2>4. Less(s, u) = Cstr(MoveDown(s \o <<NUL>>, place, n))
    BY <1>2 DEF Less, place
  <2>5. Less(s, u) = Removed(s, place, n)
    <3> HIDE DEF n
    <3> QED
      BY <2>2, <2>3, <2>4, MoveDownRemoves
  <2>6. Removed(s, place, n) \in Text /\ Len(Removed(s, place, n)) = Len(s) - n
    <3> HIDE DEF n
    <3> QED
      BY <2>2, <2>3, RemovedIs
  <2>7. \A c \in Char : /\ Count(Removed(s, place, n), c) + Count(u, c) = Count(s, c)
                        /\ Count(Removed(s, place, n), c) \in Nat /\ Count(u, c) \in Nat
    BY <2>2, <2>3, RemovedCounts
  <2> QED
    BY <2>5, <2>6, <2>7
<1> QED
  BY <1>1, <1>2

\* There is no place for a text that is longer.
LEMMA NotInShorter ==
  ASSUME NEW s \in Text, NEW u \in Text, u # <<>>, Len(s) <= 0
  PROVE  ~Found(s, u)
<1>1. Len(s) \in Nat /\ Len(u) \in Nat \ {0}
  BY LenProperties, EmptySeq DEF Text
<1> QED
  BY <1>1 DEF Found, Places

LEMMA MinusIs ==
  ASSUME NEW t \in Text, NEW u \in Text, u # <<>>
  PROVE  /\ string_minus(t, u) \in Text
         /\ ~Found(string_minus(t, u), u)
         /\ \E k \in 0 .. Len(t) :
              /\ Len(string_minus(t, u)) + k * Len(u) = Len(t)
              /\ \A c \in Char : Count(string_minus(t, u), c) + k * Count(u, c) = Count(t, c)
<1> DEFINE N == Len(t)
           n == Len(u)
           Def(f) == f = [k \in 0..N |-> IF k = 0 THEN t ELSE Less(f[k - 1], u)]
           step == [p \in Int \X Text |-> Less(p[2], u)]
           buf == CHOOSE f : Def(f)
<1>1. N \in Nat /\ n \in Nat \ {0}
  BY LenProperties, EmptySeq DEF Text
<1>2. \A s \in Text : Less(s, u) \in Text
  BY LessIs
<1>3. step \in [Int \X Text -> Text] /\ \A k \in Int : \A s \in Text : step[k, s] = Less(s, u)
  BY <1>2
<1> HIDE DEF step, N
<1>4. \E f : Def(f)
  <2>0. 0 \in Int /\ N \in Int
    BY <1>1
  <2>1. PICK f : Recursive(f, 0..N, 0, t, step) /\ \A k \in 0..N : f[k] \in Text
    BY ONLY <1>3, <2>0, t \in Text, NumberRecursion
  <2>2. ASSUME NEW k \in 0..N, k # 0 PROVE step[k, f[k - 1]] = Less(f[k - 1], u)
    <3>1. k \in Int /\ k - 1 \in 0..N
      BY <1>1, <2>2
    <3> QED
      BY <1>3, <2>1, <3>1
  <2>3. Def(f)
    BY <2>1, <2>2 DEF Recursive
  <2> QED
    BY <2>3
<1>5. Def(buf)
  BY <1>4
<1> HIDE DEF buf
<1>6. \A k \in 0..N : buf[k] = IF k = 0 THEN t ELSE Less(buf[k - 1], u)
  BY <1>5
<1> DEFINE Sum(s, j) == /\ Len(s) + j * n = N
                        /\ \A c \in Char : Count(s, c) + j * Count(u, c) = Count(t, c)
           Good(k, s) == /\ s \in Text
                         /\ Found(s, u) => Len(s) <= N - k
                         /\ \E j \in 0..k : Sum(s, j)
           P == {k \in 0..N : Good(k, buf[k])}
<1>7. \A c \in Char : Count(u, c) \in Nat /\ Count(t, c) \in Nat
  <2>1. IsFiniteSet(DOMAIN u) /\ IsFiniteSet(DOMAIN t)
    BY <1>1, LenProperties, FS_Interval DEF Text, N
  <2>2. ASSUME NEW c \in Char PROVE Count(u, c) \in Nat /\ Count(t, c) \in Nat
    <3> DEFINE U == {k \in DOMAIN u : u[k] = c}
               T == {k \in DOMAIN t : t[k] = c}
    <3>1. U \in SUBSET DOMAIN u /\ T \in SUBSET DOMAIN t
      OBVIOUS
    <3>2. Count(u, c) = Cardinality(U) /\ Count(t, c) = Cardinality(T)
      BY DEF Count
    <3> HIDE DEF U, T
    <3>3. IsFiniteSet(U) /\ IsFiniteSet(T)
      BY <2>1, <3>1, FS_Subset
    <3> QED
      BY <3>2, <3>3, FS_CardinalityType
  <2> QED
    BY <2>2
<1>8. 0 \in P
  <2>1. buf[0] = t /\ 0 \in 0..N
    BY <1>1, <1>6
  <2>2. Sum(t, 0)
    BY <1>1, <1>7 DEF N
  <2>3. Len(t) <= N - 0
    BY <1>1 DEF N
  <2> HIDE DEF Sum
  <2> QED
    BY <2>1, <2>2, <2>3
<1>9. ASSUME NEW k \in 0 + 1 .. N, k - 1 \in P PROVE k \in P
  <2> DEFINE s == buf[k - 1]
  <2>1. k \in 0..N /\ k # 0 /\ k - 1 \in Nat /\ k - 1 + 1 = k /\ N - k = N - (k - 1) - 1
    BY <1>1
  <2>2. Good(k - 1, s)
    BY <1>9
  <2>3. buf[k] = Less(s, u)
    BY <1>6, <2>1
  <2> HIDE DEF s
  <2> DEFINE r == Less(s, u)
  <2>4. PICK j \in 0 .. k - 1 : Sum(s, j)
    BY <2>2
  <2>5. s \in Text /\ Len(s) \in Nat
    BY <2>2, LenProperties DEF Text
  <2>6. CASE ~Found(s, u)
    <3>1. r = s
      BY <2>6 DEF Less
    <3>2. j \in 0..k
      BY <2>1
    <3> HIDE DEF r, Sum
    <3>3. Good(k, s)
      BY <2>4, <2>5, <2>6, <3>2
    <3> QED
      BY <2>1, <2>3, <3>1, <3>3 DEF r
  <2>7. CASE Found(s, u)
    <3>1. /\ r \in Text /\ Len(r) = Len(s) - n
          /\ \A c \in Char : Count(r, c) + Count(u, c) = Count(s, c) /\ Count(r, c) \in Nat
      BY <2>5, <2>7, LessIs
    <3> HIDE DEF r
    <3>2. j + 1 \in 0..k /\ j \in Nat
      BY <2>1
    <3>3. Len(s) <= N - (k - 1)
      BY <2>2, <2>7
    <3>4. Len(r) <= N - k
      BY <1>1, <2>1, <2>5, <3>1, <3>3
    <3>5. \A m \in Nat : (j + 1) * m = j * m + m /\ j * m \in Nat
      BY <3>2
    <3>6. Len(r) + (j + 1) * n = N
      <4>1. (j + 1) * n = j * n + n /\ j * n \in Nat
        BY <1>1, <3>5
      <4> QED
        BY <1>1, <2>4, <2>5, <3>1, <4>1
    <3>7. ASSUME NEW c \in Char PROVE Count(r, c) + (j + 1) * Count(u, c) = Count(t, c)
      <4>1. (j + 1) * Count(u, c) = j * Count(u, c) + Count(u, c) /\ j * Count(u, c) \in Nat
        BY <1>7, <3>5
      <4>2. Count(r, c) + Count(u, c) = Count(s, c) /\ Count(s, c) + j * Count(u, c) = Count(t, c)
        BY <2>4, <3>1
      <4> QED
        BY <1>7, <3>1, <4>1, <4>2
    <3>8. Sum(r, j + 1)
      BY <3>6, <3>7
    <3> HIDE DEF Sum
    <3>9. Good(k, r)
      BY <3>1, <3>2, <3>4, <3>8
    <3> HIDE DEF Good
    <3> QED
      BY <2>1, <2>3, <3>9 DEF r
  <2> QED
    BY <2>6, <2>7
<1>10. N \in P
  <2>1. 0 \in Int /\ N \in Int /\ N \in 0..N
    BY <1>1
  <2> HIDE DEF P
  <2> QED
    BY ONLY <1>8, <1>9, <2>1, UpTo
<1>11. string_minus(t, u) = buf[N]
  BY DEF string_minus, buf, Less, N
<1> DEFINE r == buf[N]
<1>12. Good(N, r)
  BY <1>10
<1> HIDE DEF r
<1>13. ~Found(r, u)
  <2>1. Found(r, u) => Len(r) <= 0
    BY <1>1, <1>12
  <2> QED
    BY <1>12, <2>1, NotInShorter
<1> QED
  BY <1>11, <1>12, <1>13 DEF r, N

----------------------------------------------------------------------------
(* Split and join *)

\* What the pieces make, piece by piece.
Joins(all, pieces, u, n) ==
  \A k \in 0 .. n : all[k] = IF k = 0 THEN <<>>
                             ELSE IF k = 1 THEN pieces[1]
                             ELSE all[k - 1] \o u \o pieces[k]

LEMMA JoinIs ==
  ASSUME NEW pieces \in Seq(Text), NEW u \in Text
  PROVE  \E all : /\ Joins(all, pieces, u, Len(pieces))
                  /\ \A k \in 0 .. Len(pieces) : all[k] \in Text
                  /\ Join(pieces, u) = all[Len(pieces)]
<1> DEFINE N == Len(pieces)
           More(k, s) == IF k = 1 THEN pieces[1] ELSE s \o u \o pieces[k]
           Def(f) == f = [k \in 0..N |-> IF k = 0 THEN <<>>
                                         ELSE IF k = 1 THEN pieces[1]
                                         ELSE f[k - 1] \o u \o pieces[k]]
           step == [p \in Int \X Text |-> IF p[1] \in 1..N THEN More(p[1], p[2]) ELSE p[2]]
           all == CHOOSE f : Def(f)
<1>1. N \in Nat /\ \A k \in 1..N : pieces[k] \in Text
  BY LenProperties, ElementOfSeq
<1>2. <<>> \in Text /\ \A s1, s2 \in Text : s1 \o s2 \in Text
  BY EmptySeq, ConcatProperties DEF Text
<1>3. \A k \in 1..N : \A s \in Text : More(k, s) \in Text
  BY <1>1, <1>2
<1> HIDE DEF N
<1>4. step \in [Int \X Text -> Text] /\ \A k \in 1..N : \A s \in Text : step[k, s] = More(k, s)
  <2> HIDE DEF More
  <2>1. step \in [Int \X Text -> Text]
    BY <1>3
  <2>2. ASSUME NEW k \in 1..N, NEW s \in Text PROVE step[k, s] = More(k, s)
    <3>1. <<k, s>> \in Int \X Text
      BY <1>1
    <3> QED
      BY <3>1
  <2> QED
    BY <2>1, <2>2
<1> HIDE DEF step
<1>5. \E f : Def(f)
  <2>0. 0 \in Int /\ N \in Int
    BY <1>1
  <2>1. PICK f : Recursive(f, 0..N, 0, <<>>, step) /\ \A k \in 0..N : f[k] \in Text
    BY ONLY <1>2, <1>4, <2>0, NumberRecursion
  <2>2. ASSUME NEW k \in 0..N, k # 0
        PROVE  step[k, f[k - 1]] = IF k = 1 THEN pieces[1] ELSE f[k - 1] \o u \o pieces[k]
    <3>1. k \in 1..N /\ k - 1 \in 0..N
      BY <1>1, <2>2
    <3> QED
      BY <1>4, <2>1, <3>1
  <2>3. Def(f)
    BY <2>1, <2>2 DEF Recursive
  <2> QED
    BY <2>3
<1>6. Def(all)
  BY <1>5
<1> HIDE DEF all
<1>7. Joins(all, pieces, u, N)
  BY <1>6 DEF Joins
<1> DEFINE P == {k \in 0..N : all[k] \in Text}
<1>8. 0 \in P
  BY <1>1, <1>2, <1>7 DEF Joins
<1>9. ASSUME NEW k \in 0 + 1 .. N, k - 1 \in P PROVE k \in P
  <2>1. k \in 1..N /\ k \in 0..N /\ all[k - 1] \in Text /\ k # 0
    BY <1>1, <1>9
  <2>2. all[k] = More(k, all[k - 1])
    BY <1>7, <2>1 DEF Joins
  <2> HIDE DEF More
  <2>3. all[k] \in Text
    BY <1>3, <2>1, <2>2
  <2> QED
    BY <2>1, <2>3
<1>10. \A k \in 0..N : k \in P
  <2>1. 0 \in Int /\ N \in Int
    BY <1>1
  <2> HIDE DEF P
  <2> QED
    BY ONLY <1>8, <1>9, <2>1, UpTo
<1>11. Join(pieces, u) = all[N]
  BY DEF Join, all, N
<1> QED
  BY <1>7, <1>10, <1>11 DEF N

\* There is one such function.
LEMMA JoinsOnce ==
  ASSUME NEW u, NEW a, NEW b, NEW n \in Nat, NEW f, NEW g,
         \A k \in 1..n : a[k] = b[k], Joins(f, a, u, n), Joins(g, b, u, n)
  PROVE  \A k \in 0..n : f[k] = g[k]
<1> DEFINE P == {k \in 0..n : f[k] = g[k]}
<1>1. 0 \in P
  BY DEF Joins
<1>2. ASSUME NEW k \in 0 + 1 .. n, k - 1 \in P PROVE k \in P
  <2>1. k \in 0..n /\ k \in 1..n /\ k # 0 /\ f[k - 1] = g[k - 1] /\ a[k] = b[k]
    BY <1>2
  <2>2. f[k] = IF k = 1 THEN a[1] ELSE f[k - 1] \o u \o a[k]
    BY <2>1 DEF Joins
  <2>3. g[k] = IF k = 1 THEN b[1] ELSE g[k - 1] \o u \o b[k]
    BY <2>1 DEF Joins
  <2>4. f[k] = g[k]
    BY ONLY <2>1, <2>2, <2>3
  <2> QED
    BY <2>1, <2>4
<1>3. \A k \in 0..n : k \in P
  <2>1. 0 \in Int /\ n \in Int
    OBVIOUS
  <2> HIDE DEF P
  <2> QED
    BY ONLY <1>1, <1>2, <2>1, UpTo
<1> QED
  BY <1>3

\* One piece more.
LEMMA JoinAppend ==
  ASSUME NEW pieces \in Seq(Text), NEW p \in Text, NEW u \in Text
  PROVE  /\ Join(pieces, u) \in Text
         /\ Join(Append(pieces, p), u) = IF pieces = <<>> THEN p ELSE Join(pieces, u) \o u \o p
<1> DEFINE n == Len(pieces)
           more == Append(pieces, p)
<1>1. n \in Nat /\ (pieces = <<>> <=> n = 0)
  BY LenProperties, EmptySeq
<1>2. /\ more \in Seq(Text) /\ Len(more) = n + 1 /\ more[n + 1] = p
      /\ \A k \in 1..n : more[k] = pieces[k]
  BY AppendProperties
<1> HIDE DEF more
<1>3. PICK f : /\ Joins(f, pieces, u, n) /\ \A k \in 0..n : f[k] \in Text
               /\ Join(pieces, u) = f[n]
  BY JoinIs
<1>4. PICK g : Joins(g, more, u, n + 1) /\ Join(more, u) = g[n + 1]
  BY <1>2, JoinIs
<1> HIDE DEF n
<1>5. \A k \in 0..n : f[k] = g[k]
  <2>1. Joins(g, more, u, n)
    BY <1>1, <1>4 DEF Joins
  <2>2. \A k \in 1..n : pieces[k] = more[k]
    BY <1>2
  <2>3. Joins(f, pieces, u, n) /\ n \in Nat
    BY <1>1, <1>3
  <2> HIDE DEF Joins
  <2> QED
    BY ONLY <2>1, <2>2, <2>3, JoinsOnce
<1>6. n + 1 \in 0 .. n + 1 /\ n \in 0..n /\ n + 1 # 0 /\ n + 1 - 1 = n /\ (n + 1 = 1 <=> n = 0)
  BY <1>1
<1>7. g[n + 1] = IF n + 1 = 1 THEN more[1] ELSE g[n + 1 - 1] \o u \o more[n + 1]
  BY <1>4, <1>6 DEF Joins
<1>8. g[n + 1] = IF n = 0 THEN p ELSE f[n] \o u \o p
  <2>1. g[n] = f[n]
    BY <1>5, <1>6
  <2>2. CASE n = 0
    BY <1>2, <1>6, <1>7, <2>2
  <2>3. CASE n # 0
    <3>1. g[n + 1] = g[n + 1 - 1] \o u \o more[n + 1] /\ g[n + 1 - 1] = f[n] /\ more[n + 1] = p
      BY <1>2, <1>6, <1>7, <2>1, <2>3
    <3> QED
      BY <2>3, <3>1
  <2> QED
    BY <2>2, <2>3
<1> QED
  BY <1>1, <1>3, <1>4, <1>6, <1>8 DEF more

LEMMA JoinOne ==
  ASSUME NEW p \in Text, NEW u \in Text
  PROVE  Join(<<>>, u) = <<>> /\ Join(<<p>>, u) = p
<1>1. <<>> \in Seq(Text) /\ Append(<<>>, p) = <<p>> /\ Len(<<>>) = 0
  BY EmptySeq
<1>2. PICK f : Joins(f, <<>>, u, 0) /\ Join(<<>>, u) = f[0]
  BY <1>1, JoinIs
<1>3. f[0] = <<>>
  BY <1>2 DEF Joins
<1> QED
  BY <1>1, <1>2, <1>3, JoinAppend

\* A text up to the next character.
LEMMA NextCharacter ==
  ASSUME NEW t \in Text, NEW k \in 1 .. Len(t)
  PROVE  /\ SubSeq(t, 1, k) = SubSeq(t, 1, k - 1) \o <<t[k]>>
         /\ SubSeq(t, 1, k - 1) \in Text /\ t[k] \in Char
<1>1. Len(t) \in Nat /\ 1 \in 1 .. Len(t) /\ k \in 1 .. Len(t) /\ k - 1 \in 0 .. Len(t) /\ 1 \in 1 .. Len(t) + 1
  BY LenProperties DEF Text
<1>2. SubSeq(t, 1, k) = SubSeq(t, 1, k - 1) \o <<t[k]>>
  BY ONLY <1>1, t \in Text, SubSeqRecursiveSecond DEF Text
<1>3. SubSeq(t, 1, k - 1) \in Text
  BY ONLY <1>1, t \in Text, Part DEF Text
<1> QED
  BY <1>2, <1>3, ElementOfSeq DEF Text

\* The character is in none of the pieces, and between any two.
Free(p, c) == \A j \in 1 .. Len(p) : p[j] # c

LEMMA SplitAtIs ==
  ASSUME NEW t \in Text, NEW c \in Char
  PROVE  /\ SplitAt(t, c) \in Seq(Text)
         /\ Join(SplitAt(t, c), <<c>>) = t
         /\ \A i \in 1 .. Len(SplitAt(t, c)) : Free(SplitAt(t, c)[i], c)
<1> DEFINE N == Len(t)
           u == <<c>>
           Cell == [ary : Seq(Text), tok : Text]
           base == [ary |-> <<>>, tok |-> <<>>]
           On(k, s) == IF t[k] = c THEN [ary |-> Append(s.ary, s.tok), tok |-> <<>>]
                       ELSE [s EXCEPT !.tok = Append(s.tok, t[k])]
           Def(f) == f = [k \in 0..N |-> IF k = 0 THEN base ELSE On(k, f[k - 1])]
           step == [p \in Int \X Cell |-> IF p[1] \in 1..N THEN On(p[1], p[2]) ELSE p[2]]
           ptr == CHOOSE f : Def(f)
<1>1. N \in Nat /\ \A k \in 1..N : t[k] \in Char
  BY LenProperties, ElementOfSeq DEF Text
<1>2. <<>> \in Text /\ <<>> \in Seq(Text) /\ base \in Cell /\ u \in Text
  BY EmptySeq DEF Text
<1>3. ASSUME NEW k \in 1..N, NEW s \in Cell PROVE On(k, s) \in Cell
  <2>1. /\ s.ary \in Seq(Text) /\ s.tok \in Text /\ Append(s.ary, s.tok) \in Seq(Text)
        /\ Append(s.tok, t[k]) \in Text
    BY <1>1, AppendProperties DEF Text
  <2> QED
    BY <1>2, <2>1
<1> HIDE DEF N, Cell, On, base
<1>4. step \in [Int \X Cell -> Cell] /\ \A k \in 1..N : \A s \in Cell : step[k, s] = On(k, s)
  <2>1. step \in [Int \X Cell -> Cell]
    BY <1>3
  <2>2. ASSUME NEW k \in 1..N, NEW s \in Cell PROVE step[k, s] = On(k, s)
    <3>1. <<k, s>> \in Int \X Cell
      BY <1>1
    <3> QED
      BY <3>1
  <2> QED
    BY <2>1, <2>2
<1> HIDE DEF step
<1>5. \E f : Def(f)
  <2>0. 0 \in Int /\ N \in Int
    BY <1>1
  <2>1. PICK f : Recursive(f, 0..N, 0, base, step) /\ \A k \in 0..N : f[k] \in Cell
    BY ONLY <1>2, <1>4, <2>0, NumberRecursion
  <2>2. ASSUME NEW k \in 0..N, k # 0 PROVE step[k, f[k - 1]] = On(k, f[k - 1])
    <3>1. k \in 1..N /\ k - 1 \in 0..N
      BY <1>1, <2>2
    <3> QED
      BY <1>4, <2>1, <3>1
  <2>3. Def(f)
    BY <2>1, <2>2 DEF Recursive
  <2> QED
    BY <2>3
<1>6. Def(ptr)
  BY <1>5
<1> HIDE DEF ptr
<1>7. \A k \in 0..N : ptr[k] = IF k = 0 THEN base ELSE On(k, ptr[k - 1])
  BY <1>6
<1> DEFINE Good(k, s) == /\ s.ary \in Seq(Text) /\ s.tok \in Text
                         /\ Join(Append(s.ary, s.tok), u) = SubSeq(t, 1, k)
                         /\ \A i \in 1 .. Len(s.ary) : Free(s.ary[i], c)
                         /\ Free(s.tok, c)
           P == {k \in 0..N : Good(k, ptr[k])}
<1>8. 0 \in P
  <2>1. ptr[0].ary = <<>> /\ ptr[0].tok = <<>> /\ 0 \in 0..N
    BY <1>1, <1>7 DEF base
  <2>2. Append(<<>>, <<>>) = << <<>> >> /\ Len(<<>>) = 0
    OBVIOUS
  <2>3. Join(Append(<<>>, <<>>), u) = <<>>
    BY <1>2, <2>2, JoinOne
  <2>4. SubSeq(t, 1, 0) = <<>>
    BY SubSeqEmpty
  <2> DEFINE none == <<>>
  <2>5. Free(none, c) /\ \A i \in 1 .. Len(none) : Free(none[i], c)
    BY DEF Free
  <2>6. none \in Seq(Text) /\ none \in Text
    BY <1>2
  <2>7. ptr[0].ary = none /\ ptr[0].tok = none /\ Join(Append(none, none), u) = SubSeq(t, 1, 0)
    BY <2>1, <2>3, <2>4
  <2> HIDE DEF none
  <2>8. Good(0, ptr[0])
    BY ONLY <2>5, <2>6, <2>7
  <2> QED
    BY <2>1, <2>8
<1>9. ASSUME NEW k \in 0 + 1 .. N, k - 1 \in P PROVE k \in P
  <2> DEFINE s == ptr[k - 1]
  <2>1. k \in 0..N /\ k \in 1..N /\ k # 0 /\ t[k] \in Char
    BY <1>1
  <2>2. Good(k - 1, s) /\ ptr[k] = On(k, s)
    BY <1>7, <1>9, <2>1
  <2> HIDE DEF s
  <2> DEFINE a == Append(s.ary, s.tok)
             before == SubSeq(t, 1, k - 1)
  <2>3. /\ SubSeq(t, 1, k) = before \o <<t[k]>> /\ before \in Text /\ <<t[k]>> \in Text
    BY <2>1, NextCharacter DEF N, Text
  <2>4. /\ a \in Seq(Text) /\ a # <<>> /\ Len(a) = Len(s.ary) + 1 /\ Join(a, u) = before
        /\ a[Len(s.ary) + 1] = s.tok /\ \A i \in 1 .. Len(s.ary) : a[i] = s.ary[i]
    BY <2>2, AppendProperties
  <2>5. CASE t[k] = c
    <3>1. ptr[k].ary = a /\ ptr[k].tok = <<>>
      BY <2>2, <2>5 DEF On
    <3> HIDE DEF a, before
    <3>2. Join(Append(a, <<>>), u) = before \o u \o <<>>
      BY <1>2, <2>4, JoinAppend
    <3>3. before \o u \in Text /\ before \o u \o <<>> = before \o u
      BY <1>2, <2>3, ConcatProperties, ConcatEmptySeq DEF Text
    <3>4. Join(Append(a, <<>>), u) = SubSeq(t, 1, k)
      BY <2>3, <2>5, <3>2, <3>3
    <3>5. \A i \in 1 .. Len(a) : Free(a[i], c)
      <4>1. Len(s.ary) \in Nat
        BY <2>2, LenProperties
      <4>2. \A i \in 1 .. Len(a) : i \in 1 .. Len(s.ary) \/ i = Len(s.ary) + 1
        BY <2>4, <4>1
      <4> QED
        BY <2>2, <2>4, <4>2
    <3>6. Free(<<>>, c)
      BY DEF Free
    <3> QED
      BY <1>2, <2>1, <2>4, <3>1, <3>4, <3>5, <3>6
  <2>6. CASE t[k] # c
    <3> DEFINE tok == Append(s.tok, t[k])
    <3>0. s \in [ary : Seq(Text), tok : Text]
      <4> DEFINE Q == {j \in 0..N : ptr[j] \in Cell}
      <4>1. 0 \in Q
        BY <1>1, <1>2, <1>7
      <4>2. ASSUME NEW j \in 0 + 1 .. N, j - 1 \in Q PROVE j \in Q
        <5>1. j \in 0..N /\ j \in 1..N /\ j # 0
          BY <1>1
        <5> QED
          BY <1>3, <1>7, <4>2, <5>1
      <4>3. \A j \in 0..N : j \in Q
        <5>1. 0 \in Int /\ N \in Int
          BY <1>1
        <5> HIDE DEF Q
        <5> QED
          BY ONLY <4>1, <4>2, <5>1, UpTo
      <4>4. k - 1 \in 0..N
        BY <1>1, <2>1
      <4> QED
        BY <4>3, <4>4 DEF s, Cell
    <3>1. ptr[k].ary = s.ary /\ ptr[k].tok = tok
      BY <2>2, <2>6, <3>0 DEF On
    <3>2. /\ tok \in Text /\ Len(tok) = Len(s.tok) + 1 /\ tok[Len(s.tok) + 1] = t[k]
          /\ \A j \in 1 .. Len(s.tok) : tok[j] = s.tok[j]
      BY <2>1, <2>2, AppendProperties DEF Text
    <3>3. tok = s.tok \o <<t[k]>>
      BY <2>1, <2>2, AppendIsConcat DEF Text
    <3> HIDE DEF tok
    <3>4. Free(tok, c)
      <4>1. Len(s.tok) \in Nat
        BY <2>2, LenProperties DEF Text
      <4>2. \A j \in 1 .. Len(tok) : j \in 1 .. Len(s.tok) \/ j = Len(s.tok) + 1
        BY <3>2, <4>1
      <4> QED
        BY <2>2, <2>6, <3>2, <4>2 DEF Free
    <3>5. Join(Append(s.ary, tok), u) = before \o <<t[k]>>
      <4>1. CASE s.ary = <<>>
        <5>1. Join(Append(s.ary, tok), u) = tok /\ Join(a, u) = s.tok
          BY <1>2, <2>2, <3>2, <4>1, JoinAppend
        <5> QED
          BY <2>4, <3>3, <5>1
      <4>2. CASE s.ary # <<>>
        <5> DEFINE j == Join(s.ary, u)
        <5>1. /\ j \in Text /\ Join(Append(s.ary, tok), u) = j \o u \o tok
              /\ Join(a, u) = j \o u \o s.tok
          BY <1>2, <2>2, <3>2, <4>2, JoinAppend
        <5> HIDE DEF j
        <5>2. j \o u \in Text
          BY <1>2, <5>1, ConcatProperties DEF Text
        <5>3. (j \o u) \o (s.tok \o <<t[k]>>) = ((j \o u) \o s.tok) \o <<t[k]>>
          <6> DEFINE x == j \o u
                     y == s.tok
                     z == <<t[k]>>
          <6>1. x \in Seq(Char) /\ y \in Seq(Char) /\ z \in Seq(Char)
            BY <2>2, <2>3, <5>2 DEF Text
          <6> HIDE DEF x, y, z
          <6>2. (x \o y) \o z = x \o (y \o z)
            BY ONLY <6>1, ConcatAssociative
          <6> QED
            BY <6>2 DEF x, y, z
        <5> QED
          BY <2>4, <3>3, <5>1, <5>3
      <4> QED
        BY <4>1, <4>2
    <3>6. Good(k, ptr[k])
      BY <2>2, <2>3, <3>1, <3>2, <3>4, <3>5
    <3> HIDE DEF Good
    <3> QED
      BY <2>1, <3>6
  <2> QED
    BY <2>5, <2>6
<1>10. N \in P
  <2>1. 0 \in Int /\ N \in Int /\ N \in 0..N
    BY <1>1
  <2> HIDE DEF P
  <2> QED
    BY ONLY <1>8, <1>9, <2>1, UpTo
<1> DEFINE s == ptr[N]
           a == Append(s.ary, s.tok)
<1>11. SplitAt(t, c) = a
  <2>1. ptr = CHOOSE f : f = [k \in 0 .. Len(t) |->
                 IF k = 0 THEN [ary |-> <<>>, tok |-> <<>>]
                 ELSE IF t[k] = c
                      THEN [ary |-> Append(f[k - 1].ary, f[k - 1].tok), tok |-> <<>>]
                      ELSE [f[k - 1] EXCEPT !.tok = Append(@, t[k])]]
    BY DEF ptr, base, On, N
  <2> QED
    BY <2>1 DEF SplitAt, N
<1>12. Good(N, s)
  BY <1>10
<1> HIDE DEF s
<1>13. /\ a \in Seq(Text) /\ Len(a) = Len(s.ary) + 1 /\ Len(s.ary) \in Nat
       /\ a[Len(s.ary) + 1] = s.tok /\ \A i \in 1 .. Len(s.ary) : a[i] = s.ary[i]
  BY <1>12, AppendProperties, LenProperties
<1>14. SubSeq(t, 1, N) = t
  BY SubSeqFull DEF Text, N
<1>15. Join(a, u) = t
  BY <1>12, <1>14
<1> HIDE DEF a
<1>16. \A i \in 1 .. Len(a) : Free(a[i], c)
  <2>1. \A i \in 1 .. Len(a) : i \in 1 .. Len(s.ary) \/ i = Len(s.ary) + 1
    BY <1>13
  <2> QED
    BY <1>12, <1>13, <2>1
<1> QED
  BY <1>11, <1>13, <1>15, <1>16

\* Of a longer delimiter only the first place is looked for.
LEMMA SplitSubstrIs ==
  ASSUME NEW t \in Text, NEW u \in Text
  PROVE  /\ string_split_substr(t, u) \in Seq(Text)
         /\ Join(string_split_substr(t, u), u) = t
<1>1. CASE ~Found(t, u)
  <2>1. string_split_substr(t, u) = <<t>> /\ <<t>> \in Seq(Text)
    BY <1>1 DEF string_split_substr
  <2> QED
    BY <2>1, JoinOne
<1>2. CASE Found(t, u)
  <2> DEFINE place == strstr(t, u)
             n == Len(u)
             N == Len(t)
             a == SubSeq(t, 1, place - 1)
             b == SubSeq(t, place + n, N)
  <2>1. /\ place \in 1 .. N - n + 1 /\ n \in 0 .. N
        /\ \A i \in 1 .. n : t[place + i - 1] = u[i]
    BY <1>2, StrstrIs
  <2>2. N \in Nat /\ n \in Nat
    BY LenProperties DEF Text
  <2>3. string_split_substr(t, u) = <<a, b>>
    BY <1>2 DEF string_split_substr
  <2> HIDE DEF place, n, N
  <2>4. /\ 1 \in 1 .. N + 1 /\ place \in 1 .. N + 1 /\ place + n \in 1 .. N + 1
        /\ place - 1 \in 0 .. N /\ place + n - 1 \in 0 .. N /\ N \in 0 .. N
        /\ place - 1 \in 1 - 1 .. N /\ place + n - 1 \in place - 1 .. N
        /\ place + n - 1 \in 1 - 1 .. N /\ N \in place + n - 1 .. N
    BY <2>1, <2>2
  <2>5. a \in Text /\ b \in Text
    BY ONLY t \in Text, <2>4, Part DEF Text, N
  <2> DEFINE m == SubSeq(t, place, place + n - 1)
  <2>6. m = u
    <3> DEFINE last == place + n - 1
    <3>1. last \in 0 .. N /\ last - place + 1 = n /\ (place <= last <=> n > 0)
      BY <2>1, <2>2
    <3>2. m = SubSeq(t, place, last)
      OBVIOUS
    <3> HIDE DEF last, m
    <3>3. /\ m \in Seq(Char)
          /\ Len(m) = IF place <= last THEN last - place + 1 ELSE 0
          /\ \A i \in 1 .. last - place + 1 : m[i] = t[place + i - 1]
      BY ONLY t \in Text, <2>4, <3>1, <3>2, Part DEF Text, N
    <3>4. Len(m) = n
      BY <2>2, <3>1, <3>3
    <3>5. u \in Seq(Char) /\ Len(m) = Len(u) /\ \A i \in 1 .. Len(m) : m[i] = u[i]
      BY <2>1, <3>1, <3>3, <3>4 DEF Text, n
    <3> QED
      BY ONLY <3>3, <3>5, SeqEqual
  <2> DEFINE first == SubSeq(t, 1, place + n - 1)
  <2>7. a \o m = first
    <3> DEFINE k == place - 1
               l == place + n - 1
    <3>1. 1 \in 1 .. N + 1 /\ k \in 1 - 1 .. N /\ l \in k .. N /\ k + 1 = place
      BY <2>1, <2>2, <2>4
    <3> HIDE DEF k, l
    <3>2. SubSeq(t, 1, k) \o SubSeq(t, k + 1, l) = SubSeq(t, 1, l)
      BY ONLY t \in Text, <3>1, ConcatAdjacentSubSeq DEF Text, N
    <3> QED
      BY <3>1, <3>2 DEF k, l
  <2>8. first \o b = t
    <3> DEFINE k == place + n - 1
    <3>1. 1 \in 1 .. N + 1 /\ k \in 1 - 1 .. N /\ N \in k .. N /\ k + 1 = place + n
      BY <2>1, <2>2, <2>4
    <3> HIDE DEF k
    <3>2. SubSeq(t, 1, k) \o SubSeq(t, k + 1, N) = SubSeq(t, 1, N)
      BY ONLY t \in Text, <3>1, ConcatAdjacentSubSeq DEF Text, N
    <3>3. SubSeq(t, 1, N) = t
      BY SubSeqFull DEF Text, N
    <3> QED
      BY <3>1, <3>2, <3>3 DEF k
  <2> HIDE DEF a, b, m, first
  <2>9. <<a>> \in Seq(Text) /\ <<a, b>> = Append(<<a>>, b) /\ <<a>> # <<>> /\ <<a, b>> \in Seq(Text)
    BY <2>5
  <2>10. Join(<<a, b>>, u) = a \o u \o b
    <3>1. Join(Append(<<a>>, b), u) = IF <<a>> = <<>> THEN b ELSE Join(<<a>>, u) \o u \o b
      BY ONLY u \in Text, <2>5, <2>9, JoinAppend
    <3>2. Join(<<a>>, u) = a
      BY <2>5, JoinOne
    <3> QED
      BY <2>9, <3>1, <3>2
  <2> QED
    BY <2>3, <2>6, <2>7, <2>8, <2>9, <2>10
<1> QED
  BY <1>1, <1>2

\* Without a delimiter every character is a piece.
LEMMA SplitCharsIs ==
  ASSUME NEW t \in Text
  PROVE  [k \in DOMAIN t |-> <<t[k]>>] \in Seq(Text) /\ Join([k \in DOMAIN t |-> <<t[k]>>], <<>>) = t
<1> DEFINE N == Len(t)
           ary == [k \in DOMAIN t |-> <<t[k]>>]
           none == <<>>
<1>1. N \in Nat /\ DOMAIN t = 1..N /\ \A k \in 1..N : t[k] \in Char
  BY LenProperties, ElementOfSeq DEF Text
<1>2. none \in Text /\ \A s \in Text : s \o none = s
  BY EmptySeq, ConcatEmptySeq DEF Text
<1>3. ary \in Seq(Text) /\ Len(ary) = N /\ \A k \in 1..N : ary[k] = <<t[k]>>
  <2>1. \A k \in 1..N : <<t[k]>> \in Text
    BY <1>1 DEF Text
  <2> QED
    BY <1>1, <2>1
<1> HIDE DEF ary, N
<1>4. PICK all : /\ Joins(all, ary, none, N) /\ \A k \in 0..N : all[k] \in Text
                 /\ Join(ary, none) = all[N]
  BY <1>2, <1>3, JoinIs
<1> DEFINE P == {k \in 0..N : all[k] = SubSeq(t, 1, k)}
<1>5. 0 \in P
  <2>1. 0 \in 0..N
    BY <1>1
  <2>2. SubSeq(t, 1, 0) = <<>>
    BY SubSeqEmpty
  <2>3. all[0] = <<>>
    BY <1>4, <2>1 DEF Joins
  <2> QED
    BY <2>1, <2>2, <2>3
<1>6. ASSUME NEW k \in 0 + 1 .. N, k - 1 \in P PROVE k \in P
  <2>1. k \in 1..N /\ k \in 0..N /\ k - 1 \in 0..N /\ k # 0 /\ k \in Nat
    BY <1>1
  <2>2. SubSeq(t, 1, k) = SubSeq(t, 1, k - 1) \o <<t[k]>> /\ SubSeq(t, 1, k - 1) \in Text
    BY <2>1, NextCharacter DEF N
  <2>3. all[k] = IF k = 1 THEN ary[1] ELSE all[k - 1] \o none \o ary[k]
    BY <1>4, <2>1 DEF Joins
  <2>4. all[k - 1] = SubSeq(t, 1, k - 1) /\ all[k - 1] \in Text
    BY <1>4, <1>6, <2>1
  <2>5. CASE k = 1
    <3>1. SubSeq(t, 1, k - 1) = <<>>
      BY <2>5, SubSeqEmpty
    <3>2. <<>> \o <<t[k]>> = <<t[k]>>
      <4>1. <<t[k]>> \in Text
        BY <1>1, <2>1 DEF Text
      <4> QED
        BY <4>1, ConcatEmptySeq DEF Text
    <3>3. all[k] = <<t[k]>>
      BY <1>3, <2>1, <2>3, <2>5
    <3> QED
      BY <2>1, <2>2, <3>1, <3>2, <3>3
  <2>6. CASE k # 1
    <3>1. all[k - 1] \o none = all[k - 1]
      BY <1>2, <2>4
    <3>2. all[k] = all[k - 1] \o <<t[k]>>
      BY <1>3, <2>1, <2>3, <2>6, <3>1
    <3> QED
      BY <2>1, <2>2, <2>4, <3>2
  <2> QED
    BY <2>5, <2>6
<1>7. N \in P
  <2>1. 0 \in Int /\ N \in Int /\ N \in 0..N
    BY <1>1
  <2> HIDE DEF P
  <2> QED
    BY ONLY <1>5, <1>6, <2>1, UpTo
<1>8. SubSeq(t, 1, N) = t
  BY SubSeqFull DEF Text, N
<1> QED
  BY <1>3, <1>4, <1>7, <1>8 DEF ary, none

LEMMA SplitIs ==
  ASSUME NEW t \in Text, NEW u \in Text
  PROVE  /\ string_split(t, u) \in Seq(Text)
         /\ Join(string_split(t, u), u) = t
         /\ Len(u) = 1 => \A p \in Range(string_split(t, u)) : ~Found(p, u)
<1> DEFINE s == string_split(t, u)
<1>0. Len(u) \in Nat /\ (u = <<>> <=> Len(u) = 0) /\ <<>> \in Seq(Text)
  BY LenProperties, EmptySeq DEF Text
<1>1. CASE Len(u) > 1
  <2>1. s = string_split_substr(t, u)
    BY <1>1 DEF string_split
  <2>2. s \in Seq(Text) /\ Join(s, u) = t
    <3> HIDE DEF s
    <3> QED
      BY <2>1, SplitSubstrIs
  <2>3. Len(u) # 1
    <3> DEFINE n == Len(u)
    <3>1. n \in Nat /\ n > 1
      BY <1>0, <1>1
    <3> HIDE DEF n
    <3>2. n # 1
      BY ONLY <3>1
    <3> QED
      BY <3>2 DEF n
  <2> QED
    BY <2>2, <2>3
<1>2. CASE ~(Len(u) > 1) /\ t = <<>>
  <2>1. s = <<>>
    BY <1>2 DEF string_split
  <2>2. Range(<<>>) = {}
    BY DEF Range
  <2> HIDE DEF s
  <2>3. Join(s, u) = t
    BY <1>2, <2>1, JoinOne, t \in Text
  <2> QED
    BY <1>0, <2>1, <2>2, <2>3 DEF s
<1>3. CASE ~(Len(u) > 1) /\ t # <<>> /\ u = <<>>
  <2>1. s = [k \in DOMAIN t |-> <<t[k]>>]
    BY <1>3 DEF string_split
  <2> QED
    BY <1>0, <1>3, <2>1, SplitCharsIs
<1>4. CASE ~(Len(u) > 1) /\ t # <<>> /\ u # <<>>
  <2> DEFINE c == u[1]
  <2>1. s = SplitAt(t, c)
    BY <1>4 DEF string_split
  <2>2. Len(u) = 1 /\ c \in Char /\ u = <<c>>
    <3>1. Len(u) = 1 /\ 1 \in 1 .. Len(u)
      <4> DEFINE n == Len(u)
      <4>1. n \in Nat /\ n # 0 /\ ~(n > 1)
        BY <1>0, <1>4
      <4> HIDE DEF n
      <4>2. n = 1
        BY ONLY <4>1
      <4> QED
        BY <4>2 DEF n
    <3>2. c \in Char
      BY <3>1, ElementOfSeq DEF Text
    <3> QED
      BY <3>1, <3>2 DEF Text
  <2> HIDE DEF c, s
  <2>3. s \in Seq(Text) /\ Join(s, <<c>>) = t /\ \A i \in 1 .. Len(s) : Free(s[i], c)
    BY <2>1, <2>2, SplitAtIs
  <2>4. ASSUME NEW p \in Range(s) PROVE ~Found(p, u)
    <3>1. PICK i \in 1 .. Len(s) : p = s[i]
      BY <2>3, LenProperties DEF Range
    <3>2. p \in Text /\ Free(p, c)
      BY <2>3, <3>1, ElementOfSeq
    <3>3. SUFFICES ASSUME Found(p, u) PROVE FALSE
      OBVIOUS
    <3> DEFINE place == strstr(p, u)
    <3>4. /\ place \in 1 .. Len(p) - Len(u) + 1 /\ \A j \in 1 .. Len(u) : p[place + j - 1] = u[j]
      BY <3>2, <3>3, StrstrIs
    <3>5. Len(p) \in Nat
      BY <3>2, LenProperties DEF Text
    <3> HIDE DEF place
    <3>6. place \in 1 .. Len(p) /\ place + 1 - 1 = place /\ 1 \in 1 .. Len(u)
      BY <2>2, <3>4, <3>5
    <3>7. p[place] = c
      BY <3>4, <3>6 DEF c
    <3> QED
      BY <3>2, <3>6, <3>7 DEF Free
  <2> QED
    BY <2>2, <2>3, <2>4 DEF s
<1> QED
  BY <1>1, <1>2, <1>3, <1>4

\* Subtraction and split keep every word (WordsKept): any text, any other.
THEOREM WordsAreKept ==
  ASSUME NEW t \in Text, NEW u \in Text
  PROVE  WordsKept(t, u)
<1>1. u # <<>> =>
        /\ ~Found(string_minus(t, u), u)
        /\ \E k \in 0 .. Len(t) :
             /\ Len(string_minus(t, u)) + k * Len(u) = Len(t)
             /\ \A c \in Char : Count(string_minus(t, u), c) + k * Count(u, c) = Count(t, c)
  BY MinusIs
<1>2. /\ Join(string_split(t, u), u) = t
      /\ Len(u) = 1 => \A p \in Range(string_split(t, u)) : ~Found(p, u)
  BY SplitIs
<1> QED
  BY ONLY <1>1, <1>2 DEF WordsKept

----------------------------------------------------------------------------
(* The other methods return texts *)

LEMMA TakeIs ==
  ASSUME NEW t \in Text, NEW n \in Nat
  PROVE  Take(t, n) \in Text /\ Len(Take(t, n)) = IF n < Len(t) THEN n ELSE Len(t)
<1> DEFINE m == IF n < Len(t) THEN n ELSE Len(t)
<1>1. Len(t) \in Nat /\ m \in 0 .. Len(t) /\ 1 \in 1 .. Len(t) + 1
  BY LenProperties DEF Text
<1>2. Take(t, n) = SubSeq(t, 1, m)
  BY DEF Take
<1> HIDE DEF m
<1>3. /\ SubSeq(t, 1, m) \in Seq(Char) /\ Len(SubSeq(t, 1, m)) = IF 1 <= m THEN m - 1 + 1 ELSE 0
  BY ONLY t \in Text, <1>1, Part DEF Text
<1>4. Len(SubSeq(t, 1, m)) = m
  BY <1>1, <1>3
<1> QED
  BY <1>2, <1>3, <1>4 DEF m, Text

LEMMA PlusIsText == ASSUME NEW t \in Text, NEW u \in Text PROVE string_plus(t, u) \in Text
<1>1. t \o u \in Text /\ BufSize - 1 \in Nat
  BY ConcatProperties, SizesAssumption DEF Text
<1> QED
  BY <1>1, TakeIs DEF string_plus, Short

LEMMA ChompIsText == ASSUME NEW t \in Text PROVE string_chomp(t) \in Text
<1> DEFINE N == Len(t)
           kept == {k \in 0 .. N : \A j \in k + 1 .. N : t[j] \in {Newline, Return}}
           end == CHOOSE k \in kept : \A j \in kept : k <= j
<1>1. N \in Nat
  BY LenProperties DEF Text
<1>2. N \in kept /\ kept \in SUBSET Nat /\ kept # {}
  BY <1>1
<1>3. end \in kept
  <2> HIDE DEF kept
  <2> QED
    BY <1>2, LeastNumber
<1>4. end \in 0 .. N /\ 1 \in 1 .. N + 1
  BY <1>1, <1>3
<1>5. string_chomp(t) = t \/ string_chomp(t) = SubSeq(t, 1, end)
  BY DEF string_chomp
<1> HIDE DEF end
<1>6. SubSeq(t, 1, end) \in Text
  BY ONLY t \in Text, <1>4, Part DEF Text, N
<1> QED
  BY <1>5, <1>6

LEMMA ChangedIsText ==
  ASSUME NEW t \in Text
  PROVE  string_upcase(t) \cup string_downcase(t) \cup string_capitalize(t) \subseteq Text
<1>1. \A c \in Char : ToUpper(c) \in Char /\ ToLower(c) \in Char
  <2> SUFFICES ASSUME NEW c \in Char PROVE ToUpper(c) \in Char /\ ToLower(c) \in Char
    OBVIOUS
  <2>1. \A p \in Upper : p[1] \in Char /\ p[2] \in Char
    BY CharsAssumption
  <2>2. ToUpper(c) \in Char
    <3>1. CASE \E p \in Upper : p[1] = c
      <4> DEFINE q == CHOOSE p \in Upper : p[1] = c
      <4>1. q \in Upper
        BY <3>1
      <4> QED
        BY <2>1, <3>1, <4>1 DEF ToUpper
    <3> QED
      BY <3>1 DEF ToUpper
  <2>3. ToLower(c) \in Char
    <3>1. CASE \E p \in Upper : p[2] = c
      <4> DEFINE q == CHOOSE p \in Upper : p[2] = c
      <4>1. q \in Upper
        BY <3>1
      <4> QED
        BY <2>1, <3>1, <4>1 DEF ToLower
    <3> QED
      BY <3>1 DEF ToLower
  <2> QED
    BY <2>2, <2>3
<1>2. Len(t) \in Nat /\ DOMAIN t = 1 .. Len(t) /\ \A k \in 1 .. Len(t) : t[k] \in Char
  BY LenProperties, ElementOfSeq DEF Text
<1>3. ASSUME NEW s \in Text PROVE Unterminated(s) \subseteq Text
  <2>1. <<Junk>> \in Text
    BY CharsAssumption DEF Text
  <2>2. s \o <<Junk>> \in Text
    BY <2>1, ConcatProperties DEF Text
  <2> QED
    BY <2>2 DEF Unterminated
<1> DEFINE up == [k \in DOMAIN t |-> ToUpper(t[k])]
           down == [k \in DOMAIN t |-> ToLower(t[k])]
           cap == [k \in DOMAIN t |-> IF k = 1 THEN ToUpper(t[k]) ELSE ToLower(t[k])]
<1>4. up \in Text /\ down \in Text /\ cap \in Text
  BY <1>1, <1>2 DEF Text
<1>5. string_upcase(t) = Unterminated(up) /\ string_downcase(t) = Unterminated(down)
      /\ string_capitalize(t) = Unterminated(cap)
  BY DEF string_upcase, string_downcase, string_capitalize
<1> HIDE DEF up, down, cap
<1> QED
  BY <1>3, <1>4, <1>5

----------------------------------------------------------------------------
(***************************************************************************)
(* The invariant of Streams.                                               *)
(***************************************************************************)
FILE == [st : {"unused", "open", "closed"}, mode : Mode \cup {None}, pos : Nat,
         in : Text, out : Text, eof : BOOLEAN]

\* A FILE that a stream object may read or write.
Busy(w, f) == w.file[f].st = "open" /\ w.file[f].mode # "a"

\* What is read ahead ends at pos, and pos is in the file.
InPlace(w, f) == LET x == w.file[f]
                 IN  /\ Len(x.in) <= x.pos /\ x.pos <= Len(w.disk)
                     /\ Busy(w, f) \/ (x.pos = 0 /\ x.in = <<>> /\ x.out = <<>>)

World == [file : [FileId -> FILE], disk : Text]
Worlds == {w \in World : \A f \in FileId : InPlace(w, f)}

\* What there is to be read.
Rest(w, f) == w.file[f].in \o SubSeq(w.disk, w.file[f].pos + 1, Len(w.disk))

Has(o) == {io[o].fread, io[o].fwrite} \ {None}
IO == [st : {"unborn", "live", "gone"}, fread : FileId \cup {None}, fwrite : FileId \cup {None}]

\* An object has one FILE at most, and no other object has it.
Owners == /\ io \in [Stream -> IO]
          /\ phase \in {"run", "fail", "segv", "exit", "hang"}
          /\ \A o \in Stream :
               /\ None \notin {io[o].fread, io[o].fwrite} => io[o].fread = io[o].fwrite
               /\ Has(o) # {} => Live(o)
               /\ phase = "run" => \A f \in Has(o) : Busy(Now, f)
          /\ \A o, q \in Stream : o # q => Has(o) \cap Has(q) = {}
          /\ \A f \in FileId : Busy(Now, f) => \E o \in Stream : f \in Has(o)

\* While a file_read runs, what it has read and what is left make what there
\* was to be read, until the end of the file is met.
Reading ==
  rd # None =>
    LET text == Cstr(rd.ret.ptr)
    IN  /\ rd \in Reads
        /\ phase = "run" /\ Busy(Now, rd.f) /\ file[rd.f].out = <<>>
        /\ Len(rd.buf) = Chunk + 1 /\ Sound(rd.ret)
        /\ ~file[rd.f].eof =>
             /\ rd.want = text \o Rest(Now, rd.f)
             /\ \/ text = <<>> /\ \A k \in 1 .. Chunk + 1 : rd.buf[k] = NUL
                \/ Len(text) >= Chunk
        /\ file[rd.f].eof => /\ IsPrefix(rd.want, text)
                             /\ Len(rd.want) < Chunk => text = rd.want

IInv == Sound(str) /\ Now \in Worlds /\ Owners /\ Reading

----------------------------------------------------------------------------
(* The C library keeps every FILE in its place. *)

LEMMA FILEIs ==
  ASSUME NEW w \in Worlds, NEW f \in FileId
  PROVE  /\ w.file[f] \in FILE /\ w.disk \in Text /\ InPlace(w, f)
         /\ w.file[f].pos \in Nat /\ w.file[f].in \in Text /\ w.file[f].out \in Text
         /\ Len(w.file[f].in) \in Nat /\ Len(w.file[f].out) \in Nat /\ Len(w.disk) \in Nat
         /\ w.file[f].pos <= Len(w.disk) /\ Len(w.file[f].in) <= w.file[f].pos
<1>1. w \in World /\ InPlace(w, f)
  BY DEF Worlds
<1>2. w.file[f] \in FILE /\ w.disk \in Text
  BY <1>1 DEF World
<1> QED
  BY <1>1, <1>2, LenProperties DEF FILE, InPlace, Text

\* A FILE and the disk are changed so that every FILE stays in its place.
LEMMA StillInPlace ==
  ASSUME NEW w \in Worlds, NEW f \in FileId, NEW x \in FILE, NEW d \in Text,
         Len(x.in) <= x.pos, x.pos <= Len(d), Len(w.disk) <= Len(d),
         (x.st = "open" /\ x.mode # "a") \/ (x.pos = 0 /\ x.in = <<>> /\ x.out = <<>>)
  PROVE  [file |-> [w.file EXCEPT ![f] = x], disk |-> d] \in Worlds
<1> DEFINE v == [file |-> [w.file EXCEPT ![f] = x], disk |-> d]
<1>1. v \in World
  BY DEF World, Worlds
<1>2. ASSUME NEW g \in FileId PROVE InPlace(v, g)
  <2>1. CASE g = f
    <3>1. v.file[g] = x /\ v.disk = d
      BY <2>1 DEF World, Worlds
    <3> QED
      BY <3>1 DEF InPlace, Busy
  <2>2. CASE g # f
    <3>1. v.file[g] = w.file[g] /\ v.disk = d
      BY <2>2 DEF World, Worlds
    <3>2. InPlace(w, g) /\ w.file[g].pos <= Len(w.disk) /\ w.file[g].pos \in Nat /\ Len(w.disk) \in Nat
      BY FILEIs
    <3>3. Len(d) \in Nat
      BY LenProperties DEF Text
    <3>4. w.file[g].pos <= Len(d)
      BY <3>2, <3>3
    <3> HIDE DEF v
    <3> QED
      BY <3>1, <3>2, <3>4 DEF InPlace, Busy
  <2> QED
    BY <2>1, <2>2
<1> HIDE DEF v
<1>3. v \in Worlds
  BY <1>1, <1>2 DEF Worlds
<1> QED
  BY <1>3 DEF v

LEMMA FlushedIs ==
  ASSUME NEW w \in Worlds, NEW f \in FileId
  PROVE  /\ Flushed(w, f) \in Worlds
         /\ \A g \in FileId : g # f => Flushed(w, f).file[g] = w.file[g]
         /\ Flushed(w, f).file[f] = [w.file[f] EXCEPT !.pos = w.file[f].pos + Len(w.file[f].out),
                                                      !.out = <<>>]
         /\ w.file[f].out = <<>> => Flushed(w, f) = w
<1> DEFINE old == w.file[f]
           x == [old EXCEPT !.pos = old.pos + Len(old.out), !.out = <<>>]
           d == Over(w.disk, old.pos, old.out)
           v == [file |-> [w.file EXCEPT ![f] = x], disk |-> d]
<1>1. /\ old \in FILE /\ w.disk \in Text /\ InPlace(w, f)
      /\ old.pos \in Nat /\ old.in \in Text /\ old.out \in Text
      /\ Len(old.in) \in Nat /\ Len(old.out) \in Nat /\ Len(w.disk) \in Nat
      /\ old.pos <= Len(w.disk) /\ Len(old.in) <= old.pos
  BY FILEIs
<1>2. <<>> \in Text /\ Len(<<>>) = 0
  BY EmptySeq DEF Text
<1>3. w \in World /\ w.file \in [FileId -> FILE] /\ w = [file |-> w.file, disk |-> w.disk]
  BY DEF Worlds, World
<1>4. Flushed(w, f) = v
  BY <1>3 DEF Flushed
<1> HIDE DEF old
<1>5. /\ d \in Text
      /\ Len(d) = IF old.pos + Len(old.out) <= Len(w.disk) THEN Len(w.disk) ELSE old.pos + Len(old.out)
      /\ \A k \in 1 .. Len(d) : d[k] = IF k <= old.pos THEN w.disk[k]
                                       ELSE IF k <= old.pos + Len(old.out) THEN old.out[k - old.pos]
                                       ELSE w.disk[k]
  <2>1. old.pos \in 0 .. Len(w.disk) /\ old.out \in Seq(Char) /\ w.disk \in Seq(Char)
    BY <1>1 DEF Text
  <2> QED
    BY ONLY <2>1, OverIs DEF Text
<1> HIDE DEF d
<1>6. old.pos + Len(old.out) \in Nat /\ old.pos + Len(old.out) <= Len(d) /\ Len(w.disk) <= Len(d)
      /\ Len(d) \in Nat
  BY <1>1, <1>5
<1>7. /\ x \in FILE /\ x.in = old.in /\ x.pos = old.pos + Len(old.out) /\ x.out = <<>>
      /\ x.st = old.st /\ x.mode = old.mode
  BY <1>1, <1>2, <1>6 DEF FILE
<1>8. Len(x.in) <= x.pos /\ x.pos <= Len(d)
  BY <1>1, <1>6, <1>7
<1>9. (x.st = "open" /\ x.mode # "a") \/ (x.pos = 0 /\ x.in = <<>> /\ x.out = <<>>)
  <2>1. Busy(w, f) \/ (old.pos = 0 /\ old.in = <<>> /\ old.out = <<>>)
    BY <1>1 DEF InPlace, old
  <2>2. old.pos = 0 /\ old.in = <<>> /\ old.out = <<>> => x.pos = 0 /\ x.in = <<>>
    BY <1>2, <1>7
  <2> QED
    BY <1>7, <2>1, <2>2 DEF Busy, old
<1> HIDE DEF x
<1>10. v \in Worlds
  BY <1>5, <1>6, <1>7, <1>8, <1>9, StillInPlace
<1>11. v.file[f] = x /\ \A g \in FileId : g # f => v.file[g] = w.file[g]
  BY <1>3
<1>12. ASSUME old.out = <<>> PROVE v = w
  <2>1. Len(d) = Len(w.disk)
    BY <1>1, <1>2, <1>5, <1>12
  <2>2. ASSUME NEW k \in 1 .. Len(d) PROVE d[k] = w.disk[k]
    <3>1. old.pos + Len(old.out) = old.pos /\ k \in Nat
      BY <1>1, <1>2, <1>12
    <3> QED
      BY <1>1, <1>5, <3>1
  <2>3. d = w.disk
    BY ONLY <1>1, <1>5, <2>1, <2>2, SeqEqual DEF Text
  <2>4. x = old
    <3>1. old.pos + Len(old.out) = old.pos
      BY <1>1, <1>2, <1>12
    <3> QED
      BY <1>1, <1>12, <3>1 DEF FILE, x
  <2>5. [w.file EXCEPT ![f] = x] = w.file
    BY <1>3, <2>4 DEF old
  <2> QED
    BY <1>3, <2>3, <2>5
<1> HIDE DEF v
<1> QED
  BY <1>4, <1>10, <1>11, <1>12 DEF x, old

\* Nothing but FILE f, which stays open as it was.
SameBut(w, v, f) ==
  /\ \A g \in FileId : g # f => v.file[g] = w.file[g]
  /\ v.file[f].st = w.file[f].st /\ v.file[f].mode = w.file[f].mode

LEMMA ExceptWorld ==
  ASSUME NEW w \in Worlds, NEW f \in FileId, NEW x \in FILE,
         Len(x.in) <= x.pos, x.pos <= Len(w.disk), Busy(w, f),
         x.st = w.file[f].st, x.mode = w.file[f].mode
  PROVE  LET v == [w EXCEPT !.file[f] = x]
         IN  v \in Worlds /\ SameBut(w, v, f) /\ v.file[f] = x /\ v.disk = w.disk
<1>1. w \in World /\ w.file \in [FileId -> FILE] /\ w = [file |-> w.file, disk |-> w.disk]
  BY DEF Worlds, World
<1> DEFINE v == [file |-> [w.file EXCEPT ![f] = x], disk |-> w.disk]
<1>2. [w EXCEPT !.file[f] = x] = v
  BY <1>1
<1>3. Len(w.disk) \in Nat /\ w.disk \in Text /\ Len(w.disk) <= Len(w.disk)
  BY FILEIs
<1>4. (x.st = "open" /\ x.mode # "a") \/ (x.pos = 0 /\ x.in = <<>> /\ x.out = <<>>)
  BY DEF Busy
<1>5. v \in Worlds
  BY <1>3, <1>4, StillInPlace
<1>6. v.file[f] = x /\ v.disk = w.disk /\ \A g \in FileId : g # f => v.file[g] = w.file[g]
  BY <1>1
<1> HIDE DEF v
<1> QED
  BY <1>2, <1>5, <1>6 DEF SameBut

LEMMA AheadIs ==
  ASSUME NEW w \in Worlds, NEW f \in FileId, NEW n \in Nat, Busy(w, f)
  PROVE  LET a == Ahead(w, f, n)
         IN  /\ a \in Worlds /\ SameBut(w, a, f) /\ a.file[f].out = <<>>
             /\ w.file[f].out = <<>> => Rest(a, f) = Rest(w, f)
             /\ Len(a.file[f].in) < n => a.file[f].pos = Len(a.disk)
<1> DEFINE v == Flushed(w, f)
           y == v.file[f]
           more == SubSeq(v.disk, y.pos + 1, Len(v.disk))
           all == y.in \o more
           z == [y EXCEPT !.in = all, !.pos = Len(v.disk)]
           a == Ahead(w, f, n)
<1>1. /\ v \in Worlds /\ SameBut(w, v, f) /\ y.out = <<>>
      /\ w.file[f].out = <<>> => v = w
  <2>1. w.file[f] \in FILE
    BY FILEIs
  <2> HIDE DEF v
  <2>2. /\ v \in Worlds
        /\ \A g \in FileId : g # f => v.file[g] = w.file[g]
        /\ v.file[f] = [w.file[f] EXCEPT !.pos = w.file[f].pos + Len(w.file[f].out), !.out = <<>>]
        /\ w.file[f].out = <<>> => v = w
    BY FlushedIs DEF v
  <2> QED
    BY <2>1, <2>2 DEF SameBut, FILE
<1> HIDE DEF v
<1>2. /\ y \in FILE /\ v.disk \in Text /\ y.pos \in Nat /\ y.in \in Text
      /\ Len(y.in) \in Nat /\ Len(v.disk) \in Nat
      /\ y.pos <= Len(v.disk) /\ Len(y.in) <= y.pos
  BY <1>1, FILEIs
<1>3. CASE Len(y.in) >= n
  <2>1. a = v
    BY <1>3 DEF Ahead, v
  <2>2. ~(Len(y.in) < n)
    BY <1>2, <1>3
  <2> HIDE DEF a
  <2> QED
    BY <1>1, <2>1, <2>2 DEF a
<1>4. CASE ~(Len(y.in) >= n)
  <2>1. v \in World /\ v.file \in [FileId -> FILE] /\ v = [file |-> v.file, disk |-> v.disk]
    BY <1>1 DEF Worlds, World
  <2>2. /\ more \in Text /\ Len(more) = Len(v.disk) - y.pos
    <3> DEFINE m == y.pos + 1
               N == Len(v.disk)
    <3>1. m \in 1 .. N + 1 /\ N \in 0 .. N /\ v.disk \in Seq(Char)
      BY <1>2 DEF Text
    <3> HIDE DEF m
    <3>2. SubSeq(v.disk, m, N) \in Seq(Char) /\ Len(SubSeq(v.disk, m, N)) = IF m <= N THEN N - m + 1 ELSE 0
      BY ONLY <3>1, Part
    <3>3. (IF m <= N THEN N - m + 1 ELSE 0) = N - y.pos
      BY <1>2 DEF m
    <3> QED
      BY <3>2, <3>3 DEF m, Text
  <2> HIDE DEF more
  <2>3. all \in Text /\ Len(all) = Len(y.in) + Len(more)
    BY <1>2, <2>2, ConcatProperties DEF Text
  <2> HIDE DEF all
  <2>4. (IF Len(v.disk) > y.pos THEN Len(v.disk) ELSE y.pos) = Len(v.disk)
    BY <1>2
  <2>5. a = [v EXCEPT !.file[f] = z]
    <3>1. a = [v EXCEPT !.file[f].in = all,
                        !.file[f].pos = IF Len(v.disk) > y.pos THEN Len(v.disk) ELSE y.pos]
      BY <1>4, <2>1 DEF Ahead, v, all, more
    <3> QED
      BY <2>1, <2>4, <3>1
  <2>6. /\ z \in FILE /\ z.in = all /\ z.pos = Len(v.disk) /\ z.out = y.out
        /\ z.st = y.st /\ z.mode = y.mode
    BY <1>2, <2>3 DEF FILE
  <2>7. Len(z.in) <= z.pos /\ z.pos <= Len(v.disk)
    <3>1. Len(z.in) = Len(y.in) + Len(more) /\ z.pos = Len(v.disk) /\ Len(more) = Len(v.disk) - y.pos
      BY <2>2, <2>3, <2>6
    <3> HIDE DEF z, y
    <3> QED
      BY <1>2, <3>1
  <2>8. Busy(v, f)
    BY <1>1 DEF Busy, SameBut
  <2> HIDE DEF z, y
  <2>9. a \in Worlds /\ SameBut(v, a, f) /\ a.file[f] = z /\ a.disk = v.disk
    <3> HIDE DEF a
    <3> QED
      BY <1>1, <2>5, <2>6, <2>7, <2>8, ExceptWorld DEF y
  <2>10. SameBut(w, a, f)
    BY <1>1, <2>9 DEF SameBut
  <2>11. Rest(a, f) = Rest(v, f)
    <3>1. Rest(v, f) = all
      BY DEF Rest, all, more, y
    <3>2. SubSeq(a.disk, a.file[f].pos + 1, Len(a.disk)) = <<>>
      <4>1. a.file[f].pos + 1 \in Int /\ Len(a.disk) \in Int /\ Len(a.disk) < a.file[f].pos + 1
        BY <1>2, <2>6, <2>9
      <4> QED
        BY ONLY <4>1, SubSeqEmpty
    <3>3. all \o <<>> = all
      BY <2>3, ConcatEmptySeq DEF Text
    <3> QED
      BY <2>6, <2>9, <3>1, <3>2, <3>3 DEF Rest
  <2> HIDE DEF a
  <2> QED
    BY <1>1, <2>6, <2>9, <2>10, <2>11 DEF a, y
<1> QED
  BY <1>3, <1>4

\* What fread returns is taken from the front of what there is to be read; it
\* is all of that if it is less than what was asked for.
LEMMA FreadIs ==
  ASSUME Now \in Worlds, NEW f \in FileId, NEW n \in Nat, Busy(Now, f)
  PROVE  LET r == fread(f, n)
         IN  /\ r.w \in Worlds /\ SameBut(Now, r.w, f) /\ r.w.file[f].out = <<>>
             /\ r.got \in Text /\ Len(r.got) <= n /\ r.w.file[f].eof = (Len(r.got) < n)
             /\ file[f].out = <<>> => /\ Rest(Now, f) = r.got \o Rest(r.w, f)
                                      /\ Len(r.got) < n => Rest(Now, f) = r.got
<1> DEFINE a == Ahead(Now, f, n)
           x == a.file[f]
           got == Take(x.in, n)
           left == SubSeq(x.in, n + 1, Len(x.in))
           short == Len(got) < n
           z == [x EXCEPT !.in = left, !.eof = short]
           v == [a EXCEPT !.file[f] = z]
           r == fread(f, n)
<1>1. /\ a \in Worlds /\ SameBut(Now, a, f) /\ x.out = <<>>
      /\ file[f].out = <<>> => Rest(a, f) = Rest(Now, f)
      /\ Len(x.in) < n => x.pos = Len(a.disk)
  <2>1. Now.file[f].out = file[f].out
    BY DEF Now
  <2> QED
    BY <2>1, AheadIs
<1>2. a \in World /\ a.file \in [FileId -> FILE] /\ a = [file |-> a.file, disk |-> a.disk]
  BY <1>1 DEF Worlds, World
<1>3. r = [w |-> v, got |-> got]
  BY <1>2 DEF fread
<1> HIDE DEF r, a
<1>4. /\ x \in FILE /\ a.disk \in Text /\ x.pos \in Nat /\ x.in \in Text
      /\ Len(x.in) \in Nat /\ Len(a.disk) \in Nat
      /\ x.pos <= Len(a.disk) /\ Len(x.in) <= x.pos
  BY <1>1, FILEIs
<1> HIDE DEF x
<1>5. got \in Text /\ Len(got) = IF n < Len(x.in) THEN n ELSE Len(x.in)
  BY <1>4, TakeIs
<1>6. /\ left \in Text /\ Len(left) <= Len(x.in) /\ got \o left = x.in
      /\ Len(x.in) <= n => left = <<>>
  <2>1. CASE Len(x.in) <= n
    <3>1. n + 1 \in Int /\ Len(x.in) \in Int /\ Len(x.in) < n + 1
      BY <1>4, <2>1
    <3>2. left = <<>>
      BY ONLY <3>1, SubSeqEmpty
    <3>3. got = x.in
      <4>1. (IF n < Len(x.in) THEN n ELSE Len(x.in)) = Len(x.in)
        BY <1>4, <2>1
      <4>2. got = SubSeq(x.in, 1, Len(x.in))
        BY <4>1 DEF Take
      <4> QED
        BY <1>4, <4>2, SubSeqFull DEF Text
    <3>4. Len(left) <= Len(x.in)
      BY <1>4, <3>2, EmptySeq
    <3> QED
      BY <1>4, <3>2, <3>3, <3>4, ConcatEmptySeq, EmptySeq DEF Text
  <2>2. CASE ~(Len(x.in) <= n)
    <3> DEFINE m == n + 1
               N == Len(x.in)
    <3>1. m \in 1 .. N + 1 /\ N \in 0 .. N /\ x.in \in Seq(Char) /\ 1 \in 1 .. N + 1 /\ n \in 0 .. N
          /\ n \in 1 - 1 .. N /\ N \in n .. N
      BY <1>4, <2>2 DEF Text
    <3>2. got = SubSeq(x.in, 1, n)
      BY <1>4, <2>2 DEF Take
    <3>3. SubSeq(x.in, 1, n) \o SubSeq(x.in, n + 1, N) = SubSeq(x.in, 1, N)
      BY ONLY <3>1, ConcatAdjacentSubSeq
    <3>4. SubSeq(x.in, 1, N) = x.in
      BY <1>4, SubSeqFull DEF Text
    <3>5. SubSeq(x.in, m, N) \in Seq(Char) /\ Len(SubSeq(x.in, m, N)) = IF m <= N THEN N - m + 1 ELSE 0
      <4> HIDE DEF m, N
      <4> QED
        BY ONLY <3>1, Part DEF N
    <3>6. Len(left) <= Len(x.in)
      BY <1>4, <2>2, <3>5
    <3> QED
      BY <2>2, <3>2, <3>3, <3>4, <3>5, <3>6 DEF Text
  <2> QED
    BY <2>1, <2>2
<1> HIDE DEF got, left
<1>7. /\ z \in FILE /\ z.in = left /\ z.pos = x.pos /\ z.out = x.out /\ z.eof = short
      /\ z.st = x.st /\ z.mode = x.mode
  <2>1. short \in BOOLEAN
    OBVIOUS
  <2> HIDE DEF short
  <2> QED
    BY <1>4, <1>6, <2>1 DEF FILE
<1> HIDE DEF z
<1>8. Len(z.in) <= z.pos /\ z.pos <= Len(a.disk)
  <2>1. Len(left) \in Nat
    BY <1>6, LenProperties DEF Text
  <2> QED
    BY <1>4, <1>6, <1>7, <2>1
<1>9. Busy(a, f)
  BY <1>1 DEF Busy, SameBut
<1>10. v \in Worlds /\ SameBut(a, v, f) /\ v.file[f] = z /\ v.disk = a.disk
  BY <1>1, <1>7, <1>8, <1>9, ExceptWorld DEF x
<1> HIDE DEF v
<1>11. SameBut(Now, v, f)
  BY <1>1, <1>10 DEF SameBut
<1> DEFINE tail == SubSeq(a.disk, x.pos + 1, Len(a.disk))
<1>12. Rest(a, f) = x.in \o tail /\ Rest(v, f) = left \o tail
  BY <1>7, <1>10 DEF Rest, x
<1>13. tail \in Text
  <2> DEFINE m == x.pos + 1
  <2>1. m \in 1 .. Len(a.disk) + 1 /\ Len(a.disk) \in 0 .. Len(a.disk) /\ a.disk \in Seq(Char)
    BY <1>4 DEF Text
  <2> HIDE DEF m
  <2>2. SubSeq(a.disk, m, Len(a.disk)) \in Seq(Char)
    BY ONLY <2>1, Part
  <2> QED
    BY <2>2 DEF m, Text
<1>14. Rest(a, f) = got \o Rest(v, f)
  <2> HIDE DEF tail
  <2>0. got \in Seq(Char) /\ left \in Seq(Char) /\ tail \in Seq(Char)
    BY <1>5, <1>6, <1>13 DEF Text
  <2>1. (got \o left) \o tail = got \o (left \o tail)
    BY ONLY <2>0, ConcatAssociative
  <2> QED
    BY <1>6, <1>12, <2>1
<1>15. ASSUME Len(got) < n PROVE Rest(a, f) = got
  <2>1. Len(x.in) < n /\ Len(x.in) <= n
    BY <1>4, <1>5, <1>15
  <2>2. tail = <<>>
    <3>1. x.pos + 1 \in Int /\ Len(a.disk) \in Int /\ Len(a.disk) < x.pos + 1
      BY <1>1, <1>4, <2>1 DEF x
    <3> QED
      BY ONLY <3>1, SubSeqEmpty
  <2>3. x.in = got /\ x.in \o <<>> = x.in
    BY <1>4, <1>5, <1>6, <2>1, ConcatEmptySeq DEF Text
  <2> QED
    BY <1>12, <2>2, <2>3
<1>16. Len(got) <= n
  BY <1>4, <1>5
<1> HIDE DEF tail
<1>17. r.w = v /\ r.got = got
  BY <1>3
<1> QED
  BY <1>1, <1>5, <1>7, <1>10, <1>11, <1>14, <1>15, <1>16, <1>17 DEF r

\* Writing gives up what was read ahead, and adds to what is to be written.
LEMMA WrittenIs ==
  ASSUME Now \in Worlds, NEW f \in FileId, Busy(Now, f), NEW t \in Text
  PROVE  Written(f, t) \in Worlds /\ SameBut(Now, Written(f, t), f)
<1> DEFINE x == file[f]
           out == x.out \o t
           z == [x EXCEPT !.pos = x.pos - Len(x.in), !.in = <<>>, !.out = out]
<1>1. /\ x \in FILE /\ disk \in Text /\ x.pos \in Nat /\ x.in \in Text /\ x.out \in Text
      /\ Len(x.in) \in Nat /\ Len(disk) \in Nat /\ x.pos <= Len(disk) /\ Len(x.in) <= x.pos
  <2>1. Now.file = file /\ Now.disk = disk
    BY DEF Now
  <2> QED
    BY <2>1, FILEIs
<1>2. file \in [FileId -> FILE]
  BY DEF Now, Worlds, World
<1>3. out \in Text /\ <<>> \in Text /\ Len(<<>>) = 0 /\ x.pos - Len(x.in) \in Nat
  BY <1>1, ConcatProperties, EmptySeq DEF Text
<1>4. Written(f, t) = [Now EXCEPT !.file[f] = z]
  <2> DEFINE y == [x EXCEPT !.pos = x.pos - Len(x.in), !.in = <<>>]
             u == [file |-> [file EXCEPT ![f] = y], disk |-> disk]
  <2>1. Turned(Now, f) = u
    <3> DEFINE p == [x EXCEPT !.pos = x.pos - Len(x.in)]
               m == [file |-> [file EXCEPT ![f] = p], disk |-> disk]
    <3>1. [Now EXCEPT !.file[f].pos = @ - Len(Now.file[f].in)] = m
      BY DEF Now
    <3>2. p = [x EXCEPT !.pos = x.pos - Len(x.in)] /\ y = [p EXCEPT !.in = <<>>]
      BY <1>1 DEF FILE
    <3> HIDE DEF p, y, x
    <3>3. [m EXCEPT !.file[f].in = <<>>] = u
      BY <1>2, <3>2
    <3>4. Turned(Now, f) = [[Now EXCEPT !.file[f].pos = @ - Len(Now.file[f].in)] EXCEPT !.file[f].in = <<>>]
      BY DEF Turned
    <3> HIDE DEF m, u
    <3> QED
      BY <3>1, <3>3, <3>4
  <2>2. y = [x EXCEPT !.pos = x.pos - Len(x.in), !.in = <<>>] /\ y.out = x.out /\ z = [y EXCEPT !.out = out]
    BY <1>1 DEF FILE
  <2> HIDE DEF x, z, y
  <2>3. u.file \in [FileId -> {file[g] : g \in FileId} \cup {y}] /\ u.file[f] = y
    BY <1>2
  <2>4. [u EXCEPT !.file[f].out = @ \o t] = [file |-> [file EXCEPT ![f] = z], disk |-> disk]
    BY <1>2, <2>2, <2>3
  <2>5. [Now EXCEPT !.file[f] = z] = [file |-> [file EXCEPT ![f] = z], disk |-> disk]
    BY <1>2 DEF Now
  <2> QED
    BY <2>1, <2>4, <2>5 DEF Written
<1> HIDE DEF x, out
<1>5. /\ z \in FILE /\ z.in = <<>> /\ z.pos = x.pos - Len(x.in) /\ z.st = x.st /\ z.mode = x.mode
  BY <1>1, <1>3 DEF FILE
<1> HIDE DEF z
<1>6. Len(z.in) <= z.pos /\ z.pos <= Len(Now.disk)
  <2>1. Now.disk = disk
    BY DEF Now
  <2> QED
    BY <1>1, <1>3, <1>5, <2>1
<1>7. z.st = Now.file[f].st /\ z.mode = Now.file[f].mode
  BY <1>5 DEF Now, x
<1> QED
  BY <1>4, <1>5, <1>6, <1>7, ExceptWorld

LEMMA fcloseIs ==
  ASSUME NEW w \in Worlds, NEW f \in FileId
  PROVE  /\ fclose(w, f) \in Worlds
         /\ \A g \in FileId : g # f => fclose(w, f).file[g] = w.file[g]
         /\ fclose(w, f).file[f] = Shut
<1> DEFINE v == Flushed(w, f)
           u == [file |-> [v.file EXCEPT ![f] = Shut], disk |-> v.disk]
<1>1. v \in Worlds /\ \A g \in FileId : g # f => v.file[g] = w.file[g]
  BY FlushedIs
<1>2. fclose(w, f) = [v EXCEPT !.file[f] = Shut]
  BY DEF fclose
<1> HIDE DEF v
<1>3. v \in World /\ v.file \in [FileId -> FILE] /\ v = [file |-> v.file, disk |-> v.disk]
      /\ v.disk \in Text
  BY <1>1 DEF Worlds, World
<1>4. fclose(w, f) = u
  BY <1>2, <1>3
<1>5. Shut \in FILE /\ Len(Shut.in) = 0 /\ Shut.pos = 0 /\ Shut.in = <<>> /\ Shut.out = <<>>
  BY EmptySeq DEF Shut, FILE, Text
<1>6. Len(v.disk) \in Nat
  BY <1>3, LenProperties DEF Text
<1>7. Len(Shut.in) <= Shut.pos /\ Shut.pos <= Len(v.disk) /\ Len(v.disk) <= Len(v.disk)
  BY <1>5, <1>6
<1>8. (Shut.st = "open" /\ Shut.mode # "a") \/ (Shut.pos = 0 /\ Shut.in = <<>> /\ Shut.out = <<>>)
  BY <1>5
<1>9. u \in Worlds
  BY ONLY <1>1, <1>3, <1>5, <1>7, <1>8, f \in FileId, StillInPlace
<1>10. u.file[f] = Shut /\ \A g \in FileId : g # f => u.file[g] = w.file[g]
  BY <1>1, <1>3
<1> HIDE DEF u
<1> QED
  BY <1>4, <1>9, <1>10

\* An order of some FILEs.
LEMMA OrderIs ==
  ASSUME NEW S \in SUBSET FileId, NEW order \in SetToSeqs(S)
  PROVE  Len(order) \in Nat /\ \A k \in 1 .. Len(order) : order[k] \in FileId
<1> DEFINE n == Cardinality(S)
<1>1. n \in Nat
  BY FilesAssumption, FS_Subset, FS_CardinalityType
<1>2. order \in [1 .. n -> S]
  BY DEF SetToSeqs
<1> HIDE DEF n
<1>3. order \in Seq(S) /\ Len(order) = n
  BY <1>1, <1>2
<1> QED
  BY <1>1, <1>2, <1>3

\* Those that were not open are not opened, and none is opened anew.
OpenBefore(w, v) == \A g \in FileId :
                      v.file[g].st = "open" => w.file[g].st = "open" /\ v.file[g].mode = w.file[g].mode
SameStates(w, v) == \A g \in FileId :
                      v.file[g].st = w.file[g].st /\ v.file[g].mode = w.file[g].mode

LEMMA FlushedAllIs ==
  ASSUME NEW w \in Worlds, NEW S \in SUBSET FileId, NEW order \in SetToSeqs(S)
  PROVE  FlushedAll(w, order) \in Worlds /\ SameStates(w, FlushedAll(w, order))
<1> DEFINE N == Len(order)
           V == {v \in Worlds : SameStates(w, v)}
           Def(f) == f = [k \in 0..N |-> IF k = 0 THEN w ELSE Flushed(f[k - 1], order[k])]
           step == [p \in Int \X V |-> IF p[1] \in 1..N THEN Flushed(p[2], order[p[1]]) ELSE p[2]]
           after == CHOOSE f : Def(f)
<1>1. N \in Nat /\ \A k \in 1..N : order[k] \in FileId
  BY OrderIs
<1>2. w \in V
  BY DEF SameStates
<1>3. ASSUME NEW v \in V, NEW k \in 1..N PROVE Flushed(v, order[k]) \in V
  <2> DEFINE g == order[k]
             u == Flushed(v, g)
  <2>1. g \in FileId /\ v \in Worlds /\ SameStates(w, v)
    BY <1>1
  <2> HIDE DEF g
  <2>2. v.file[g] \in FILE
    BY <2>1, FILEIs
  <2>3. /\ u \in Worlds
        /\ \A h \in FileId : h # g => u.file[h] = v.file[h]
        /\ u.file[g] = [v.file[g] EXCEPT !.pos = v.file[g].pos + Len(v.file[g].out), !.out = <<>>]
    BY <2>1, FlushedIs
  <2> HIDE DEF u
  <2>4. u.file[g].st = v.file[g].st /\ u.file[g].mode = v.file[g].mode
    BY <2>2, <2>3 DEF FILE
  <2>5. SameStates(w, u)
    BY <2>1, <2>3, <2>4 DEF SameStates
  <2> QED
    BY <2>3, <2>5 DEF u, g
<1> HIDE DEF N, V
<1>4. step \in [Int \X V -> V] /\ \A k \in 1..N : \A v \in V : step[k, v] = Flushed(v, order[k])
  <2>1. step \in [Int \X V -> V]
    BY <1>3
  <2>2. ASSUME NEW k \in 1..N, NEW v \in V PROVE step[k, v] = Flushed(v, order[k])
    <3>1. <<k, v>> \in Int \X V
      BY <1>1
    <3> QED
      BY <3>1
  <2> QED
    BY <2>1, <2>2
<1> HIDE DEF step
<1>5. \E f : Def(f)
  <2>0. 0 \in Int /\ N \in Int
    BY <1>1
  <2>1. PICK f : Recursive(f, 0..N, 0, w, step) /\ \A k \in 0..N : f[k] \in V
    BY ONLY <1>2, <1>4, <2>0, NumberRecursion
  <2>2. ASSUME NEW k \in 0..N, k # 0 PROVE step[k, f[k - 1]] = Flushed(f[k - 1], order[k])
    <3>1. k \in 1..N /\ k - 1 \in 0..N
      BY <1>1, <2>2
    <3> QED
      BY <1>4, <2>1, <3>1
  <2>3. Def(f)
    BY <2>1, <2>2 DEF Recursive
  <2> QED
    BY <2>3
<1>6. Def(after)
  BY <1>5
<1> HIDE DEF after
<1>7. \A k \in 0..N : after[k] = IF k = 0 THEN w ELSE Flushed(after[k - 1], order[k])
  BY <1>6
<1> DEFINE P == {k \in 0..N : after[k] \in V}
<1>8. 0 \in P
  BY <1>1, <1>2, <1>7
<1>9. ASSUME NEW k \in 0 + 1 .. N, k - 1 \in P PROVE k \in P
  <2>1. k \in 1..N /\ k \in 0..N /\ k # 0 /\ after[k - 1] \in V
    BY <1>1, <1>9
  <2>2. after[k] = Flushed(after[k - 1], order[k])
    BY <1>7, <2>1
  <2> QED
    BY <1>3, <2>1, <2>2
<1>10. N \in P
  <2>1. 0 \in Int /\ N \in Int /\ N \in 0..N
    BY <1>1
  <2> HIDE DEF P
  <2> QED
    BY ONLY <1>8, <1>9, <2>1, UpTo
<1>11. FlushedAll(w, order) = after[N]
  BY DEF FlushedAll, after, N
<1> QED
  BY <1>10, <1>11 DEF V

LEMMA ClosedAllIs ==
  ASSUME NEW w \in Worlds, NEW S \in SUBSET FileId, NEW order \in SetToSeqs(S)
  PROVE  ClosedAll(w, order) \in Worlds /\ OpenBefore(w, ClosedAll(w, order))
<1> DEFINE N == Len(order)
           V == {v \in Worlds : OpenBefore(w, v)}
           Def(f) == f = [k \in 0..N |-> IF k = 0 THEN w ELSE fclose(f[k - 1], order[k])]
           step == [p \in Int \X V |-> IF p[1] \in 1..N THEN fclose(p[2], order[p[1]]) ELSE p[2]]
           after == CHOOSE f : Def(f)
<1>1. N \in Nat /\ \A k \in 1..N : order[k] \in FileId
  BY OrderIs
<1>2. w \in V
  BY DEF OpenBefore
<1>3. ASSUME NEW v \in V, NEW k \in 1..N PROVE fclose(v, order[k]) \in V
  <2> DEFINE g == order[k]
             u == fclose(v, g)
  <2>1. g \in FileId /\ v \in Worlds /\ OpenBefore(w, v)
    BY <1>1
  <2> HIDE DEF g
  <2>2. /\ u \in Worlds
        /\ \A h \in FileId : h # g => u.file[h] = v.file[h]
        /\ u.file[g] = Shut
    BY <2>1, fcloseIs
  <2> HIDE DEF u
  <2>3. u.file[g].st # "open"
    BY <2>2 DEF Shut
  <2>4. OpenBefore(w, u)
    BY <2>1, <2>2, <2>3 DEF OpenBefore
  <2> QED
    BY <2>2, <2>4 DEF u, g
<1> HIDE DEF N, V
<1>4. step \in [Int \X V -> V] /\ \A k \in 1..N : \A v \in V : step[k, v] = fclose(v, order[k])
  <2>1. step \in [Int \X V -> V]
    BY <1>3
  <2>2. ASSUME NEW k \in 1..N, NEW v \in V PROVE step[k, v] = fclose(v, order[k])
    <3>1. <<k, v>> \in Int \X V
      BY <1>1
    <3> QED
      BY <3>1
  <2> QED
    BY <2>1, <2>2
<1> HIDE DEF step
<1>5. \E f : Def(f)
  <2>0. 0 \in Int /\ N \in Int
    BY <1>1
  <2>1. PICK f : Recursive(f, 0..N, 0, w, step) /\ \A k \in 0..N : f[k] \in V
    BY ONLY <1>2, <1>4, <2>0, NumberRecursion
  <2>2. ASSUME NEW k \in 0..N, k # 0 PROVE step[k, f[k - 1]] = fclose(f[k - 1], order[k])
    <3>1. k \in 1..N /\ k - 1 \in 0..N
      BY <1>1, <2>2
    <3> QED
      BY <1>4, <2>1, <3>1
  <2>3. Def(f)
    BY <2>1, <2>2 DEF Recursive
  <2> QED
    BY <2>3
<1>6. Def(after)
  BY <1>5
<1> HIDE DEF after
<1>7. \A k \in 0..N : after[k] = IF k = 0 THEN w ELSE fclose(after[k - 1], order[k])
  BY <1>6
<1> DEFINE P == {k \in 0..N : after[k] \in V}
<1>8. 0 \in P
  BY <1>1, <1>2, <1>7
<1>9. ASSUME NEW k \in 0 + 1 .. N, k - 1 \in P PROVE k \in P
  <2>1. k \in 1..N /\ k \in 0..N /\ k # 0 /\ after[k - 1] \in V
    BY <1>1, <1>9
  <2>2. after[k] = fclose(after[k - 1], order[k])
    BY <1>7, <2>1
  <2> QED
    BY <1>3, <2>1, <2>2
<1>10. N \in P
  <2>1. 0 \in Int /\ N \in Int /\ N \in 0..N
    BY <1>1
  <2> HIDE DEF P
  <2> QED
    BY ONLY <1>8, <1>9, <2>1, UpTo
<1>11. ClosedAll(w, order) = after[N]
  BY DEF ClosedAll, after, N
<1> QED
  BY <1>10, <1>11 DEF V

----------------------------------------------------------------------------
(* The initial state, and the steps that change neither the objects nor    *)
(* what is open.                                                           *)

LEMMA InitIs == Init => IInv
<1> SUFFICES ASSUME Init PROVE IInv
  OBVIOUS
<1>1. <<>> \in Text /\ Len(<<>>) = 0
  BY EmptySeq DEF Text
<1>2. Sound(str)
  BY <1>1, NewIs DEF Init
<1>3. disk \in Text
  <2>1. PICK t \in Literal, u \in Literal : disk = t \o u
    BY DEF Init
  <2>2. t \in Seq(Char) /\ u \in Seq(Char)
    BY LiteralsAssumption
  <2> QED
    BY <2>1, <2>2, ConcatProperties DEF Text
<1>4. \A f \in FileId : /\ file[f] \in FILE /\ file[f].st = "unused" /\ file[f].pos = 0
                        /\ file[f].in = <<>> /\ file[f].out = <<>>
  BY <1>1 DEF Init, Shut, FILE
<1>5. file \in [FileId -> FILE]
  BY <1>4 DEF Init
<1>6. Len(disk) \in Nat
  BY <1>3, LenProperties DEF Text
<1>7. Now \in Worlds
  <2>1. Now.file = file /\ Now.disk = disk
    BY DEF Now
  <2>2. Now \in World
    BY <1>3, <1>5 DEF Now, World
  <2>3. ASSUME NEW f \in FileId PROVE InPlace(Now, f)
    <3>1. 0 <= Len(disk)
      BY <1>6
    <3> QED
      BY <1>1, <1>4, <2>1, <3>1 DEF InPlace
  <2> QED
    BY <2>2, <2>3 DEF Worlds
<1>8. Owners
  <2>1. io \in [Stream -> IO] /\ \A o \in Stream : io[o].fread = None /\ io[o].fwrite = None
    BY DEF Init, IO
  <2>2. \A o \in Stream : Has(o) = {}
    BY <2>1 DEF Has
  <2>3. \A f \in FileId : ~Busy(Now, f)
    BY <1>4 DEF Busy, Now
  <2>4. phase = "run"
    BY DEF Init
  <2> QED
    BY <2>1, <2>2, <2>3, <2>4 DEF Owners
<1>9. Reading
  BY DEF Init, Reading
<1> QED
  BY <1>2, <1>7, <1>8, <1>9 DEF IInv

LEMMA BecomesIs == ASSUME NEW w \in Worlds, Becomes(w) PROVE Now' = w
BY DEF Becomes, Now, Worlds, World

LEMMA ButIsSame == ASSUME NEW w, NEW v, NEW f, SameBut(w, v, f) PROVE SameStates(w, v)
BY DEF SameBut, SameStates

LEMMA SameOwners ==
  ASSUME Owners, io' = io, SameStates(Now, Now'),
         phase' = phase \/ (phase = "run" /\ phase' \in {"fail", "segv", "exit", "hang"})
  PROVE  Owners'
<1>1. io' \in [Stream -> IO] /\ phase' \in {"run", "fail", "segv", "exit", "hang"}
  BY DEF Owners
<1>2. \A f \in FileId : Busy(Now, f)' <=> Busy(Now, f)
  BY DEF SameStates, Busy
<1>3. \A o \in Stream : Has(o)' = Has(o) /\ Live(o)' = Live(o) /\ Has(o) \subseteq FileId
  BY DEF Has, Live, Owners, IO
<1>4. ASSUME NEW o \in Stream
      PROVE  /\ None \notin {io[o].fread, io[o].fwrite}' => (io[o].fread = io[o].fwrite)'
             /\ Has(o)' # {} => Live(o)'
             /\ phase' = "run" => \A f \in Has(o)' : Busy(Now, f)'
  <2>1. phase' = "run" => phase = "run"
    OBVIOUS
  <2> QED
    BY <1>2, <1>3, <2>1 DEF Owners
<1>5. \A o, q \in Stream : o # q => Has(o)' \cap Has(q)' = {}
  BY <1>3 DEF Owners
<1>6. \A f \in FileId : Busy(Now, f)' => \E o \in Stream : f \in Has(o)'
  BY <1>2, <1>3 DEF Owners
<1> QED
  BY <1>1, <1>4, <1>5, <1>6 DEF Owners

LEMMA Keeps ==
  ASSUME IInv, Running, Sound(str'), NEW w \in Worlds, Becomes(w), SameStates(Now, w),
         io' = io, rd' = rd, phase' \in {"run", "fail", "segv", "exit", "hang"}
  PROVE  IInv'
<1>1. Now' = w
  BY BecomesIs
<1>2. Owners'
  BY <1>1, SameOwners DEF IInv, Running
<1>3. Reading'
  BY DEF Reading, Running
<1> QED
  BY <1>1, <1>2, <1>3 DEF IInv

\* Nothing happens to the FILEs.
LEMMA KeepsFiles ==
  ASSUME IInv, Running, Sound(str'), file' = file, disk' = disk,
         io' = io, rd' = rd, phase' \in {"run", "fail", "segv", "exit", "hang"}
  PROVE  IInv'
<1>1. Now \in Worlds /\ Becomes(Now) /\ SameStates(Now, Now)
  BY DEF IInv, Becomes, Now, SameStates
<1> QED
  BY <1>1, Keeps

LEMMA CurIsText == ASSUME IInv PROVE Cur \in Text
BY CstrOf DEF IInv, Sound, Cur

LEMMA NewString == ASSUME IInv, NEW t \in Text, string_new(t) PROVE IInv'
<1>1. Sound(str')
  BY NewIs DEF string_new
<1> QED
  BY <1>1, KeepsFiles DEF string_new, Running

LEMMA StringMethodIs == ASSUME IInv, StringMethod PROVE IInv'
<1> DEFINE t == Cur
<1>1. t \in Text
  BY CurIsText
<1> HIDE DEF t
<1>2. PICK u \in Literal :
        \/ string_new(u)
        \/ string_new(string_plus(t, u))
        \/ u # <<>> /\ string_new(string_minus(t, u))
        \/ \E p \in Range(string_split(t, u)) : string_new(p)
        \/ \E n \in 0 .. 2 : string_new(string_multiply(t, n))
        \/ string_new(string_chomp(t))
        \/ \E v \in string_upcase(t) \cup string_downcase(t) \cup string_capitalize(t) :
             string_new(v)
  BY DEF StringMethod, t
<1>3. u \in Text
  BY LiteralsAssumption DEF Text
<1>4. CASE string_new(u)
  BY <1>3, <1>4, NewString
<1>5. CASE string_new(string_plus(t, u))
  BY <1>1, <1>3, <1>5, PlusIsText, NewString
<1>6. CASE u # <<>> /\ string_new(string_minus(t, u))
  <2>1. string_minus(t, u) \in Text
    BY <1>1, <1>3, <1>6, MinusIs
  <2> QED
    BY <1>6, <2>1, NewString
<1>7. CASE \E p \in Range(string_split(t, u)) : string_new(p)
  <2>1. PICK p \in Range(string_split(t, u)) : string_new(p)
    BY <1>7
  <2>2. string_split(t, u) \in Seq(Text)
    BY <1>1, <1>3, SplitIs
  <2>3. p \in Text
    <3> DEFINE s == string_split(t, u)
    <3> HIDE DEF s
    <3>1. s \in Seq(Text) /\ p \in Range(s)
      BY <2>1, <2>2 DEF s
    <3>2. PICK k \in DOMAIN s : p = s[k]
      BY <3>1 DEF Range
    <3>3. k \in 1 .. Len(s)
      BY <3>1, <3>2, LenProperties
    <3> QED
      BY <3>1, <3>2, <3>3, ElementOfSeq
  <2> QED
    BY <2>1, <2>3, NewString
<1>8. CASE \E n \in 0 .. 2 : string_new(string_multiply(t, n))
  <2>1. PICK n \in 0 .. 2 : string_new(string_multiply(t, n))
    BY <1>8
  <2>2. n \in Nat
    OBVIOUS
  <2>3. string_multiply(t, n) \in Text
    BY <1>1, <2>2, MultiplyIsText
  <2> QED
    BY <2>1, <2>3, NewString
<1>9. CASE string_new(string_chomp(t))
  BY <1>1, <1>9, ChompIsText, NewString
<1>10. CASE \E v \in string_upcase(t) \cup string_downcase(t) \cup string_capitalize(t) :
              string_new(v)
  <2>1. PICK v \in string_upcase(t) \cup string_downcase(t) \cup string_capitalize(t) :
          string_new(v)
    BY <1>10
  <2>2. v \in Text
    BY <1>1, ChangedIsText
  <2> QED
    BY <2>1, <2>2, NewString
<1> QED
  BY ONLY <1>2, <1>4, <1>5, <1>6, <1>7, <1>8, <1>9, <1>10

LEMMA StuckIs == ASSUME IInv, Stuck PROVE IInv'
<1>1. Sound(str')
  BY DEF Stuck, IInv
<1> QED
  BY <1>1, KeepsFiles DEF Stuck, Running

LEMMA FlushedStates ==
  ASSUME NEW w \in Worlds, NEW f \in FileId PROVE SameStates(w, Flushed(w, f))
<1> DEFINE u == Flushed(w, f)
           x == w.file[f]
<1>1. x \in FILE
  BY FILEIs
<1>2. /\ \A g \in FileId : g # f => u.file[g] = w.file[g]
      /\ u.file[f] = [x EXCEPT !.pos = x.pos + Len(x.out), !.out = <<>>]
  BY FlushedIs
<1> HIDE DEF u
<1>3. u.file[f].st = x.st /\ u.file[f].mode = x.mode
  BY <1>1, <1>2 DEF FILE
<1> QED
  BY <1>2, <1>3 DEF SameStates, u

LEMMA BufferFullIs == ASSUME IInv, NEW f \in FileId, BufferFull(f) PROVE IInv'
<1>1. Flushed(Now, f) \in Worlds /\ SameStates(Now, Flushed(Now, f))
  BY FlushedIs, FlushedStates DEF IInv
<1>2. Sound(str')
  BY DEF BufferFull, IInv
<1> QED
  BY <1>1, <1>2, Keeps DEF BufferFull, Running

LEMMA StreamIs ==
  ASSUME Owners, NEW o \in Stream
  PROVE  /\ io[o] \in IO /\ io[o].fread \in FileId \cup {None} /\ io[o].fwrite \in FileId \cup {None}
         /\ Has(o) \subseteq FileId
         /\ phase = "run" => \A f \in Has(o) : Busy(Now, f)
BY DEF Owners, IO, Has

LEMMA file_flushIs == ASSUME IInv, NEW o \in Stream, file_flush(o) PROVE IInv'
<1>1. Sound(str') /\ Now \in Worlds /\ io[o].fwrite \in FileId \cup {None}
  BY StreamIs DEF file_flush, IInv
<1>2. CASE io[o].fwrite # None /\ Becomes(Flushed(Now, io[o].fwrite))
  <2>1. /\ Flushed(Now, io[o].fwrite) \in Worlds
        /\ SameStates(Now, Flushed(Now, io[o].fwrite))
    BY <1>1, <1>2, FlushedIs, FlushedStates
  <2> QED
    BY <1>1, <1>2, <2>1, Keeps DEF file_flush, Running
<1>3. CASE \E order \in SetToSeqs(Open) : Becomes(FlushedAll(Now, order))
  <2>1. PICK order \in SetToSeqs(Open) : Becomes(FlushedAll(Now, order))
    BY <1>3
  <2>2. Open \in SUBSET FileId
    BY DEF Open
  <2>3. FlushedAll(Now, order) \in Worlds /\ SameStates(Now, FlushedAll(Now, order))
    BY <1>1, <2>1, <2>2, FlushedAllIs
  <2> QED
    BY <1>1, <2>1, <2>3, Keeps DEF file_flush, Running
<1> QED
  BY <1>2, <1>3 DEF file_flush

LEMMA PutsIs == ASSUME IInv, NEW o \in Stream, NEW t \in Text, Puts(o, t) PROVE IInv'
<1>1. CASE Fails
  <2>1. Sound(str') /\ phase' \in {"fail"}
    BY <1>1 DEF Fails, IInv
  <2> QED
    BY <1>1, <2>1, KeepsFiles DEF Fails, Puts
<1>2. CASE ~Fails
  <2> DEFINE f == io[o].fwrite
             w == Written(f, t)
  <2>1. f # None /\ Becomes(w) /\ UNCHANGED <<str, io, rd, phase>> /\ Running
    BY <1>2 DEF Puts
  <2>2. f \in FileId /\ Busy(Now, f) /\ Now \in Worlds
    BY <2>1, StreamIs DEF IInv, Has, Running
  <2> HIDE DEF f
  <2>3. w \in Worlds /\ SameStates(Now, w)
    BY <2>2, WrittenIs, ButIsSame
  <2> HIDE DEF w
  <2>4. Sound(str') /\ phase' \in {"run"}
    BY <2>1 DEF IInv, Running
  <2> QED
    BY <2>1, <2>3, <2>4, Keeps
<1> QED
  BY <1>1, <1>2

LEMMA LineIs == ASSUME NEW t \in Text PROVE Line(t) \in Text
BY AppendProperties, CharsAssumption DEF Line, Text

LEMMA kernel_exitIs == ASSUME IInv, kernel_exit PROVE IInv'
<1>1. PICK order \in SetToSeqs(Open) : Becomes(ClosedAll(Now, order))
  BY DEF kernel_exit
<1> DEFINE w == ClosedAll(Now, order)
<1>2. Open \in SUBSET FileId
  BY DEF Open
<1>3. w \in Worlds /\ OpenBefore(Now, w)
  BY <1>1, <1>2, ClosedAllIs DEF IInv
<1> HIDE DEF w
<1>4. Now' = w
  BY <1>1, <1>3, BecomesIs DEF w
<1>5. str' = str /\ io' = io /\ rd' = None /\ phase' = "exit"
  BY DEF kernel_exit, Running
<1>6. \A f \in FileId : Busy(Now, f)' => Busy(Now, f)
  BY <1>3, <1>4 DEF OpenBefore, Busy
<1>7. \A o \in Stream : Has(o)' = Has(o) /\ Live(o)' = Live(o)
  BY <1>5 DEF Has, Live
<1>8. Owners'
  BY <1>5, <1>6, <1>7 DEF Owners, IInv
<1>9. Reading'
  BY <1>5 DEF Reading
<1> QED
  BY <1>3, <1>4, <1>5, <1>8, <1>9 DEF IInv

----------------------------------------------------------------------------
(* The steps that open and close. *)

\* The mode says what a new object has of its FILE: nothing, if it is "a".
LEMMA NotedIs ==
  ASSUME NEW f \in FileId, NEW mode \in Mode
  PROVE  /\ Noted(f, mode) \in IO /\ Noted(f, mode).st = "live"
         /\ {Noted(f, mode).fread, Noted(f, mode).fwrite} \ {None} = IF mode = "a" THEN {} ELSE {f}
<1>1. f # None
  BY NoneAssumption
<1> QED
  BY <1>1, ModesAssumption DEF Noted, IO

LEMMA file_openIs == ASSUME IInv, NEW mode \in Mode, file_open(mode) PROVE IInv'
<1>1. PICK o \in Stream, f \in FileId :
        /\ io[o].st = "unborn" /\ file[f].st = "unused"
        /\ file' = [file EXCEPT ![f] = [Shut EXCEPT !.st = "open", !.mode = mode]]
        /\ io' = [io EXCEPT ![o] = Noted(f, mode)]
  <2> DEFINE p == CHOOSE p \in Stream : io[p].st = "unborn"
             g == CHOOSE g \in FileId : file[g].st = "unused"
  <2>1. p \in Stream /\ io[p].st = "unborn" /\ g \in FileId /\ file[g].st = "unused"
    BY DEF file_open
  <2>2. /\ file' = [file EXCEPT ![g] = [Shut EXCEPT !.st = "open", !.mode = mode]]
        /\ io' = [io EXCEPT ![p] = Noted(g, mode)]
    BY DEF file_open
  <2> HIDE DEF p, g
  <2> QED
    BY <2>1, <2>2
<1> DEFINE x == [Shut EXCEPT !.st = "open", !.mode = mode]
           d == IF mode \in {"w", "w+"} THEN <<>> ELSE disk
           v == [file |-> [file EXCEPT ![f] = x], disk |-> d]
<1>2. /\ file' = [file EXCEPT ![f] = x] /\ io' = [io EXCEPT ![o] = Noted(f, mode)] /\ disk' = d
      /\ str' = str /\ rd' = None /\ phase = "run" /\ phase' = "run"
      /\ mode \in {"w", "w+"} => Alone
  BY <1>1 DEF file_open, Running
<1>3. /\ Now \in Worlds /\ file \in [FileId -> FILE] /\ disk \in Text /\ Len(disk) \in Nat
      /\ Now.file = file /\ Now.disk = disk
  <2>1. Now \in Worlds /\ Now.file = file /\ Now.disk = disk
    BY DEF IInv, Now
  <2>2. Now \in World
    BY <2>1 DEF Worlds
  <2> QED
    BY <2>1, <2>2, LenProperties DEF World, Text
<1>4. <<>> \in Text /\ Len(<<>>) = 0
  BY EmptySeq DEF Text
<1>5. d \in Text /\ Len(d) \in Nat
  BY <1>3, <1>4
<1>6. /\ x \in FILE /\ x.st = "open" /\ x.mode = mode /\ x.pos = 0 /\ x.in = <<>> /\ x.out = <<>>
  BY <1>4 DEF Shut, FILE
<1> HIDE DEF x, d
<1>7. v \in World /\ Now' = v
  BY <1>2, <1>3, <1>5, <1>6 DEF World, Now
<1>8. ASSUME NEW g \in FileId PROVE InPlace(v, g)
  <2>1. v.disk = d
    OBVIOUS
  <2>2. CASE g = f
    <3>1. v.file[g] = x
      BY <1>3, <2>2
    <3> HIDE DEF v
    <3> QED
      BY <1>4, <1>5, <1>6, <2>1, <3>1 DEF InPlace
  <2>3. CASE g # f
    <3>1. v.file[g] = file[g] /\ Now.file[g] = file[g]
      BY <1>3, <2>3
    <3>2. InPlace(Now, g)
      BY <1>3 DEF Worlds
    <3> HIDE DEF v
    <3>3. CASE mode \in {"w", "w+"}
      <4>1. ~Busy(Now, g)
        BY <1>2, <1>3, <3>3 DEF Alone, Busy
      <4>2. file[g].pos = 0 /\ file[g].in = <<>> /\ file[g].out = <<>>
        BY <3>1, <3>2, <4>1 DEF InPlace
      <4> QED
        BY <1>4, <1>5, <2>1, <3>1, <4>2 DEF InPlace
    <3>4. CASE mode \notin {"w", "w+"}
      <4>1. v.disk = Now.disk
        BY <1>3, <2>1, <3>4 DEF d
      <4> QED
        BY <3>1, <3>2, <4>1 DEF InPlace, Busy
    <3> QED
      BY <3>3, <3>4
  <2> QED
    BY <2>2, <2>3
<1>9. v \in Worlds
  <2> HIDE DEF v
  <2> QED
    BY <1>7, <1>8 DEF Worlds
<1>10. \A g \in FileId : Busy(Now, g)' <=> IF g = f THEN mode # "a" ELSE Busy(Now, g)
  BY <1>1, <1>3, <1>6, <1>7 DEF Busy
<1> HIDE DEF v
<1> DEFINE n == Noted(f, mode)
<1>11. n \in IO /\ n.st = "live" /\ {n.fread, n.fwrite} \ {None} = IF mode = "a" THEN {} ELSE {f}
  BY <1>1, NotedIs
<1>12. None \notin {n.fread, n.fwrite} => n.fread = n.fwrite
  BY <1>11
<1> HIDE DEF n
<1>13. io \in [Stream -> IO]
  BY DEF IInv, Owners
<1>14. /\ io' \in [Stream -> IO] /\ io'[o] = n /\ \A q \in Stream : q # o => io'[q] = io[q]
  BY <1>1, <1>2, <1>11, <1>13 DEF n
<1>15. /\ Has(o)' = {n.fread, n.fwrite} \ {None}
       /\ \A q \in Stream : q # o => Has(q)' = Has(q) /\ (Live(q)' <=> Live(q))
  BY <1>1, <1>14 DEF Has, Live
<1>16. Has(o) = {} /\ ~Busy(Now, f)
  <2>1. ~Live(o)
    BY <1>1 DEF Live
  <2> QED
    BY <1>1, <1>3, <2>1 DEF IInv, Owners, Busy
<1>17. \A q \in Stream : f \notin Has(q)
  BY <1>2, <1>16, StreamIs DEF IInv
<1>18. ASSUME NEW q \in Stream
       PROVE  /\ None \notin {io[q].fread, io[q].fwrite}' => (io[q].fread = io[q].fwrite)'
              /\ Has(q)' # {} => Live(q)'
              /\ \A g \in Has(q)' : Busy(Now, g)'
  <2>1. CASE q = o
    BY <1>1, <1>10, <1>11, <1>12, <1>14, <1>15, <2>1 DEF Live
  <2>2. CASE q # o
    <3>1. \A g \in Has(q) : g \in FileId /\ g # f /\ Busy(Now, g)
      BY <1>2, <1>17, StreamIs DEF IInv
    <3> QED
      BY <1>10, <1>14, <1>15, <2>2, <3>1 DEF IInv, Owners
  <2> QED
    BY <2>1, <2>2
<1>19. \A q, r \in Stream : q # r => Has(q)' \cap Has(r)' = {}
  BY <1>11, <1>15, <1>17 DEF IInv, Owners
<1>20. ASSUME NEW g \in FileId, Busy(Now, g)' PROVE \E q \in Stream : g \in Has(q)'
  <2>1. CASE g = f
    BY <1>1, <1>10, <1>11, <1>15, <1>20, <2>1
  <2>2. CASE g # f
    <3>1. PICK q \in Stream : g \in Has(q)
      BY <1>10, <1>20, <2>2 DEF IInv, Owners
    <3>2. q # o
      BY <1>16, <3>1
    <3> QED
      BY <1>15, <3>1, <3>2
  <2> QED
    BY <2>1, <2>2
<1>21. Owners'
  BY <1>2, <1>14, <1>18, <1>19, <1>20 DEF Owners
<1>22. Reading' /\ Sound(str')
  BY <1>2 DEF Reading, IInv
<1> QED
  BY <1>7, <1>9, <1>21, <1>22 DEF IInv

\* An object gives up the FILE that it has, which is closed.
LEMMA GivesUp ==
  ASSUME IInv, Running, NEW o \in Stream, NEW n \in IO, n.fread = None, n.fwrite = None,
         io' = [io EXCEPT ![o] = n], str' = str, rd' = rd, phase' = phase,
         NEW w \in Worlds, Becomes(w), \A g \in Has(o) : w.file[g] = Shut,
         \A g \in FileId \ Has(o) : w.file[g] = file[g]
  PROVE  IInv'
<1>1. Now' = w /\ phase = "run" /\ phase' = "run" /\ rd' = None
  BY BecomesIs DEF Running
<1>2. io \in [Stream -> IO] /\ io' \in [Stream -> IO] /\ io'[o] = n
      /\ \A q \in Stream : q # o => io'[q] = io[q]
  BY DEF IInv, Owners
<1>3. Has(o)' = {} /\ \A q \in Stream : q # o => Has(q)' = Has(q) /\ (Live(q)' <=> Live(q))
  BY <1>2 DEF Has, Live
<1>4. \A g \in FileId : Busy(Now, g)' <=> (Busy(Now, g) /\ g \notin Has(o))
  <2>1. Now.file = file
    BY DEF Now
  <2> QED
    BY <1>1, <2>1 DEF Busy, Shut
<1>5. ASSUME NEW q \in Stream
      PROVE  /\ None \notin {io[q].fread, io[q].fwrite}' => (io[q].fread = io[q].fwrite)'
             /\ Has(q)' # {} => Live(q)'
             /\ \A g \in Has(q)' : Busy(Now, g)'
  <2>1. CASE q = o
    BY <1>2, <1>3, <2>1
  <2>2. CASE q # o
    <3>1. \A g \in Has(q) : g \in FileId /\ g \notin Has(o) /\ Busy(Now, g)
      BY <1>1, <2>2, StreamIs DEF IInv, Owners
    <3> QED
      BY <1>2, <1>3, <1>4, <2>2, <3>1 DEF IInv, Owners
  <2> QED
    BY <2>1, <2>2
<1>6. \A q, r \in Stream : q # r => Has(q)' \cap Has(r)' = {}
  BY <1>3 DEF IInv, Owners
<1>7. \A g \in FileId : Busy(Now, g)' => \E q \in Stream : g \in Has(q)'
  BY <1>3, <1>4 DEF IInv, Owners
<1>8. Owners'
  BY <1>1, <1>2, <1>5, <1>6, <1>7 DEF Owners
<1>9. Reading' /\ Sound(str')
  BY <1>1 DEF Reading, IInv
<1> QED
  BY <1>1, <1>8, <1>9 DEF IInv

\* fclose finds the FILE open.
LEMMA ClosingIs ==
  ASSUME IInv, Running, NEW o \in Stream, Closing(o)
  PROVE  /\ phase' = phase
         /\ \E w \in Worlds : /\ Becomes(w) /\ \A g \in Has(o) : w.file[g] = Shut
                              /\ \A g \in FileId \ Has(o) : w.file[g] = file[g]
<1> DEFINE fr == io[o].fread
           fw == io[o].fwrite
           Done(w, f) == IF f = None THEN w ELSE fclose(w, f)
           all == IF fw = fr THEN Done(Now, fr) ELSE Done(Done(Now, fr), fw)
<1>1. /\ fr \in FileId \cup {None} /\ fw \in FileId \cup {None}
      /\ None \notin {fr, fw} => fr = fw
      /\ \A f \in Has(o) : Busy(Now, f)
      /\ Now \in Worlds /\ Now.file = file
  BY StreamIs DEF IInv, Owners, Running, Now
<1>2. Has(o) = {fr, fw} \ {None}
  BY DEF Has
<1>3. ~\E f \in {fr, fw} \ {None} : file[f].st = "closed"
  BY <1>1, <1>2 DEF Busy
<1>4. Becomes(all) /\ phase' = phase
  BY <1>3 DEF Closing
<1>5. \/ Has(o) = {} /\ all = Now
      \/ \E f \in FileId : Has(o) = {f} /\ all = fclose(Now, f)
  <2>0. None \notin FileId
    BY NoneAssumption
  <2> HIDE DEF fr, fw
  <2>1. CASE fr = None /\ fw = None
    BY <1>2, <2>1
  <2>2. CASE fr # None /\ fw = None
    BY <1>1, <1>2, <2>2
  <2>3. CASE fr = None /\ fw # None
    BY <1>1, <1>2, <2>3
  <2>4. CASE fr # None /\ fw # None
    <3>1. fw = fr /\ fr \in FileId
      BY <1>1, <2>4
    <3> QED
      BY <1>2, <2>4, <3>1
  <2> QED
    BY <2>1, <2>2, <2>3, <2>4
<1> HIDE DEF all
<1>6. CASE Has(o) = {} /\ all = Now
  BY <1>1, <1>4, <1>6
<1>7. CASE \E f \in FileId : Has(o) = {f} /\ all = fclose(Now, f)
  <2>1. PICK f \in FileId : Has(o) = {f} /\ all = fclose(Now, f)
    BY <1>7
  <2>2. /\ all \in Worlds /\ all.file[f] = Shut
        /\ \A g \in FileId : g # f => all.file[g] = file[g]
    BY <1>1, <2>1, fcloseIs
  <2> QED
    BY <1>4, <2>1, <2>2
<1> QED
  BY <1>4, <1>5, <1>6, <1>7

LEMMA ClosesIs ==
  ASSUME IInv, NEW o \in Stream, file_close(o) \/ io_reap(o)
  PROVE  IInv'
<1> DEFINE n == IF file_close(o) THEN NotNoted(o) ELSE [NotNoted(o) EXCEPT !.st = "gone"]
<1>1. Running /\ Closing(o) /\ str' = str /\ rd' = rd /\ io' = [io EXCEPT ![o] = n]
  BY DEF file_close, io_reap
<1>2. n \in IO /\ n.fread = None /\ n.fwrite = None
  <2>1. io[o] \in IO
    BY StreamIs DEF IInv
  <2>2. NotNoted(o) \in IO /\ NotNoted(o).fread = None /\ NotNoted(o).fwrite = None
    BY <2>1 DEF NotNoted, IO
  <2> DEFINE p == NotNoted(o)
  <2> HIDE DEF p
  <2>3. [p EXCEPT !.st = "gone"] \in IO /\ [p EXCEPT !.st = "gone"].fread = None
        /\ [p EXCEPT !.st = "gone"].fwrite = None
    BY <2>2 DEF IO, p
  <2> QED
    BY <2>2, <2>3 DEF p
<1> HIDE DEF n
<1>3. /\ phase' = phase
      /\ \E w \in Worlds : /\ Becomes(w) /\ \A g \in Has(o) : w.file[g] = Shut
                           /\ \A g \in FileId \ Has(o) : w.file[g] = file[g]
  BY <1>1, ClosingIs
<1>4. PICK w \in Worlds : /\ Becomes(w) /\ \A g \in Has(o) : w.file[g] = Shut
                          /\ \A g \in FileId \ Has(o) : w.file[g] = file[g]
  BY <1>3
<1> QED
  BY ONLY IInv, o \in Stream, <1>1, <1>2, <1>3, <1>4, GivesUp

----------------------------------------------------------------------------
(* The steps that read. *)

LEMMA RestIs == ASSUME NEW w \in Worlds, NEW f \in FileId PROVE Rest(w, f) \in Text
<1> DEFINE p == w.file[f].pos
           N == Len(w.disk)
           m == p + 1
           tail == SubSeq(w.disk, m, N)
<1>1. p \in Nat /\ N \in Nat /\ p <= N /\ w.file[f].in \in Seq(Char) /\ w.disk \in Seq(Char)
  BY FILEIs DEF Text
<1> HIDE DEF p
<1>2. m \in 1 .. N + 1 /\ N \in 0 .. N
  BY <1>1
<1> HIDE DEF m
<1>3. tail \in Seq(Char)
  BY ONLY <1>1, <1>2, Part DEF N
<1>4. Rest(w, f) = w.file[f].in \o tail
  BY DEF Rest, m, p
<1> HIDE DEF tail
<1> QED
  BY <1>1, <1>3, <1>4, ConcatProperties DEF Text

LEMMA ReadBeginsIs == ASSUME IInv, NEW o \in Stream, ReadBegins(o) PROVE IInv'
<1>1. CASE Fails
  <2>1. Sound(str') /\ phase' \in {"fail"}
    BY <1>1 DEF Fails, IInv
  <2> QED
    BY <1>1, <2>1, KeepsFiles DEF Fails, ReadBegins
<1>2. CASE ~Fails
  <2>1. PICK f \in FileId :
          /\ f = io[o].fread /\ Busy(Now, f) /\ Becomes(Flushed(Now, f))
          /\ rd' = [f |-> f, buf |-> [k \in 1 .. Chunk + 1 |-> NUL], ret |-> dstr_new(<<>>),
                    want |-> IF file[f].eof THEN <<>> ELSE Rest(Flushed(Now, f), f)]
    <3>1. io[o].fread # None /\ Running
      BY <1>2 DEF ReadBegins
    <3>2. io[o].fread \in FileId /\ Busy(Now, io[o].fread)
      BY <3>1, StreamIs DEF IInv, Has, Running
    <3> QED
      BY <1>2, <3>1, <3>2 DEF ReadBegins, Rest
  <2>2. str' = str /\ io' = io /\ phase' = "run" /\ phase = "run"
    BY <1>2 DEF ReadBegins, Running
  <2> DEFINE w == Flushed(Now, f)
             x == Now.file[f]
             none == [k \in 1 .. Chunk + 1 |-> NUL]
             want == IF file[f].eof THEN <<>> ELSE Rest(w, f)
  <2>3. Now \in Worlds /\ x = file[f] /\ x \in FILE
    BY FILEIs DEF IInv, Now
  <2>4. w \in Worlds /\ SameStates(Now, w) /\ w.file[f] = [x EXCEPT !.pos = x.pos + Len(x.out), !.out = <<>>]
    BY <2>3, FlushedIs, FlushedStates
  <2>5. w.file[f].out = <<>> /\ w.file[f].eof = x.eof
    <3> HIDE DEF x, w
    <3> QED
      BY <2>3, <2>4 DEF FILE
  <2>6. <<>> \in Text /\ Len(<<>>) = 0
    BY EmptySeq DEF Text
  <2>7. Rest(w, f) \in Text /\ want \in Text
    BY <2>4, <2>6, RestIs
  <2>8. none \in Buf /\ Len(none) = Chunk + 1 /\ \A k \in 1 .. Chunk + 1 : none[k] = NUL
    <3>1. Chunk + 1 \in Nat
      BY BoundsAssumption
    <3> QED
      BY <3>1 DEF Buf
  <2>9. Sound(dstr_new(<<>>)) /\ Cstr(dstr_new(<<>>).ptr) = <<>>
    BY <2>6, NewIs
  <2> DEFINE ret == dstr_new(<<>>)
  <2> HIDE DEF w, x, none, want, ret
  <2>10. Now' = w
    BY <2>1, <2>4, BecomesIs DEF w
  <2>11. rd' = [f |-> f, buf |-> none, ret |-> ret, want |-> want]
    BY <2>1 DEF none, want, w, ret
  <2>12. ret \in [ptr : Buf, len : Nat] /\ Sound(ret) /\ Cstr(ret.ptr) = <<>>
    BY <2>9 DEF Sound, ret
  <2>13. /\ rd' \in Reads /\ rd'.f = f /\ rd'.buf = none /\ rd'.ret = ret /\ rd'.want = want
    BY <2>7, <2>8, <2>11, <2>12 DEF Reads, Buf, Text
  <2>14. Busy(Now, f)' /\ file'[f] = w.file[f]
    <3>1. file' = w.file
      BY <2>10 DEF Now
    <3> QED
      BY <2>1, <2>4, <2>10, <3>1 DEF Busy, SameStates
  <2>15. file'[f].eof = x.eof /\ file'[f].out = <<>>
    BY <2>5, <2>14
  <2>16. IsPrefix(<<>>, <<>>)
    BY <2>6 DEF IsPrefix
  <2>17. <<>> \o Rest(w, f) = Rest(w, f)
    BY <2>7, ConcatEmptySeq DEF Text
  <2>18. want = IF x.eof THEN <<>> ELSE Rest(w, f)
    BY <2>3 DEF want
  <2>19. Reading'
    <3>1. Rest(Now, f)' = Rest(w, f)
      BY <2>10 DEF Rest
    <3>2. /\ (phase = "run")' /\ Busy(Now, rd.f)' /\ (file[rd.f].out = <<>>)'
          /\ (Len(rd.buf) = Chunk + 1)' /\ Sound(rd.ret)'
      BY <2>2, <2>8, <2>12, <2>13, <2>14, <2>15 DEF Busy, Now
    <3>3. Cstr(rd'.ret.ptr) = <<>>
      BY <2>12, <2>13
    <3>4. ~x.eof => /\ rd'.want = <<>> \o Rest(w, f)
                    /\ \A k \in 1 .. Chunk + 1 : rd'.buf[k] = NUL
      BY <2>8, <2>13, <2>17, <2>18
    <3>5. x.eof => rd'.want = <<>>
      BY <2>13, <2>18
    <3>6. Rest(Now, rd.f)' = Rest(w, f) /\ file'[rd'.f].eof = x.eof
      BY <2>13, <2>15, <3>1 DEF Rest
    <3> QED
      BY <2>13, <2>16, <3>2, <3>3, <3>4, <3>5, <3>6 DEF Reading
  <2>20. Owners'
    BY <2>2, <2>4, <2>10, SameOwners DEF IInv
  <2>21. Sound(str')
    BY <2>2 DEF IInv
  <2> QED
    BY <2>4, <2>10, <2>19, <2>20, <2>21 DEF IInv
<1> QED
  BY <1>1, <1>2

LEMMA LineIsNumber ==
  ASSUME NEW t \in Text
  PROVE  (IF Contains(t, Newline) THEN SelectInSeq(t, LAMBDA c : c = Newline) ELSE BufSize - 1) \in Nat
<1> DEFINE I == {i \in 1 .. Len(t) : t[i] = Newline}
<1>1. Len(t) \in Nat /\ BufSize - 1 \in Nat
  BY LenProperties, SizesAssumption DEF Text
<1>2. I # {} => (CHOOSE k \in I : \A j \in I : k <= j) \in I
  <2> SUFFICES ASSUME I # {} PROVE (CHOOSE k \in I : \A j \in I : k <= j) \in I
    OBVIOUS
  <2>1. I \in SUBSET Nat
    OBVIOUS
  <2> HIDE DEF I
  <2>2. \E k \in I : \A j \in I : k <= j
    BY <2>1, LeastNumber
  <2> QED
    BY <2>2
<1>3. SelectInSeq(t, LAMBDA c : c = Newline)
      = IF I # {} THEN CHOOSE k \in I : \A j \in I : k <= j ELSE 0
  BY DEF SelectInSeq, Min
<1>4. SelectInSeq(t, LAMBDA c : c = Newline) \in Nat
  <2>1. I \in SUBSET Nat
    OBVIOUS
  <2> HIDE DEF I
  <2> QED
    BY <1>2, <1>3, <2>1
<1> QED
  BY <1>1, <1>4

LEMMA file_getsIs == ASSUME IInv, NEW o \in Stream, file_gets(o) PROVE IInv'
<1> DEFINE f == io[o].fread
           line(t) == IF Contains(t, Newline)
                      THEN SelectInSeq(t, LAMBDA c : c = Newline) ELSE BufSize - 1
           all == Ahead(Now, f, line(file[f].in))
           m == line(all.file[f].in)
           n == IF m < BufSize THEN m ELSE BufSize - 1
           r == fread(f, n)
<1>1. Running /\ io' = io /\ rd' = rd /\ phase' \in {"run", "segv"}
  BY DEF file_gets, Running
<1>2. CASE UNCHANGED <<str, disk, file>>
  <2>1. Sound(str')
    BY <1>2 DEF IInv
  <2> QED
    BY <1>1, <1>2, <2>1, KeepsFiles
<1>3. CASE ~UNCHANGED <<str, disk, file>>
  <2>1. f # None
    BY <1>3 DEF file_gets
  <2>2. \/ Becomes(r.w) /\ str' = dstr_new(r.got)
        \/ /\ UNCHANGED <<file, disk>> \/ Becomes(r.w)
           /\ \E t \in {<<>>, <<Junk>>} : str' = dstr_new(t)
    BY <1>3 DEF file_gets
  <2>3. f \in FileId /\ Busy(Now, f) /\ Now \in Worlds /\ file[f].in \in Text
    <3>1. f \in FileId /\ Busy(Now, f) /\ Now \in Worlds
      BY <1>1, <2>1, StreamIs DEF IInv, Has, Running
    <3>2. Now.file = file
      BY DEF Now
    <3> QED
      BY <3>1, <3>2, FILEIs
  <2> HIDE DEF f
  <2>4. line(file[f].in) \in Nat
    BY <2>3, LineIsNumber
  <2>5. all \in Worlds
    <3> HIDE DEF line
    <3> QED
      BY <2>3, <2>4, AheadIs
  <2>6. all.file[f].in \in Text
    BY <2>3, <2>5, FILEIs
  <2> HIDE DEF all
  <2>7. m \in Nat
    BY <2>6, LineIsNumber
  <2> HIDE DEF m
  <2>8. n \in Nat
    BY <2>7, SizesAssumption
  <2> HIDE DEF n
  <2>9. r.w \in Worlds /\ SameStates(Now, r.w) /\ r.got \in Text
    BY <2>3, <2>8, FreadIs, ButIsSame
  <2> HIDE DEF r
  <2>10. Sound(str')
    <3>1. <<>> \in Text
      BY EmptySeq DEF Text
    <3>2. <<Junk>> \in Text
      <4>1. Junk \in Char
        BY CharsAssumption
      <4> QED
        BY ONLY <4>1 DEF Text
    <3> QED
      BY <2>2, <2>9, <3>1, <3>2, NewIs
  <2>11. CASE UNCHANGED <<file, disk>>
    BY <1>1, <2>10, <2>11, KeepsFiles
  <2>12. CASE Becomes(r.w)
    BY <1>1, <2>9, <2>10, <2>12, Keeps
  <2> QED
    BY <2>2, <2>11, <2>12
<1> QED
  BY <1>2, <1>3

\* More is read when it goes on where less does.
LEMMA PrefixIs ==
  ASSUME NEW t \in Text, NEW u \in Text, NEW v \in Text, Len(u) <= Len(v),
         \A k \in 1 .. Len(u) : v[k] = u[k]
  PROVE  IsPrefix(t \o u, t \o v)
<1> DEFINE a == t \o u
           b == t \o v
           m == Len(t)
           n == Len(u)
           N == m + n
<1>1. m \in Nat /\ n \in Nat /\ Len(v) \in Nat /\ n <= Len(v)
      /\ t \in Seq(Char) /\ u \in Seq(Char) /\ v \in Seq(Char)
  BY LenProperties DEF Text
<1>2. /\ a \in Seq(Char) /\ Len(a) = N
      /\ \A i \in 1 .. N : a[i] = IF i <= m THEN t[i] ELSE u[i - m]
  BY ONLY <1>1, ConcatProperties
<1>3. /\ b \in Seq(Char) /\ Len(b) = m + Len(v)
      /\ \A i \in 1 .. m + Len(v) : b[i] = IF i <= m THEN t[i] ELSE v[i - m]
  BY ONLY <1>1, ConcatProperties
<1> HIDE DEF a, b, m, n
<1>4. N \in Nat /\ N <= Len(b) /\ N \in 0 .. Len(a) /\ N \in 0 .. Len(b)
      /\ 1 \in 1 .. Len(a) + 1 /\ 1 \in 1 .. Len(b) + 1
  BY <1>1, <1>2, <1>3
<1>5. ASSUME NEW i \in 1 .. N PROVE a[i] = b[i]
  <2>1. i \in 1 .. m + Len(v) /\ i \in Nat
    BY <1>1
  <2>2. CASE i <= m
    BY <1>2, <1>3, <2>1, <2>2
  <2>3. CASE ~(i <= m)
    <3>1. i - m \in 1 .. n
      BY <1>1, <2>1, <2>3
    <3>2. v[i - m] = u[i - m]
      BY <3>1 DEF n
    <3> QED
      BY <1>2, <1>3, <2>1, <2>3, <3>2
  <2> QED
    BY <2>2, <2>3
<1> HIDE DEF N
<1>6. /\ SubSeq(a, 1, N) \in Seq(Char)
      /\ Len(SubSeq(a, 1, N)) = IF 1 <= N THEN N - 1 + 1 ELSE 0
      /\ \A i \in 1 .. N - 1 + 1 : SubSeq(a, 1, N)[i] = a[1 + i - 1]
  BY ONLY <1>2, <1>4, Part
<1>7. /\ SubSeq(b, 1, N) \in Seq(Char)
      /\ Len(SubSeq(b, 1, N)) = IF 1 <= N THEN N - 1 + 1 ELSE 0
      /\ \A i \in 1 .. N - 1 + 1 : SubSeq(b, 1, N)[i] = b[1 + i - 1]
  BY ONLY <1>3, <1>4, Part
<1> DEFINE p == SubSeq(a, 1, N)
           q == SubSeq(b, 1, N)
<1>8. p \in Seq(Char) /\ q \in Seq(Char) /\ Len(p) = N /\ Len(q) = N
      /\ \A i \in 1 .. N : p[i] = a[i] /\ q[i] = b[i]
  <2> HIDE DEF p, q
  <2>1. (IF 1 <= N THEN N - 1 + 1 ELSE 0) = N /\ N - 1 + 1 = N /\ \A i \in 1 .. N : 1 + i - 1 = i
    BY <1>4
  <2> QED
    BY <1>6, <1>7, <2>1 DEF p, q
<1> HIDE DEF p, q
<1>9. p = q
  BY ONLY <1>5, <1>8, SeqEqual
<1>10. Len(a) <= Len(b)
  BY <1>2, <1>4
<1> QED
  BY <1>2, <1>9, <1>10 DEF IsPrefix, a, b, p, q

\* What a round leaves in the buffer begins with what it read; that is all, if
\* the round was a whole chunk, or if nothing was in the buffer before it.
LEMMA BufferIs ==
  ASSUME NEW buf \in Buf, Len(buf) = Chunk + 1, NEW got \in Text, Len(got) <= Chunk
  PROVE  LET new == Buffer(buf, got)
             c   == Cstr(new)
         IN  /\ new \in Buf /\ Len(new) = Chunk + 1
             /\ c \in Text /\ Len(got) <= Len(c) /\ \A k \in 1 .. Len(got) : c[k] = got[k]
             /\ Len(got) = Chunk \/ (\A k \in 1 .. Chunk + 1 : buf[k] = NUL) => c = got
<1> DEFINE over == Over(buf, 0, got)
           N == Chunk + 1
           new == [over EXCEPT ![N] = NUL]
           n == Len(got)
           c == Cstr(new)
<1>1. N \in Nat /\ Chunk \in Nat /\ n \in Nat /\ n <= Chunk /\ N = Chunk + 1
      /\ \A k \in 1 .. n : got[k] \in Char /\ got[k] # NUL
  BY BoundsAssumption, LenProperties, ElementOfSeq, CharsAssumption DEF Text
<1>2. /\ over \in Buf
      /\ Len(over) = IF 0 + n <= N THEN N ELSE 0 + n
      /\ \A k \in 1 .. Len(over) :
           over[k] = IF k <= 0 THEN buf[k] ELSE IF k <= 0 + n THEN got[k - 0] ELSE buf[k]
  <2>1. buf \in Seq(Char \cup {NUL}) /\ got \in Seq(Char \cup {NUL}) /\ 0 \in 0 .. Len(buf)
    BY <1>1, TextIsBuf DEF Buf
  <2> QED
    BY ONLY <2>1, OverIs, Len(buf) = Chunk + 1 DEF Buf
<1> HIDE DEF over, n, N
<1>3. Len(over) = N /\ \A k \in 1 .. N : over[k] = IF k <= n THEN got[k] ELSE buf[k]
  <2>1. Len(over) = N
    BY <1>1, <1>2
  <2> QED
    BY <1>1, <1>2, <2>1
<1>4. Buffer(buf, got) = new
  BY <1>3 DEF Buffer, over, N
<1>5. /\ new \in Seq(Char \cup {NUL}) /\ Len(new) = N
      /\ \A k \in 1 .. N : new[k] = IF k = N THEN NUL ELSE over[k]
  <2>1. over \in Seq(Char \cup {NUL}) /\ N \in 1 .. Len(over) /\ NUL \in Char \cup {NUL}
    BY <1>1, <1>2, <1>3 DEF Buf
  <2> QED
    BY ONLY <1>1, <1>3, <2>1, ExceptSeq
<1> HIDE DEF new
<1>6. \A k \in 1 .. n : new[k] = got[k] /\ got[k] # NUL
  BY <1>1, <1>3, <1>5
<1>7. /\ c \in Text /\ Len(c) \in 0 .. N
      /\ \A k \in 1 .. Len(c) : c[k] = new[k] /\ new[k] # NUL
      /\ Len(c) < N => new[Len(c) + 1] = NUL
  BY <1>5, CstrOf DEF Buf
<1> HIDE DEF c
<1>8. Len(c) \in Nat /\ Len(c) < N /\ new[Len(c) + 1] = NUL
  <2>1. Len(c) # N
    BY <1>1, <1>5, <1>7
  <2> QED
    BY <1>1, <1>7, <2>1
<1>9. n <= Len(c)
  <2> SUFFICES ASSUME Len(c) < n PROVE FALSE
    BY <1>1, <1>8
  <2>1. Len(c) + 1 \in 1 .. n
    BY <1>1, <1>8
  <2> QED
    BY <1>6, <1>8, <2>1
<1>10. \A k \in 1 .. n : c[k] = got[k]
  BY <1>1, <1>6, <1>7, <1>8, <1>9
<1>11. ASSUME n = Chunk \/ \A k \in 1 .. Chunk + 1 : buf[k] = NUL PROVE c = got
  <2>1. n + 1 \in 1 .. N /\ new[n + 1] = NUL
    BY <1>1, <1>3, <1>5, <1>11
  <2>2. got \in Text /\ n < Len(new) /\ new \in Buf
    BY <1>1, <1>5 DEF Buf
  <2> QED
    BY <1>6, <2>1, <2>2, CstrIs DEF c, n
<1> QED
  BY <1>4, <1>5, <1>7, <1>9, <1>10, <1>11 DEF c, n, N, Buf

LEMMA ReadOnIs == ASSUME IInv, ReadOn PROVE IInv' /\ (~file[rd.f].eof => rd' \in Reads)
<1>1. /\ phase = "run" /\ phase' = "run" /\ rd # None /\ io' = io /\ Now \in Worlds
      /\ Now.file = file /\ Now.disk = disk
  BY DEF ReadOn, IInv, Now
<1> DEFINE f == rd.f
           text == Cstr(rd.ret.ptr)
<1>2. /\ rd \in Reads /\ Busy(Now, f) /\ file[f].out = <<>>
      /\ Len(rd.buf) = Chunk + 1 /\ Sound(rd.ret)
      /\ ~file[f].eof =>
             /\ rd.want = text \o Rest(Now, f)
             /\ \/ text = <<>> /\ \A k \in 1 .. Chunk + 1 : rd.buf[k] = NUL
                \/ Len(text) >= Chunk
      /\ file[f].eof => /\ IsPrefix(rd.want, text)
                        /\ Len(rd.want) < Chunk => text = rd.want
  BY <1>1 DEF IInv, Reading
<1>3. CASE file[f].eof
  <2>1. str' = rd.ret /\ rd' = None /\ file' = file /\ disk' = disk
    BY <1>3 DEF ReadOn
  <2>2. Now' = Now /\ SameStates(Now, Now)
    BY <2>1 DEF Now, SameStates
  <2>3. Owners'
    BY <1>1, <2>2, SameOwners DEF IInv
  <2> QED
    BY <1>1, <1>2, <1>3, <2>1, <2>2, <2>3 DEF IInv, Reading
<1>4. CASE ~file[f].eof
  <2> DEFINE r == fread(f, Chunk)
             got == r.got
             rest == Rest(r.w, f)
             buf == Buffer(rd.buf, got)
             c == Cstr(buf)
             ret == dstrcat(rd.ret, c)
             g == rd.f
  <2>1. Becomes(r.w) /\ rd' = [rd EXCEPT !.buf = buf, !.ret = ret] /\ str' = str
    BY <1>4 DEF ReadOn
  <2>2. /\ f \in FileId /\ rd.buf \in Buf /\ rd.ret \in [ptr : Buf, len : Nat] /\ rd.want \in Text
        /\ Chunk \in Nat
    BY <1>2, BoundsAssumption DEF Reads, Buf, Text
  <2>3. /\ r.w \in Worlds /\ SameBut(Now, r.w, f) /\ r.w.file[f].out = <<>>
        /\ got \in Text /\ Len(got) <= Chunk /\ r.w.file[f].eof = (Len(got) < Chunk)
        /\ Rest(Now, f) = got \o rest
        /\ Len(got) < Chunk => Rest(Now, f) = got
    <3> HIDE DEF f
    <3> QED
      BY <1>1, <1>2, <2>2, FreadIs
  <2>4. rest \in Text
    <3> HIDE DEF f, r
    <3> QED
      BY <2>2, <2>3, RestIs
  <2> HIDE DEF r
  <2>5. Now' = r.w
    BY <2>1, <2>3, BecomesIs
  <2> HIDE DEF got
  <2>6. /\ buf \in Buf /\ Len(buf) = Chunk + 1
        /\ c \in Text /\ Len(got) <= Len(c) /\ \A k \in 1 .. Len(got) : c[k] = got[k]
        /\ Len(got) = Chunk \/ (\A k \in 1 .. Chunk + 1 : rd.buf[k] = NUL) => c = got
    BY <1>2, <2>2, <2>3, BufferIs
  <2> HIDE DEF buf, c
  <2>7. Sound(ret) /\ Cstr(ret.ptr) = text \o c
    BY <1>2, <2>6, AppendedTo
  <2>8. text \in Text /\ Len(text) \in Nat /\ Len(got) \in Nat /\ Len(c) \in Nat
    <3>1. rd.ret.ptr \in Buf
      BY <2>2
    <3>2. text \in Text
      BY <3>1, CstrOf
    <3> HIDE DEF text
    <3> QED
      BY <2>3, <2>6, <3>2, LenProperties DEF Text
  <2> HIDE DEF ret
  <2>9. /\ rd' \in Reads /\ rd'.f = f /\ rd'.buf = buf /\ rd'.ret = ret /\ rd'.want = rd.want
    <3>1. ret \in [ptr : Buf, len : Nat]
      BY <2>7 DEF Sound
    <3> HIDE DEF text
    <3> QED
      BY <1>2, <2>1, <2>6, <3>1 DEF Reads, Buf
  <2> HIDE DEF text, f, rest
  <2>10. ASSUME Len(got) < Chunk
         PROVE  /\ r.w.file[f].eof /\ IsPrefix(rd.want, text \o c)
                /\ Len(rd.want) < Chunk => text \o c = rd.want
    <3>1. rd.want = text \o got
      BY <1>2, <1>4, <2>3, <2>10
    <3>2. IsPrefix(rd.want, text \o c)
      BY <2>3, <2>6, <2>8, <3>1, PrefixIs
    <3>3. ASSUME Len(rd.want) < Chunk PROVE text \o c = rd.want
      <4>1. Len(rd.want) = Len(text) + Len(got)
        BY <2>3, <2>8, <3>1, ConcatProperties DEF Text
      <4>2. ~(Len(text) >= Chunk)
        BY <2>2, <2>8, <3>3, <4>1
      <4>3. \A k \in 1 .. Chunk + 1 : rd.buf[k] = NUL
        BY <1>2, <1>4, <4>2
      <4> QED
        BY <2>6, <3>1, <4>3
    <3>4. r.w.file[f].eof
      BY <2>3, <2>10
    <3> QED
      BY <3>2, <3>3, <3>4
  <2>11. ASSUME ~(Len(got) < Chunk)
         PROVE  /\ ~r.w.file[f].eof
                /\ rd.want = (text \o c) \o rest /\ Len(text \o c) >= Chunk
    <3>1. Len(got) = Chunk
      BY <2>2, <2>3, <2>8, <2>11
    <3>2. c = got
      BY <2>6, <3>1
    <3>3. rd.want = text \o (got \o rest)
      BY <1>2, <1>4, <2>3
    <3>4. text \in Seq(Char) /\ got \in Seq(Char) /\ rest \in Seq(Char)
      BY <2>3, <2>4, <2>8 DEF Text
    <3>5. (text \o got) \o rest = text \o (got \o rest)
      BY ONLY <3>4, ConcatAssociative
    <3>6. Len(text \o got) = Len(text) + Len(got)
      BY <3>4, ConcatProperties
    <3>7. Len(text \o got) >= Chunk
      BY <2>2, <2>8, <3>1, <3>6
    <3>8. ~r.w.file[f].eof
      BY <2>3, <2>11
    <3> QED
      BY <3>2, <3>3, <3>5, <3>7, <3>8
  <2>12. /\ ~r.w.file[f].eof => rd.want = (text \o c) \o rest /\ Len(text \o c) >= Chunk
         /\ r.w.file[f].eof => /\ IsPrefix(rd.want, text \o c)
                               /\ Len(rd.want) < Chunk => text \o c = rd.want
    BY <2>10, <2>11
  <2>13. /\ Busy(r.w, f) /\ SameStates(Now, r.w) /\ file'[f] = r.w.file[f]
    <3>1. SameStates(Now, r.w)
      BY <2>3, ButIsSame
    <3>2. file' = r.w.file
      BY <2>1 DEF Becomes
    <3> QED
      BY <1>2, <2>2, <2>5, <3>1, <3>2 DEF Busy, SameStates, f
  <2>14. Owners'
    BY <1>1, <2>5, <2>13, SameOwners DEF IInv
  <2>15. Reading'
    <3>1. Cstr(rd'.ret.ptr) = text \o c /\ Sound(rd'.ret) /\ rd'.want = rd.want
      BY <2>7, <2>9
    <3>2. Rest(Now, rd.f)' = rest /\ file'[rd'.f] = r.w.file[f]
      BY <2>5, <2>9, <2>13 DEF Rest, rest
    <3>3. Busy(Now, rd.f)' /\ Len(rd'.buf) = Chunk + 1
      BY <2>5, <2>6, <2>9, <2>13 DEF Busy
    <3>4. file'[rd'.f].out = <<>>
      BY <2>3, <3>2
    <3>5. /\ ~file'[rd'.f].eof => rd'.want = (text \o c) \o rest /\ Len(text \o c) >= Chunk
          /\ file'[rd'.f].eof => /\ IsPrefix(rd'.want, text \o c)
                                 /\ Len(rd'.want) < Chunk => text \o c = rd'.want
      BY <2>12, <3>1, <3>2
    <3>6. rd' \in Reads
      BY <2>9
    <3> QED
      BY <1>1, <3>1, <3>2, <3>3, <3>4, <3>5, <3>6 DEF Reading
  <2>16. Sound(str')
    BY <2>1 DEF IInv
  <2> QED
    BY <2>3, <2>5, <2>9, <2>14, <2>15, <2>16 DEF IInv
<1> QED
  BY <1>3, <1>4

----------------------------------------------------------------------------
(***************************************************************************)
(* The invariant holds, and what follows from it.                          *)
(***************************************************************************)
LEMMA UnchangedIs == ASSUME IInv, UNCHANGED vars PROVE IInv'
<1>1. Now' = Now /\ SameStates(Now, Now)
  BY DEF vars, Now, SameStates
<1>2. Owners'
  BY <1>1, SameOwners DEF IInv, vars
<1>3. Reading'
  BY DEF IInv, vars, Reading, Now, Rest, Busy
<1> QED
  BY <1>1, <1>2, <1>3 DEF IInv, vars

LEMMA NextIs == ASSUME IInv, [Next]_vars PROVE IInv'
<1>1. ASSUME StringMethod PROVE IInv'
  BY <1>1, StringMethodIs
<1>2. ASSUME Stuck PROVE IInv'
  BY <1>2, StuckIs
<1>3. ASSUME kernel_exit PROVE IInv'
  BY <1>3, kernel_exitIs
<1>4. ASSUME ReadOn PROVE IInv'
  BY <1>4, ReadOnIs
<1>5. ASSUME NEW f \in FileId, BufferFull(f) PROVE IInv'
  BY <1>5, BufferFullIs
<1>6. ASSUME NEW mode \in Mode, file_open(mode) PROVE IInv'
  BY <1>6, file_openIs
<1>7. ASSUME NEW o \in Stream, file_close(o) \/ io_reap(o) PROVE IInv'
  BY <1>7, ClosesIs
<1>8. ASSUME NEW o \in Stream, ReadBegins(o) PROVE IInv'
  BY <1>8, ReadBeginsIs
<1>9. ASSUME NEW o \in Stream, file_gets(o) PROVE IInv'
  BY <1>9, file_getsIs
<1>10. ASSUME NEW o \in Stream, file_write(o) \/ file_puts(o) PROVE IInv'
  BY <1>10, CurIsText, LineIs, PutsIs DEF file_write, file_puts
<1>11. ASSUME NEW o \in Stream, file_flush(o) PROVE IInv'
  BY <1>11, file_flushIs
<1>12. ASSUME UNCHANGED vars PROVE IInv'
  BY <1>12, UnchangedIs
<1> QED
  BY <1>1, <1>2, <1>3, <1>4, <1>5, <1>6, <1>7, <1>8, <1>9, <1>10, <1>11, <1>12 DEF Next

\* In every state that a script reaches the buffers are sound, every FILE is
\* in its place with one stream object that has it, and a file_read that runs
\* has what it read and what is left of the file in hand (dynstring.c,
\* iostream.c).
THEOREM Invariant == Spec => []IInv
<1>1. Init => IInv
  BY InitIs
<1>2. IInv /\ [Next]_vars => IInv'
  BY NextIs
<1> QED
  BY <1>1, <1>2, PTL DEF Spec

\* Whatever a string is made from, added to and read into, its buffer ends with
\* a NUL where its length says (dynstring.c).
THEOREM BuffersTerminatedAlways == Spec => []BuffersTerminated
<1>1. IInv => BuffersTerminated
  BY DEF IInv, Reading, Sound, BuffersTerminated
<1> QED
  BY <1>1, Invariant, PTL

\* Every open FILE but those opened with "a" has one object, no object has one
\* that is closed, and so none is closed twice (file_close and io_reap in
\* iostream.c).
THEOREM FilesOwnedAlways == Spec => []FilesOwned
<1>1. ASSUME IInv PROVE FilesOwned
  <2>1. Now.file = file
    BY DEF Now
  <2>2. ASSUME NEW f \in FileId, file[f].st = "open", file[f].mode # "a"
        PROVE  \E o \in Stream : Live(o) /\ \A q \in Stream : f \in Has(q) <=> q = o
    <3>1. Busy(Now, f)
      BY <2>1, <2>2 DEF Busy
    <3>2. PICK o \in Stream : f \in Has(o)
      BY <1>1, <3>1 DEF IInv, Owners
    <3>3. Live(o) /\ \A q \in Stream : q # o => f \notin Has(q)
      BY <1>1, <3>2 DEF IInv, Owners
    <3> QED
      BY <3>2, <3>3
  <2>3. phase = "run" => \A o \in Stream : \A f \in Has(o) : file[f].st = "open"
    BY <1>1, <2>1 DEF IInv, Owners, Busy
  <2>4. phase # "crash"
    BY <1>1 DEF IInv, Owners
  <2> QED
    BY <2>2, <2>3, <2>4 DEF FilesOwned, Has
<1> QED
  BY <1>1, Invariant, PTL

\* Subtraction and split keep every character of the string that a script has,
\* for every literal (string_minus and string_split in string.c).
THEOREM NothingLostAlways == Spec => []NothingLost
<1>1. ASSUME IInv PROVE NothingLost
  <2>1. Cur \in Text /\ \A u \in Literal : u \in Text
    BY <1>1, CurIsText, LiteralsAssumption DEF Text
  <2> QED
    BY <2>1, WordsAreKept DEF NothingLost
<1> QED
  BY <1>1, Invariant, PTL

\* A file_read returns what there was to read, and nothing else if that was
\* less than a chunk, whatever wrote to the file before (file_read in
\* iostream.c).
THEOREM ReadGivesFileAlways == Spec => ReadGivesFile
<1> DEFINE Gives == rd # None /\ rd' = None =>
                      /\ IsPrefix(rd.want, Cstr(str'.ptr))
                      /\ Len(rd.want) < Chunk => Cstr(str'.ptr) = rd.want
<1>1. ASSUME IInv, [Next]_vars, rd # None, rd' = None
      PROVE  /\ IsPrefix(rd.want, Cstr(str'.ptr))
             /\ Len(rd.want) < Chunk => Cstr(str'.ptr) = rd.want
  <2>1. ReadOn
    <3>1. ~Running /\ ~UNCHANGED vars
      BY <1>1 DEF Running, vars
    <3> QED
      BY <1>1, <3>1 DEF Next, StringMethod, string_new, Stuck, kernel_exit, BufferFull, file_open,
           file_close, io_reap, ReadBegins, file_gets, file_write, file_puts, Puts, file_flush
  <2>2. file[rd.f].eof /\ str' = rd.ret
    <3>1. rd' \notin Reads
      BY <1>1, NoneAssumption
    <3> QED
      BY <1>1, <2>1, <3>1, ReadOnIs DEF ReadOn
  <2> QED
    BY <1>1, <2>2 DEF IInv, Reading
<1>2. IInv /\ [Next]_vars => [Gives]_vars
  BY <1>1
<1>3. [][Gives]_vars => ReadGivesFile
  BY PTL DEF ReadGivesFile
<1> QED
  BY <1>2, <1>3, Invariant, PTL DEF Spec
=============================================================================
