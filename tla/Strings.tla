------------------------------ MODULE Strings ------------------------------
(***************************************************************************)
(* Strings: dynstring.c, the buffer that a string keeps its text in, and   *)
(* string.c, the methods, which work on C strings.  A text is a sequence   *)
(* of characters; a buffer holds a text, a NUL, and whatever was in the    *)
(* memory.  NUL is in no text, Junk in what a method reads by mistake.     *)
(*                                                                         *)
(* Left out: what C code may do with a buffer and no code here does        *)
(* (dstr_aset, dstrcpy, dstr_shrink, dstr_new_with_size), and numbers.     *)
(***************************************************************************)
EXTENDS Naturals, Sequences, SequencesExt

CONSTANTS Char, Newline, Return, \* characters
          Upper,          \* pairs of a letter and its capital
          NUL, Junk,      \* the terminator; what was in the memory
          DefaultSize,    \* DYNSTRING_DEFAULT_SIZE
          BufSize         \* the size of the arrays that methods build a text in

ASSUME CharsAssumption ==
  /\ NUL \notin Char /\ Junk \in Char \ {Newline} /\ Newline \in Char
  /\ Upper \subseteq (Char \ {Junk, Newline}) \X (Char \ {Junk, Newline})
ASSUME SizesAssumption == {DefaultSize, BufSize} \subseteq Nat \ {0, 1}

Take(t, n) == SubSeq(t, 1, IF n < Len(t) THEN n ELSE Len(t))

----------------------------------------------------------------------------
(* dynstring.c *)

\* The text up to the first NUL.
Cstr(buf) == LET ends == {k \in 1 .. Len(buf) : buf[k] = NUL}
             IN  IF ends = {} THEN buf
                 ELSE SubSeq(buf, 1, (CHOOSE k \in ends : \A j \in ends : k <= j) - 1)

\* What d is with t written over it at pos.
Over(d, pos, t) == SubSeq(d, 1, pos) \o t \o SubSeq(d, pos + Len(t) + 1, Len(d))

Filled(n) == [k \in 1..n |-> Junk]

\* mutant: a text as long as the buffer is taken to fit
CapaTight(capa, n) == LET double[c \in Nat \ {0}] == IF c < n THEN double[2 * c] ELSE c
                      IN  double[capa]

\* How far capa is doubled to be more than n.
Capa(capa, n) == LET double[c \in Nat \ {0}] == IF c <= n THEN double[2 * c] ELSE c
                 IN  double[capa]

dstr_new(t) == LET capa == Capa(DefaultSize, Len(t))
               IN  [ptr |-> SubSeq(t \o <<NUL>> \o Filled(capa), 1, capa), len |-> Len(t)]

\* The length grows with the buffer, before there is any text.
dstr_grow_by(d, n) ==
  LET capa == Capa(Len(d.ptr), d.len + n)
  IN  [ptr |-> d.ptr \o Filled(capa - Len(d.ptr)), len |-> d.len + n]

\* strncat writes behind the first NUL, and then one is put where the end
\* should be.
dstrcat(d, t) ==
  LET end == d.len + Len(t)
      Cat(buf) == [Over(buf, Len(Cstr(buf)), t \o <<NUL>>) EXCEPT ![end + 1] = NUL]
      Measured(buf) == [ptr |-> buf, len |-> Len(Cstr(buf))]
  IN  Measured(Cat((IF end >= Len(d.ptr) THEN dstr_grow_by(d, Len(t)) ELSE d).ptr))

----------------------------------------------------------------------------
(* string.c: what the methods return, as texts *)

Short(t) == Take(t, BufSize - 1)

string_plus(t, u) == Short(t \o u)

\* Before an empty text strlen(str)-1 is the byte before the buffer, the highest
\* of malloc's size of it (glibc, 64 bits): 0, so that nothing is cut.
string_chomp(t) ==
  IF t = <<>> \/ Last(t) # Newline THEN t
  ELSE LET kept == {k \in 0..Len(t) : \A j \in k + 1 .. Len(t) : t[j] \in {Newline, Return}}
       IN  SubSeq(t, 1, CHOOSE k \in kept : \A j \in kept : k <= j)

string_multiply(t, n) == LET buf[k \in 0..n] == IF k = 0 THEN <<>> ELSE buf[k - 1] \o t
                         IN  buf[n]

\* The new text has no terminator: strlen reads on in the memory behind it.
Unterminated(t) == IF t = <<>> THEN {t} ELSE {t, t \o <<Junk>>}

ToUpper(c) == IF \E p \in Upper : p[1] = c THEN (CHOOSE p \in Upper : p[1] = c)[2] ELSE c
ToLower(c) == IF \E p \in Upper : p[2] = c THEN (CHOOSE p \in Upper : p[2] = c)[1] ELSE c

string_upcase(t)   == Unterminated([k \in DOMAIN t |-> ToUpper(t[k])])
string_downcase(t) == Unterminated([k \in DOMAIN t |-> ToLower(t[k])])
string_capitalize(t) ==
  Unterminated([k \in DOMAIN t |-> IF k = 1 THEN ToUpper(t[k]) ELSE ToLower(t[k])])

\* strstr: where u is found in t.
Places(t, u) == {k \in 1 .. Len(t) - Len(u) + 1 : SubSeq(t, k, k + Len(u) - 1) = u}
Found(t, u) == Places(t, u) # {}
strstr(t, u) == CHOOSE k \in Places(t, u) : \A j \in Places(t, u) : k <= j

\* The loop that moves what follows a place n characters down, in a buffer:
\* up to the NUL, which it moves too.
MoveDown(buf, place, n) ==
  LET ptr[k \in place - 1 .. Len(buf) - n] ==
        IF k = place - 1 THEN [buf |-> buf, done |-> FALSE]
        ELSE IF ptr[k - 1].done THEN ptr[k - 1]
        ELSE LET c == ptr[k - 1].buf[k + n]
             IN  [buf  |-> [ptr[k - 1].buf EXCEPT ![k] = c, ![k + n] = NUL],
                  done |-> c = NUL]
  IN  ptr[Len(buf) - n].buf

\* mutant: only the first place is looked for
MinusOnce(t, u) ==
  IF Found(t, u) THEN Cstr(MoveDown(t \o <<NUL>>, strstr(t, u), Len(u))) ELSE t

\* Every round makes the text shorter, so that Len(t) of them are enough;
\* without u there is no last round.
string_minus(t, u) ==
  LET buf[k \in 0 .. Len(t)] ==
        IF k = 0 THEN t
        ELSE IF Found(buf[k - 1], u)
             THEN Cstr(MoveDown(buf[k - 1] \o <<NUL>>, strstr(buf[k - 1], u), Len(u)))
             ELSE buf[k - 1]
  IN  buf[Len(t)]

SplitAt(t, c) ==
  LET ptr[k \in 0 .. Len(t)] ==
        IF k = 0 THEN [ary |-> <<>>, tok |-> <<>>]
        ELSE IF t[k] = c
             THEN [ary |-> Append(ptr[k - 1].ary, ptr[k - 1].tok), tok |-> <<>>]
             ELSE [ptr[k - 1] EXCEPT !.tok = Append(@, t[k])]
  IN  Append(ptr[Len(t)].ary, ptr[Len(t)].tok)

\* The search begins at the start again, where the text now ends.
string_split_substr(t, u) ==
  IF ~Found(t, u) THEN <<t>>
  ELSE <<SubSeq(t, 1, strstr(t, u) - 1), SubSeq(t, strstr(t, u) + Len(u), Len(t))>>

string_split(t, u) == IF Len(u) > 1 THEN string_split_substr(t, u)
                      ELSE IF t = <<>> THEN <<>>
                      ELSE IF u = <<>> THEN [k \in DOMAIN t |-> <<t[k]>>]
                      ELSE SplitAt(t, u[1])

----------------------------------------------------------------------------
Join(pieces, u) ==
  LET all[k \in 0 .. Len(pieces)] ==
        IF k = 0 THEN <<>>
        ELSE IF k = 1 THEN pieces[1]
        ELSE all[k - 1] \o u \o pieces[k]
  IN  all[Len(pieces)]

Count(t, c) == Cardinality({k \in DOMAIN t : t[k] = c})

\* What is said of strings: subtraction leaves no place of what it takes out,
\* and no other character is lost; the pieces of a split, joined, are the text
\* again, and hold no delimiter if it is one character.
WordsKept(t, u) ==
  /\ u # <<>> =>
       LET rest == string_minus(t, u)
       IN  /\ ~Found(rest, u)
           /\ \E k \in 0 .. Len(t) :
                /\ Len(rest) + k * Len(u) = Len(t)
                /\ \A c \in Char : Count(rest, c) + k * Count(u, c) = Count(t, c)
  /\ Join(string_split(t, u), u) = t
  /\ Len(u) = 1 => \A p \in Range(string_split(t, u)) : ~Found(p, u)

\* A buffer is as long as it says, and its text ends at a NUL inside it.
Terminated(d) == /\ d.len < Len(d.ptr) /\ d.ptr[d.len + 1] = NUL
                 /\ Len(Cstr(d.ptr)) = d.len
=============================================================================
