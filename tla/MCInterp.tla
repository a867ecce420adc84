------------------------------ MODULE MCInterp ------------------------------
(***************************************************************************)
(* The interpreter on every well-formed script of up to MaxTokens tokens,  *)
(* and on some longer, unclosed and method-defining ones.                  *)
(***************************************************************************)
EXTENDS Interp

CONSTANTS MaxTokens, m

Simple == {"stmt", "break", "throw", "retry"}
Blocks == {"if", "while", "begin"}
Divider(k) == IF k = "begin" THEN "rescue" ELSE "else"

T(ks) == [p \in DOMAIN ks |-> Tok(ks[p])]

\* The sequences of statements of exactly n tokens, from those of fewer:
\* B[k] holds those of k-1 tokens.
Grow(B, n) ==
  Append(B,
    {<<k>> \o r : k \in Simple, r \in B[n]}
    \cup UNION {{<<k>> \o a \o <<"end">> \o r :
                  k \in Blocks, a \in B[i+1], r \in B[n-1-i]} : i \in 0..(n-2)}
    \cup UNION {{<<k>> \o a \o <<Divider(k)>> \o b \o <<"end">> \o r :
                  k \in Blocks, a \in B[ij[1]+1], b \in B[ij[2]+1],
                  r \in B[n-2-ij[1]-ij[2]]}
                : ij \in {x \in (0..(n-3)) \X (0..(n-3)) : x[1] + x[2] <= n-3}})
Bodies == FoldLeft(Grow, <<{<<>>}>>, [n \in 1..MaxTokens |-> n])

Def(b)  == <<[tok |-> "def", name |-> m]>> \o T(b) \o T(<<"end">>)
Call    == [tok |-> "call", name |-> m]

\* Longer nests than MaxTokens allows, loop, methods, and unclosed scripts.
Longer ==
  { T(<<"while", "begin", "throw", "stmt", "rescue", "stmt", "end", "stmt", "end", "stmt">>),
    T(<<"begin", "while", "throw", "end", "stmt", "rescue", "retry", "end", "stmt">>),
    T(<<"begin", "throw", "rescue", "while", "retry", "end", "stmt", "end", "stmt">>),
    T(<<"while", "loop", "if", "break", "end", "stmt", "end", "stmt", "end", "stmt">>),
    T(<<"begin", "throw", "rescue", "begin", "throw", "rescue", "retry", "end", "end">>),
    T(<<"loop", "begin", "if", "throw", "end", "break", "rescue", "retry", "end", "end">>),
    T(<<"begin", "throw", "rescue", "if", "retry", "stmt", "end", "stmt", "end", "stmt">>),
    T(<<"begin", "gc", "stmt", "rescue", "end", "stmt">>),
    T(<<"if", "gc", "else", "stmt", "end", "begin", "throw", "rescue", "stmt", "end">>),
    T(<<"begin", "stmt", "rescue", "stmt", "end", "gc", "while", "gc", "stmt", "end", "stmt">>) }

Methods ==
  {Def(<<"if", "break", "else", "throw", "end">>) \o s : s \in
     {<<Call, Tok("stmt")>>, T(<<"while">>) \o <<Call>> \o T(<<"stmt", "end">>),
      T(<<"begin">>) \o <<Call>> \o T(<<"rescue", "stmt", "end", "stmt">>)}}
  \cup {Def(<<"begin", "if", "throw", "end", "rescue", "stmt", "end", "stmt">>)
          \o <<Call, Tok("stmt"), Call>>,
        T(<<"begin">>) \o <<Call>> \o T(<<"rescue", "stmt", "end">>),
        <<[tok |-> "def", name |-> m], Tok("if"), Call, Tok("end"), Tok("end"), Call>>,
        <<Call>>}

Unclosed ==
  { T(<<"stmt", "if", "stmt">>), T(<<"while", "begin", "throw">>),
    T(<<"stmt", "stmt", "begin", "throw">>), T(<<"begin", "throw", "rescue", "stmt">>) }

UpTo(n) == UNION {Bodies[k] : k \in 1..(n+1)}

\* Any block around any body, and every small begin block in, and around, a
\* loop.
Nested ==
  {<<k>> \o s \o <<"end", "stmt">> : k \in Blocks, s \in UpTo(MaxTokens - 1)}
  \cup {<<"while", "begin">> \o s \o <<"rescue">> \o r \o <<"end", "stmt", "end", "stmt">> :
          s \in UpTo(2), r \in UpTo(2)}
  \cup {<<"begin", "while">> \o s \o <<"end", "stmt", "rescue">> \o r \o <<"end", "stmt">> :
          s \in UpTo(2), r \in UpTo(2)}

MCScripts == {T(s) : s \in UpTo(MaxTokens) \cup Nested}
             \cup Longer \cup Methods \cup Unclosed
=============================================================================
