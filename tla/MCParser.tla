------------------------------ MODULE MCParser ------------------------------
(* The parser on every sequence of up to MaxTokens tokens, well-formed or not. *)
EXTENDS Parser

CONSTANTS MaxTokens, MaxAny

MCTokens == {Tok(k) : k \in {"stmt", "begin", "rescue", "if", "else", "end"}}
            \cup {[tok |-> "def", name |-> n] : n \in Name}
MCAnyToken == MCTokens \cup {Tok(k) : k \in {"while", "loop", "throw"}}
            \cup {[tok |-> "call", name |-> n] : n \in Name}

MCScripts == UNION {[1..n -> MCTokens] : n \in 0..MaxTokens}
             \cup UNION {[1..n -> MCAnyToken] : n \in 0..MaxAny}
=============================================================================
