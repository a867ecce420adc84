----------------------------- MODULE MCStreams -----------------------------
(***************************************************************************)
(* A small Streams: letters "a" and "A", chunks of two characters, buffers *)
(* that begin with two.                                                    *)
(***************************************************************************)
EXTENDS Streams, TLC

MCUpper == {<<"a", "A">>}
MCLiteral == {<<>>, <<"a">>, <<"A", "n">>}
=============================================================================
