----------------------------- MODULE MCStreams -----------------------------
(* Streams with lines that end and that do not, a rune of two bytes, a     *)
(* byte that is no rune, and an empty datagram.                            *)
EXTENDS Streams

MCTexts == {<<"a", "n">>, <<"L", "C">>, <<"a", "L", "C", "n">>, <<"C">>, <<>>}
=============================================================================
