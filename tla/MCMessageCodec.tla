---------------------------- MODULE MCMessageCodec ----------------------------
(* MessageCodec on payloads of every layout, for TLC.                        *)
EXTENDS MessageCodec

Letters(n) == [i \in 1 .. n |-> "letter"]

(* Texts that are empty, that fill a short field and any field, and with    *)
(* blanks inside, at the end, and of both kinds.                            *)
MCTextShapes ==
  {<<>>, Letters(7), Letters(20), <<"letter", "space", "padding", "letter">>,
   <<"letter", "letter", "space", "space">>, <<"letter", "padding", "space">>}

(* Every type id there is, and the first ones out of range.                 *)
MCOtherTypes == 0 .. 28

(* From one character of most layouts to two characters too many.           *)
MCChanges == {d - 30 : d \in 0 .. 32}
=============================================================================
