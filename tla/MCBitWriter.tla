------------------------------ MODULE MCBitWriter ------------------------------
(***************************************************************************)
(* Fields for BitWriter: integers whose bits differ within and beyond their *)
(* widths, texts with padding, spaces and characters without six bits.      *)
(***************************************************************************)
EXTENDS BitWriter

Bits(set) == [i \in 0 .. 63 |-> IF i \in set THEN 1 ELSE 0]

(* 5, -3, and the least 64-bit integer plus 64.                             *)
MCWords == {Bits({0, 2}), Bits(0 .. 63 \ {1}), Bits({6, 63})}

(* "A", "Z b", "@ ?" and the empty text.                                    *)
MCTexts == {<<65>>, <<90, 32, 98>>, <<64, 32, 63>>, <<>>}

(* No byte, and nine that alternate between two patterns.                   *)
MCSources ==
  {<<>>, [k \in 1 .. 9 |-> [p \in 0 .. 7 |-> IF k % 2 = 0 THEN 1 ELSE p % 2]]}
=============================================================================
