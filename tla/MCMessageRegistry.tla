--------------------------- MODULE MCMessageRegistry ---------------------------
(***************************************************************************)
(* A registry for three types, one of which (2) never gets a decoder, with  *)
(* type ids out of range on both sides.                                     *)
(***************************************************************************)
EXTENDS MessageRegistry, TLC

CONSTANTS f, g

MCRegistrations == <<<<1, f>>, <<3, g>>>>

Symmetry == Permutations(Threads)
=============================================================================
