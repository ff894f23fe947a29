------------------------- MODULE MCSentenceAssembler --------------------------
(* The assembler on its own.  Identifiers and talkers are only compared.    *)
EXTENDS SentenceAssembler, TLC

Symmetry == Permutations(SeqIds) \cup Permutations(Talkers)
=============================================================================
