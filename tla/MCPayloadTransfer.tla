--------------------------- MODULE MCPayloadTransfer ---------------------------
(***************************************************************************)
(* Two stations.  The messages of one are every six-bit value and patterns  *)
(* with lengths on either side of whole bytes and characters; the other     *)
(* sends one message to interleave with.                                    *)
(***************************************************************************)
EXTENDS PayloadTransfer

MCStations == {"shore", "ship"}
MCTalker == [shore |-> "AB", ship |-> "AI"]
MCSeqIdOf == [shore |-> 0, ship |-> 1]

(* The first n bits of a pattern, in as few bytes as possible.              *)
Buffer(pattern(_), n) ==
  [data |-> [k \in 1 .. ByteCount(n) |-> [p \in 0 .. 7 |->
               IF 8 * (k - 1) + p < n THEN pattern(8 * (k - 1) + p) ELSE 0]],
   bit_length |-> n]

SixBitValues == {Buffer(LAMBDA i : SixBit(v, i), 6) : v \in 0 .. 63}
Ones == {Buffer(LAMBDA i : 1, n) : n \in {1, 5, 7, 8, 9, 12, 16, 17, 18}}
Mixed == {Buffer(LAMBDA i : IF i % 3 = 0 THEN 0 ELSE 1, n) : n \in {11, 16}}

MCContents == [shore |-> SixBitValues \cup Ones, ship |-> Mixed]

MCPayloads == Seq(Char)
MCNoPayload == <<>>
=============================================================================
