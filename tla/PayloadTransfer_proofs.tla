------------------------ MODULE PayloadTransfer_proofs ------------------------
(***************************************************************************)
(* Armouring is undone by its inverse, for all data and all lengths; and    *)
(* the theorem about PayloadTransfer: for any number of stations, messages  *)
(* of any length, cut anywhere into as many sentences as parse() lets       *)
(* through, and any interleaving, the caller decodes the exact bits.        *)
(*                                                                          *)
(* It joins what is proved about the codec (DecodeInvertsEncode) and about  *)
(* the assembler (SplitFed) by PiecesJoin: a string cut up and concatenated *)
(* is the string.  ExactBitsArrive is not inductive: TransferInv adds that  *)
(* what a station has sent so far is what the buffer holds in its slot.     *)
(***************************************************************************)
EXTENDS PayloadTransfer, SentenceAssembler_proofs, WellFoundedInduction

-----------------------------------------------------------------------------
(* Where a bit lies.                                                        *)
LEMMA Position ==
  \A k \in Nat : k = 8 * (k \div 8) + (k % 8) /\ k % 8 \in 0 .. 7 /\ k \div 8 \in Nat
BY SMT

LEMMA ByteCounts ==
  \A n \in Nat :
    /\ ByteCount(n) \in Nat
    /\ ByteCount(n + 1) = n \div 8 + 1
    /\ ByteCount(n) = IF n % 8 = 0 THEN n \div 8 ELSE n \div 8 + 1
    /\ \A k \in 0 .. n - 1 : k \div 8 + 1 \in 1 .. ByteCount(n)
BY SMT DEF ByteCount

-----------------------------------------------------------------------------
(* Each six-bit value has a valid character that stands for it and no other.*)
THEOREM ArmourOfValue ==
  \A v \in 0 .. 63 :
    /\ is_valid_payload_char(armour_encode(v))
    /\ armour_decode(armour_encode(v)) = v
BY SMT DEF is_valid_payload_char, armour_encode, armour_decode

(* Each character that passes the test stands for a value that gives it.    *)
THEOREM ValueOfArmour ==
  \A ch \in Char : is_valid_payload_char(ch) =>
    /\ armour_decode(ch) \in 0 .. 63
    /\ armour_encode(armour_decode(ch)) = ch
BY SMT DEF Char, is_valid_payload_char, armour_encode, armour_decode

LEMMA Lengths ==
  \A n \in Nat \ {0} :
    /\ FillBitCount(n) \in 0 .. 5
    /\ CharCount(n) \in Nat \ {0}
    /\ 6 * CharCount(n) - FillBitCount(n) = n
    /\ \A i \in 0 .. n - 1 : i \div 6 + 1 \in 1 .. CharCount(n)
BY SMT DEF FillBitCount, CharCount

LEMMA BitToSendType ==
  ASSUME NEW data \in Seq(Byte), NEW n \in Nat, ByteCount(n) <= Len(data), NEW i \in Nat
  PROVE  BitToSend(data, n, i) \in Bit
<1>1. CASE i < n
  <2>1. i \div 8 + 1 \in 1 .. ByteCount(n) /\ ByteCount(n) \in Nat /\ i % 8 \in 0 .. 7
    <3>1. i \in 0 .. n - 1
      BY <1>1
    <3> QED
      BY <3>1, ByteCounts, Position
  <2>2. data[i \div 8 + 1] \in Byte
    BY <2>1
  <2> QED
    BY <1>1, <2>1, <2>2 DEF BitToSend, read_bit, Byte
<1>2. CASE ~(i < n)
  BY <1>2 DEF BitToSend, Bit
<1> QED
  BY <1>1, <1>2

LEMMA SixToSendBits ==
  ASSUME NEW data \in Seq(Byte), NEW n \in Nat, ByteCount(n) <= Len(data), NEW i \in Nat
  PROVE  /\ SixToSend(data, n, i) \in 0 .. 63
         /\ \A j \in 0 .. 5 : SixBit(SixToSend(data, n, i), j) = BitToSend(data, n, i + j)
<1> DEFINE b0 == BitToSend(data, n, i)
           b1 == BitToSend(data, n, i + 1)
           b2 == BitToSend(data, n, i + 2)
           b3 == BitToSend(data, n, i + 3)
           b4 == BitToSend(data, n, i + 4)
           b5 == BitToSend(data, n, i + 5)
           v == SixToSend(data, n, i)
<1>1. b0 \in Bit /\ b1 \in Bit /\ b2 \in Bit /\ b3 \in Bit /\ b4 \in Bit /\ b5 \in Bit
  BY BitToSendType
<1>2. v = SixBits(b0, b1, b2, b3, b4, b5)
  BY DEF SixToSend
<1>3. i + 0 = i
  OBVIOUS
<1> HIDE DEF b0, b1, b2, b3, b4, b5, v
<1>4. /\ v \in 0 .. 63
      /\ SixBit(v, 0) = b0 /\ SixBit(v, 1) = b1 /\ SixBit(v, 2) = b2
      /\ SixBit(v, 3) = b3 /\ SixBit(v, 4) = b4 /\ SixBit(v, 5) = b5
  BY <1>1, <1>2, SMT DEF SixBits, SixBit, Bit
<1> QED
  BY <1>3, <1>4 DEF b0, b1, b2, b3, b4, b5, v

(* What encode_payload() makes of a message, decode_payload() turns into the*)
(* message again: no character is refused, no bit is lost at the end or     *)
(* taken from the fill, whatever the data and the length.                   *)
THEOREM DecodeInvertsEncode ==
  ASSUME NEW data \in Seq(Byte), NEW n \in Nat \ {0}, ByteCount(n) <= Len(data)
  PROVE  LET sent == encode_payload(data, n)
         IN  /\ sent.kind = "value"
             /\ decode_payload(sent.value.payload, sent.value.fill_bits) =
                  Value(FirstBits(data, n))
<1> DEFINE sent == encode_payload(data, n)
           payload == [c \in 1 .. CharCount(n) |->
                         armour_encode(SixToSend(data, n, 6 * (c - 1)))]
           fill == FillBitCount(n)
<1>1. ~(Len(data) < ByteCount(n)) /\ ByteCount(n) \in Nat
  BY ByteCounts
<1>2. sent = Value([payload |-> payload, fill_bits |-> fill])
  BY <1>1 DEF encode_payload
<1>3. sent.kind = "value" /\ sent.value.payload = payload /\ sent.value.fill_bits = fill
  <2> HIDE DEF sent, payload, fill
  <2> QED
    BY <1>2 DEF Value
<1>4. /\ fill \in 0 .. 5 /\ CharCount(n) \in Nat \ {0} /\ 6 * CharCount(n) - fill = n
      /\ Len(payload) = CharCount(n) /\ payload # <<>>
  <2>1. fill \in 0 .. 5 /\ CharCount(n) \in Nat \ {0} /\ 6 * CharCount(n) - fill = n
    BY Lengths
  <2>2. Len(payload) = CharCount(n)
    BY <2>1
  <2>3. payload # <<>>
    BY <2>1, <2>2
  <2> QED
    BY <2>1, <2>2, <2>3
<1>5. ASSUME NEW c \in 1 .. CharCount(n)
      PROVE  /\ is_valid_payload_char(payload[c])
             /\ armour_decode(payload[c]) = SixToSend(data, n, 6 * (c - 1))
  <2>1. 6 * (c - 1) \in Nat
    BY <1>4
  <2>2. SixToSend(data, n, 6 * (c - 1)) \in 0 .. 63
    BY <2>1, SixToSendBits
  <2> QED
    BY <2>2, ArmourOfValue
<1>6. ASSUME NEW k \in 1 .. ByteCount(n), NEW p \in 0 .. 7, 8 * (k - 1) + p < n
      PROVE  LET i == 8 * (k - 1) + p
             IN  SixBit(armour_decode(payload[i \div 6 + 1]), i % 6) = data[k][p]
  <2> DEFINE i == 8 * (k - 1) + p
             c == i \div 6 + 1
  <2>1. i \in 0 .. n - 1 /\ i \div 8 + 1 = k /\ i % 8 = p
    BY <1>1, <1>6
  <2>2. c \in 1 .. CharCount(n)
    BY <2>1, Lengths
  <2>3. i % 6 \in 0 .. 5 /\ 6 * (c - 1) + (i % 6) = i /\ 6 * (c - 1) \in Nat
    BY <2>1
  <2>4. armour_decode(payload[c]) = SixToSend(data, n, 6 * (c - 1))
    BY <1>5, <2>2
  <2> HIDE DEF c
  <2>5. SixBit(SixToSend(data, n, 6 * (c - 1)), i % 6) = BitToSend(data, n, 6 * (c - 1) + (i % 6))
    BY <2>3, SixToSendBits
  <2>6. BitToSend(data, n, i) = data[k][p]
    BY <2>1 DEF BitToSend, read_bit
  <2> QED
    BY <2>3, <2>4, <2>5, <2>6 DEF c
<1> HIDE DEF payload, fill
<1>7. unpack_bits(payload, n) = FirstBits(data, n)
  BY <1>6 DEF unpack_bits, FirstBits
<1>8. decode_payload(payload, fill) = Value(unpack_bits(payload, 6 * Len(payload) - fill))
  BY <1>4, <1>5 DEF decode_payload
<1> QED
  BY <1>3, <1>4, <1>7, <1>8

-----------------------------------------------------------------------------
(* Induction, from the least number that is not in the set.                 *)
LEMMA Induction ==
  ASSUME NEW T, 0 \in T, \A n \in Nat : n \in T => n + 1 \in T
  PROVE  Nat \subseteq T
<1>1. SUFFICES ASSUME Nat \ T # {} PROVE FALSE
  OBVIOUS
<1>2. PICK m \in Nat \ T : \A y \in Nat \ T : ~(<<y, m>> \in OpToRel(<, Nat))
  <2>1. IsWellFoundedOn(OpToRel(<, Nat), Nat)
    BY NatLessThanWellFounded
  <2> QED
    BY <1>1, <2>1, WFMin
<1>3. m # 0 /\ m - 1 \in Nat /\ m - 1 \notin T
  OBVIOUS
<1>4. <<m - 1, m>> \in OpToRel(<, Nat)
  BY <1>3 DEF OpToRel
<1> QED
  BY <1>2, <1>3, <1>4

(* Such pieces of s as a transmitter makes of a payload.                    *)
CutUp(s, k, cut, pieces) ==
  /\ \A i \in 0 .. k : cut[i] \in 0 .. Len(s)
  /\ \A i \in 1 .. k : cut[i - 1] <= cut[i]
  /\ cut[0] = 0 /\ cut[k] = Len(s)
  /\ Len(pieces) = k
  /\ \A i \in 1 .. k : pieces[i] = SubSeq(s, cut[i - 1] + 1, cut[i])

(* A sequence cut into pieces is the pieces joined, one after the other.    *)
LEMMA PiecesJoin ==
  ASSUME NEW T, NEW s \in Seq(T), NEW k \in Nat \ {0}, NEW cut, NEW pieces,
         CutUp(s, k, cut, pieces)
  PROVE  FlattenSeq(pieces) = s
<1> USE DEF CutUp
<1> DEFINE Joins(f) ==
             f = [i \in 1 .. k |-> IF i = 1 THEN pieces[i] ELSE f[i - 1] \o pieces[i]]
           whole == [i \in 1 .. k |-> SubSeq(s, 1, cut[i])]
<1>1. ASSUME NEW i \in 1 .. k
      PROVE  /\ i = 1 => pieces[i] = SubSeq(s, 1, cut[i])
             /\ i > 1 => SubSeq(s, 1, cut[i - 1]) \o pieces[i] = SubSeq(s, 1, cut[i])
  <2>1. pieces[i] = SubSeq(s, cut[i - 1] + 1, cut[i])
    OBVIOUS
  <2>2. ASSUME i = 1 PROVE pieces[i] = SubSeq(s, 1, cut[i])
    BY <2>1, <2>2
  <2>3. ASSUME i > 1
        PROVE  SubSeq(s, 1, cut[i - 1]) \o pieces[i] = SubSeq(s, 1, cut[i])
    <3>1. i - 1 \in 0 .. k /\ i \in 0 .. k /\ Len(s) \in Nat
      BY <2>3
    <3>2. PICK c, d : c = cut[i - 1] /\ d = cut[i]
      OBVIOUS
    <3>3. /\ c \in 0 .. Len(s) /\ d \in 0 .. Len(s) /\ c <= d
      BY <3>1, <3>2
    <3>4. c \in 1 - 1 .. Len(s) /\ d \in c .. Len(s) /\ 1 \in 1 .. Len(s) + 1
      BY <3>1, <3>3
    <3>5. SubSeq(s, 1, c) \o SubSeq(s, c + 1, d) = SubSeq(s, 1, d)
      BY <3>4, ConcatAdjacentSubSeq
    <3> QED
      BY <2>1, <3>2, <3>5
  <2> QED
    BY <2>2, <2>3
<1>2. Joins(whole)
  <2>1. ASSUME NEW i \in 1 .. k
        PROVE  SubSeq(s, 1, cut[i]) = IF i = 1 THEN pieces[i] ELSE whole[i - 1] \o pieces[i]
    <3>1. i > 1 => i - 1 \in 1 .. k
      OBVIOUS
    <3>2. i > 1 => whole[i - 1] = SubSeq(s, 1, cut[i - 1])
      BY <3>1
    <3>3. i = 1 \/ (i > 1 /\ i # 1)
      OBVIOUS
    <3> HIDE DEF whole
    <3>4. CASE i = 1
      BY <1>1, <3>4
    <3>5. CASE i > 1 /\ i # 1
      BY <1>1, <3>2, <3>5
    <3> QED
      BY <3>3, <3>4, <3>5
  <2> QED
    BY <2>1
<1> DEFINE flatten == CHOOSE f : Joins(f)
<1> HIDE DEF whole
<1>3. Joins(flatten)
  BY <1>2
<1> DEFINE T0 == {n \in Nat : n + 1 \in 1 .. k => flatten[n + 1] = SubSeq(s, 1, cut[n + 1])}
<1>4. k - 1 \in T0
  <2> HIDE DEF flatten
  <2>1. 0 \in T0
    BY <1>1, <1>3
  <2>2. ASSUME NEW n \in Nat, n \in T0 PROVE n + 1 \in T0
    <3> SUFFICES ASSUME n + 1 + 1 \in 1 .. k
                 PROVE  flatten[n + 1 + 1] = SubSeq(s, 1, cut[n + 1 + 1])
      OBVIOUS
    <3>1. PICK m : m = n + 1 + 1
      OBVIOUS
    <3>2. m \in 1 .. k /\ m > 1 /\ m # 1 /\ n + 1 \in 1 .. k /\ m - 1 = n + 1
      BY <3>1
    <3>3. flatten[n + 1] = SubSeq(s, 1, cut[n + 1])
      BY <2>2, <3>2
    <3>4. flatten[m] = flatten[m - 1] \o pieces[m]
      BY <1>3, <3>2
    <3>5. SubSeq(s, 1, cut[m - 1]) \o pieces[m] = SubSeq(s, 1, cut[m])
      BY <1>1, <3>2
    <3>6. flatten[m] = SubSeq(s, 1, cut[m])
      BY <3>2, <3>3, <3>4, <3>5
    <3> QED
      BY <3>1, <3>6
  <2> HIDE DEF T0
  <2>3. Nat \subseteq T0
    BY <2>1, <2>2, Induction
  <2> QED
    BY <2>3
<1>5. flatten[k] = s
  <2>1. k - 1 + 1 \in 1 .. k /\ k - 1 + 1 = k
    OBVIOUS
  <2>2. flatten[k] = SubSeq(s, 1, cut[k])
    BY <1>4, <2>1
  <2> QED
    BY <2>2, SubSeqFull
<1>6. FlattenSeq(pieces) = flatten[k]
  BY DEF FlattenSeq
<1> QED
  BY <1>5, <1>6

-----------------------------------------------------------------------------
(* What a station encodes is some characters and at most five fill bits, and*)
(* is decoded to the bits of its message.                                   *)
LEMMA Encoded ==
  ASSUME NEW st \in Stations, NEW msg \in Contents[st]
  PROVE  /\ Payload(msg).payload \in Seq(Char)
         /\ Len(Payload(msg).payload) \in Nat \ {0}
         /\ Payload(msg).fill_bits \in 0 .. 5
         /\ decode_payload(Payload(msg).payload, Payload(msg).fill_bits) =
              Value(FirstBits(msg.data, msg.bit_length))
<1> DEFINE data == msg.data
           n == msg.bit_length
           Armoured(c) == armour_encode(SixToSend(data, n, 6 * (c - 1)))
<1>1. data \in Seq(Byte) /\ n \in Nat \ {0} /\ ByteCount(n) <= Len(data)
  BY TransferAssumption
<1>2. /\ decode_payload(Payload(msg).payload, Payload(msg).fill_bits) =
           Value(FirstBits(data, n))
  BY <1>1, DecodeInvertsEncode DEF Payload
<1> HIDE DEF data, n
<1>3. CharCount(n) \in Nat \ {0} /\ FillBitCount(n) \in 0 .. 5
  BY <1>1, Lengths
<1>4. encode_payload(data, n).value =
        [payload   |-> [c \in 1 .. CharCount(n) |->
                          armour_encode(SixToSend(data, n, 6 * (c - 1)))],
         fill_bits |-> FillBitCount(n)]
  <2>1. n # 0 /\ ~(Len(data) < ByteCount(n))
    BY <1>1, ByteCounts
  <2> QED
    BY <2>1 DEF encode_payload, Value
<1>5. /\ Payload(msg).payload = [c \in 1 .. CharCount(n) |->
                                   armour_encode(SixToSend(data, n, 6 * (c - 1)))]
      /\ Payload(msg).fill_bits = FillBitCount(n)
  BY <1>4 DEF Payload, data, n
<1>6. Payload(msg).payload \in Seq(Char) /\ Len(Payload(msg).payload) = CharCount(n)
  <2>1. Payload(msg).payload = [c \in 1 .. CharCount(n) |-> Armoured(c)]
    BY <1>5
  <2>2. ASSUME NEW c \in 1 .. CharCount(n) PROVE Armoured(c) \in Char
    <3>1. 6 * (c - 1) \in Nat
      BY <1>3
    <3>2. SixToSend(data, n, 6 * (c - 1)) \in 0 .. 63
      BY <1>1, <3>1, SixToSendBits
    <3>3. is_valid_payload_char(Armoured(c))
      BY <3>2, ArmourOfValue
    <3> HIDE DEF Armoured
    <3> QED
      BY <3>3 DEF is_valid_payload_char, Char
  <2> HIDE DEF Armoured
  <2> QED
    BY <1>3, <2>1, <2>2
<1> QED
  BY <1>2, <1>3, <1>5, <1>6 DEF data, n

(* The sentences that carry the message of st.                              *)
Carries(st, ss) ==
  /\ Split(ss)
  /\ Len(ss) > 1 => ss[1].seq_id = SeqIdOf[st]
  /\ Decoded(WholeMessage(ss)) = Sent(st)

(* However a payload is cut, its sentences carry the message.               *)
LEMMA SentencesCarry ==
  ASSUME NEW st \in Stations, content[st] \in Contents[st],
         NEW cuts \in Cuts(Len(Payload(content[st]).payload)),
         NEW fill \in IntermediateFills
  PROVE  Carries(st, SentencesOf(st, content[st], cuts, fill))
<1> PICK msg, s, len : /\ msg = content[st] /\ s = Payload(msg).payload
                       /\ len = Len(Payload(msg).payload)
  OBVIOUS
<1> DEFINE k == Len(cuts) + 1
           Cut(i) == IF i = 0 THEN 0 ELSE IF i = k THEN len ELSE cuts[i]
           cut == [i \in 0 .. k |-> Cut(i)]
           ss == SentencesOf(st, msg, cuts, fill)
           Piece(i, m, n) ==
             [talker        |-> Talker[st],
              sentence_type |-> "VDM",
              part_count    |-> k,
              part_index    |-> i,
              seq_id        |-> IF k = 1 THEN NoSeqId ELSE SeqIdOf[st],
              payload       |-> SubSeq(s, m + 1, n),
              fill_bits     |-> IF i = k THEN Payload(msg).fill_bits ELSE fill]
<1>1. /\ msg \in Contents[st] /\ len = Len(s)
      /\ len \in Nat \ {0}
      /\ Payload(msg).fill_bits \in 0 .. 5
      /\ decode_payload(s, Payload(msg).fill_bits) = Value(FirstBits(msg.data, msg.bit_length))
  BY Encoded
<1>2. s \in Seq(Char)
  BY Encoded
<1>3. /\ k \in Nat \ {0} /\ k \in 1 .. MaxParts
      /\ cuts \in [1 .. k - 1 -> 0 .. len]
      /\ \A i, j \in 1 .. k - 1 : i < j => cuts[i] <= cuts[j]
  <2>1. PICK q \in 1 .. MaxParts :
          /\ cuts \in [1 .. q - 1 -> 0 .. len]
          /\ \A i, j \in 1 .. q - 1 : i < j => cuts[i] <= cuts[j]
    BY DEF Cuts
  <2>2. Len(cuts) = q - 1 /\ q \in Nat
    BY <2>1, TransferAssumption, SentencesAssumption
  <2> QED
    BY <2>1, <2>2
<1> HIDE DEF k
<1>4. /\ cut[0] = 0 /\ cut[k] = len
      /\ \A i \in 0 .. k : cut[i] = Cut(i) /\ cut[i] \in 0 .. len
      /\ \A i \in 1 .. k : cut[i - 1] <= cut[i] /\ Cut(i - 1) = cut[i - 1]
  <2>1. ASSUME NEW i \in 0 .. k PROVE cut[i] = Cut(i) /\ Cut(i) \in 0 .. len
    BY <1>1, <1>3
  <2>2. ASSUME NEW i \in 1 .. k PROVE cut[i - 1] <= cut[i] /\ Cut(i - 1) = cut[i - 1]
    <3>1. i - 1 \in 0 .. k /\ i \in 0 .. k
      BY <1>3
    <3>2. Cut(i - 1) <= Cut(i)
      BY <1>1, <1>3, <2>1, <3>1
    <3> QED
      BY <2>1, <3>1, <3>2
  <2> QED
    BY <1>3, <2>1, <2>2
<1> HIDE DEF cut
<1>5. /\ ss = [i \in 1 .. k |-> ss[i]] /\ Len(ss) = k
      /\ \A i \in 1 .. k : ss[i] = Piece(i, cut[i - 1], cut[i])
  <2>1. ss = [i \in 1 .. k |-> Piece(i, Cut(i - 1), Cut(i))]
    BY DEF SentencesOf, k
  <2> HIDE DEF ss, Piece
  <2>2. ASSUME NEW i \in 1 .. k PROVE Cut(i - 1) = cut[i - 1] /\ Cut(i) = cut[i]
    BY <1>3, <1>4
  <2> HIDE DEF Cut
  <2> QED
    BY <1>3, <2>1, <2>2
<1> HIDE DEF ss, Cut, Piece
<1>6. ASSUME NEW i \in 1 .. k
      PROVE  /\ ss[i] \in Sentence
             /\ ss[i].part_count = k /\ ss[i].part_index = i
             /\ ss[i].seq_id = IF k = 1 THEN NoSeqId ELSE SeqIdOf[st]
             /\ ss[i].sentence_type = "VDM" /\ ss[i].talker = Talker[st]
             /\ ss[i].payload = SubSeq(s, cut[i - 1] + 1, cut[i])
             /\ i = k => ss[i].fill_bits = Payload(msg).fill_bits
  <2>1. PICK m, n : m = cut[i - 1] /\ n = cut[i]
    OBVIOUS
  <2>2. m \in 0 .. len /\ n \in 0 .. len
    <3>1. i - 1 \in 0 .. k /\ i \in 0 .. k
      BY <1>3
    <3> QED
      BY <1>4, <2>1, <3>1
  <2>3. SubSeq(s, m + 1, n) \in Payloads
    <3>1. \A j \in m + 1 .. n : s[j] \in Char
      BY <1>1, <1>2, <2>2
    <3>2. SubSeq(s, m + 1, n) \in Seq(Char)
      BY <2>2, <3>1, SubSeqProperties
    <3> QED
      BY <3>2, TransferAssumption
  <2>4. k = 1 => SubSeq(s, m + 1, n) # NoPayload
    <3> SUFFICES ASSUME k = 1 PROVE SubSeq(s, m + 1, n) # <<>>
      BY TransferAssumption
    <3>1. m = 0 /\ n = len
      BY <1>4, <2>1
    <3>2. SubSeq(s, 1, len) = s
      BY <1>1, <1>2, SubSeqFull
    <3>3. s # <<>>
      BY <1>1
    <3>4. m + 1 = 1
      BY <3>1
    <3> QED
      BY <3>1, <3>2, <3>3, <3>4
  <2>5. /\ Talker[st] \in Talkers /\ SeqIdOf[st] \in SeqIds /\ SeqIdOf[st] # NoSeqId
        /\ fill \in FillBits /\ Payload(msg).fill_bits \in FillBits
        /\ k \in 1 .. kMaxSentenceParts /\ i \in 1 .. kMaxSentenceParts /\ i <= k
        /\ "VDM" \in SentenceTypes
    BY <1>1, <1>3, TransferAssumption, SentencesAssumption DEF SentenceTypes
  <2>6. PICK id, chars, f :
          /\ id = IF k = 1 THEN NoSeqId ELSE SeqIdOf[st]
          /\ chars = SubSeq(s, m + 1, n)
          /\ f = IF i = k THEN Payload(msg).fill_bits ELSE fill
    OBVIOUS
  <2>7. /\ id \in SeqIds \cup {NoSeqId} /\ chars \in Payloads /\ f \in FillBits
        /\ k > 1 => id # NoSeqId
        /\ k = 1 => chars # NoPayload
        /\ i = k => f = Payload(msg).fill_bits
    BY <1>3, <2>3, <2>4, <2>5, <2>6
  <2>8. ss[i] = [talker |-> Talker[st], sentence_type |-> "VDM", part_count |-> k,
                 part_index |-> i, seq_id |-> id, payload |-> chars, fill_bits |-> f]
    BY <1>5, <2>1, <2>6 DEF Piece
  <2>9. ss[i] \in Sentence
    BY <2>5, <2>7, <2>8 DEF Sentence
  <2>10. /\ ss[i].part_count = k /\ ss[i].part_index = i /\ ss[i].seq_id = id
         /\ ss[i].sentence_type = "VDM" /\ ss[i].talker = Talker[st]
         /\ ss[i].payload = chars /\ ss[i].fill_bits = f
    BY <2>8
  <2> QED
    BY <2>1, <2>6, <2>7, <2>9, <2>10
<1>7. 1 \in 1 .. k /\ k \in 1 .. k
  BY <1>3
<1>8. Split(ss)
  <2>1. ss \in Seq(Sentence)
    BY <1>3, <1>5, <1>6
  <2> QED
    BY <1>3, <1>5, <1>6, <1>7, <2>1 DEF Split
<1>9. Len(ss) > 1 => ss[1].seq_id = SeqIdOf[st]
  BY <1>3, <1>5, <1>6, <1>7
<1>10. Decoded(WholeMessage(ss)) = Sent(st)
  <2> DEFINE pieces == FirstPayloads(ss, k)
  <2>1. Len(pieces) = k /\ \A i \in 1 .. k : pieces[i] = SubSeq(s, cut[i - 1] + 1, cut[i])
    BY <1>3, <1>6 DEF FirstPayloads
  <2> HIDE DEF pieces
  <2>2. FlattenSeq(pieces) = s
    <3>1. CutUp(s, k, cut, pieces)
      BY <1>1, <1>4, <2>1 DEF CutUp
    <3> QED
      BY <1>2, <1>3, <3>1, PiecesJoin
  <2>3. /\ WholeMessage(ss).payload = pieces
        /\ WholeMessage(ss).fill_bits = Payload(msg).fill_bits
        /\ WholeMessage(ss).talker = Talker[st]
    BY <1>5, <1>6, <1>7 DEF WholeMessage, pieces
  <2> QED
    BY <1>1, <2>2, <2>3 DEF Decoded, Sent
<1> QED
  BY <1>8, <1>9, <1>10 DEF Carries, ss

-----------------------------------------------------------------------------
(* The first r of the sentences ss of st have come.  They are in the buffer *)
(* until the last has, and nothing else is in their slot.                   *)
OnWay(st, ss, r) ==
  /\ Carries(st, ss)
  /\ r \in 0 .. Len(ss)
  /\ sending[st] \in Seq(Sentence) /\ Len(sending[st]) = Len(ss) - r
  /\ \A i \in 1 .. Len(sending[st]) : sending[st][i] = ss[r + i]
  /\ IF 0 < r /\ r < Len(ss) THEN Holds(ss, r) ELSE Vacant(SeqIdOf[st])

TransferInv ==
  /\ Inv
  /\ sending = [st \in Stations |-> sending[st]]
  /\ \A st \in Stations : \E ss : \E r \in Nat : OnWay(st, ss, r)
  /\ ExactBitsArrive

(* No sentence has come: the buffer is empty, and nothing is received.      *)
LEMMA TransferInvInitially == TransferInit => TransferInv
<1> SUFFICES ASSUME TransferInit PROVE TransferInv
  OBVIOUS
<1>1. /\ Init /\ sequences = <<>> /\ received = {}
      /\ \A st \in Stations : content[st] \in Contents[st]
  BY DEF TransferInit, Init, OneEach
<1>2. PICK cut, fill :
        /\ \A st \in Stations : cut[st] \in Cuts(Len(Payload(content[st]).payload))
        /\ \A st \in Stations : fill[st] \in IntermediateFills
        /\ sending = [st \in Stations |-> SentencesOf(st, content[st], cut[st], fill[st])]
  BY DEF TransferInit, OneEach
<1>3. ASSUME NEW st \in Stations
      PROVE  /\ Carries(st, sending[st])
             /\ sending[st] \in Seq(Sentence) /\ Len(sending[st]) \in Nat \ {0}
  <2>1. Carries(st, SentencesOf(st, content[st], cut[st], fill[st]))
    BY <1>1, <1>2, SentencesCarry
  <2> QED
    BY <1>2, <2>1 DEF Carries, Split
<1>4. ASSUME NEW id PROVE Vacant(id)
  BY <1>1 DEF Vacant, Slots
<1>5. ASSUME NEW st \in Stations
      PROVE  OnWay(st, sending[st], 0)
  BY <1>3, <1>4 DEF OnWay
<1>6. ExactBitsArrive
  <2>1. ASSUME NEW st \in Stations PROVE sending[st] # <<>>
    BY <1>3
  <2> QED
    BY <1>1, <2>1 DEF ExactBitsArrive
<1> QED
  BY <1>1, <1>2, <1>5, <1>6, InitInv DEF TransferInv

(* The next sentence of a station is taken, whatever the others have sent.  *)
LEMMA ReceiveInv ==
  ASSUME TransferInv, NEW st \in Stations, Receive(st)
  PROVE  TransferInv'
<1> DEFINE rest == sending[st]
<1>1. PICK ss : \E r \in Nat : OnWay(st, ss, r)
  BY DEF TransferInv
<1>2. PICK r \in Nat : OnWay(st, ss, r)
  BY <1>1
<1> DEFINE i == r + 1
<1>3. /\ rest # <<>> /\ Feed(Head(rest)) /\ content' = content
      /\ sending' = [sending EXCEPT ![st] = Tail(@)]
      /\ received' = IF result'.kind = "message"
                     THEN received \cup {Decoded(result'.message)} ELSE received
  BY DEF Receive
<1>4. /\ Carries(st, ss) /\ Split(ss) /\ Len(ss) \in Nat
      /\ rest \in Seq(Sentence) /\ Len(rest) = Len(ss) - r
      /\ \A j \in 1 .. Len(rest) : rest[j] = ss[r + j]
  BY <1>2 DEF OnWay, Carries, Split
<1>5. i \in 1 .. Len(ss) /\ Head(rest) = ss[i]
  BY <1>3, <1>4
<1>6. Inv /\ Inv'
  <2>1. ss[i] \in Sentence
    BY <1>4, <1>5 DEF Split
  <2>2. Inv /\ Feed(ss[i])
    BY <1>3, <1>5 DEF TransferInv
  <2> QED
    BY <2>1, <2>2, FeedInv
<1>7. /\ Tail(rest) \in Seq(Sentence) /\ Len(Tail(rest)) = Len(ss) - i
      /\ \A j \in 1 .. Len(Tail(rest)) : Tail(rest)[j] = ss[i + j]
  <2>1. /\ Tail(rest) \in Seq(Sentence) /\ Len(Tail(rest)) = Len(rest) - 1
        /\ \A j \in 1 .. Len(Tail(rest)) : Tail(rest)[j] = rest[j + 1]
    BY <1>3, <1>4, HeadTailProperties
  <2>2. ASSUME NEW j \in 1 .. Len(Tail(rest)) PROVE Tail(rest)[j] = ss[i + j]
    <3>1. j + 1 \in 1 .. Len(rest) /\ r + (j + 1) = i + j
      BY <1>4, <2>1
    <3> QED
      BY <1>4, <2>1, <3>1
  <2> QED
    BY <1>4, <2>1, <2>2
<1>8. /\ sending' = [su \in Stations |-> sending'[su]]
      /\ sending'[st] = Tail(rest)
      /\ \A su \in Stations : su # st => sending'[su] = sending[su]
  <2>1. sending = [su \in Stations |-> sending[su]]
    BY DEF TransferInv
  <2> QED
    BY <1>3, <2>1
<1>9. \A su \in Stations : \A tt : Carries(su, tt) => Carries(su, tt)'
  BY <1>3 DEF Carries, Sent
<1>0. i = r + 1 /\ i \in Nat
  OBVIOUS
<1> HIDE DEF rest, i
<1>10. Due(ss, i) \/ Len(ss) = 1
  <2>1. CASE r = 0
    <3>1. Vacant(SeqIdOf[st])
      BY <1>2, <2>1 DEF OnWay
    <3> QED
      BY <1>0, <1>4, <1>5, <2>1, <3>1 DEF Carries, Due
  <2>2. CASE r # 0
    <3>1. 0 < r /\ r < Len(ss) /\ i # 1 /\ i - 1 = r
      BY <1>0, <1>2, <1>4, <1>5, <2>2
    <3>2. Holds(ss, r)
      BY <1>2, <3>1 DEF OnWay
    <3> QED
      BY <3>1, <3>2 DEF Due
  <2> QED
    BY <2>1, <2>2
<1>11. Passed(ss) \/ Taken(ss, i) \/ Completed(ss, i)
  <2>1. Len(ss) > 1 => Vacant(ss[1].seq_id) \/ \E q \in Nat : Holds(ss, q)
    BY <1>0, <1>4, <1>5, <1>10 DEF Due
  <2>2. Feed(ss[i])
    BY <1>3, <1>5
  <2>3. Passed(ss) \/ Taken(ss, i) \/ Completed(ss, i) \/ Refused(ss, i)
    BY <1>4, <1>5, <1>6, <2>1, <2>2, SplitFed
  <2> QED
    BY <1>4, <1>10, <2>3 DEF Refused
(* Its slot is the station's own, so that the others keep theirs.           *)
<1>12. ASSUME NEW id, id # SeqIdOf[st] \/ Len(ss) = 1
       PROVE  /\ Vacant(id)' <=> Vacant(id)
              /\ ~Vacant(id) => Slots'[id] = Slots[id]
  <2>1. CASE Len(ss) = 1
    <3>1. Passed(ss)
      BY <1>5, <1>11, <2>1 DEF Taken, Completed
    <3> QED
      BY <3>1 DEF Passed, Vacant
  <2>2. CASE Len(ss) # 1
    <3>1. ss[1].seq_id = SeqIdOf[st] /\ OthersKept(ss)
      BY <1>4, <1>5, <1>11, <2>2 DEF Carries, Passed, Taken, Completed
    <3> QED
      BY <1>12, <2>2, <3>1 DEF OthersKept
  <2> QED
    BY <2>1, <2>2
<1>13. OnWay(st, ss, i)'
  <2>1. IF 0 < i /\ i < Len(ss) THEN Holds(ss, i)' ELSE Vacant(SeqIdOf[st])'
    <3>1. CASE Passed(ss)
      <4>1. Len(ss) = 1 /\ i = 1 /\ r = 0
        BY <1>0, <1>5, <3>1 DEF Passed
      <4>2. Vacant(SeqIdOf[st])
        BY <1>2, <4>1 DEF OnWay
      <4> QED
        BY <1>12, <4>1, <4>2
    <3>2. CASE Taken(ss, i)
      BY <1>5, <3>2 DEF Taken
    <3>3. CASE Completed(ss, i)
      BY <1>4, <1>5, <3>3 DEF Completed, Carries
    <3> QED
      BY <1>11, <3>1, <3>2, <3>3
  <2>2. i \in 0 .. Len(ss)
    BY <1>5
  <2> QED
    BY <1>4, <1>7, <1>8, <1>9, <2>1, <2>2 DEF OnWay
<1>14. ASSUME NEW su \in Stations, su # st
       PROVE  \E tt : \E q \in Nat : OnWay(su, tt, q)'
  <2>1. PICK tt : \E q \in Nat : OnWay(su, tt, q)
    BY DEF TransferInv
  <2>2. PICK q \in Nat : OnWay(su, tt, q)
    BY <2>1
  <2>3. SeqIdOf[su] # SeqIdOf[st]
    BY <1>14, TransferAssumption
  <2>4. IF 0 < q /\ q < Len(tt) THEN Holds(tt, q)' ELSE Vacant(SeqIdOf[su])'
    <3>1. CASE 0 < q /\ q < Len(tt)
      <4>1. Holds(tt, q) /\ tt[1].seq_id = SeqIdOf[su]
        BY <2>2, <3>1 DEF OnWay, Carries, Split
      <4> QED
        BY <1>12, <2>3, <3>1, <4>1 DEF Holds
    <3>2. CASE ~(0 < q /\ q < Len(tt))
      <4>1. Vacant(SeqIdOf[su])
        BY <2>2, <3>2 DEF OnWay
      <4> QED
        BY <1>12, <2>3, <3>2, <4>1
    <3> QED
      BY <3>1, <3>2
  <2>5. OnWay(su, tt, q)'
    BY <1>8, <1>9, <1>14, <2>2, <2>4 DEF OnWay
  <2> QED
    BY <2>5
<1>15. ExactBitsArrive'
  <2> DEFINE Over == {su \in Stations : sending[su] = <<>>}
             Over1 == {su \in Stations : sending'[su] = <<>>}
  <2>1. received = {Sent(su) : su \in Over}
    BY DEF TransferInv, ExactBitsArrive
  <2>2. \A su \in Stations : Sent(su)' = Sent(su)
    BY <1>3 DEF Sent
  <2>3. st \notin Over
    BY <1>3 DEF rest
  <2>4. CASE i < Len(ss)
    <3>1. Len(Tail(rest)) > 0
      BY <1>4, <1>5, <1>7, <2>4
    <3>2. Over1 = Over
      BY <1>7, <1>8, <2>3, <3>1
    <3>3. result'.kind # "message"
      BY <1>5, <1>11, <2>4 DEF Passed, Taken, Completed
    <3>4. received' = {Sent(su) : su \in Over1}
      BY <1>3, <2>1, <3>2, <3>3
    <3> QED
      BY <2>2, <3>4 DEF ExactBitsArrive
  <2>5. CASE ~(i < Len(ss))
    <3>1. i = Len(ss)
      BY <1>4, <1>5, <2>5
    <3>2. Tail(rest) = <<>>
      <4>1. Len(Tail(rest)) = 0
        BY <1>4, <1>7, <3>1
      <4> QED
        BY <1>7, <4>1, EmptySeq
    <3>3. Over1 = Over \cup {st}
      BY <1>8, <3>2
    <3>4. result' = Complete(WholeMessage(ss))
      BY <1>11, <2>5 DEF Passed, Taken, Completed
    <3>5. result'.kind = "message" /\ Decoded(result'.message) = Sent(st)
      BY <1>4, <3>4 DEF Complete, Carries
    <3>6. received' = {Sent(su) : su \in Over} \cup {Sent(st)}
      BY <1>3, <2>1, <3>5
    <3>7. received' = {Sent(su) : su \in Over1}
      BY <3>3, <3>6
    <3> QED
      BY <2>2, <3>7 DEF ExactBitsArrive
  <2> QED
    BY <2>4, <2>5
<1> QED
  <2>1. \A su \in Stations : \E tt : \E q \in Nat : OnWay(su, tt, q)'
    BY <1>0, <1>13, <1>14
  <2> QED
    BY <1>6, <1>8, <1>15, <2>1 DEF TransferInv

(* Whatever is encoded, wherever it is cut and whatever fill bit counts the *)
(* intermediate sentences claim, however the stations interleave: the caller*)
(* decodes the exact bits of every message that is through, and no others.  *)
THEOREM ExactBits == TransferSpec => []ExactBitsArrive
<1>1. TransferInv /\ [TransferNext]_transferVars => TransferInv'
  <2> SUFFICES ASSUME TransferInv, [TransferNext]_transferVars PROVE TransferInv'
    OBVIOUS
  <2>1. ASSUME NEW st \in Stations, Receive(st) PROVE TransferInv'
    BY <2>1, ReceiveInv
  <2>2. CASE UNCHANGED transferVars
    <3>1. /\ sequences' = sequences /\ result' = result /\ content' = content
          /\ sending' = sending /\ received' = received
      BY <2>2 DEF transferVars
    <3>2. Inv'
      BY <3>1 DEF TransferInv, Inv, TypeOK, SequencesInProgress
    <3>3. ExactBitsArrive'
      BY <3>1 DEF TransferInv, ExactBitsArrive, Sent
    <3>4. ASSUME NEW su \in Stations, NEW ss, NEW r, OnWay(su, ss, r)
          PROVE  OnWay(su, ss, r)'
      BY <3>1, <3>4 DEF OnWay, Carries, Sent, Holds, Vacant, Slots
    <3> QED
      BY <3>1, <3>2, <3>3, <3>4 DEF TransferInv
  <2> QED
    BY <2>1, <2>2 DEF TransferNext
<1>2. TransferInv => ExactBitsArrive
  BY DEF TransferInv
<1> QED
  BY TransferInvInitially, <1>1, <1>2, PTL DEF TransferSpec
=============================================================================
