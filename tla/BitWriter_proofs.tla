---------------------------- MODULE BitWriter_proofs ----------------------------
(***************************************************************************)
(* BitWriter's buffer is well formed and every field can be read back, for  *)
(* all integers, widths, texts, runs of bits and numbers of fields.         *)
(***************************************************************************)
EXTENDS BitWriter, TLAPS

Inv == TypeOK /\ PaddedWithZeros /\ BitsInPlace

-----------------------------------------------------------------------------
(* Where a bit lies, and the bits of a six-bit character.                   *)
LEMMA Position ==
  \A k \in Nat : k = 8 * (k \div 8) + (k % 8) /\ k % 8 \in 0 .. 7 /\ k \div 8 \in Nat
BY SMT

LEMMA SixPosition ==
  \A c \in Nat, j \in 0 .. 5 : (6 * c + j) \div 6 = c /\ (6 * c + j) % 6 = j
BY SMT

LEMMA ByteCounts ==
  \A n \in Nat :
    /\ ByteCount(n) \in Nat
    /\ ByteCount(n + 1) = n \div 8 + 1
    /\ ByteCount(n) = IF n % 8 = 0 THEN n \div 8 ELSE n \div 8 + 1
    /\ \A k \in 0 .. n - 1 : k \div 8 + 1 \in 1 .. ByteCount(n)
BY SMT DEF ByteCount

LEMMA SixBitsInverse ==
  \A v \in 0 .. 63 :
    SixBits(SixBit(v, 0), SixBit(v, 1), SixBit(v, 2),
            SixBit(v, 3), SixBit(v, 4), SixBit(v, 5)) = v
BY SMT DEF SixBits, SixBit

LEMMA SixBitType == \A v \in Nat, i \in 0 .. 5 : SixBit(v, i) \in Bit
BY SMT DEF SixBit, Bit

-----------------------------------------------------------------------------
(* What a buffer holds after push_bit(): the bits it held, and one more.    *)
LEMMA GrownByZeros ==
  ASSUME buf \in Seq(Byte), bit_length \in Nat, PaddedWithZeros
  PROVE  LET byte == bit_length \div 8 + 1
             g == Grown(byte)
         IN  /\ g \in Seq(Byte) /\ Len(g) = byte
             /\ \A k \in 0 .. bit_length - 1 : read_bit(g, k) = read_bit(buf, k)
             /\ \A k \in bit_length .. 8 * byte - 1 : read_bit(g, k) = 0
<1> DEFINE byte == bit_length \div 8 + 1
           g == Grown(byte)
<1>1. /\ Len(buf) = ByteCount(bit_length)
      /\ \A k \in bit_length .. 8 * Len(buf) - 1 : read_bit(buf, k) = 0
  BY DEF PaddedWithZeros, BitLength
<1>2. ZeroByte \in Byte
  BY DEF ZeroByte, Byte, Bit
<1>3. CASE bit_length % 8 = 0
  <2>1. Len(buf) = byte - 1 /\ bit_length = 8 * Len(buf)
    <3>1. Len(buf) = bit_length \div 8
      BY <1>1, <1>3, ByteCounts
    <3> QED
      BY <1>3, <3>1, Position
  <2>2. g = Append(buf, ZeroByte)
    BY <2>1 DEF Grown
  <2>3. g \in Seq(Byte) /\ Len(g) = byte
    BY <1>2, <2>1, <2>2
  <2>4. ASSUME NEW k \in 0 .. bit_length - 1 PROVE read_bit(g, k) = read_bit(buf, k)
    <3>1. k \div 8 + 1 \in 1 .. Len(buf)
      BY <2>1
    <3> QED
      BY <2>2, <3>1 DEF read_bit
  <2>5. ASSUME NEW k \in bit_length .. 8 * byte - 1 PROVE read_bit(g, k) = 0
    <3>1. k \div 8 + 1 = Len(buf) + 1 /\ k % 8 \in 0 .. 7
      BY <2>1
    <3>2. g[Len(buf) + 1] = ZeroByte
      BY <2>2
    <3> QED
      BY <3>1, <3>2 DEF read_bit, ZeroByte
  <2> QED
    BY <2>3, <2>4, <2>5
<1>4. CASE bit_length % 8 # 0
  <2>1. Len(buf) = byte
    BY <1>1, <1>4, ByteCounts
  <2>2. g = buf
    BY <2>1 DEF Grown
  <2> QED
    BY <1>1, <2>1, <2>2
<1> QED
  BY <1>3, <1>4

LEMMA PushBitAppends ==
  ASSUME buf \in Seq(Byte), bit_length \in Nat, PaddedWithZeros,
         NEW bit \in Bit, push_bit(bit)
  PROVE  /\ buf' \in Seq(Byte) /\ bit_length' = bit_length + 1
         /\ PaddedWithZeros'
         /\ read_bit(buf', bit_length) = bit
         /\ \A k \in 0 .. bit_length - 1 : read_bit(buf', k) = read_bit(buf, k)
<1> DEFINE byte == bit_length \div 8 + 1
           pos == bit_length % 8
           g == Grown(byte)
           new == IF bit = 1 THEN 1 ELSE g[byte][pos]
<1>1. /\ g \in Seq(Byte) /\ Len(g) = byte
      /\ \A k \in 0 .. bit_length - 1 : read_bit(g, k) = read_bit(buf, k)
      /\ \A k \in bit_length .. 8 * byte - 1 : read_bit(g, k) = 0
  BY GrownByZeros
<1>2. byte \in 1 .. Len(g) /\ pos \in 0 .. 7 /\ bit_length \in bit_length .. 8 * byte - 1
  BY <1>1, Position
<1>3. buf' = [g EXCEPT ![byte] = [g[byte] EXCEPT ![pos] = new]] /\ bit_length' = bit_length + 1
  BY DEF push_bit
<1> HIDE DEF g
<1>4. g[byte] \in Byte /\ g[byte][pos] = 0
  BY <1>1, <1>2 DEF read_bit
<1>5. new = bit
  BY <1>4 DEF Bit
<1>6. [g[byte] EXCEPT ![pos] = new] \in Byte
  BY <1>2, <1>4, <1>5 DEF Byte
<1>7. buf' \in Seq(Byte) /\ Len(buf') = byte
  BY <1>1, <1>2, <1>3, <1>6
<1>8. ASSUME NEW k \in 0 .. 8 * byte - 1
      PROVE  read_bit(buf', k) = IF k = bit_length THEN bit ELSE read_bit(g, k)
  <2>1. k \div 8 + 1 \in 1 .. Len(g) /\ k % 8 \in 0 .. 7
    BY <1>1, <1>2
  <2>2. CASE k \div 8 + 1 # byte
    <3>1. k # bit_length
      BY <2>2
    <3>2. buf'[k \div 8 + 1] = g[k \div 8 + 1]
      BY <1>1, <1>3, <2>1, <2>2
    <3> QED
      BY <3>1, <3>2 DEF read_bit
  <2>3. CASE k \div 8 + 1 = byte
    <3>1. buf'[byte] = [g[byte] EXCEPT ![pos] = bit]
      <4>1. byte \in DOMAIN g
        BY <1>1, <1>2
      <4> HIDE DEF byte, pos, new
      <4> QED
        BY <1>3, <1>5, <4>1
    <3>2. k = bit_length <=> k % 8 = pos
      <4> DEFINE q == k \div 8
                 r == k % 8
                 last == bit_length \div 8
      <4>1. /\ k = 8 * q + r /\ bit_length = 8 * last + pos
            /\ q \in Nat /\ last \in Nat /\ r \in 0 .. 7
        BY Position
      <4>2. q + 1 = last + 1
        BY <2>3
      <4> HIDE DEF q, r, last, pos
      <4>3. q = last
        BY <4>1, <4>2
      <4>4. k = bit_length <=> r = pos
        BY <1>2, <4>1, <4>3
      <4> QED
        BY <4>4 DEF r
    <3>3. read_bit(buf', k) = buf'[byte][k % 8] /\ read_bit(g, k) = g[byte][k % 8]
      BY <2>3 DEF read_bit
    <3>4. buf'[byte][k % 8] = IF k % 8 = pos THEN bit ELSE g[byte][k % 8]
      BY <1>4, <2>1, <3>1 DEF Byte
    <3> QED
      BY <3>2, <3>3, <3>4
  <2> QED
    BY <2>2, <2>3
<1>9. PaddedWithZeros'
  <2>1. Len(buf') = ByteCount(bit_length')
    BY <1>3, <1>7, ByteCounts
  <2>2. ASSUME NEW k \in bit_length' .. 8 * Len(buf') - 1 PROVE read_bit(buf', k) = 0
    <3>1. k \in 0 .. 8 * byte - 1 /\ k \in bit_length .. 8 * byte - 1 /\ k # bit_length
      BY <1>3, <1>7
    <3>2. read_bit(buf', k) = read_bit(g, k)
      BY <1>8, <3>1
    <3> QED
      BY <1>1, <3>1, <3>2
  <2> QED
    BY <2>1, <2>2 DEF PaddedWithZeros, BitLength
<1>10. read_bit(buf', bit_length) = bit
  BY <1>2, <1>8
<1>11. \A k \in 0 .. bit_length - 1 : read_bit(buf', k) = read_bit(buf, k)
  BY <1>1, <1>2, <1>8
<1> QED
  BY <1>3, <1>7, <1>9, <1>10, <1>11

-----------------------------------------------------------------------------
(* What a write pushes.                                                     *)
LEMMA FieldFacts ==
  ASSUME NEW f, IsField(f)
  PROVE  /\ f.kind \in {"uint", "int", "bool", "text", "raw"}
         /\ Size(f) \in Nat
         /\ \A i \in 0 .. Size(f) - 1 : PushedBit(f, i) \in Bit
<1>1. CASE f.kind \in {"uint", "int"}
  <2>1. f.word \in Word /\ f.width \in 1 .. 64 /\ Size(f) = f.width
    BY <1>1 DEF IsField, Size
  <2>2. ASSUME NEW i \in 0 .. Size(f) - 1 PROVE PushedBit(f, i) \in Bit
    <3>1. PushedBit(f, i) = f.word[f.width - 1 - i] /\ f.width - 1 - i \in 0 .. 63
      BY <1>1, <2>1 DEF PushedBit
    <3> QED
      BY <2>1, <3>1 DEF Word
  <2> QED
    BY <1>1, <2>1, <2>2
<1>2. CASE f.kind = "bool"
  BY <1>2 DEF IsField, Size, PushedBit, Bit
<1>3. CASE f.kind = "text"
  <2>1. f.text \in Seq(Char) /\ f.char_count \in Nat /\ Size(f) = 6 * f.char_count
    BY <1>3 DEF IsField, Size
  <2>2. ASSUME NEW i \in 0 .. Size(f) - 1 PROVE PushedBit(f, i) \in Bit
    <3>1. i \div 6 + 1 \in 1 .. f.char_count /\ i % 6 \in 0 .. 5
      BY <2>1
    <3>2. Padded(f.text, i \div 6 + 1) \in Char
      <4> DEFINE c == i \div 6 + 1
      <4>1. c \in Nat \ {0}
        BY <3>1, <2>1
      <4> HIDE DEF c
      <4>2. c <= Len(f.text) => f.text[c] \in Char
        BY <2>1, <4>1
      <4>3. Padded(f.text, c) \in Char
        BY <4>2 DEF Padded, Char, At
      <4> QED
        BY <4>3 DEF c
    <3>3. ascii_to_ais6bit(Padded(f.text, i \div 6 + 1)) \in Nat
      BY <3>2 DEF ascii_to_ais6bit, Char
    <3> QED
      BY <1>3, <3>1, <3>3, SixBitType DEF PushedBit
  <2> QED
    BY <1>3, <2>1, <2>2
<1>4. CASE f.kind = "raw"
  <2>1. /\ f.src \in Seq(Byte) /\ f.width \in Nat /\ Size(f) = f.width
        /\ Len(f.src) >= ByteCount(f.width)
    BY <1>4 DEF IsField, Size
  <2>2. ASSUME NEW i \in 0 .. Size(f) - 1 PROVE PushedBit(f, i) \in Bit
    <3>1. i \div 8 + 1 \in 1 .. Len(f.src) /\ i % 8 \in 0 .. 7
      <4>1. i \in Nat /\ i % 8 \in 0 .. 7
        BY <2>1, Position
      <4>2. i \div 8 + 1 \in 1 .. ByteCount(f.width) /\ ByteCount(f.width) \in Nat
        BY <2>1, ByteCounts
      <4> QED
        BY <2>1, <4>1, <4>2
    <3>2. f.src[i \div 8 + 1] \in Byte
      BY <2>1, <3>1
    <3> QED
      BY <1>4, <3>1, <3>2 DEF PushedBit, Byte
  <2> QED
    BY <1>4, <2>1, <2>2
<1> QED
  BY <1>1, <1>2, <1>3, <1>4 DEF IsField

LEMMA PlacedFacts ==
  ASSUME NEW p, IsPlaced(p)
  PROVE  /\ IsField(p.field) /\ p.offset \in Nat /\ Size(p.field) \in Nat
         /\ p # Nothing
BY FieldFacts DEF IsPlaced, Nothing

(* The three things a write can do keep the invariant.                      *)
LEMMA RefuseKeepsInv ==
  ASSUME Inv, NEW code \in {"BitfieldWidthInvalid", "BitfieldOutOfRange"}, Refuse(code)
  PROVE  Inv'
BY DEF Inv, TypeOK, PaddedWithZeros, BitsInPlace, Refuse

LEMMA BeginKeepsInv ==
  ASSUME Inv, writing = Nothing, NEW f, IsField(f), Begin(f)
  PROVE  Inv'
<1> DEFINE p == Placed(f, bit_length)
<1>1. /\ buf' = buf /\ bit_length' = bit_length /\ bit_length \in Nat
      /\ Size(f) \in Nat
  BY FieldFacts DEF Begin, Inv, TypeOK
<1>2. IsPlaced(p) /\ p.field = f /\ p.offset = bit_length
  BY <1>1 DEF IsPlaced, Placed
<1>3. PaddedWithZeros'
  BY <1>1 DEF Inv, PaddedWithZeros
<1> HIDE DEF p
<1>4. CASE Size(f) = 0
  <2>1. written' = written \cup {p} /\ writing' = Nothing /\ result' = "Ok"
    BY <1>4 DEF Begin, p
  <2>2. TypeOK'
    BY <1>1, <1>2, <1>4, <2>1 DEF Inv, TypeOK
  <2>3. BitsInPlace'
    BY <1>1, <1>2, <1>4, <2>1 DEF Inv, BitsInPlace
  <2> QED
    BY <1>3, <2>2, <2>3 DEF Inv
<1>5. CASE Size(f) # 0
  <2>1. written' = written /\ writing' = p /\ result' = "none"
    BY <1>5 DEF Begin, p
  <2>2. TypeOK'
    BY <1>1, <1>2, <1>5, <2>1 DEF Inv, TypeOK
  <2>3. BitsInPlace'
    BY <1>1, <1>2, <2>1 DEF Inv, BitsInPlace
  <2> QED
    BY <1>3, <2>2, <2>3 DEF Inv
<1> QED
  BY <1>4, <1>5

LEMMA PushKeepsInv ==
  ASSUME Inv, Push
  PROVE  Inv'
<1> DEFINE i == bit_length - writing.offset
           bit == PushedBit(writing.field, i)
<1>1. /\ buf \in Seq(Byte) /\ bit_length \in Nat /\ PaddedWithZeros
      /\ IsPlaced(writing) /\ i \in 0 .. Size(writing.field) - 1
      /\ push_bit(bit)
  <2>1. /\ buf \in Seq(Byte) /\ bit_length \in Nat /\ PaddedWithZeros
        /\ IsPlaced(writing) /\ push_bit(bit)
        /\ bit_length \in writing.offset .. writing.offset + Size(writing.field) - 1
    BY DEF Inv, TypeOK, Push
  <2>2. writing.offset \in Nat /\ Size(writing.field) \in Nat
    BY <2>1, PlacedFacts
  <2> QED
    BY <2>1, <2>2
<1>2. writing.offset \in Nat /\ Size(writing.field) \in Nat /\ bit \in Bit /\ writing # Nothing
  BY <1>1, PlacedFacts, FieldFacts
<1>3. /\ buf' \in Seq(Byte) /\ bit_length' = bit_length + 1 /\ PaddedWithZeros'
      /\ read_bit(buf', bit_length) = bit
      /\ \A k \in 0 .. bit_length - 1 : read_bit(buf', k) = read_bit(buf, k)
  <2> HIDE DEF bit
  <2> QED
    BY <1>1, <1>2, PushBitAppends
<1>4. ASSUME NEW p \in written
      PROVE  /\ IsPlaced(p) /\ p.offset + Size(p.field) <= bit_length'
             /\ \A j \in 0 .. Size(p.field) - 1 :
                  read_bit(buf', p.offset + j) = PushedBit(p.field, j)
  <2>1. IsPlaced(p) /\ p.offset + Size(p.field) <= bit_length
    BY DEF Inv, TypeOK
  <2>2. p.offset \in Nat /\ Size(p.field) \in Nat
    BY <2>1, PlacedFacts
  <2>3. ASSUME NEW j \in 0 .. Size(p.field) - 1
        PROVE  read_bit(buf', p.offset + j) = PushedBit(p.field, j)
    <3>1. p.offset + j \in 0 .. bit_length - 1
      BY <1>1, <2>1, <2>2
    <3>2. read_bit(buf, p.offset + j) = PushedBit(p.field, j)
      BY DEF Inv, BitsInPlace
    <3> QED
      BY <1>3, <3>1, <3>2
  <2>4. p.offset + Size(p.field) <= bit_length'
    BY <1>1, <1>3, <2>1, <2>2
  <2> QED
    BY <2>1, <2>3, <2>4
<1>5. ASSUME NEW j \in 0 .. bit_length' - writing.offset - 1
      PROVE  read_bit(buf', writing.offset + j) = PushedBit(writing.field, j)
  <2>a. writing.offset \in Nat /\ bit_length \in Nat /\ bit_length' = bit_length + 1
    BY <1>1, <1>2, <1>3
  <2>1. CASE j = i
    BY <1>1, <1>2, <1>3, <2>1
  <2>2. CASE j # i
    <3>1. j \in 0 .. bit_length - writing.offset - 1 /\ writing.offset + j \in 0 .. bit_length - 1
      <4> HIDE DEF bit
      <4>1. j \in 0 .. i
        BY <2>a
      <4> QED
        BY <2>a, <2>2, <4>1
    <3>2. read_bit(buf, writing.offset + j) = PushedBit(writing.field, j)
      BY <1>2, <3>1 DEF Inv, BitsInPlace
    <3> QED
      BY <1>3, <3>1, <3>2
  <2> QED
    BY <2>1, <2>2
<1> HIDE DEF i, bit
<1>6. CASE bit_length' = writing.offset + Size(writing.field)
  <2>1. written' = written \cup {writing} /\ writing' = Nothing /\ result' = "Ok"
    BY <1>6 DEF Push
  <2>2. TypeOK'
    <3>1. bit_length' \in Nat /\ writing.offset + Size(writing.field) <= bit_length'
      BY <1>1, <1>2, <1>3, <1>6
    <3>2. \A p \in written' : IsPlaced(p) /\ p.offset + Size(p.field) <= bit_length'
      BY <1>1, <1>4, <2>1, <3>1
    <3> QED
      BY <1>3, <2>1, <3>1, <3>2 DEF TypeOK
  <2>3. BitsInPlace'
    BY <1>2, <1>3, <1>4, <1>5, <1>6, <2>1 DEF BitsInPlace
  <2> QED
    BY <1>3, <2>2, <2>3 DEF Inv
<1>7. CASE bit_length' # writing.offset + Size(writing.field)
  <2>1. written' = written /\ writing' = writing /\ result' = result
    BY <1>7 DEF Push
  <2>2. bit_length' \in writing.offset .. writing.offset + Size(writing.field) - 1
    BY <1>1, <1>2, <1>3, <1>7 DEF i
  <2>3. TypeOK'
    <3>1. bit_length' \in Nat /\ result' \in {"none", "Ok", "BitfieldWidthInvalid", "BitfieldOutOfRange"}
      BY <1>1, <1>3, <2>1 DEF Inv, TypeOK
    <3>2. \A p \in written' : IsPlaced(p) /\ p.offset + Size(p.field) <= bit_length'
      BY <1>4, <2>1
    <3>3. IsPlaced(writing') /\ bit_length' \in writing'.offset .. writing'.offset + Size(writing'.field) - 1
      BY <1>1, <2>1, <2>2
    <3> QED
      BY <1>3, <3>1, <3>2, <3>3 DEF TypeOK
  <2>4. BitsInPlace'
    BY <1>4, <1>5, <2>1 DEF BitsInPlace
  <2> QED
    BY <1>3, <2>3, <2>4 DEF Inv
<1> QED
  BY <1>6, <1>7

-----------------------------------------------------------------------------
(* Init and Next.                                                           *)
LEMMA InitInv == Init => Inv
<1> SUFFICES ASSUME Init PROVE Inv
  OBVIOUS
<1>1. buf = <<>> /\ bit_length = 0 /\ writing = Nothing /\ written = {} /\ result = "none"
  BY DEF Init
<1>2. TypeOK
  BY <1>1 DEF TypeOK
<1>3. ByteCount(0) = 0
  BY SMT DEF ByteCount
<1>4. PaddedWithZeros
  BY <1>1, <1>3 DEF PaddedWithZeros, BitLength
<1>5. BitsInPlace
  BY <1>1 DEF BitsInPlace
<1> QED
  BY <1>2, <1>4, <1>5 DEF Inv

LEMMA NextInv == Inv /\ [Next]_vars => Inv'
<1> SUFFICES ASSUME Inv, [Next]_vars PROVE Inv'
  OBVIOUS
<1> USE WriterAssumption
<1>1. ASSUME NEW f, f.kind \in {"uint", "int"}, f.word \in Words, f.width \in Widths,
             WriteNumber(f)
      PROVE  Inv'
  <2>1. CASE f.width = 0 \/ f.width > 64
    BY <1>1, <2>1, RefuseKeepsInv DEF WriteNumber
  <2>2. CASE ~(f.width = 0 \/ f.width > 64)
    <3>1. f.width \in 1 .. 64 /\ f.word \in Word
      <4>1. f.width \in Nat
        BY <1>1
      <4>2. \A w \in Nat : w # 0 /\ ~(w > 64) => w \in 1 .. 64
        OBVIOUS
      <4>3. f.word \in Word
        BY <1>1
      <4> QED
        BY <2>2, <4>1, <4>2, <4>3
    <3>2. IsField(f)
      BY <1>1, <3>1 DEF IsField
    <3> QED
      BY <1>1, <2>2, <3>2, BeginKeepsInv DEF WriteNumber, Ready
  <2> QED
    BY <2>1, <2>2
<1>2. ASSUME NEW word \in Words, NEW width \in Widths, write_uint(word, width) PROVE Inv'
  BY <1>1, <1>2 DEF write_uint, UintField
<1>3. ASSUME NEW word \in Words, NEW width \in Widths, write_int(word, width) PROVE Inv'
  BY <1>1, <1>3 DEF write_int, IntField
<1>4. ASSUME NEW flag \in BOOLEAN, write_bool(flag) PROVE Inv'
  <2>1. IsField(BoolField(flag))
    BY DEF IsField, BoolField
  <2> QED
    BY <1>4, <2>1, BeginKeepsInv DEF write_bool, Ready
<1>5. ASSUME NEW text \in Texts, NEW count \in CharCounts, write_text(text, count) PROVE Inv'
  <2>1. IsField(TextField(text, count))
    BY DEF IsField, TextField
  <2> QED
    BY <1>5, <2>1, BeginKeepsInv DEF write_text, Ready
<1>6. ASSUME NEW src \in Sources, NEW width \in Widths, write_bits(src, width) PROVE Inv'
  <2>1. CASE Len(src) < ByteCount(width)
    BY <1>6, <2>1, RefuseKeepsInv DEF write_bits
  <2>2. CASE ~(Len(src) < ByteCount(width))
    <3>1. src \in Seq(Byte) /\ width \in Nat /\ ByteCount(width) \in Nat
      BY ByteCounts
    <3>2. IsField(RawField(src, width))
      BY <2>2, <3>1 DEF IsField, RawField
    <3> QED
      BY <1>6, <2>2, <3>2, BeginKeepsInv DEF write_bits, Ready
  <2> QED
    BY <2>1, <2>2
<1>7. CASE UNCHANGED vars
  BY <1>7 DEF vars, Inv, TypeOK, PaddedWithZeros, BitsInPlace
<1> QED
  BY <1>2, <1>3, <1>4, <1>5, <1>6, <1>7, PushKeepsInv DEF Next

-----------------------------------------------------------------------------
(* What a reader makes of the bits in their places.                         *)
LEMMA BufferCovers ==
  ASSUME Inv, NEW p \in written
  PROVE  /\ IsField(p.field) /\ p.offset \in Nat /\ Size(p.field) \in Nat
         /\ p.offset + Size(p.field) <= BitLength(buf) /\ BitLength(buf) \in Nat
         /\ \A i \in 0 .. Size(p.field) - 1 :
              read_bit(buf, p.offset + i) = PushedBit(p.field, i)
<1>1. IsPlaced(p) /\ p.offset + Size(p.field) <= bit_length /\ bit_length \in Nat
  BY DEF Inv, TypeOK
<1>2. Len(buf) = ByteCount(bit_length)
  BY DEF Inv, PaddedWithZeros
<1>3. bit_length <= 8 * ByteCount(bit_length) /\ 8 * ByteCount(bit_length) \in Nat
  BY <1>1 DEF ByteCount
<1> QED
  BY <1>1, <1>2, <1>3, PlacedFacts DEF BitLength, Inv, BitsInPlace

LEMMA NumberReadsBack ==
  ASSUME Inv, NEW p \in written, p.field.kind \in {"uint", "int"}
  PROVE  ReadsBack(p.field, p.offset)
<1> DEFINE f == p.field
<1>1. /\ f.word \in Word /\ f.width \in 1 .. 64 /\ Size(f) = f.width
      /\ p.offset \in Nat /\ p.offset + f.width <= BitLength(buf) /\ BitLength(buf) \in Nat
  BY BufferCovers DEF IsField, Size
<1>2. ASSUME NEW i \in 0 .. 63, i < f.width
      PROVE  read_bit(buf, p.offset + f.width - 1 - i) = f.word[i]
  <2>1. f.width - 1 - i \in 0 .. Size(f) - 1
    BY <1>1, <1>2
  <2>2. read_bit(buf, p.offset + (f.width - 1 - i)) = PushedBit(f, f.width - 1 - i)
    BY <2>1, BufferCovers
  <2>3. PushedBit(f, f.width - 1 - i) = f.word[f.width - 1 - (f.width - 1 - i)]
    BY DEF PushedBit
  <2>4. /\ f.width - 1 - (f.width - 1 - i) = i
        /\ p.offset + (f.width - 1 - i) = p.offset + f.width - 1 - i
    BY <1>1
  <2> QED
    BY <2>2, <2>3, <2>4
<1>3. read_bit(buf, p.offset) = f.word[f.width - 1]
  <2>1. f.width - 1 \in 0 .. 63 /\ p.offset + f.width - 1 - (f.width - 1) = p.offset /\ f.width - 1 < f.width
    BY <1>1
  <2> QED
    BY <1>2, <2>1
<1>4. check_bounds(buf, p.offset, f.width) = "Ok"
  BY <1>1 DEF check_bounds
<1>5. ASSUME NEW upper
      PROVE  Integer(buf, p.offset, f.width, upper) = Cut(f.word, f.width, upper)
  BY <1>2 DEF Integer, Cut
<1> HIDE DEF f
<1>6. CASE f.kind = "uint"
  <2>1. read_uint(buf, p.offset, f.width) = Value(Cut(f.word, f.width, 0))
    BY <1>4, <1>5 DEF read_uint, Bounded
  <2> QED
    BY <1>6, <2>1 DEF ReadsBack, f
<1>7. CASE f.kind = "int"
  <2>1. read_int(buf, p.offset, f.width) = Value(Cut(f.word, f.width, f.word[f.width - 1]))
    BY <1>3, <1>4, <1>5 DEF read_int, Bounded
  <2> QED
    BY <1>7, <2>1 DEF ReadsBack, f
<1> QED
  BY <1>6, <1>7 DEF f

LEMMA BoolReadsBack ==
  ASSUME Inv, NEW p \in written, p.field.kind = "bool"
  PROVE  ReadsBack(p.field, p.offset)
<1>1. /\ p.field.flag \in BOOLEAN /\ Size(p.field) = 1
      /\ p.offset \in Nat /\ p.offset + 1 <= BitLength(buf) /\ BitLength(buf) \in Nat
  BY BufferCovers DEF IsField, Size
<1>2. read_bit(buf, p.offset) = IF p.field.flag THEN 1 ELSE 0
  <2>1. 0 \in 0 .. Size(p.field) - 1 /\ p.offset + 0 = p.offset
    BY <1>1
  <2>2. read_bit(buf, p.offset) = PushedBit(p.field, 0)
    BY <2>1, BufferCovers
  <2> QED
    BY <2>2 DEF PushedBit
<1>3. (read_bit(buf, p.offset) # 0) = p.field.flag
  BY <1>1, <1>2
<1>4. check_bounds(buf, p.offset, 1) = "Ok"
  BY <1>1 DEF check_bounds
<1> QED
  BY <1>3, <1>4 DEF ReadsBack, read_bool, Bounded

LEMMA NothingIsStripped == Stripped(<<>>) = <<>>
<1> DEFINE P(n) == /\ \A i \in n + 1 .. Len(<<>>) : <<>>[i] \in {At, Space}
                   /\ n > 0 => <<>>[n] \notin {At, Space}
           kept == CHOOSE n \in 0 .. Len(<<>>) : P(n)
<1>1. Len(<<>>) = 0 /\ P(0)
  OBVIOUS
<1>2. kept = 0
  BY <1>1
<1>3. Stripped(<<>>) = SubSeq(<<>>, 1, kept)
  BY DEF Stripped
<1> QED
  BY <1>2, <1>3

LEMMA TextReadsBack ==
  ASSUME Inv, NEW p \in written, p.field.kind = "text"
  PROVE  ReadsBack(p.field, p.offset)
<1> DEFINE f == p.field
           n == f.char_count
<1>1. /\ f.text \in Seq(Char) /\ n \in Nat /\ Size(f) = 6 * n
      /\ p.offset \in Nat /\ p.offset + 6 * n <= BitLength(buf) /\ BitLength(buf) \in Nat
  BY BufferCovers DEF IsField, Size
<1>2. ASSUME NEW c \in 1 .. n
      PROVE  CharAt(buf, p.offset + 6 * (c - 1)) = Replaced(Padded(f.text, c))
  <2> DEFINE v == ascii_to_ais6bit(Padded(f.text, c))
             at == p.offset + 6 * (c - 1)
  <2>1. Padded(f.text, c) \in Char
    <3>1. c <= Len(f.text) => f.text[c] \in Char
      BY <1>1
    <3> QED
      BY <3>1 DEF Padded, Char, At
  <2>2. v \in 0 .. 63
    BY <2>1 DEF ascii_to_ais6bit, Char
  <2>3. ASSUME NEW j \in 0 .. 5 PROVE read_bit(buf, at + j) = SixBit(v, j)
    <3> DEFINE i == 6 * (c - 1) + j
    <3>1. i \in 0 .. Size(f) - 1 /\ i \div 6 + 1 = c /\ i % 6 = j /\ at + j = p.offset + i
      <4>1. c - 1 \in Nat /\ c <= n /\ n \in Nat
        BY <1>1
      <4> HIDE DEF n
      <4>2. i \in 0 .. 6 * n - 1
        BY <4>1
      <4>3. i \div 6 = c - 1 /\ i % 6 = j
        BY <4>1, SixPosition
      <4>4. at + j = p.offset + i
        BY <1>1, <4>1
      <4> HIDE DEF i, at
      <4>5. i \div 6 + 1 = c
        BY <4>1, <4>3
      <4>6. i \in 0 .. Size(f) - 1
        BY <1>1, <4>2
      <4> QED
        BY <4>3, <4>4, <4>5, <4>6
    <3>2. read_bit(buf, p.offset + i) = PushedBit(f, i)
      BY <3>1, BufferCovers
    <3>3. PushedBit(f, i) = SixBit(v, j)
      BY <3>1 DEF PushedBit
    <3> QED
      BY <3>1, <3>2, <3>3
  <2>4. at + 0 = at
    BY <1>1
  <2> HIDE DEF v, at
  <2>5. /\ read_bit(buf, at) = SixBit(v, 0) /\ read_bit(buf, at + 1) = SixBit(v, 1)
        /\ read_bit(buf, at + 2) = SixBit(v, 2) /\ read_bit(buf, at + 3) = SixBit(v, 3)
        /\ read_bit(buf, at + 4) = SixBit(v, 4) /\ read_bit(buf, at + 5) = SixBit(v, 5)
    BY <2>3, <2>4
  <2>6. CharAt(buf, at) = ais6bit_to_ascii(v)
    BY <2>2, <2>5, SixBitsInverse DEF CharAt
  <2> QED
    BY <2>6 DEF Replaced, v, at
<1> HIDE DEF n
<1>3. CASE n = 0
  <2>1. [c \in 1 .. n |-> Replaced(Padded(f.text, c))] = <<>>
    BY <1>3
  <2>2. read_text(buf, p.offset, n) =
          Value(Stripped([c \in 1 .. n |-> Replaced(Padded(f.text, c))]))
    BY <1>3, <2>1, NothingIsStripped DEF read_text
  <2> QED
    BY <2>2 DEF ReadsBack, n
<1>4. CASE n # 0
  <2>1. [c \in 1 .. n |-> CharAt(buf, p.offset + 6 * (c - 1))] =
        [c \in 1 .. n |-> Replaced(Padded(f.text, c))]
    BY <1>2 DEF n
  <2>2. ~(p.offset + 6 * n > BitLength(buf))
    BY <1>1
  <2>3. read_text(buf, p.offset, n) =
          Value(Stripped([c \in 1 .. n |-> Replaced(Padded(f.text, c))]))
    BY <1>4, <2>1, <2>2 DEF read_text
  <2> QED
    BY <2>3 DEF ReadsBack, n
<1> QED
  BY <1>3, <1>4

LEMMA RawReadsBack ==
  ASSUME Inv, NEW p \in written, p.field.kind = "raw"
  PROVE  ReadsBack(p.field, p.offset)
<1> DEFINE f == p.field
           Expected == [k \in 1 .. ByteCount(f.width) |-> [b \in 0 .. 7 |->
                          IF 8 * (k - 1) + b < f.width THEN f.src[k][b] ELSE 0]]
<1>1. /\ f.width \in Nat /\ Size(f) = f.width
      /\ p.offset \in Nat /\ p.offset + f.width <= BitLength(buf) /\ BitLength(buf) \in Nat
  BY BufferCovers DEF IsField, Size
<1>2. CASE f.width = 0
  <2>1. ByteCount(f.width) = 0
    BY <1>2, SMT DEF ByteCount
  <2>2. Expected = <<>>
    BY <2>1
  <2> QED
    BY <1>2, <2>2 DEF ReadsBack, read_bits
<1>3. CASE f.width \in 1 .. 64
  <2>1. ASSUME NEW k \in 1 .. ByteCount(f.width), NEW b \in 0 .. 7, 8 * (k - 1) + b < f.width
        PROVE  read_bit(buf, p.offset + 8 * (k - 1) + b) = f.src[k][b]
    <3> DEFINE i == 8 * (k - 1) + b
    <3>1. ByteCount(f.width) \in Nat
      BY <1>1, ByteCounts
    <3>2. /\ i \in 0 .. Size(f) - 1 /\ i \div 8 + 1 = k /\ i % 8 = b
          /\ p.offset + i = p.offset + 8 * (k - 1) + b
      BY <1>1, <2>1, <3>1
    <3>3. read_bit(buf, p.offset + i) = PushedBit(f, i)
      BY <3>2, BufferCovers
    <3>4. PushedBit(f, i) = f.src[k][b]
      BY <3>2 DEF PushedBit
    <3> QED
      BY <3>2, <3>3, <3>4
  <2>2. [k \in 1 .. ByteCount(f.width) |-> [b \in 0 .. 7 |->
           IF 8 * (k - 1) + b < f.width THEN read_bit(buf, p.offset + 8 * (k - 1) + b)
                                        ELSE 0]] = Expected
    BY <2>1
  <2>3. check_bounds(buf, p.offset, f.width) = "Ok" /\ f.width # 0
    BY <1>1, <1>3 DEF check_bounds
  <2>4. read_bits(buf, p.offset, f.width) = Value(Expected)
    BY <2>2, <2>3 DEF read_bits, Bounded
  <2> QED
    BY <2>4 DEF ReadsBack
<1>4. CASE f.width > 64
  BY <1>1, <1>4 DEF ReadsBack
<1> QED
  BY <1>1, <1>2, <1>3, <1>4

LEMMA InvReadsBack == Inv => FieldsReadBack
<1> SUFFICES ASSUME Inv, NEW p \in written PROVE ReadsBack(p.field, p.offset)
  BY DEF FieldsReadBack
<1>1. p.field.kind \in {"uint", "int", "bool", "text", "raw"}
  BY BufferCovers, FieldFacts
<1> QED
  BY <1>1, NumberReadsBack, BoolReadsBack, TextReadsBack, RawReadsBack

-----------------------------------------------------------------------------
LEMMA InvAlways == Spec => []Inv
BY InitInv, NextInv, PTL DEF Spec

(* The writer's state has its type, and a write that has begun has bits left*)
(* to push.                                                                 *)
THEOREM TypeCorrect == Spec => []TypeOK
BY InvAlways, PTL DEF Inv

(* The buffer is as long as the bits need and zero beyond them, between any *)
(* two calls of push_bit().                                                 *)
THEOREM BufferIsPadded == Spec => []PaddedWithZeros
BY InvAlways, PTL DEF Inv

(* Whatever was written, in any number and order of fields, is read back    *)
(* from its offset, at any time after it was written.                       *)
THEOREM WrittenIsRead == Spec => []FieldsReadBack
BY InvAlways, InvReadsBack, PTL
=============================================================================
