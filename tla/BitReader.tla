------------------------------- MODULE BitReader -------------------------------
(***************************************************************************)
(* BitReader (bitfield.cpp) and the 6-bit text alphabet.  A buffer is a     *)
(* sequence of bytes and a byte a function from the distance to its most    *)
(* significant bit; a 64-bit integer is a function from the weight of a bit.*)
(* Characters are their codes, 0 .. 255.  Offsets are those of the message  *)
(* layouts, so that offset + width does not wrap round.                     *)
(***************************************************************************)
EXTENDS Integers, Sequences, Result

Bit == 0 .. 1
Byte == [0 .. 7 -> Bit]
Word == [0 .. 63 -> Bit]
Char == 0 .. 255

ByteCount(bits) == (bits + 7) \div 8
BitLength(buf) == 8 * Len(buf)

read_bit(buf, idx) == buf[idx \div 8 + 1][idx % 8]

check_bounds(buf, offset, width) ==
  IF width = 0 \/ width > 64 THEN "BitfieldWidthInvalid"
  ELSE IF offset + width > BitLength(buf) THEN "BitfieldOutOfRange"
  ELSE "Ok"

Bounded(buf, offset, width, v) ==
  LET code == check_bounds(buf, offset, width)
  IN  IF code = "Ok" THEN Value(v) ELSE Failure(code)

(* The bits of a field as an integer whose upper bits are those of `upper`. *)
Integer(buf, offset, width, upper) ==
  [i \in 0 .. 63 |-> IF i < width THEN read_bit(buf, offset + width - 1 - i) ELSE upper]

read_uint(buf, offset, width) ==
  Bounded(buf, offset, width, Integer(buf, offset, width, 0))

read_int(buf, offset, width) ==
  Bounded(buf, offset, width, Integer(buf, offset, width, read_bit(buf, offset)))

read_bool(buf, offset) ==
  Bounded(buf, offset, 1, read_bit(buf, offset) # 0)

-----------------------------------------------------------------------------
(* Six bits, most significant first, and their number.                      *)
SixBit(val, i) ==
  <<(val \div 32) % 2, (val \div 16) % 2, (val \div 8) % 2,
    (val \div 4) % 2, (val \div 2) % 2, val % 2>>[i + 1]

SixBits(b0, b1, b2, b3, b4, b5) == 32*b0 + 16*b1 + 8*b2 + 4*b3 + 2*b4 + b5

ais6bit_to_ascii(val) == IF val < 32 THEN val + 64 ELSE val

ascii_to_ais6bit(ch) ==
  IF ch \in 64 .. 95 THEN ch - 64 ELSE IF ch \in 32 .. 63 THEN ch ELSE 63

At == 64
Space == 32

(* Without the '@' and the spaces at the end.                               *)
Stripped(text) ==
  LET kept == CHOOSE n \in 0 .. Len(text) :
                /\ \A i \in n + 1 .. Len(text) : text[i] \in {At, Space}
                /\ n > 0 => text[n] \notin {At, Space}
  IN  SubSeq(text, 1, kept)

CharAt(buf, offset) ==
  ais6bit_to_ascii(SixBits(read_bit(buf, offset), read_bit(buf, offset + 1),
                           read_bit(buf, offset + 2), read_bit(buf, offset + 3),
                           read_bit(buf, offset + 4), read_bit(buf, offset + 5)))

read_text(buf, offset, char_count) ==
  IF char_count = 0 THEN Value(<<>>)
  ELSE IF offset + 6 * char_count > BitLength(buf) THEN Failure("BitfieldOutOfRange")
  ELSE Value(Stripped([c \in 1 .. char_count |-> CharAt(buf, offset + 6 * (c - 1))]))

read_bits(buf, offset, width) ==
  IF width = 0 THEN Value(<<>>)
  ELSE Bounded(buf, offset, width,
         [k \in 1 .. ByteCount(width) |-> [p \in 0 .. 7 |->
            IF 8 * (k - 1) + p < width THEN read_bit(buf, offset + 8 * (k - 1) + p)
                                       ELSE 0]])
=============================================================================
