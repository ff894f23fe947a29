------------------------------- MODULE BitWriter -------------------------------
(***************************************************************************)
(* BitWriter (bitfield.cpp), one push_bit() after the other, and what a     *)
(* BitReader over its buffer makes of the fields.  push_bit() sets bits with*)
(* an OR and appends zero bytes as it needs them; it never clears a bit, and*)
(* relies on what lies beyond bit_length to be zero.                        *)
(***************************************************************************)
EXTENDS BitReader, FiniteSets

CONSTANTS
  Words,       \* the integers that callers write
  Widths,      \* the widths they give, good and bad
  Texts,       \* the texts, as sequences of characters
  CharCounts,  \* the lengths of text fields
  Sources,     \* the byte vectors given to write_bits()
  MaxFields    \* bound on the fields written to one buffer

ASSUME WriterAssumption ==
  /\ Words \subseteq Word
  /\ Widths \subseteq Nat /\ CharCounts \subseteq Nat /\ MaxFields \in Nat
  /\ Texts \subseteq Seq(Char)
  /\ Sources \subseteq Seq(Byte)

VARIABLES
  buf,         \* BitWriter::buf_
  bit_length,  \* BitWriter::bit_length_
  writing,     \* the field that is being written, and its offset
  written,     \* the fields that have been written, with their offsets
  result       \* what the last write returned

vars == <<buf, bit_length, writing, written, result>>

(* The calls that write something.                                          *)
UintField(w, n) == [kind |-> "uint", word |-> w, width |-> n]
IntField(w, n) == [kind |-> "int", word |-> w, width |-> n]
BoolField(b) == [kind |-> "bool", flag |-> b]
TextField(t, n) == [kind |-> "text", text |-> t, char_count |-> n]
RawField(s, n) == [kind |-> "raw", width |-> n, src |-> s]

Size(f) ==
  CASE f.kind = "bool" -> 1
    [] f.kind = "text" -> 6 * f.char_count
    [] OTHER -> f.width

Placed(f, k) == [field |-> f, offset |-> k]
Nothing == [field |-> [kind |-> "none"], offset |-> 0]

Init ==
  /\ buf = <<>>
  /\ bit_length = 0
  /\ writing = Nothing
  /\ written = {}
  /\ result = "none"

-----------------------------------------------------------------------------
(* The i-th bit that the loop of a write pushes, counted from 0.            *)
Padded(text, c) == IF c <= Len(text) THEN text[c] ELSE At

PushedBit(f, i) ==
  CASE f.kind \in {"uint", "int"} -> f.word[f.width - 1 - i]
    [] f.kind = "bool" -> IF f.flag THEN 1 ELSE 0
    [] f.kind = "text" -> SixBit(ascii_to_ais6bit(Padded(f.text, i \div 6 + 1)), i % 6)
    [] f.kind = "raw" -> f.src[i \div 8 + 1][i % 8]

ZeroByte == [p \in 0 .. 7 |-> 0]

(* Defect: a byte is appended when the last one is full, not when one more  *)
(* is needed.                                                               *)
Grown_TooEarly(byte) == IF byte >= Len(buf) THEN Append(buf, ZeroByte) ELSE buf

Grown(byte) == IF byte > Len(buf) THEN Append(buf, ZeroByte) ELSE buf

(* Defect: the byte is set, not combined with what it holds.                *)
push_bit_Overwrites(bit) ==
  LET byte == bit_length \div 8 + 1
  IN  /\ buf' = [Grown(byte) EXCEPT ![byte] =
                   [p \in 0 .. 7 |-> IF p = bit_length % 8 THEN bit ELSE 0]]
      /\ bit_length' = bit_length + 1

push_bit(bit) ==
  LET byte == bit_length \div 8 + 1
  IN  /\ buf' = [Grown(byte) EXCEPT ![byte][bit_length % 8] = IF bit = 1 THEN 1 ELSE @]
      /\ bit_length' = bit_length + 1

(* A write refuses its arguments before it pushes a bit, has nothing to     *)
(* push, or begins to.                                                      *)
Ready == writing = Nothing /\ Cardinality(written) < MaxFields

Refuse(code) ==
  /\ result' = code
  /\ UNCHANGED <<buf, bit_length, writing, written>>

Begin(f) ==
  /\ IF Size(f) = 0
     THEN /\ written' = written \cup {Placed(f, bit_length)}
          /\ result' = "Ok"
          /\ UNCHANGED writing
     ELSE /\ writing' = Placed(f, bit_length)
          /\ result' = "none"
          /\ UNCHANGED written
  /\ UNCHANGED <<buf, bit_length>>

WriteNumber(f) ==
  /\ Ready
  /\ IF f.width = 0 \/ f.width > 64 THEN Refuse("BitfieldWidthInvalid") ELSE Begin(f)

write_uint(word, width) == WriteNumber(UintField(word, width))
write_int(word, width) == WriteNumber(IntField(word, width))
write_bool(flag) == Ready /\ Begin(BoolField(flag))
write_text(text, count) == Ready /\ Begin(TextField(text, count))

(* Defect: the bytes that a run of bits needs are rounded down.             *)
write_bits_RoundedDown(src, width) ==
  /\ Ready
  /\ IF Len(src) < width \div 8 THEN Refuse("BitfieldOutOfRange")
                                 ELSE Begin(RawField(src, width))

write_bits(src, width) ==
  /\ Ready
  /\ IF Len(src) < ByteCount(width) THEN Refuse("BitfieldOutOfRange")
                                    ELSE Begin(RawField(src, width))

Push ==
  /\ writing # Nothing
  /\ push_bit(PushedBit(writing.field, bit_length - writing.offset))
  /\ IF bit_length' = writing.offset + Size(writing.field)
     THEN /\ written' = written \cup {writing}
          /\ writing' = Nothing
          /\ result' = "Ok"
     ELSE UNCHANGED <<writing, written, result>>

Next ==
  \/ \E word \in Words, width \in Widths : write_uint(word, width) \/ write_int(word, width)
  \/ \E flag \in BOOLEAN : write_bool(flag)
  \/ \E text \in Texts, count \in CharCounts : write_text(text, count)
  \/ \E src \in Sources, width \in Widths : write_bits(src, width)
  \/ Push

Spec == Init /\ [][Next]_vars

-----------------------------------------------------------------------------
IsField(f) ==
  \/ f.kind \in {"uint", "int"} /\ f.word \in Word /\ f.width \in 1 .. 64
  \/ f.kind = "bool" /\ f.flag \in BOOLEAN
  \/ f.kind = "text" /\ f.text \in Seq(Char) /\ f.char_count \in Nat
  \/ /\ f.kind = "raw" /\ f.src \in Seq(Byte) /\ f.width \in Nat
     /\ Len(f.src) >= ByteCount(f.width)

IsPlaced(p) == IsField(p.field) /\ p.offset \in Nat

(* Type invariant: a field under way has bits left to push.                 *)
TypeOK ==
  /\ buf \in Seq(Byte)
  /\ bit_length \in Nat
  /\ writing = Nothing \/
       /\ IsPlaced(writing)
       /\ bit_length \in writing.offset .. writing.offset + Size(writing.field) - 1
  /\ \A p \in written : IsPlaced(p) /\ p.offset + Size(p.field) <= bit_length
  /\ result \in {"none", "Ok", "BitfieldWidthInvalid", "BitfieldOutOfRange"}

(* buffer() has the bytes that bit_length() needs and no more, and "the     *)
(* final byte is zero-padded on the right" (bitfield.h:212), whatever was   *)
(* written and however far a write has come.                                *)
PaddedWithZeros ==
  /\ Len(buf) = ByteCount(bit_length)
  /\ \A k \in bit_length .. BitLength(buf) - 1 : read_bit(buf, k) = 0

(* What makes it so: the bits of a field, also of one under way, are where  *)
(* they were pushed to.                                                     *)
BitsInPlace ==
  /\ \A p \in written : \A i \in 0 .. Size(p.field) - 1 :
       read_bit(buf, p.offset + i) = PushedBit(p.field, i)
  /\ writing # Nothing =>
       \A i \in 0 .. bit_length - writing.offset - 1 :
         read_bit(buf, writing.offset + i) = PushedBit(writing.field, i)

(* What a reader gets for a field: an integer cut to its width, with zeros  *)
(* or its sign above; a text that is padded, with '?' for what has no six   *)
(* bits, and stripped; a run of bits, left-aligned.                         *)
Cut(word, width, upper) == [i \in 0 .. 63 |-> IF i < width THEN word[i] ELSE upper]

Replaced(ch) == ais6bit_to_ascii(ascii_to_ais6bit(ch))

ReadsBack(f, offset) ==
  CASE f.kind = "uint" ->
         read_uint(buf, offset, f.width) = Value(Cut(f.word, f.width, 0))
    [] f.kind = "int" ->
         read_int(buf, offset, f.width) = Value(Cut(f.word, f.width, f.word[f.width - 1]))
    [] f.kind = "bool" -> read_bool(buf, offset) = Value(f.flag)
    [] f.kind = "text" ->
         read_text(buf, offset, f.char_count) =
           Value(Stripped([c \in 1 .. f.char_count |-> Replaced(Padded(f.text, c))]))
    [] f.kind = "raw" -> f.width <= 64 =>
         read_bits(buf, offset, f.width) =
           Value([k \in 1 .. ByteCount(f.width) |-> [p \in 0 .. 7 |->
                    IF 8 * (k - 1) + p < f.width THEN f.src[k][p] ELSE 0]])

(* Every field is read back from where it was written, and keeps to be while*)
(* others are written after it into the same bytes.                         *)
FieldsReadBack ==
  \A p \in written : ReadsBack(p.field, p.offset)
=============================================================================
