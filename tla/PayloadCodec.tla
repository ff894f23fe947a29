------------------------------ MODULE PayloadCodec ------------------------------
(***************************************************************************)
(* payload.cpp: bits in bytes to armour characters, and back.  The          *)
(* characters are their ASCII codes.                                        *)
(***************************************************************************)
EXTENDS BitReader

is_valid_payload_char(ch) == ch \in 48 .. 87 \/ ch \in 96 .. 119

(* Defect: the limit is off by one, as in "subtract 8 if 40 or more".       *)
armour_decode_AtLimit(ch) ==
  LET val == ch - 48 IN (IF val >= 39 THEN val - 8 ELSE val) % 64

armour_decode(ch) ==
  LET val == ch - 48 IN (IF val > 40 THEN val - 8 ELSE val) % 64

armour_encode(val) ==
  LET res == (val % 64) + 48 IN IF res >= 88 THEN res + 8 ELSE res

-----------------------------------------------------------------------------
unpack_bits(payload, significant_bits) ==
  [k \in 1 .. ByteCount(significant_bits) |-> [p \in 0 .. 7 |->
     LET idx == 8 * (k - 1) + p
     IN  IF idx < significant_bits
         THEN SixBit(armour_decode(payload[idx \div 6 + 1]), idx % 6)
         ELSE 0]]

(* At least one character and at most five fill bits: the count of the bits *)
(* that are left cannot be negative.                                        *)
decode_payload(payload, fill_bits) ==
  IF payload = <<>> THEN Failure("PayloadEmpty")
  ELSE IF fill_bits > 5 THEN Failure("PayloadFillBitsInvalid")
  ELSE IF \E i \in 1 .. Len(payload) : ~is_valid_payload_char(payload[i])
       THEN Failure("PayloadCharInvalid")
  ELSE Value(unpack_bits(payload, 6 * Len(payload) - fill_bits))

FillBitCount(bit_length) == (6 - (bit_length % 6)) % 6
CharCount(bit_length) == (bit_length + FillBitCount(bit_length)) \div 6

(* Beyond the bits of the message there are zeros.                          *)
BitToSend(data, bit_length, idx) ==
  IF idx < bit_length THEN read_bit(data, idx) ELSE 0

SixToSend(data, bit_length, idx) ==
  SixBits(BitToSend(data, bit_length, idx), BitToSend(data, bit_length, idx + 1),
          BitToSend(data, bit_length, idx + 2), BitToSend(data, bit_length, idx + 3),
          BitToSend(data, bit_length, idx + 4), BitToSend(data, bit_length, idx + 5))

encode_payload(data, bit_length) ==
  IF bit_length = 0 THEN Failure("PayloadEmpty")
  ELSE IF Len(data) < ByteCount(bit_length) THEN Failure("PayloadTooShort")
  ELSE Value([payload   |-> [c \in 1 .. CharCount(bit_length) |->
                               armour_encode(SixToSend(data, bit_length, 6 * (c - 1)))],
              fill_bits |-> FillBitCount(bit_length)])

-----------------------------------------------------------------------------
(* The first bits of a buffer, in as many bytes as they need.               *)
FirstBits(data, n) ==
  [k \in 1 .. ByteCount(n) |-> [p \in 0 .. 7 |->
     IF 8 * (k - 1) + p < n THEN data[k][p] ELSE 0]]
=============================================================================
