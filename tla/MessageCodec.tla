----------------------------- MODULE MessageCodec -----------------------------
(***************************************************************************)
(* A payload on its way through the codec: decode_payload() unpacks it to   *)
(* bytes, its type field chooses, through the MessageRegistry, the class    *)
(* whose decode() reads the fields (BitReader), and encode() of the message *)
(* writes them again (BitWriter, encode_payload()) for a receiver that      *)
(* decodes them once more.  The constructors of the classes are private:    *)
(* every message that is ever encoded comes from a decode().                *)
(*                                                                          *)
(* Bits are symbols: <<"received", i>> is the i-th bit of the payload that  *)
(* arrived.  So one payload stands for all with the same type, and a bit    *)
(* that is lost, moved or taken for another is seen.                        *)
(***************************************************************************)
EXTENDS MessageLayouts, SequencesExt

CONSTANTS
  TextShapes,   \* the texts that payloads hold, as sequences of characters'
                \* kinds: "letter", "space" or "padding"
  OtherTypes,   \* type ids of payloads that have another type's layout
  Changes       \* by how many characters payloads are cut (< 0) or extended

ASSUME CodecAssumption ==
  /\ TextShapes \subseteq Seq({"letter", "space", "padding"}) /\ TextShapes # {}
  /\ OtherTypes \subseteq 0 .. 63
  /\ Changes \subseteq Int

VARIABLES
  received,   \* the payload and the fill count to be decoded
  decoders,   \* MessageRegistry::decoders_: the class each type id leads to
  result,     \* what decode() returned for the received payload
  encoded,    \* what encode() returned for that message
  origin      \* the message whose encoding was received, if it was one's

vars == <<received, decoders, result, encoded, origin>>

-----------------------------------------------------------------------------
(* Bits, and characters, which are named by their 6-bit values.             *)
Bit(b) == <<"constant", b>>
Weight == <<1, 2, 4, 8, 16, 32, 64, 128>>
NumberBits(n, width) ==
  [i \in 1 .. width |-> Bit((n \div Weight[width - i + 1]) % 2)]
Zeros(n) == [i \in 1 .. n |-> Bit(0)]

Space == NumberBits(32, 6)
Padding == Zeros(6)

Characters(bits) ==
  [i \in 1 .. Len(bits) \div 6 |-> SubSeq(bits, 6 * i - 5, 6 * i)]

(* read_text() strips the padding of write_text(), and spaces.              *)
Stripped(text) ==
  LET kept == {i \in DOMAIN text : text[i] \notin {Space, Padding}}
  IN  SubSeq(text, 1, Max({0} \cup kept))

(* Conversions between integers of different widths keep the low bits.  A   *)
(* signed integer is extended with its sign, an unsigned one with zeros.    *)
Resized(bits, kind, width) ==
  IF width <= Len(bits)
  THEN SubSeq(bits, Len(bits) - width + 1, Len(bits))
  ELSE [i \in 1 .. width - Len(bits) |->
          IF kind = "int" THEN bits[1] ELSE Bit(0)] \o bits

(* Bits are kept in bytes; the rest of the last byte is zero.               *)
Bytes(n) == (n + 7) \div 8
InBytes(bits) == bits \o Zeros(8 * Bytes(Len(bits)) - Len(bits))

-----------------------------------------------------------------------------
(* The type ids and the length of each class.                               *)
TypesOf(class) ==
  CASE class = "1_3"  -> {1, 2, 3}   [] class = "4_11" -> {4, 11}
    [] class = "5"    -> {5}         [] class = "9"    -> {9}
    [] class = "10"   -> {10}        [] class = "18"   -> {18}
    [] class = "19"   -> {19}        [] class = "24"   -> {24}
    [] class = "27"   -> {27}

(* Defect: the length of type 18 leaves out its last eight bits.            *)
kBitLength_TooShort(class) ==
  CASE class = "5"  -> 426 [] class = "10" -> 72 [] class = "19" -> 312
    [] class = "27" -> 96  [] class = "18" -> 160 [] OTHER -> 168

kBitLength(class) ==
  CASE class = "5"  -> 426 [] class = "10" -> 72 [] class = "19" -> 312
    [] class = "27" -> 96  [] OTHER -> 168

-----------------------------------------------------------------------------
(* Payloads.  Garbled is a character outside the armour alphabet.           *)
Payload(chars, fill) == [error |-> "Ok", chars |-> chars, fill_bits |-> fill]
PayloadError(code) == [error |-> code, chars |-> <<>>, fill_bits |-> 0]
NoPayload == PayloadError("none")
Garbled == NumberBits(0, 7)

SignificantBits(p) == 6 * Len(p.chars) - p.fill_bits

(* What it returns is whole bytes: their count is all that BitReader knows  *)
(* of the number of bits received.                                          *)
decode_payload(p) ==
  IF p.chars = <<>> THEN [error |-> "PayloadEmpty", buffer |-> <<>>]
  ELSE IF Garbled \in ToSet(p.chars)
       THEN [error |-> "PayloadCharInvalid", buffer |-> <<>>]
  ELSE [error  |-> "Ok",
        buffer |-> InBytes(SubSeq(FlattenSeq(p.chars), 1, SignificantBits(p)))]

(* Defect: a payload of whole characters gets six fill bits.                *)
FillBits_NeverZero(bit_length) == 6 - (bit_length % 6)

FillBits(bit_length) == (6 - (bit_length % 6)) % 6

encode_payload(buffer, bit_length) ==
  IF Len(buffer) < 8 * Bytes(bit_length)
  THEN PayloadError("PayloadTooShort")
  ELSE LET fill == FillBits(bit_length)
       IN  Payload(Characters(SubSeq(buffer, 1, bit_length) \o Zeros(fill)),
                   fill)

-----------------------------------------------------------------------------
(* decode(): the length, the type, then the reads of the class.             *)
DecodeError(code) == [error |-> code, class |-> "none", fields |-> <<>>]
NotDecoded == DecodeError("none")

ReadValue(buffer, r) ==
  LET bits == SubSeq(buffer, r.offset + 1, r.offset + r.width)
  IN  IF r.kind = "text" THEN Stripped(Characters(bits))
                         ELSE Resized(bits, r.kind, r.member)

(* The bits of the buffer from offset on are the number n.                  *)
HasNumber(buffer, offset, width, n) ==
  SubSeq(buffer, offset + 1, offset + width) = NumberBits(n, width)

HasTypeOf(class, buffer) ==
  \E t \in TypesOf(class) : HasNumber(buffer, 0, 6, t)

(* The part of a type 24 report, 2 when it is neither A (0) nor B (1).      *)
PartNumber(class, buffer) ==
  IF class # "24" \/ HasNumber(buffer, 38, 2, 0) THEN 0
  ELSE IF HasNumber(buffer, 38, 2, 1) THEN 1
  ELSE 2

ClassDecode(class, buffer) ==
  IF Len(buffer) < kBitLength(class) THEN DecodeError("PayloadTooShort")
  ELSE IF ~HasTypeOf(class, buffer) THEN DecodeError("MessageDecodeFailure")
  ELSE LET part  == PartNumber(class, buffer)
           reads == Reads(class, part)
       IN  IF \E r \in reads : r.offset + r.width > Len(buffer)
           THEN DecodeError("BitfieldOutOfRange")
           ELSE IF part \notin {0, 1} THEN DecodeError("MessageDecodeFailure")
           ELSE [error  |-> "Ok", class |-> class,
                 fields |-> [f \in {r.field : r \in reads} |->
                   ReadValue(buffer, CHOOSE r \in reads : r.field = f)]]

(* MessageRegistry::decode().  Its own length test never fails: a payload   *)
(* of one character fills a byte, and a byte holds a type field.            *)
RegistryDecode(p) ==
  LET unpacked == decode_payload(p)
      types    == {t \in 1 .. 27 : HasNumber(unpacked.buffer, 0, 6, t)}
  IN  IF unpacked.error # "Ok" THEN DecodeError(unpacked.error)
      ELSE IF types = {} THEN DecodeError("MessageTypeUnknown")
      ELSE IF types \cap DOMAIN decoders = {}
           THEN DecodeError("MessageTypeUnsupported")
      ELSE ClassDecode(decoders[CHOOSE t \in types : TRUE], unpacked.buffer)

-----------------------------------------------------------------------------
(* encode(): the writes of the class, one after the other.                  *)

(* Defect: a text is padded with NUL, which has no 6-bit value and so is    *)
(* written as a question mark.                                              *)
WriteText_PaddedWithNul(text, chars) ==
  FlattenSeq([i \in 1 .. chars |->
    IF i <= Len(text) THEN text[i] ELSE NumberBits(63, 6)])

WriteText(text, chars) ==
  FlattenSeq([i \in 1 .. chars |-> IF i <= Len(text) THEN text[i] ELSE Padding])

Written(m, w) ==
  CASE w.field = "spare" -> Zeros(w.width)
    [] w.kind = "text"   -> WriteText(m.fields[w.field], w.width \div 6)
    [] OTHER             -> Resized(m.fields[w.field], w.kind, w.width)

PartOf(m) ==
  IF m.class = "24" /\ m.fields.part_number = NumberBits(1, 8) THEN 1 ELSE 0

WriterBits(m) ==
  LET writes == Writes(m.class, PartOf(m))
  IN  FlattenSeq([i \in DOMAIN writes |-> Written(m, writes[i])])

EncodeMessage(m) == encode_payload(InBytes(WriterBits(m)), kBitLength(m.class))

-----------------------------------------------------------------------------
(* What transmitters send: n bits laid out as those of a class, with type   *)
(* id t, and with texts of the given shape in the text fields.              *)
CharacterKind(r, i, shape) ==
  LET c == (i - 1 - r.offset) \div 6 + 1
  IN  IF c <= Len(shape) THEN shape[c] ELSE "padding"

TextBit(r, i, shape) ==
  LET b == 1 + ((i - 1 - r.offset) % 6)
  IN  CASE CharacterKind(r, i, shape) = "letter"  -> <<"received", i>>
        [] CharacterKind(r, i, shape) = "space"   -> Space[b]
        [] CharacterKind(r, i, shape) = "padding" -> Padding[b]

TransmittedBits(class, t, part, shape, n) ==
  LET texts == {r \in Reads(class, part) : r.kind = "text"}
  IN  [i \in 1 .. n |->
         CASE i <= 6 -> NumberBits(t, 6)[i]
           [] class = "24" /\ i \in {39, 40} -> NumberBits(part, 2)[i - 38]
           [] \E r \in texts : r.offset < i /\ i <= r.offset + r.width ->
                TextBit(CHOOSE r \in texts :
                          r.offset < i /\ i <= r.offset + r.width, i, shape)
           [] OTHER -> <<"received", i>>]

CharCount(class) == (kBitLength(class) + 5) \div 6
Parts(class) == IF class = "24" THEN 0 .. 3 ELSE {0}

Transmitted(class, t, part, shape, change) ==
  Characters(TransmittedBits(class, t, part, shape,
                             6 * (CharCount(class) + change)))

Anything == CHOOSE shape \in TextShapes : TRUE

(* Payloads as encoders write them; of another length or fill count; of     *)
(* another type; and with a character that no encoder writes.               *)
Intact ==
  UNION {{Payload(Transmitted(class, t, part, shape, 0), 0) :
            t \in TypesOf(class), part \in Parts(class), shape \in TextShapes} :
         class \in Classes}

OtherLength ==
  UNION {{Payload(Transmitted(class, t, 0, Anything, d), fill) :
            t \in TypesOf(class), fill \in 0 .. 5,
            d \in {d \in Changes : CharCount(class) + d > 0}} :
         class \in Classes}

OtherType ==
  {Payload(Transmitted(class, t, 0, Anything, 0), 0) :
     class \in Classes, t \in OtherTypes}

Unarmoured == {[p EXCEPT !.chars[1] = Garbled] : p \in OtherType}

-----------------------------------------------------------------------------
(* Nothing but the registry is kept from one payload to the next, so each   *)
(* behaviour follows one.                                                   *)
Init ==
  /\ received \in Intact \cup OtherLength \cup OtherType \cup Unarmoured
                         \cup {Payload(<<>>, 0)}
  /\ decoders = <<>>
  /\ result = NotDecoded
  /\ encoded = NoPayload
  /\ origin = NotDecoded

(* register_all_decoders(): a decoder function per supported type.          *)
SupportedTypes == {1, 2, 3, 4, 5, 9, 10, 11, 18, 19, 24, 27}

(* Defect: type 11, the reply to type 10, is registered with its class.     *)
DecoderFor_ReplyAsInquiry(t) ==
  CASE t \in 1 .. 3   -> "1_3" [] t = 4  -> "4_11" [] t = 5  -> "5"
    [] t = 9  -> "9"  [] t \in {10, 11} -> "10" [] t = 18 -> "18"
    [] t = 19 -> "19" [] t = 24 -> "24" [] t = 27 -> "27"

DecoderFor(t) ==
  CASE t \in 1 .. 3 -> "1_3" [] t \in {4, 11} -> "4_11" [] t = 5  -> "5"
    [] t = 9  -> "9"  [] t = 10 -> "10" [] t = 18 -> "18"
    [] t = 19 -> "19" [] t = 24 -> "24" [] t = 27 -> "27"

RegisterAllDecoders ==
  /\ decoders' = [t \in SupportedTypes |-> DecoderFor(t)]
  /\ UNCHANGED <<received, result, encoded, origin>>

(* MessageRegistry::clear(), which only the tests call.                     *)
Clear ==
  /\ decoders' = <<>>
  /\ UNCHANGED <<received, result, encoded, origin>>

(* The receiver decodes by the registry, or calls one class's decode().     *)
DecodeByRegistry ==
  /\ result = NotDecoded
  /\ result' = RegistryDecode(received)
  /\ UNCHANGED <<received, decoders, encoded, origin>>

DecodeAs(class) ==
  /\ result = NotDecoded
  /\ decode_payload(received).error = "Ok"
  /\ result' = ClassDecode(class, decode_payload(received).buffer)
  /\ UNCHANGED <<received, decoders, encoded, origin>>

Encode ==
  /\ result.error = "Ok"
  /\ encoded' = EncodeMessage(result)
  /\ UNCHANGED <<received, decoders, result, origin>>

(* The encoded message is sent on, and reaches a receiver unchanged.        *)
Forward ==
  /\ encoded.error = "Ok"
  /\ received' = encoded
  /\ origin' = result
  /\ result' = NotDecoded
  /\ encoded' = NoPayload
  /\ UNCHANGED decoders

Next ==
  \/ RegisterAllDecoders \/ Clear
  \/ DecodeByRegistry
  \/ \E class \in Classes : DecodeAs(class)
  \/ Encode
  \/ Forward

Spec == Init /\ [][Next]_vars

-----------------------------------------------------------------------------
ErrorCodes ==
  {"Ok", "none", "PayloadEmpty", "PayloadCharInvalid", "PayloadTooShort",
   "BitfieldOutOfRange", "MessageTypeUnknown", "MessageTypeUnsupported",
   "MessageDecodeFailure"}

(* Type invariant: payloads are six-bit characters (a garbled one aside)    *)
(* with a fill count of 0 to 5, the registry leads from type ids to         *)
(* classes, and the fields of a decoded message are those of its class.     *)
TypeOK ==
  /\ \A p \in {received, encoded} :
       /\ p.error \in ErrorCodes
       /\ \A i \in DOMAIN p.chars : Len(p.chars[i]) = 6 \/ p.chars[i] = Garbled
       /\ p.fill_bits \in 0 .. 5
  /\ DOMAIN decoders \subseteq 1 .. 27
  /\ \A t \in DOMAIN decoders : decoders[t] \in Classes
  /\ \A m \in {result, origin} :
       /\ m.error \in ErrorCodes
       /\ m.error = "Ok" => \E part \in {0, 1} :
            DOMAIN m.fields = {r.field : r \in Reads(m.class, part)}

(* encode() restores the payload its message was decoded from: it is as     *)
(* long as the class requires, each number has its own bits in its own      *)
(* place, each text too but for the blanks at its end, and all else is      *)
(* zero.  So no offset, no width and no member is too narrow or misplaced   *)
(* in any class, and encode() never fails.                                  *)
EncodeRestoresPayload ==
  encoded # NoPayload =>
    LET length == kBitLength(result.class)
        reads  == Reads(result.class, PartOf(result))
        before == decode_payload(received).buffer
        after  == decode_payload(encoded).buffer
        At(buffer, r) == SubSeq(buffer, r.offset + 1, r.offset + r.width)
        Read(i) == \E r \in reads : r.offset < i /\ i <= r.offset + r.width
    IN  /\ encoded.error = "Ok"
        /\ SignificantBits(encoded) = length
        /\ \A r \in reads :
             IF r.kind = "text"
             THEN Stripped(Characters(At(after, r))) =
                    Stripped(Characters(At(before, r)))
             ELSE At(after, r) = At(before, r)
        /\ \A i \in 1 .. length : Read(i) \/ after[i] = Bit(0)

(* A message that is encoded and sent on is decoded to the same message, by *)
(* the registry, if it has decoders, and by the message's own class.        *)
RoundTrip ==
  [][/\ origin # NotDecoded
     /\ \/ DecodeByRegistry /\ decoders # <<>>
        \/ origin.error = "Ok" /\ DecodeAs(origin.class)
     => result' = origin]_vars

(* The length each class tests once is enough for all its reads: whatever   *)
(* payload arrives, none is refused half way for a read out of range.       *)
NoReadOutOfRange == result.error # "BitfieldOutOfRange"

(* The registry hands a payload to a class that knows its type: only a type *)
(* 24 report with a reserved part number is refused after the dispatch.     *)
DispatchMatchesType ==
  [][DecodeByRegistry /\ result'.error = "MessageDecodeFailure" =>
       /\ HasTypeOf("24", decode_payload(received).buffer)
       /\ PartNumber("24", decode_payload(received).buffer) = 2]_vars

(* error.h:61: PayloadTooShort is for a payload "shorter than required for  *)
(* the claimed message type", and payload.h:49 has its length be six times  *)
(* its characters less the fill bits.  A message that is accepted had them. *)
ShortPayloadsRefused ==
  result.error = "Ok" => SignificantBits(received) >= kBitLength(result.class)
=============================================================================
