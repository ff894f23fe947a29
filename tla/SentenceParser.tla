---------------------------- MODULE SentenceParser ----------------------------
(***************************************************************************)
(* Sentence::parse() and the line it is given.  A transmitter writes the    *)
(* fields of a sentence, well or badly, and a checksum over them; on its way*)
(* the line may be damaged; the caller parses what arrives.                 *)
(*                                                                          *)
(* A line is a sequence of characters, each a string of length one.  Code   *)
(* gives the ASCII codes, of which only the checksum makes use.             *)
(***************************************************************************)
EXTENDS Sentences, SequencesExt

CONSTANTS
  Code,         \* Code[c]: the ASCII code of the character c
  Numerals,     \* Numerals[s]: the number that the string s spells, -1 if none
  WrittenLines, \* the fields that transmitters write, well or badly
  ExposedLines, \* those of them that may be damaged on their way
  MaxFaults     \* bound on the damages done to one line

Characters == DOMAIN Code

VARIABLES
  fields,   \* the fields that were written to the line
  line,     \* the line as it is now
  faults,   \* the damages done to it, in order
  result    \* what parse() returned

vars == <<fields, line, faults, result>>

-----------------------------------------------------------------------------
(* The helpers of sentence.cpp.                                             *)
kMaxSeqId == 9

kValidTalkers ==
  {<<"A", "B">>, <<"A", "I">>, <<"A", "N">>, <<"A", "R">>, <<"A", "S">>,
   <<"A", "T">>, <<"A", "X">>, <<"B", "S">>, <<"S", "A">>}

is_valid_talker(talker) == talker \in kValidTalkers

(* A comma begins a field, any other character belongs to the last one.     *)
Extended(fs, c) ==
  IF c = "," THEN Append(fs, <<>>) ELSE [fs EXCEPT ![Len(fs)] = Append(@, c)]

split_fields(str) ==
  LET split[n \in 0 .. Len(str)] ==
        IF n = 0 THEN <<<<>>>> ELSE Extended(split[n - 1], str[n])
  IN  split[Len(str)]

Digits == <<"0", "1", "2", "3", "4", "5", "6", "7", "8", "9">>
Uppercase ==
  <<"0", "1", "2", "3", "4", "5", "6", "7", "8", "9", "A", "B", "C", "D", "E", "F">>
Lowercase ==
  <<"0", "1", "2", "3", "4", "5", "6", "7", "8", "9", "a", "b", "c", "d", "e", "f">>

(* The place of a character in a sequence of digits, counted from 0; -1 if  *)
(* it is none of them.                                                      *)
DigitValue(c, digits) ==
  IF \E i \in DOMAIN digits : digits[i] = c
  THEN (CHOOSE i \in DOMAIN digits : digits[i] = c) - 1
  ELSE -1

(* The number, or -1 where parse_uint8() returns false.                     *)
Decimal(s) == FoldLeft(LAMBDA v, c : 10 * v + DigitValue(c, Digits), 0, s)

(* Defect: the number is kept in eight bits while it is read.               *)
parse_uint8_Wraps(s) ==
  IF s = <<>> \/ ~(ToSet(s) \subseteq ToSet(Digits)) THEN -1 ELSE Decimal(s) % 256

parse_uint8(s) ==
  IF s = <<>> \/ ~(ToSet(s) \subseteq ToSet(Digits)) \/ Decimal(s) > 255
  THEN -1 ELSE Decimal(s)

HexValue(c) ==
  IF DigitValue(c, Uppercase) # -1 THEN DigitValue(c, Uppercase) ELSE DigitValue(c, Lowercase)

(* The number of two hexadecimal digits of either case, or -1.              *)
parse_hex8(s) ==
  IF Len(s) # 2 \/ \E i \in 1 .. Len(s) : HexValue(s[i]) = -1
  THEN -1 ELSE 16 * HexValue(s[1]) + HexValue(s[2])

(* The exclusive or of the codes: a bit is set if an odd number of the      *)
(* characters have it.                                                      *)
HasBit(c, weight) == (Code[c] \div weight) % 2 = 1

(* Defect: the exclusive or begins with the second character.               *)
Parity_FirstOmitted(data, weight) ==
  Cardinality({i \in 2 .. Len(data) : HasBit(data[i], weight)}) % 2

Parity(data, weight) == Cardinality({i \in DOMAIN data : HasBit(data[i], weight)}) % 2

Checksum(data) ==
  LET Bit(weight) == weight * Parity(data, weight)
  IN  Bit(1) + Bit(2) + Bit(4) + Bit(8) + Bit(16) + Bit(32) + Bit(64) + Bit(128)

compute_checksum(data) ==
  <<Uppercase[(Checksum(data) \div 16) + 1], Uppercase[(Checksum(data) % 16) + 1]>>

-----------------------------------------------------------------------------
(* Sentence::parse().  First the frame of the line ...                      *)
Stripped(raw) ==
  SubSeq(raw, 1, Max({0} \cup {i \in DOMAIN raw : raw[i] \notin {"CR", "LF"}}))

StarAt(s) == Max({0} \cup {i \in DOMAIN s : s[i] = "*"})
Body(s) == SubSeq(s, 2, StarAt(s) - 1)
ChecksumField(s) == SubSeq(s, StarAt(s) + 1, StarAt(s) + 2)

FrameError(raw, s) ==
  IF raw = <<>> THEN "SentenceEmpty"
  ELSE IF Len(s) < 14 THEN "SentenceTooShort"
  ELSE IF s[1] \notin {"!", "$"} THEN "SentenceInvalidStart"
  ELSE IF StarAt(s) = 0 \/ StarAt(s) + 2 > Len(s) THEN "SentenceMissingChecksum"
  ELSE IF parse_hex8(ChecksumField(s)) # Checksum(Body(s)) THEN "SentenceChecksumBad"
  ELSE IF Len(split_fields(Body(s))) < 7 THEN "SentenceFieldMissing"
  ELSE "Ok"

(* ... then the fields, from left to right; those beyond the seventh are    *)
(* not looked at.  The fields are numbered from 1 here.                     *)
Talker(f) == SubSeq(f[1], 1, 2)
Type(f) == SubSeq(f[1], 3, 5)
TypeNames == {<<"V", "D", "M">>, <<"V", "D", "O">>}

CountIsValid(f) == parse_uint8(f[2]) \in 1 .. kMaxSentenceParts

(* Defect: the part index is not compared with the part count.              *)
IndexIsValid_AnyPart(f) == parse_uint8(f[3]) \in 1 .. kMaxSentenceParts

IndexIsValid(f) == parse_uint8(f[3]) \in 1 .. parse_uint8(f[2])

SeqIdIsValid(f) ==
  IF f[4] = <<>> THEN parse_uint8(f[2]) = 1 ELSE parse_uint8(f[4]) \in 0 .. kMaxSeqId

FieldError(f) ==
  IF Len(f[1]) # 5 THEN "SentenceFieldInvalid"
  ELSE IF ~is_valid_talker(Talker(f)) THEN "SentenceTalkerInvalid"
  ELSE IF Type(f) \notin TypeNames THEN "SentenceTypeInvalid"
  ELSE IF ~CountIsValid(f) THEN "MultipartCountInvalid"
  ELSE IF ~IndexIsValid(f) THEN "SentenceFieldInvalid"
  ELSE IF ~SeqIdIsValid(f) THEN "MultipartSeqInvalid"
  ELSE IF f[6] = <<>> /\ parse_uint8(f[2]) = 1 THEN "PayloadEmpty"
  ELSE IF parse_uint8(f[7]) \notin 0 .. 5 THEN "PayloadFillBitsInvalid"
  ELSE "Ok"

Parsed(sentence, channel) ==
  [kind |-> "sentence", sentence |-> sentence, channel |-> channel]

SentenceOf(f) ==
  [talker        |-> Talker(f),
   sentence_type |-> IF Type(f) = <<"V", "D", "O">> THEN "VDO" ELSE "VDM",
   part_count    |-> parse_uint8(f[2]),
   part_index    |-> parse_uint8(f[3]),
   seq_id        |-> IF f[4] = <<>> THEN NoSeqId ELSE parse_uint8(f[4]),
   payload       |-> f[6],
   fill_bits     |-> parse_uint8(f[7])]

ChannelOf(f) == IF f[5] = <<>> THEN "A" ELSE f[5][1]

parse(raw) ==
  LET s == Stripped(raw)
      f == split_fields(Body(s))
  IN  IF FrameError(raw, s) # "Ok" THEN Failure(FrameError(raw, s))
      ELSE IF FieldError(f) # "Ok" THEN Failure(FieldError(f))
      ELSE Parsed(SentenceOf(f), ChannelOf(f))

-----------------------------------------------------------------------------
(* A transmitter joins the fields and frames them.                          *)
Joined(f) ==
  LET joined[n \in 1 .. Len(f)] ==
        IF n = 1 THEN f[1] ELSE joined[n - 1] \o <<",">> \o f[n]
  IN  joined[Len(f)]

Line(f) == <<"!">> \o Joined(f) \o <<"*">> \o compute_checksum(Joined(f))

(* Lines come with their end of line or without.                            *)
LineEnds == {<<>>, <<"LF">>, <<"CR", "LF">>}

Separators == {",", "*", "CR", "LF"}

(* What a transmitter writes is text, and a payload is any text.  There are *)
(* the talkers, the seq_ids and the fill bit counts that parse() lets pass, *)
(* and the numerals are what the digits spell.                              *)
ASSUME ParserAssumption ==
  /\ \A c \in Characters : Code[c] \in 1 .. 127
  /\ \A c, d \in Characters : Code[c] = Code[d] => c = d
  /\ ToSet(Uppercase) \cup Separators \cup {"!"} \subseteq Characters
  /\ \A f \in WrittenLines :
       /\ f \in Seq(Seq(Characters)) /\ f # <<>>
       /\ \A i \in DOMAIN f : \A j \in DOMAIN f[i] : f[i][j] \notin Separators
       /\ Len(f) >= 7 =>
            \A k \in {2, 3, 4, 7} :
              /\ Numerals[f[k]] \in Int
              /\ Numerals[f[k]] = IF f[k] = <<>> \/ ~(ToSet(f[k]) \subseteq ToSet(Digits))
                                  THEN -1 ELSE Decimal(f[k])
  /\ ExposedLines \subseteq WrittenLines
  /\ \A f \in ExposedLines : Len(f) >= 7
  /\ MaxFaults \in Nat
  /\ Payloads = Seq(Characters) /\ NoPayload = <<>>
  /\ kMaxSentenceParts = 5
  /\ kValidTalkers \subseteq Talkers
  /\ 0 .. kMaxSeqId \subseteq SeqIds
  /\ 0 .. 5 \subseteq FillBits

Init ==
  /\ fields \in WrittenLines
  /\ \E end \in LineEnds : line = Line(fields) \o end
  /\ faults = <<>>
  /\ result = Idle

(* What can happen to a line on its way: another character for one of its   *)
(* own, a character lost, its end lost, or another line glued to it.        *)
Damaged(fault, to) ==
  /\ result = Idle /\ fields \in ExposedLines /\ Len(faults) < MaxFaults
  /\ faults' = Append(faults, fault)
  /\ line' = to
  /\ UNCHANGED <<fields, result>>

Garble ==
  \E i \in DOMAIN line : \E c \in Characters \ {line[i]} :
    Damaged([kind |-> "garble", at |-> i], ReplaceAt(line, i, c))

Drop ==
  \E i \in DOMAIN line : Damaged([kind |-> "drop", at |-> i], RemoveAt(line, i))

Cut ==
  \E n \in 0 .. Len(line) - 1 : Damaged([kind |-> "cut", at |-> n], SubSeq(line, 1, n))

Join ==
  \E f \in ExposedLines : Damaged([kind |-> "join", at |-> Len(line)], line \o Line(f))

Parse ==
  /\ result = Idle
  /\ result' = parse(line)
  /\ UNCHANGED <<fields, line, faults>>

Next == Garble \/ Drop \/ Cut \/ Join \/ Parse

Spec == Init /\ [][Next]_vars

-----------------------------------------------------------------------------
ParseErrors ==
  {"SentenceEmpty", "SentenceTooShort", "SentenceInvalidStart",
   "SentenceMissingChecksum", "SentenceChecksumBad", "SentenceFieldMissing",
   "SentenceFieldInvalid", "SentenceTalkerInvalid", "SentenceTypeInvalid",
   "MultipartCountInvalid", "MultipartSeqInvalid", "PayloadEmpty",
   "PayloadFillBitsInvalid"}

(* Type invariant: whatever the line, parse() returns one of its errors or  *)
(* one of the sentences that the assembler's models start from.             *)
TypeOK ==
  \/ result = Idle
  \/ result.kind = "error" /\ result.code \in ParseErrors
  \/ /\ result.kind = "sentence"
     /\ result.sentence \in Sentence
     /\ result.channel \in Characters

(* The rules that sentence.h gives for the fields of a sentence, read       *)
(* independently of parse(): the errors that may be reported for the fields *)
(* f, one for each rule that they break.  What sentence.h says of a radio   *)
(* channel, 'A' or 'B', and of the fill bits of intermediate parts, 0, is   *)
(* about what the accessors return; no error stands for it.                 *)
Blame(f) ==
  LET whole   == Len(f) >= 7
      Num(k)  == Numerals[f[k]]
      single  == Num(2) = 1
      IsType  == Len(f[1]) = 5
  IN  {code \in ParseErrors :
       CASE code = "SentenceTooShort" -> Len(Line(f)) < 19
         [] code = "SentenceFieldMissing" -> ~whole
         [] code = "SentenceFieldInvalid" ->
              ~IsType \/ (whole /\ ~(1 <= Num(3) /\ Num(3) <= Num(2)))
         [] code = "SentenceTalkerInvalid" -> IsType /\ Talker(f) \notin kValidTalkers
         [] code = "SentenceTypeInvalid" -> IsType /\ Type(f) \notin TypeNames
         [] code = "MultipartCountInvalid" -> whole /\ Num(2) \notin 1 .. 5
         [] code = "MultipartSeqInvalid" ->
              whole /\ IF single THEN f[4] # <<>> ELSE Num(4) \notin 0 .. 9
         [] code = "PayloadEmpty" -> whole /\ f[6] = <<>> /\ single
         [] code = "PayloadFillBitsInvalid" -> whole /\ Num(7) \notin 0 .. 5
         [] OTHER -> FALSE}

(* The one of these rules that parse() does not enforce: the seq_id of a    *)
(* single-part sentence is empty.  parse() returns such a sentence with the *)
(* seq_id it has, if that is one.                                           *)
Overlooked(f) ==
  IF Len(f) >= 7 /\ Numerals[f[2]] = 1 /\ Numerals[f[4]] \in 0 .. 9
  THEN {"MultipartSeqInvalid"} ELSE {}

Enforced(f) == Blame(f) \ Overlooked(f)

(* A line that arrives as it was written is accepted if it keeps to the     *)
(* rules, or breaks only the one that is overlooked, with the values its    *)
(* fields spell; otherwise the error names another rule that it breaks, and *)
(* for several one of them.                                                 *)
GrammarDecides ==
  result # Idle /\ faults = <<>> =>
    IF Enforced(fields) # {}
    THEN result.kind = "error" /\ result.code \in Enforced(fields)
    ELSE /\ result.kind = "sentence"
         /\ result.sentence.part_count = Numerals[fields[2]]
         /\ result.sentence.part_index = Numerals[fields[3]]
         /\ result.sentence.seq_id =
              IF fields[4] = <<>> THEN NoSeqId ELSE Numerals[fields[4]]
         /\ result.sentence.payload = fields[6]
         /\ result.sentence.fill_bits = Numerals[fields[7]]

(* No single damage turns a line into another sentence: it is either        *)
(* refused, or it gives what the line would have given intact.              *)
DamageIsDetected ==
  result # Idle /\ Len(faults) = 1 =>
    result.kind = "error" \/ result = parse(Line(fields))
=============================================================================
