---------------------------- MODULE PayloadTransfer ----------------------------
(***************************************************************************)
(* The bits of a message on their way: encode_payload(), a transmitter that *)
(* cuts the payload into sentences, SentenceAssembler, and decode_payload().*)
(* A payload string is a sequence of characters here, so that the assembled *)
(* message is the very string that is decoded.                              *)
(*                                                                          *)
(* parse() lets an intermediate sentence have any fill bit count although   *)
(* its characters are message bits to the last.                             *)
(***************************************************************************)
EXTENDS SentenceAssembler, PayloadCodec, SequencesExt

CONSTANTS
  Stations,
  Contents,           \* Contents[st]: the buffers, with their lengths in bits
  MaxParts,           \* bound on the sentences of a message
  Talker,             \* Talker[st]: the talker identifier of st
  SeqIdOf,            \* SeqIdOf[st]: the seq_id st uses
  IntermediateFills   \* the fill bit counts of intermediate sentences

(* What there is to send are messages that encode_payload() takes, and the  *)
(* seq_ids tell the stations apart.                                         *)
ASSUME TransferAssumption ==
  /\ MaxParts \in 1 .. kMaxSentenceParts
  /\ Payloads = Seq(Char) /\ NoPayload = <<>>
  /\ 0 .. 5 \cup IntermediateFills \subseteq FillBits
  /\ \A st \in Stations : Talker[st] \in Talkers /\ SeqIdOf[st] \in SeqIds
  /\ \A st, su \in Stations : SeqIdOf[st] = SeqIdOf[su] => st = su
  /\ \A st \in Stations : \A msg \in Contents[st] :
       /\ msg.data \in Seq(Byte)
       /\ msg.bit_length \in Nat \ {0}
       /\ ByteCount(msg.bit_length) <= Len(msg.data)

VARIABLES
  content,   \* content[st]: the message that st sends
  sending,   \* sending[st]: the sentences st has still to send
  received   \* what the caller has decoded

transferVars == <<sequences, result, content, sending, received>>

Payload(msg) == encode_payload(msg.data, msg.bit_length).value

(* The places at which a payload of n characters is cut; parts may be empty.*)
Cuts(n) ==
  UNION {{cuts \in [1 .. k - 1 -> 0 .. n] : \A i, j \in 1 .. k - 1 : i < j => cuts[i] <= cuts[j]} :
           k \in 1 .. MaxParts}

SentencesOf(st, msg, cuts, fill) ==
  LET sent == Payload(msg)
      k == Len(cuts) + 1
      Cut(i) == IF i = 0 THEN 0 ELSE IF i = k THEN Len(sent.payload) ELSE cuts[i]
  IN  [i \in 1 .. k |->
        [talker        |-> Talker[st],
         sentence_type |-> "VDM",
         part_count    |-> k,
         part_index    |-> i,
         seq_id        |-> IF k = 1 THEN NoSeqId ELSE SeqIdOf[st],
         payload       |-> SubSeq(sent.payload, Cut(i - 1) + 1, Cut(i)),
         fill_bits     |-> IF i = k THEN sent.fill_bits ELSE fill]]

(* A choice for each station.                                               *)
OneEach(choices) ==
  {f \in [Stations -> UNION {choices[st] : st \in Stations}] :
     \A st \in Stations : f[st] \in choices[st]}

TransferInit ==
  /\ Init
  /\ content \in OneEach(Contents)
  /\ \E cut \in OneEach([st \in Stations |-> Cuts(Len(Payload(content[st]).payload))]),
        fill \in [Stations -> IntermediateFills] :
       sending = [st \in Stations |-> SentencesOf(st, content[st], cut[st], fill[st])]
  /\ received = {}

-----------------------------------------------------------------------------
(* What the caller makes of an assembled message.                           *)
Decoded(msg) ==
  [talker |-> msg.talker,
   bits   |-> decode_payload(FlattenSeq(msg.payload), msg.fill_bits)]

Receive(st) ==
  /\ sending[st] # <<>>
  /\ Feed(Head(sending[st]))
  /\ sending' = [sending EXCEPT ![st] = Tail(@)]
  /\ received' = IF result'.kind = "message"
                 THEN received \cup {Decoded(result'.message)} ELSE received
  /\ UNCHANGED content

TransferNext == \E st \in Stations : Receive(st)

TransferSpec == TransferInit /\ [][TransferNext]_transferVars

-----------------------------------------------------------------------------
Sent(st) ==
  [talker |-> Talker[st],
   bits   |-> Value(FirstBits(content[st].data, content[st].bit_length))]

(* Bit by bit the caller gets what was sent, of every station whose last    *)
(* sentence has come and of no other, wherever the payloads were cut and    *)
(* whatever fill bit counts the sentences before the last have.             *)
ExactBitsArrive ==
  received = {Sent(st) : st \in {x \in Stations : sending[x] = <<>>}}
=============================================================================
