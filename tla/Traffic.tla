-------------------------------- MODULE Traffic --------------------------------
(***************************************************************************)
(* The AIS traffic an assembler is fed with.  A transmission is one AIS     *)
(* message as its sender split it into sentences; the fragments of its      *)
(* payload are tagged with where they come from, so that a delivered        *)
(* message can be compared with what was transmitted.                       *)
(***************************************************************************)
EXTENDS Sentences

CONSTANTS
  Transmissions,  \* the messages transmitted
  Header          \* their header fields: a function from Transmissions

Fragment(t, i) == [of |-> t, part |-> i]

ASSUME TrafficAssumption ==
  /\ \A t \in Transmissions :
       /\ Header[t].talker \in Talkers
       /\ Header[t].sentence_type \in SentenceTypes
       /\ Header[t].part_count \in 1 .. kMaxSentenceParts
       /\ Header[t].seq_id \in SeqIds
       /\ Header[t].fill_bits \in FillBits
       /\ \A i \in 1 .. Header[t].part_count :
            Fragment(t, i) \in Payloads \ {NoPayload}
  /\ 0 \in FillBits

(* The i-th sentence of a transmission.  Intermediate parts carry no fill   *)
(* bits, and a single-part message carries no seq_id.                       *)
Part(t, i) ==
  [talker        |-> Header[t].talker,
   sentence_type |-> Header[t].sentence_type,
   part_count    |-> Header[t].part_count,
   part_index    |-> i,
   seq_id        |-> IF Header[t].part_count = 1 THEN NoSeqId ELSE Header[t].seq_id,
   payload       |-> Fragment(t, i),
   fill_bits     |-> IF i = Header[t].part_count THEN Header[t].fill_bits ELSE 0]

(* The message that the caller should get for a transmission.               *)
MessageOf(t) ==
  [payload       |-> [i \in 1 .. Header[t].part_count |-> Fragment(t, i)],
   fill_bits     |-> Header[t].fill_bits,
   is_own_vessel |-> Header[t].sentence_type = "VDO",
   talker        |-> Header[t].talker]
=============================================================================
