------------------------------ MODULE Sentences -------------------------------
(***************************************************************************)
(* The values that pass between Sentence::parse(), SentenceAssembler and    *)
(* its caller: a parsed sentence, an assembled message, and the result of   *)
(* SentenceAssembler::feed().  Payload strings are opaque fragments, and    *)
(* the payload of an assembled message is the sequence of the fragments     *)
(* that were concatenated, so that a property can tell where each came from.*)
(***************************************************************************)
EXTENDS Integers, Sequences, FiniteSets, Result

CONSTANTS
  kMaxSentenceParts,  \* the largest part count parse() lets through (5)
  SeqIds,             \* sequential message identifiers, 0 .. kMaxSeqId
  NoSeqId,            \* the empty seq_id field (std::nullopt)
  Talkers,            \* the talker identifiers that can occur
  Payloads,           \* payload strings
  NoPayload,          \* the empty string
  FillBits            \* the fill bit counts that can occur, within 0 .. 5

ASSUME SentencesAssumption ==
  /\ kMaxSentenceParts \in Nat
  /\ NoSeqId \notin SeqIds
  /\ NoPayload \in Payloads

SentenceTypes == {"VDM", "VDO"}

(***************************************************************************)
(* What parse() returns.  The constructor is private and parse() the only   *)
(* factory, so these are the only sentences that exist.  A part of a        *)
(* multi-part message may be empty, a single-part message may not; a        *)
(* single-part message may carry a seq_id.  The channel is left out: parse()*)
(* stores it and nothing in the library reads it.                           *)
(***************************************************************************)
Sentence ==
  { s \in [talker        : Talkers,
           sentence_type : SentenceTypes,
           part_count    : 1 .. kMaxSentenceParts,
           part_index    : 1 .. kMaxSentenceParts,
           seq_id        : SeqIds \cup {NoSeqId},
           payload       : Payloads,
           fill_bits     : FillBits] :
      /\ s.part_index <= s.part_count
      /\ s.part_count > 1 => s.seq_id # NoSeqId
      /\ s.part_count = 1 => s.payload # NoPayload }

AssembledMessage ==
  [payload       : Seq(Payloads),
   fill_bits     : FillBits,
   is_own_vessel : BOOLEAN,
   talker        : Talkers]

(***************************************************************************)
(* Result<std::optional<AssembledMessage>>: a message, nullopt ("more parts *)
(* expected"), or an error.  Idle stands for "nothing was fed since the     *)
(* assembler was constructed or reset".                                     *)
(***************************************************************************)
FeedErrors == {"MultipartCountInvalid", "MultipartTalkerConflict",
               "MultipartDuplicate", "MultipartOutOfOrder"}

Idle == [kind |-> "idle"]
Nullopt == [kind |-> "nullopt"]
Complete(msg) == [kind |-> "message", message |-> msg]

Results ==
  {Idle, Nullopt} \cup [kind : {"error"}, code : FeedErrors]
                  \cup [kind : {"message"}, message : AssembledMessage]
=============================================================================
