-------------------------- MODULE SentenceAssembler ---------------------------
(***************************************************************************)
(* SentenceAssembler: stateful reassembly of multi-part AIS messages        *)
(* (src/src/core/sentence.cpp, feed(), reset(), pending_count()).           *)
(*                                                                          *)
(* The class is not thread-safe and its caller feeds it one sentence at a   *)
(* time, so each call is one atomic step.  The caller may feed any sentence *)
(* parse() can return, in any order, and may reset() at any time.           *)
(***************************************************************************)
EXTENDS Sentences

VARIABLES
  sequences,  \* sequences_: the in-progress sequences, keyed by seq_id alone
  result      \* what the last feed() returned

vars == <<sequences, result>>

(* SentenceAssembler::Sequence.  parts is resized to part_count when the    *)
(* sequence is opened; the parts not yet received are empty strings.        *)
SequenceRecord ==
  [parts         : Seq(Payloads),
   part_count    : 1 .. kMaxSentenceParts,
   received      : 0 .. kMaxSentenceParts,
   talker        : Talkers,
   sentence_type : SentenceTypes,
   is_own_vessel : BOOLEAN]

pending_count == Cardinality(DOMAIN sequences)

Init ==
  /\ sequences = <<>>
  /\ result = Idle

-----------------------------------------------------------------------------
(* Operators named Definition_Defect are that definition with a defect that *)
(* the code might have had; nothing uses them.  Each shows that a property  *)
(* notices its defect.                                                      *)
-----------------------------------------------------------------------------
(* feed(): a single-part message is returned at once, without buffering,    *)
(* whatever sequence its seq_id may have open.                              *)
FeedSinglePart(s) ==
  /\ s.part_count = 1
  /\ result' = Complete([payload       |-> <<s.payload>>,
                         fill_bits     |-> s.fill_bits,
                         is_own_vessel |-> s.sentence_type = "VDO",
                         talker        |-> s.talker])
  /\ UNCHANGED sequences

(* Defect: single-part sentences fall through to the buffer.                *)
IsMultipart_AlsoSingle(s) == s.part_count >= 1

(* Defect: the index that is due is taken to be the last one received.      *)
ExpectedNext_NotIncremented(s) == sequences[s.seq_id].received

(* The multi-part path.  feed() first tests that the count is in range and  *)
(* the seq_id present; parse() has refused every sentence that would fail.  *)
IsMultipart(s) == s.part_count > 1
InProgress(s) == s.seq_id \in DOMAIN sequences
Existing(s) == sequences[s.seq_id]
ExpectedNext(s) == Existing(s).received + 1

ReturnError(code) ==
  /\ result' = Failure(code)
  /\ UNCHANGED sequences

(* The sequence that the first part opens, before its payload is stored.    *)
NewSequence(s) ==
  [parts         |-> [i \in 1 .. s.part_count |-> NoPayload],
   part_count    |-> s.part_count,
   received      |-> 0,
   talker        |-> s.talker,
   sentence_type |-> s.sentence_type,
   is_own_vessel |-> s.sentence_type = "VDO"]

(* seq.parts[part_index - 1] = sentence.payload(); ++seq.received;          *)
Store(seq, s) ==
  [seq EXCEPT !.parts[s.part_index] = s.payload, !.received = @ + 1]

(* The part opens a sequence, and since part_count > 1, more are expected.  *)
FeedOpen(s) ==
  /\ IsMultipart(s) /\ ~InProgress(s)
  /\ s.part_index = 1
  /\ sequences' = [id \in DOMAIN sequences \cup {s.seq_id} |->
                     IF id = s.seq_id THEN Store(NewSequence(s), s)
                                      ELSE sequences[id]]
  /\ result' = Nullopt

FeedNotFirst(s) ==
  /\ IsMultipart(s) /\ ~InProgress(s)
  /\ s.part_index # 1
  /\ ReturnError("MultipartOutOfOrder")

(* Defects: the count, or the type, of a later part is not compared.        *)
SameCount_NotCompared(s) == TRUE
SameType_NotCompared(s) == TRUE

(* A part for a sequence in progress is compared with its count, then with  *)
(* its sentence type, then with the index that is due.  The talker and the  *)
(* channel of a later part are not compared.                                *)
SameCount(s) == Existing(s).part_count = s.part_count
SameType(s) == s.sentence_type = Existing(s).sentence_type

FeedCountMismatch(s) ==
  /\ IsMultipart(s) /\ InProgress(s)
  /\ ~SameCount(s)
  /\ ReturnError("MultipartCountInvalid")

FeedTypeMismatch(s) ==
  /\ IsMultipart(s) /\ InProgress(s)
  /\ SameCount(s) /\ ~SameType(s)
  /\ ReturnError("MultipartTalkerConflict")

FeedDuplicate(s) ==
  /\ IsMultipart(s) /\ InProgress(s)
  /\ SameCount(s) /\ SameType(s)
  /\ s.part_index <= Existing(s).received
  /\ ReturnError("MultipartDuplicate")

FeedGap(s) ==
  /\ IsMultipart(s) /\ InProgress(s)
  /\ SameCount(s) /\ SameType(s)
  /\ s.part_index > ExpectedNext(s)
  /\ ReturnError("MultipartOutOfOrder")

(* The part that is due, and the sequence once it is stored.                *)
IsDue(s) ==
  /\ IsMultipart(s) /\ InProgress(s)
  /\ SameCount(s) /\ SameType(s)
  /\ s.part_index = ExpectedNext(s)

Stored(s) == Store(Existing(s), s)

(* Defect: the comparison of received with part_count is off by one.        *)
FeedMiddle_AlsoLast(s) ==
  /\ IsDue(s)
  /\ Stored(s).received <= Stored(s).part_count
  /\ sequences' = [sequences EXCEPT ![s.seq_id] = Stored(s)]
  /\ result' = Nullopt

FeedMiddle(s) ==
  /\ IsDue(s)
  /\ Stored(s).received < Stored(s).part_count
  /\ sequences' = [sequences EXCEPT ![s.seq_id] = Stored(s)]
  /\ result' = Nullopt

(* Defect: the fill bits of a message of several parts are forgotten.       *)
ReturnMessage_NoFill(s) ==
  /\ IsDue(s)
  /\ Stored(s).received >= Stored(s).part_count
  /\ result' = Complete([payload       |-> Stored(s).parts,
                         fill_bits     |-> 0,
                         is_own_vessel |-> Stored(s).is_own_vessel,
                         talker        |-> Stored(s).talker])

(* The final part: the fill bits are its own, the talker and the own-vessel *)
(* flag those of the first part.                                            *)
ReturnMessage(s) ==
  /\ IsDue(s)
  /\ Stored(s).received >= Stored(s).part_count
  /\ result' = Complete([payload       |-> Stored(s).parts,
                         fill_bits     |-> s.fill_bits,
                         is_own_vessel |-> Stored(s).is_own_vessel,
                         talker        |-> Stored(s).talker])

(* Defects: completing a sequence leaves it in the map, with the last part  *)
(* stored or not, or clears the whole map.                                  *)
FeedFinal_Kept(s) ==
  ReturnMessage(s) /\ sequences' = [sequences EXCEPT ![s.seq_id] = Stored(s)]
FeedFinal_Unfinished(s) == ReturnMessage(s) /\ UNCHANGED sequences
FeedFinal_AllErased(s) == ReturnMessage(s) /\ sequences' = <<>>

(* The sequence is erased, and no other.                                    *)
FeedFinal(s) ==
  /\ ReturnMessage(s)
  /\ sequences' = [id \in DOMAIN sequences \ {s.seq_id} |-> sequences[id]]

Feed(s) ==
  \/ FeedSinglePart(s)
  \/ FeedOpen(s)
  \/ FeedNotFirst(s)
  \/ FeedCountMismatch(s)
  \/ FeedTypeMismatch(s)
  \/ FeedDuplicate(s)
  \/ FeedGap(s)
  \/ FeedMiddle(s)
  \/ FeedFinal(s)

(* Defect: reset() forgets to clear the map.                                *)
Reset_NothingCleared == result' = Idle /\ UNCHANGED sequences

(* reset(): every sequence in progress is discarded.                        *)
Reset ==
  /\ sequences' = <<>>
  /\ result' = Idle

Next ==
  \/ \E s \in Sentence : Feed(s)
  \/ Reset

Spec == Init /\ [][Next]_vars

-----------------------------------------------------------------------------
(* The types of the buffer and of the result: sequences is a map from some  *)
(* of the identifiers to sequence records.                                  *)
TypeOK ==
  /\ DOMAIN sequences \subseteq SeqIds
  /\ sequences \in [DOMAIN sequences -> SequenceRecord]
  /\ result \in Results

(* Every buffered sequence is strictly between its first and its last part: *)
(* feed() never leaves an entry that nothing received or that is already    *)
(* complete, the part table has the announced length (so the store at       *)
(* part_index - 1 stays inside it), nothing was written beyond the parts    *)
(* received, and the own-vessel flag agrees with the type that later parts  *)
(* are compared with.                                                       *)
SequenceOK(seq) ==
  /\ seq.received \in 1 .. seq.part_count - 1
  /\ Len(seq.parts) = seq.part_count
  /\ \A i \in seq.received + 1 .. seq.part_count : seq.parts[i] = NoPayload
  /\ seq.is_own_vessel <=> (seq.sentence_type = "VDO")

SequencesInProgress == \A id \in DOMAIN sequences : SequenceOK(sequences[id])

-----------------------------------------------------------------------------
(* The assembler implements Reassembly: a slot is open when its identifier  *)
(* is in the map, and has got the parts received.                           *)
SlotOf(seq) ==
  [count |-> seq.part_count, type |-> seq.sentence_type, talker |-> seq.talker,
   got |-> SubSeq(seq.parts, 1, seq.received)]

Abstract ==
  INSTANCE Reassembly WITH
    slots <- [id \in DOMAIN sequences |-> SlotOf(sequences[id])],
    answer <- result

(* Whatever sentences are fed and whenever reset() is called, each step is  *)
(* one that the abstract specification allows: messages are made of exactly *)
(* the parts accepted since the slot was opened, in order; what does not    *)
(* fit is refused without effect; and no call touches another seq_id.       *)
ImplementsReassembly == Abstract!Spec

(* Since a step does not show which sentence was fed, the above would admit *)
(* an answer that is right for another sentence only.  Each call answers    *)
(* the sentence it was given as the abstract specification does.            *)
CallsMeetReassembly ==
  [][\A s \in Sentence : Feed(s) => Abstract!Call(s)]_vars
=============================================================================
