----------------------- MODULE SentenceAssembler_proofs -----------------------
(***************************************************************************)
(* Theorems about SentenceAssembler, for every choice of the constants.     *)
(*                                                                          *)
(* TypeOK alone is not inductive: that the store at part_index leaves parts *)
(* a sequence of payloads, and that received stays within the largest count,*)
(* needs SequencesInProgress.  The conjunction Inv is.                      *)
(***************************************************************************)
EXTENDS SentenceAssembler, SequenceTheorems, TLAPS

Inv == TypeOK /\ SequencesInProgress

(* What Inv says of one buffer entry.                                       *)
GoodSequence(seq) == seq \in SequenceRecord /\ SequenceOK(seq)

-----------------------------------------------------------------------------
(* The fields of a sentence parse() let through.                            *)
LEMMA SentenceFields ==
  ASSUME NEW s \in Sentence
  PROVE  /\ s.talker \in Talkers
         /\ s.sentence_type \in SentenceTypes
         /\ s.part_count \in 1 .. kMaxSentenceParts
         /\ s.part_index \in 1 .. s.part_count
         /\ s.payload \in Payloads
         /\ s.fill_bits \in FillBits
         /\ IsMultipart(s) => s.seq_id \in SeqIds
BY SentencesAssumption DEF Sentence, IsMultipart

(* Storing a part at an index inside the table changes that part and the    *)
(* count of parts received, and nothing else.                               *)
LEMMA StoreProperties ==
  ASSUME NEW seq \in SequenceRecord, NEW s \in Sentence,
         Len(seq.parts) = seq.part_count,
         s.part_index \in 1 .. seq.part_count,
         seq.received < seq.part_count
  PROVE  /\ Store(seq, s) \in SequenceRecord
         /\ Len(Store(seq, s).parts) = seq.part_count
         /\ \A i \in 1 .. seq.part_count :
              Store(seq, s).parts[i] =
                IF i = s.part_index THEN s.payload ELSE seq.parts[i]
         /\ Store(seq, s).received = seq.received + 1
         /\ Store(seq, s).part_count = seq.part_count
         /\ Store(seq, s).talker = seq.talker
         /\ Store(seq, s).sentence_type = seq.sentence_type
         /\ Store(seq, s).is_own_vessel = seq.is_own_vessel
<1> DEFINE table == [seq.parts EXCEPT ![s.part_index] = s.payload]
<1>1. seq.parts \in Seq(Payloads) /\ seq.received \in Nat /\ seq.part_count \in 1 .. kMaxSentenceParts
  BY SentencesAssumption DEF SequenceRecord
<1>2. s.payload \in Payloads
  BY SentenceFields
<1>3. /\ table \in Seq(Payloads)
      /\ Len(table) = seq.part_count
      /\ \A i \in 1 .. seq.part_count :
           table[i] = IF i = s.part_index THEN s.payload ELSE seq.parts[i]
  <2> HIDE DEF table
  <2>1. s.part_index \in 1 .. Len(seq.parts)
    OBVIOUS
  <2> QED
    BY <1>1, <1>2, <2>1, ExceptSeq DEF table
<1>4. seq.received + 1 \in 0 .. kMaxSentenceParts
  BY <1>1, SentencesAssumption
<1>5. /\ Store(seq, s).parts = table
      /\ Store(seq, s).received = seq.received + 1
      /\ Store(seq, s).part_count = seq.part_count
      /\ Store(seq, s).talker = seq.talker
      /\ Store(seq, s).sentence_type = seq.sentence_type
      /\ Store(seq, s).is_own_vessel = seq.is_own_vessel
  BY DEF Store, SequenceRecord
<1>6. Store(seq, s) \in SequenceRecord
  <2> HIDE DEF table
  <2> QED
    BY <1>3, <1>4, <1>5 DEF Store, SequenceRecord, table
<1> QED
  BY <1>3, <1>5, <1>6

(* The record the first part opens: an empty table of the announced size.   *)
LEMMA NewSequenceProperties ==
  ASSUME NEW s \in Sentence, IsMultipart(s)
  PROVE  /\ NewSequence(s) \in SequenceRecord
         /\ Len(NewSequence(s).parts) = s.part_count
         /\ \A i \in 1 .. s.part_count : NewSequence(s).parts[i] = NoPayload
         /\ NewSequence(s).received = 0
         /\ NewSequence(s).part_count = s.part_count
         /\ NewSequence(s).talker = s.talker
         /\ NewSequence(s).sentence_type = s.sentence_type
         /\ NewSequence(s).is_own_vessel = (s.sentence_type = "VDO")
<1> DEFINE table == [i \in 1 .. s.part_count |-> NoPayload]
<1>1. s.part_count \in Nat /\ s.part_count \in 1 .. kMaxSentenceParts
  BY SentenceFields, SentencesAssumption
<1>2. /\ table \in Seq(Payloads)
      /\ Len(table) = s.part_count
      /\ \A i \in 1 .. s.part_count : table[i] = NoPayload
  BY <1>1, SentencesAssumption
<1>3. /\ NewSequence(s).parts = table
      /\ NewSequence(s).received = 0
      /\ NewSequence(s).part_count = s.part_count
      /\ NewSequence(s).talker = s.talker
      /\ NewSequence(s).sentence_type = s.sentence_type
      /\ NewSequence(s).is_own_vessel = (s.sentence_type = "VDO")
  BY DEF NewSequence
<1>4. NewSequence(s) \in SequenceRecord
  <2>1. s.talker \in Talkers /\ s.sentence_type \in SentenceTypes
    BY SentenceFields
  <2>2. 0 \in 0 .. kMaxSentenceParts
    BY SentencesAssumption
  <2> HIDE DEF table
  <2> QED
    BY <1>1, <1>2, <2>1, <2>2 DEF NewSequence, SequenceRecord, table
<1> QED
  BY <1>2, <1>3, <1>4

(* The entry the first part leaves in the buffer.                           *)
LEMMA OpenedSequence ==
  ASSUME NEW s \in Sentence, IsMultipart(s), s.part_index = 1
  PROVE  /\ GoodSequence(Store(NewSequence(s), s))
         /\ Store(NewSequence(s), s).received = 1
         /\ Store(NewSequence(s), s).parts[1] = s.payload
         /\ Store(NewSequence(s), s).part_count = s.part_count
         /\ Store(NewSequence(s), s).talker = s.talker
         /\ Store(NewSequence(s), s).sentence_type = s.sentence_type
<1> DEFINE new == NewSequence(s)
<1>1. s.part_count \in Nat /\ s.part_count > 1
  BY SentenceFields, SentencesAssumption DEF IsMultipart
<1>2. /\ new \in SequenceRecord
      /\ Len(new.parts) = new.part_count
      /\ new.part_count = s.part_count
      /\ new.received = 0
      /\ \A i \in 1 .. s.part_count : new.parts[i] = NoPayload
      /\ new.talker = s.talker
      /\ new.sentence_type = s.sentence_type
      /\ new.is_own_vessel = (s.sentence_type = "VDO")
  BY NewSequenceProperties
<1> HIDE DEF new
<1>3. s.part_index \in 1 .. new.part_count /\ new.received < new.part_count
  BY <1>1, <1>2
<1>4. /\ Store(new, s) \in SequenceRecord
      /\ Len(Store(new, s).parts) = s.part_count
      /\ \A i \in 1 .. s.part_count :
           Store(new, s).parts[i] = IF i = 1 THEN s.payload ELSE new.parts[i]
      /\ Store(new, s).received = 1
      /\ Store(new, s).part_count = s.part_count
      /\ Store(new, s).talker = s.talker
      /\ Store(new, s).sentence_type = s.sentence_type
      /\ Store(new, s).is_own_vessel = (s.sentence_type = "VDO")
  BY <1>2, <1>3, StoreProperties
<1>5. SequenceOK(Store(new, s))
  <2> DEFINE seq == Store(new, s)
  <2>1. seq.received \in 1 .. seq.part_count - 1
    BY <1>1, <1>4
  <2>2. Len(seq.parts) = seq.part_count
    BY <1>4
  <2>3. \A i \in seq.received + 1 .. seq.part_count : seq.parts[i] = NoPayload
    BY <1>1, <1>2, <1>4
  <2>4. seq.is_own_vessel <=> (seq.sentence_type = "VDO")
    BY <1>4
  <2> HIDE DEF seq
  <2>5. SequenceOK(seq)
    BY <2>1, <2>2, <2>3, <2>4 DEF SequenceOK
  <2> QED
    BY <2>5 DEF seq
<1>6. Store(new, s).parts[1] = s.payload
  BY <1>1, <1>4
<1> QED
  BY <1>4, <1>5, <1>6 DEF GoodSequence, new

(* The entry that the part that is due leaves, before a complete one is     *)
(* erased.                                                                  *)
LEMMA StoredSequence ==
  ASSUME NEW s \in Sentence, NEW seq, GoodSequence(seq),
         s.part_count = seq.part_count,
         s.part_index = seq.received + 1
  PROVE  /\ Store(seq, s) \in SequenceRecord
         /\ Len(Store(seq, s).parts) = seq.part_count
         /\ \A i \in 1 .. seq.part_count :
              Store(seq, s).parts[i] =
                IF i = seq.received + 1 THEN s.payload ELSE seq.parts[i]
         /\ Store(seq, s).received = seq.received + 1
         /\ Store(seq, s).part_count = seq.part_count
         /\ Store(seq, s).talker = seq.talker
         /\ Store(seq, s).sentence_type = seq.sentence_type
         /\ Store(seq, s).is_own_vessel = (seq.sentence_type = "VDO")
         /\ Store(seq, s).received < seq.part_count => SequenceOK(Store(seq, s))
<1>1. /\ seq \in SequenceRecord
      /\ seq.received \in 1 .. seq.part_count - 1
      /\ Len(seq.parts) = seq.part_count
      /\ \A i \in seq.received + 1 .. seq.part_count : seq.parts[i] = NoPayload
      /\ seq.is_own_vessel <=> (seq.sentence_type = "VDO")
  BY DEF GoodSequence, SequenceOK
<1>2. seq.part_count \in 1 .. kMaxSentenceParts /\ seq.is_own_vessel \in BOOLEAN
  BY <1>1 DEF SequenceRecord
<1>3. seq.part_count \in Nat /\ seq.received \in Nat
  BY <1>1, <1>2, SentencesAssumption
<1>4. s.part_index \in 1 .. seq.part_count /\ seq.received < seq.part_count
  BY <1>1, <1>3
<1>5. /\ Store(seq, s) \in SequenceRecord
      /\ Len(Store(seq, s).parts) = seq.part_count
      /\ \A i \in 1 .. seq.part_count :
           Store(seq, s).parts[i] =
             IF i = seq.received + 1 THEN s.payload ELSE seq.parts[i]
      /\ Store(seq, s).received = seq.received + 1
      /\ Store(seq, s).part_count = seq.part_count
      /\ Store(seq, s).talker = seq.talker
      /\ Store(seq, s).sentence_type = seq.sentence_type
      /\ Store(seq, s).is_own_vessel = seq.is_own_vessel
  BY <1>1, <1>4, StoreProperties
<1>6. seq.is_own_vessel = (seq.sentence_type = "VDO")
  BY <1>1, <1>2
<1>7. ASSUME Store(seq, s).received < seq.part_count
      PROVE  SequenceOK(Store(seq, s))
  <2> DEFINE new == Store(seq, s)
  <2>1. new.received \in 1 .. new.part_count - 1
    BY <1>3, <1>5, <1>7
  <2>2. Len(new.parts) = new.part_count
    BY <1>5
  <2>3. \A i \in new.received + 1 .. new.part_count : new.parts[i] = NoPayload
    <3>1. new.received = seq.received + 1 /\ new.part_count = seq.part_count
      BY <1>5
    <3> SUFFICES ASSUME NEW i \in seq.received + 2 .. seq.part_count
                 PROVE  new.parts[i] = NoPayload
      BY <1>3, <3>1
    <3>2. i \in 1 .. seq.part_count /\ i # seq.received + 1
          /\ i \in seq.received + 1 .. seq.part_count
      BY <1>3
    <3>3. new.parts[i] = seq.parts[i]
      BY <1>5, <3>2
    <3> QED
      BY <1>1, <3>2, <3>3
  <2>4. new.is_own_vessel <=> (new.sentence_type = "VDO")
    BY <1>1, <1>5
  <2> HIDE DEF new
  <2>5. SequenceOK(new)
    BY <2>1, <2>2, <2>3, <2>4 DEF SequenceOK
  <2> QED
    BY <2>5 DEF new
<1> QED
  BY <1>5, <1>6, <1>7

-----------------------------------------------------------------------------
(* Inv, entry by entry.                                                     *)
LEMMA InvByEntry ==
  Inv <=> /\ DOMAIN sequences \subseteq SeqIds
          /\ sequences = [id \in DOMAIN sequences |-> sequences[id]]
          /\ \A id \in DOMAIN sequences : GoodSequence(sequences[id])
          /\ result \in Results
BY DEF Inv, TypeOK, SequencesInProgress, GoodSequence

(* The initial state, an empty map, satisfies the invariant.                *)
LEMMA InitInv == Init => Inv
<1> SUFFICES ASSUME Init PROVE Inv
  OBVIOUS
<1>1. sequences = <<>> /\ DOMAIN sequences = {} /\ result \in Results
  BY DEF Init, Results
<1>2. sequences \in [DOMAIN sequences -> SequenceRecord]
  BY <1>1
<1> QED
  BY <1>1, <1>2 DEF Inv, TypeOK, SequencesInProgress

(* A message built from an entry of the buffer or from one sentence has the *)
(* type of a result.                                                        *)
LEMMA MessageType ==
  ASSUME NEW payload \in Seq(Payloads), NEW fill \in FillBits,
         NEW own \in BOOLEAN, NEW talker \in Talkers
  PROVE  Complete([payload |-> payload, fill_bits |-> fill,
                   is_own_vessel |-> own, talker |-> talker]) \in Results
BY DEF Complete, Results, AssembledMessage

(* One call of feed() preserves the invariant.                              *)
LEMMA FeedInv ==
  ASSUME Inv, NEW s \in Sentence, Feed(s)
  PROVE  Inv'
<1> USE SentencesAssumption
<1>0. /\ DOMAIN sequences \subseteq SeqIds
      /\ sequences = [id \in DOMAIN sequences |-> sequences[id]]
      /\ \A id \in DOMAIN sequences : GoodSequence(sequences[id])
      /\ result \in Results
  BY InvByEntry
<1> SUFFICES /\ DOMAIN sequences' \subseteq SeqIds
             /\ sequences' = [id \in DOMAIN sequences' |-> sequences'[id]]
             /\ \A id \in DOMAIN sequences' : GoodSequence(sequences'[id])
             /\ result' \in Results
  BY DEF Inv, TypeOK, SequencesInProgress, GoodSequence
<1>1. CASE FeedSinglePart(s)
  <2>1. <<s.payload>> \in Seq(Payloads) /\ s.fill_bits \in FillBits /\ s.talker \in Talkers
    BY SentenceFields
  <2>2. result' \in Results
    BY <1>1, <2>1, MessageType DEF FeedSinglePart
  <2> QED
    BY <1>0, <1>1, <2>2 DEF FeedSinglePart
<1>2. CASE FeedOpen(s)
  <2>1. GoodSequence(Store(NewSequence(s), s))
    BY <1>2, OpenedSequence DEF FeedOpen
  <2>2. s.seq_id \in SeqIds
    BY <1>2, SentenceFields DEF FeedOpen
  <2>3. result' \in Results
    BY <1>2 DEF FeedOpen, Results
  <2> QED
    BY <1>0, <1>2, <2>1, <2>2, <2>3 DEF FeedOpen
<1>3. CASE \/ FeedNotFirst(s) \/ FeedCountMismatch(s) \/ FeedTypeMismatch(s)
           \/ FeedDuplicate(s) \/ FeedGap(s)
  <2>1. sequences' = sequences /\ result' \in Results
    BY <1>3 DEF FeedNotFirst, FeedCountMismatch, FeedTypeMismatch, FeedDuplicate,
                FeedGap, ReturnError, Failure, Results, FeedErrors
  <2> QED
    BY <1>0, <2>1
<1>4. CASE FeedMiddle(s)
  <2>1. /\ s.seq_id \in DOMAIN sequences
        /\ s.part_count = sequences[s.seq_id].part_count
        /\ s.part_index = sequences[s.seq_id].received + 1
        /\ sequences' = [sequences EXCEPT ![s.seq_id] = Store(sequences[s.seq_id], s)]
        /\ Store(sequences[s.seq_id], s).received < Store(sequences[s.seq_id], s).part_count
    BY <1>4 DEF FeedMiddle, IsDue, InProgress, SameCount, ExpectedNext, Existing, Stored
  <2>2. GoodSequence(Store(sequences[s.seq_id], s))
    BY <1>0, <2>1, StoredSequence DEF GoodSequence
  <2>3. result' \in Results
    BY <1>4 DEF FeedMiddle, Results
  <2> QED
    BY <1>0, <2>1, <2>2, <2>3
<1>5. CASE FeedFinal(s)
  <2>1. /\ s.seq_id \in DOMAIN sequences
        /\ s.part_count = sequences[s.seq_id].part_count
        /\ s.part_index = sequences[s.seq_id].received + 1
        /\ sequences' = [id \in DOMAIN sequences \ {s.seq_id} |-> sequences[id]]
    BY <1>5 DEF FeedFinal, ReturnMessage, IsDue, InProgress, SameCount, ExpectedNext, Existing
  <2>2. Store(sequences[s.seq_id], s) \in SequenceRecord
    BY <1>0, <2>1, StoredSequence
  <2>3. result' \in Results
    <3>1. /\ Stored(s).parts \in Seq(Payloads)
          /\ Stored(s).is_own_vessel \in BOOLEAN
          /\ Stored(s).talker \in Talkers
      BY <2>2 DEF Stored, Existing, SequenceRecord
    <3> QED
      BY <1>5, <3>1, SentenceFields, MessageType DEF FeedFinal, ReturnMessage
  <2> QED
    BY <1>0, <2>1, <2>3
<1> QED
  BY <1>1, <1>2, <1>3, <1>4, <1>5 DEF Feed

(* So does every step of the specification.                                 *)
LEMMA NextInv == Inv /\ [Next]_vars => Inv'
<1> SUFFICES ASSUME Inv, [Next]_vars PROVE Inv'
  OBVIOUS
<1>1. ASSUME NEW s \in Sentence, Feed(s) PROVE Inv'
  BY <1>1, FeedInv
<1>2. CASE Reset
  <2>1. sequences' = <<>> /\ DOMAIN sequences' = {} /\ result' \in Results
    BY <1>2 DEF Reset, Results
  <2>2. sequences' \in [DOMAIN sequences' -> SequenceRecord]
    BY <2>1
  <2> QED
    BY <2>1, <2>2 DEF Inv, TypeOK, SequencesInProgress
<1>3. CASE UNCHANGED vars
  BY <1>3 DEF vars, Inv, TypeOK, SequencesInProgress
<1> QED
  BY <1>1, <1>2, <1>3 DEF Next

-----------------------------------------------------------------------------
(* In every reachable state the buffer maps identifiers to well-typed       *)
(* sequences and feed() has returned one of its documented kinds of result, *)
(* for any number of parts, identifiers, talkers and payloads.              *)
THEOREM TypeCorrect == Spec => []TypeOK
<1>1. Inv => TypeOK
  BY DEF Inv
<1> QED
  BY InitInv, NextInv, <1>1, PTL DEF Spec

(* In every reachable state each buffered sequence is strictly between its  *)
(* first and its last part, its table has the announced length and holds    *)
(* nothing beyond the parts received, and its own-vessel flag agrees with   *)
(* the type later parts are compared with.                                  *)
THEOREM AlwaysInProgress == Spec => []SequencesInProgress
<1>1. Inv => SequencesInProgress
  BY DEF Inv
<1> QED
  BY InitInv, NextInv, <1>1, PTL DEF Spec

-----------------------------------------------------------------------------
(* Refinement.  The parts received so far, as the abstract slot has them.   *)
LEMMA SlotGot ==
  ASSUME NEW seq, GoodSequence(seq)
  PROVE  /\ SlotOf(seq).got \in Seq(Payloads)
         /\ Len(SlotOf(seq).got) = seq.received
         /\ \A i \in 1 .. seq.received : SlotOf(seq).got[i] = seq.parts[i]
<1>1. /\ seq.parts \in Seq(Payloads)
      /\ Len(seq.parts) = seq.part_count
      /\ seq.received \in 1 .. seq.part_count - 1
      /\ seq.part_count \in Nat
  BY SentencesAssumption DEF GoodSequence, SequenceOK, SequenceRecord
<1>2. seq.received \in Nat /\ \A i \in 1 .. seq.received : seq.parts[i] \in Payloads
  BY <1>1, ElementOfSeq
<1> QED
  BY <1>1, <1>2, SubSeqProperties DEF SlotOf

(* Storing the part that is due appends its payload to what the slot has,   *)
(* and a full table is exactly what the slot has.                           *)
LEMMA SlotStored ==
  ASSUME NEW s \in Sentence, NEW seq, GoodSequence(seq),
         s.part_count = seq.part_count,
         s.part_index = seq.received + 1
  PROVE  /\ SubSeq(Store(seq, s).parts, 1, seq.received + 1)
              = Append(SlotOf(seq).got, s.payload)
         /\ seq.received + 1 = seq.part_count =>
              Store(seq, s).parts = Append(SlotOf(seq).got, s.payload)
<1> DEFINE parts == Store(seq, s).parts
<1> DEFINE got == SlotOf(seq).got
<1>1. /\ parts \in Seq(Payloads)
      /\ Len(parts) = seq.part_count
      /\ \A i \in 1 .. seq.part_count :
           parts[i] = IF i = seq.received + 1 THEN s.payload ELSE seq.parts[i]
  BY StoredSequence DEF SequenceRecord
<1>2. seq.received \in 1 .. seq.part_count - 1 /\ seq.part_count \in Nat
  BY SentencesAssumption DEF GoodSequence, SequenceOK, SequenceRecord
<1>3. /\ got \in Seq(Payloads)
      /\ Len(got) = seq.received
      /\ \A i \in 1 .. seq.received : got[i] = seq.parts[i]
  BY SlotGot
<1>4. s.payload \in Payloads
  BY SentenceFields
<1> HIDE DEF parts, got
<1> DEFINE front == SubSeq(parts, 1, seq.received + 1)
<1>5. /\ front \in Seq(Payloads)
      /\ Len(front) = seq.received + 1
      /\ \A i \in 1 .. seq.received + 1 : front[i] = parts[i]
  <2>1. \A i \in 1 .. seq.received + 1 : parts[i] \in Payloads
    BY <1>1, <1>2, ElementOfSeq
  <2> QED
    BY <1>2, <2>1, SubSeqProperties
<1> DEFINE longer == Append(got, s.payload)
<1>6. /\ longer \in Seq(Payloads)
      /\ Len(longer) = seq.received + 1
      /\ \A i \in 1 .. seq.received : longer[i] = got[i]
      /\ longer[seq.received + 1] = s.payload
  BY <1>2, <1>3, <1>4, AppendProperties
<1> HIDE DEF front, longer
<1>7. ASSUME NEW i \in 1 .. seq.received + 1
      PROVE  front[i] = longer[i]
  <2>1. i \in 1 .. seq.part_count /\ front[i] = parts[i]
    BY <1>2, <1>5
  <2>2. CASE i = seq.received + 1
    BY <1>1, <1>6, <2>1, <2>2
  <2>3. CASE i # seq.received + 1
    <3>1. i \in 1 .. seq.received
      BY <1>2, <2>3
    <3> QED
      BY <1>1, <1>3, <1>6, <2>1, <2>3, <3>1
  <2> QED
    BY <2>2, <2>3
<1>8. front = longer
  BY <1>2, <1>5, <1>6, <1>7, SeqEqual
<1>9. seq.received + 1 = seq.part_count => front = parts
  BY <1>1, <1>2, SubSeqFull DEF front
<1> QED
  BY <1>8, <1>9 DEF parts, got, front, longer

(* A slot whose parts are replaced keeps its header.                        *)
LEMMA SlotWithGot ==
  ASSUME NEW seq, NEW got
  PROVE  [SlotOf(seq) EXCEPT !.got = got] =
           [count |-> seq.part_count, type |-> seq.sentence_type,
            talker |-> seq.talker, got |-> got]
<1> DEFINE old == SlotOf(seq)
<1>1. old = [count |-> old.count, type |-> old.type,
             talker |-> old.talker, got |-> old.got]
      /\ old.count = seq.part_count /\ old.type = seq.sentence_type
      /\ old.talker = seq.talker
  BY DEF SlotOf
<1> HIDE DEF old
<1>2. [old EXCEPT !.got = got] =
        [count |-> old.count, type |-> old.type, talker |-> old.talker, got |-> got]
  BY <1>1
<1> QED
  BY <1>1, <1>2 DEF old

(* The slot that a first part opens.                                        *)
LEMMA SlotOpened ==
  ASSUME NEW s \in Sentence, IsMultipart(s), s.part_index = 1
  PROVE  SlotOf(Store(NewSequence(s), s)) =
           [count |-> s.part_count, type |-> s.sentence_type,
            talker |-> s.talker, got |-> <<s.payload>>]
<1> DEFINE new == Store(NewSequence(s), s)
<1>1. /\ GoodSequence(new)
      /\ new.received = 1
      /\ new.parts[1] = s.payload
      /\ new.part_count = s.part_count
      /\ new.talker = s.talker
      /\ new.sentence_type = s.sentence_type
  BY OpenedSequence
<1>2. s.payload \in Payloads
  BY SentenceFields
<1> HIDE DEF new
<1>3. SlotOf(new).got = <<s.payload>>
  <2>1. /\ SlotOf(new).got \in Seq(Payloads)
        /\ Len(SlotOf(new).got) = 1
        /\ SlotOf(new).got[1] = s.payload
    <3>1. /\ SlotOf(new).got \in Seq(Payloads)
          /\ Len(SlotOf(new).got) = new.received
          /\ \A i \in 1 .. new.received : SlotOf(new).got[i] = new.parts[i]
      BY <1>1, SlotGot
    <3>2. SlotOf(new).got[1] = new.parts[1]
      BY <1>1, <3>1
    <3> QED
      BY <1>1, <3>1, <3>2
  <2>2. /\ <<s.payload>> \in Seq(Payloads)
        /\ Len(<<s.payload>>) = 1
        /\ <<s.payload>>[1] = s.payload
    BY <1>2
  <2>3. \A i \in 1 .. Len(SlotOf(new).got) : SlotOf(new).got[i] = <<s.payload>>[i]
    BY <2>1, <2>2
  <2> QED
    BY <2>1, <2>2, <2>3, SeqEqual
<1> QED
  BY <1>1, <1>3 DEF SlotOf, new

(* The abstract slots of the buffer.                                        *)
Slots == [id \in DOMAIN sequences |-> SlotOf(sequences[id])]

(* Both specifications speak of the same sentences.                         *)
LEMMA SameSentences == Abstract!Sentence = Sentence
BY DEF Abstract!Sentence, Sentence, Abstract!SentenceTypes, SentenceTypes

(* A call of feed() answers its sentence as the abstract specification does.*)
LEMMA FeedSimulates ==
  ASSUME Inv, NEW s \in Sentence, Feed(s)
  PROVE  Abstract!Call(s)
<1>0. \A id \in DOMAIN sequences : GoodSequence(sequences[id])
  BY InvByEntry
<1> SUFFICES \/ Abstract!Whole(s) \/ Abstract!Begin(s) \/ Abstract!Continue(s)
             \/ Abstract!Finish(s) \/ Abstract!Refuse(s)
  BY DEF Abstract!Call
<1> DEFINE seq == sequences[s.seq_id]
<1>a. ASSUME InProgress(s)
      PROVE  /\ Abstract!Open(s)
             /\ GoodSequence(seq)
             /\ Slots[s.seq_id] = SlotOf(seq)
             /\ seq.received \in Nat /\ s.part_index \in Nat
             /\ Abstract!Fits(s) <=> /\ s.part_count = seq.part_count
                                     /\ s.sentence_type = seq.sentence_type
                                     /\ s.part_index = seq.received + 1
  <2>1. s.seq_id \in DOMAIN sequences /\ GoodSequence(seq) /\ Slots[s.seq_id] = SlotOf(seq)
    BY <1>0, <1>a DEF InProgress, Slots
  <2>2. /\ SlotOf(seq).count = seq.part_count
        /\ SlotOf(seq).type = seq.sentence_type
        /\ Len(SlotOf(seq).got) = seq.received
    BY <2>1, SlotGot DEF SlotOf
  <2>3. Abstract!Open(s)
    BY <2>1 DEF Abstract!Open
  <2>4. Abstract!Fits(s) <=> /\ s.part_count = SlotOf(seq).count
                             /\ s.sentence_type = SlotOf(seq).type
                             /\ s.part_index = Len(SlotOf(seq).got) + 1
    BY <2>1, <2>3 DEF Abstract!Fits, Slots
  <2>5. seq.received \in Nat /\ s.part_index \in Nat
    BY <2>1, SentenceFields, SentencesAssumption
       DEF GoodSequence, SequenceOK, SequenceRecord
  <2> QED
    BY <2>1, <2>2, <2>3, <2>4, <2>5
<1>b. ASSUME ~InProgress(s)
      PROVE  ~Abstract!Open(s) /\ (Abstract!Fits(s) <=> s.part_index = 1)
  BY <1>b DEF InProgress, Abstract!Open, Abstract!Fits
<1>1. CASE FeedSinglePart(s)
  <2>1. Abstract!Whole(s)
    BY <1>1 DEF FeedSinglePart, Abstract!Whole, Abstract!MessageOf, Complete,
                Abstract!Complete
  <2> QED
    BY <2>1
<1>2. CASE FeedOpen(s)
  <2>1. /\ IsMultipart(s) /\ ~InProgress(s) /\ s.part_index = 1
        /\ result' = Nullopt
        /\ sequences' = [id \in DOMAIN sequences \cup {s.seq_id} |->
                           IF id = s.seq_id THEN Store(NewSequence(s), s)
                                            ELSE sequences[id]]
    BY <1>2 DEF FeedOpen
  <2>2. SlotOf(Store(NewSequence(s), s)) =
          [count |-> s.part_count, type |-> s.sentence_type,
           talker |-> s.talker, got |-> <<s.payload>>]
    BY <2>1, SlotOpened
  <2>3. DOMAIN sequences' = DOMAIN sequences \cup {s.seq_id}
    BY <2>1
  <2>4. \A id \in DOMAIN sequences' :
          SlotOf(sequences'[id]) =
            IF id = s.seq_id
            THEN [count |-> s.part_count, type |-> s.sentence_type,
                  talker |-> s.talker, got |-> <<s.payload>>]
            ELSE Slots[id]
    BY <2>1, <2>2, <2>3 DEF Slots
  <2>5. Abstract!Begin(s)
    BY <1>b, <2>1, <2>3, <2>4
       DEF Abstract!Begin, IsMultipart, Nullopt, Abstract!Nullopt, Slots
  <2> QED
    BY <2>5
<1>3. CASE \/ FeedNotFirst(s) \/ FeedCountMismatch(s) \/ FeedTypeMismatch(s)
           \/ FeedDuplicate(s) \/ FeedGap(s)
  <2>1. IsMultipart(s) /\ ~Abstract!Fits(s)
    <3>1. CASE FeedNotFirst(s)
      BY <1>b, <3>1 DEF FeedNotFirst
    <3>2. CASE FeedCountMismatch(s)
      BY <1>a, <3>2 DEF FeedCountMismatch, SameCount, Existing
    <3>3. CASE FeedTypeMismatch(s)
      BY <1>a, <3>3 DEF FeedTypeMismatch, SameType, Existing
    <3>4. CASE FeedDuplicate(s)
      BY <1>a, <3>4 DEF FeedDuplicate, Existing
    <3>5. CASE FeedGap(s)
      BY <1>a, <3>5 DEF FeedGap, ExpectedNext, Existing
    <3> QED
      BY <1>3, <3>1, <3>2, <3>3, <3>4, <3>5
  <2>2. sequences' = sequences /\ \E code \in FeedErrors : result' = Failure(code)
    BY <1>3 DEF FeedNotFirst, FeedCountMismatch, FeedTypeMismatch, FeedDuplicate,
                FeedGap, ReturnError, FeedErrors
  <2>3. Abstract!Refuse(s)
    BY <2>1, <2>2 DEF Abstract!Refuse, IsMultipart, Failure, Abstract!Failure,
                      FeedErrors, Abstract!FeedErrors
  <2> QED
    BY <2>3
<1>4. CASE FeedMiddle(s)
  <2>1. /\ IsMultipart(s) /\ InProgress(s)
        /\ s.part_count = seq.part_count
        /\ s.sentence_type = seq.sentence_type
        /\ s.part_index = seq.received + 1
        /\ result' = Nullopt
        /\ sequences' = [sequences EXCEPT ![s.seq_id] = Store(seq, s)]
        /\ Store(seq, s).received < Store(seq, s).part_count
    BY <1>4 DEF FeedMiddle, IsDue, SameCount, SameType, ExpectedNext, Existing, Stored
  <2>2. /\ Store(seq, s).received = seq.received + 1
        /\ Store(seq, s).part_count = seq.part_count
        /\ Store(seq, s).talker = seq.talker
        /\ Store(seq, s).sentence_type = seq.sentence_type
        /\ SubSeq(Store(seq, s).parts, 1, seq.received + 1)
             = Append(SlotOf(seq).got, s.payload)
    BY <1>a, <2>1, StoredSequence, SlotStored
  <2>3. SlotOf(Store(seq, s)) = [SlotOf(seq) EXCEPT !.got = Append(@, s.payload)]
    <3> DEFINE longer == Append(SlotOf(seq).got, s.payload)
    <3>1. SubSeq(Store(seq, s).parts, 1, Store(seq, s).received) = longer
      BY <2>2
    <3> HIDE DEF longer
    <3>a. SlotOf(Store(seq, s)) =
            [count |-> seq.part_count, type |-> seq.sentence_type,
             talker |-> seq.talker, got |-> longer]
      BY <2>2, <3>1 DEF SlotOf
    <3>2. SlotOf(Store(seq, s)) = [SlotOf(seq) EXCEPT !.got = longer]
      BY <3>a, SlotWithGot
    <3> QED
      BY <3>2 DEF longer
  <2>4. DOMAIN sequences' = DOMAIN sequences
    BY <2>1
  <2>5. \A id \in DOMAIN sequences' :
          SlotOf(sequences'[id]) =
            IF id = s.seq_id THEN [Slots[id] EXCEPT !.got = Append(@, s.payload)]
                             ELSE Slots[id]
    BY <2>1, <2>3, <2>4 DEF Slots, InProgress
  <2>6. [id \in DOMAIN sequences' |-> SlotOf(sequences'[id])]
          = [Slots EXCEPT ![s.seq_id].got = Append(@, s.payload)]
    BY <2>4, <2>5 DEF Slots
  <2>7. Abstract!Fits(s) /\ Abstract!Open(s) /\ s.part_index < s.part_count
    BY <1>a, <2>1, <2>2
  <2>8. Abstract!Continue(s)
    BY <2>1, <2>6, <2>7
       DEF Abstract!Continue, IsMultipart, Nullopt, Abstract!Nullopt, Slots
  <2> QED
    BY <2>8
<1>5. CASE FeedFinal(s)
  <2>1. /\ IsMultipart(s) /\ InProgress(s)
        /\ s.part_count = seq.part_count
        /\ s.sentence_type = seq.sentence_type
        /\ s.part_index = seq.received + 1
        /\ result' = Complete([payload       |-> Store(seq, s).parts,
                               fill_bits     |-> s.fill_bits,
                               is_own_vessel |-> Store(seq, s).is_own_vessel,
                               talker        |-> Store(seq, s).talker])
        /\ sequences' = [id \in DOMAIN sequences \ {s.seq_id} |-> sequences[id]]
        /\ Store(seq, s).received >= Store(seq, s).part_count
    BY <1>5 DEF FeedFinal, ReturnMessage, IsDue, SameCount, SameType, ExpectedNext, Existing, Stored
  <2>2. /\ Store(seq, s).received = seq.received + 1
        /\ Store(seq, s).part_count = seq.part_count
        /\ Store(seq, s).talker = seq.talker
        /\ Store(seq, s).is_own_vessel = (seq.sentence_type = "VDO")
        /\ seq.received + 1 = seq.part_count =>
             Store(seq, s).parts = Append(SlotOf(seq).got, s.payload)
    BY <1>a, <2>1, StoredSequence, SlotStored
  <2>3. s.part_index = s.part_count /\ seq.received + 1 = seq.part_count
    <3>1. seq.received \in 1 .. seq.part_count - 1 /\ seq.part_count \in Nat
      BY <1>a, <2>1, SentencesAssumption DEF GoodSequence, SequenceOK, SequenceRecord
    <3> QED
      BY <2>1, <2>2, <3>1
  <2>4. Abstract!Fits(s) /\ Abstract!Open(s)
    BY <1>a, <2>1
  <2>5. Slots[s.seq_id].got = SlotOf(seq).got /\ Slots[s.seq_id].talker = seq.talker
    BY <1>a, <2>1 DEF SlotOf
  <2>6. result' = Abstract!Complete(Abstract!MessageOf(
                     Append(Slots[s.seq_id].got, s.payload), s, Slots[s.seq_id].talker))
    BY <2>1, <2>2, <2>3, <2>5 DEF Complete, Abstract!Complete, Abstract!MessageOf
  <2>7. DOMAIN sequences' = DOMAIN sequences \ {s.seq_id}
    BY <2>1
  <2>8. [id \in DOMAIN sequences' |-> SlotOf(sequences'[id])]
          = [id \in DOMAIN Slots \ {s.seq_id} |-> Slots[id]]
    BY <2>1, <2>7 DEF Slots
  <2>9. Abstract!Finish(s)
    BY <2>1, <2>3, <2>4, <2>6, <2>8 DEF Abstract!Finish, IsMultipart, Slots
  <2> QED
    BY <2>9
<1> QED
  BY <1>1, <1>2, <1>3, <1>4, <1>5 DEF Feed

(* Every step of the assembler is a step of the abstract specification or   *)
(* leaves its variables unchanged.                                          *)
LEMMA StepSimulates == Inv /\ [Next]_vars => [Abstract!Next]_(Abstract!vars)
<1> SUFFICES ASSUME Inv, [Next]_vars PROVE [Abstract!Next]_(Abstract!vars)
  OBVIOUS
<1>1. ASSUME NEW s \in Sentence, Feed(s) PROVE Abstract!Next
  BY <1>1, FeedSimulates, SameSentences DEF Abstract!Next
<1>2. CASE Reset
  <2>1. [id \in DOMAIN sequences' |-> SlotOf(sequences'[id])] = <<>>
    BY <1>2 DEF Reset
  <2> QED
    BY <1>2, <2>1 DEF Reset, Abstract!Next, Abstract!Forget, Idle, Abstract!Idle
<1>3. CASE UNCHANGED vars
  BY <1>3 DEF vars, Abstract!vars
<1> QED
  BY <1>1, <1>2, <1>3 DEF Next

(* SentenceAssembler implements Reassembly for any number of parts,         *)
(* identifiers, talkers, payloads and fill bits: every message feed()       *)
(* returns is made of exactly the parts accepted for its seq_id since that  *)
(* sequence was opened, in part order; refused parts have no effect; calls  *)
(* for one seq_id never touch another.                                      *)
THEOREM Refinement == Spec => ImplementsReassembly
<1>1. Init => Abstract!Init
  <2> SUFFICES ASSUME Init PROVE Abstract!Init
    OBVIOUS
  <2>1. [id \in DOMAIN sequences |-> SlotOf(sequences[id])] = <<>>
    BY DEF Init
  <2> QED
    BY <2>1 DEF Init, Abstract!Init, Idle, Abstract!Idle
<1> QED
  BY InitInv, NextInv, StepSimulates, <1>1, PTL DEF Spec, Abstract!Spec, ImplementsReassembly

(* And the step is the one for the very sentence that was fed: an answer    *)
(* that would be right for a sentence of another type, count or index is    *)
(* never given.                                                             *)
THEOREM EachCallRefines == Spec => CallsMeetReassembly
<1>1. Inv => \A s \in Sentence : Feed(s) => Abstract!Call(s)
  BY FeedSimulates
<1>2. Inv /\ [Next]_vars => [\A s \in Sentence : Feed(s) => Abstract!Call(s)]_vars
  BY <1>1
<1> QED
  BY InitInv, NextInv, <1>2, PTL DEF Spec, CallsMeetReassembly
-----------------------------------------------------------------------------
(* A message as its sender split it: the sentences agree in all but their   *)
(* index, payload and fill bits.                                            *)
Split(ss) ==
  /\ ss \in Seq(Sentence) /\ Len(ss) >= 1
  /\ \A i \in 1 .. Len(ss) :
       /\ ss[i].part_count = Len(ss)
       /\ ss[i].part_index = i
       /\ ss[i].seq_id = ss[1].seq_id
       /\ ss[i].sentence_type = ss[1].sentence_type
       /\ ss[i].talker = ss[1].talker

FirstPayloads(ss, r) == [i \in 1 .. r |-> ss[i].payload]

(* The slot that has taken the first r sentences of ss, and the message that*)
(* all of them make.                                                        *)
SlotAfter(ss, r) ==
  [count |-> Len(ss), type |-> ss[1].sentence_type, talker |-> ss[1].talker,
   got |-> FirstPayloads(ss, r)]

WholeMessage(ss) ==
  [payload       |-> FirstPayloads(ss, Len(ss)),
   fill_bits     |-> ss[Len(ss)].fill_bits,
   is_own_vessel |-> ss[1].sentence_type = "VDO",
   talker        |-> ss[1].talker]

(* The assembler holds the first r sentences of ss; it waits for the i-th;  *)
(* it keeps whatever it holds of other messages.                            *)
Vacant(id) == id \notin DOMAIN Slots

Holds(ss, r) ==
  /\ ~Vacant(ss[1].seq_id)
  /\ r \in 1 .. Len(ss) - 1
  /\ Slots[ss[1].seq_id] = SlotAfter(ss, r)

Due(ss, i) == IF i = 1 THEN Vacant(ss[1].seq_id) ELSE Holds(ss, i - 1)

OthersKept(ss) ==
  \A id : id # ss[1].seq_id =>
    /\ Vacant(id)' <=> Vacant(id)
    /\ ~Vacant(id) => Slots'[id] = Slots[id]

(* What a call with the i-th sentence of ss does: the message is returned at*)
(* once, the sentence is taken, it completes the message, or is refused.    *)
Passed(ss) ==
  /\ Len(ss) = 1
  /\ Slots' = Slots
  /\ result' = Complete(WholeMessage(ss))

Taken(ss, i) ==
  /\ i < Len(ss) /\ Due(ss, i)
  /\ Holds(ss, i)' /\ OthersKept(ss)
  /\ result'.kind # "message"

Completed(ss, i) ==
  /\ 1 < i /\ i = Len(ss) /\ Due(ss, i)
  /\ Vacant(ss[1].seq_id)' /\ OthersKept(ss)
  /\ result' = Complete(WholeMessage(ss))

Refused(ss, i) ==
  /\ 1 < Len(ss) /\ ~Due(ss, i)
  /\ Slots' = Slots
  /\ result'.kind # "message"

(* One payload more.                                                        *)
LEMMA PayloadsGrow ==
  ASSUME NEW ss, Split(ss), NEW i \in 1 .. Len(ss)
  PROVE  /\ FirstPayloads(ss, i) \in Seq(Payloads)
         /\ Len(FirstPayloads(ss, i)) = i
         /\ i = 1 => FirstPayloads(ss, i) = <<ss[i].payload>>
         /\ i > 1 => Append(FirstPayloads(ss, i - 1), ss[i].payload) = FirstPayloads(ss, i)
<1>1. Len(ss) \in Nat /\ \A k \in 1 .. Len(ss) : ss[k].payload \in Payloads
  BY SentenceFields DEF Split
<1> DEFINE G(r) == FirstPayloads(ss, r)
<1>2. ASSUME NEW r \in 1 .. Len(ss)
      PROVE  /\ G(r) \in Seq(Payloads) /\ Len(G(r)) = r
             /\ \A k \in 1 .. r : G(r)[k] = ss[k].payload
  BY <1>1 DEF FirstPayloads
<1> HIDE DEF G
<1>3. ASSUME i = 1
      PROVE  G(i) = <<ss[i].payload>>
  <2> DEFINE one == <<ss[1].payload>>
  <2>1. one \in Seq(Payloads) /\ Len(one) = 1 /\ one[1] = ss[1].payload
    BY <1>1
  <2>2. G(1) \in Seq(Payloads) /\ Len(G(1)) = 1 /\ G(1)[1] = ss[1].payload
    <3>1. 1 \in 1 .. Len(ss) /\ 1 \in 1 .. 1
      BY <1>3
    <3> QED
      BY <1>2, <3>1
  <2> HIDE DEF one
  <2>3. G(1) = one
    BY <2>1, <2>2, SeqEqual
  <2> QED
    BY <1>3, <2>3 DEF one
<1>4. ASSUME i > 1
      PROVE  Append(G(i - 1), ss[i].payload) = G(i)
  <2> DEFINE longer == Append(G(i - 1), ss[i].payload)
  <2>1. i - 1 \in 1 .. Len(ss)
    BY <1>1, <1>4
  <2>2. /\ G(i - 1) \in Seq(Payloads) /\ Len(G(i - 1)) = i - 1
        /\ \A k \in 1 .. i - 1 : G(i - 1)[k] = ss[k].payload
    BY <1>2, <2>1
  <2>3. /\ G(i) \in Seq(Payloads) /\ Len(G(i)) = i
        /\ \A k \in 1 .. i : G(i)[k] = ss[k].payload
    BY <1>2
  <2>4. ss[i].payload \in Payloads
    BY <1>1
  <2>5. /\ longer \in Seq(Payloads) /\ Len(longer) = i
        /\ \A k \in 1 .. i - 1 : longer[k] = G(i - 1)[k]
        /\ longer[i] = ss[i].payload
    BY <2>2, <2>4, AppendProperties
  <2> HIDE DEF longer
  <2>6. \A k \in 1 .. i : longer[k] = G(i)[k]
    BY <2>2, <2>3, <2>5
  <2>7. longer = G(i)
    BY <2>3, <2>5, <2>6, SeqEqual
  <2> QED
    BY <2>7 DEF longer
<1> QED
  BY <1>2, <1>3, <1>4 DEF G

(* When the slot of a split message, if it is open, holds no other, a call  *)
(* with one of its sentences has one of the four effects.                   *)
LEMMA SplitFed ==
  ASSUME Inv, NEW ss, Split(ss), NEW i \in 1 .. Len(ss), Feed(ss[i]),
         Len(ss) > 1 => Vacant(ss[1].seq_id) \/ \E r \in Nat : Holds(ss, r)
  PROVE  Passed(ss) \/ Taken(ss, i) \/ Completed(ss, i) \/ Refused(ss, i)
<1> DEFINE s == ss[i]
           id == ss[1].seq_id
<1>1. /\ s \in Sentence /\ Len(ss) \in Nat
      /\ s.part_count = Len(ss) /\ s.part_index = i
      /\ s.seq_id = id
      /\ s.sentence_type = ss[1].sentence_type
      /\ s.talker = ss[1].talker
  BY DEF Split
<1>2. Abstract!Call(s)
  BY <1>1, FeedSimulates
<1>3. /\ i = 1 => FirstPayloads(ss, i) = <<s.payload>>
      /\ i > 1 => Append(FirstPayloads(ss, i - 1), s.payload) = FirstPayloads(ss, i)
  BY PayloadsGrow
<1>4. ASSUME NEW r \in 1 .. Len(ss) - 1
      PROVE  Len(FirstPayloads(ss, r)) = r
  <2>1. r \in 1 .. Len(ss)
    BY <1>1, <1>4
  <2> QED
    BY <2>1, PayloadsGrow
<1>5. Abstract!Open(s) <=> ~Vacant(id)
  BY <1>1 DEF Abstract!Open, Slots, Vacant
<1> HIDE DEF s, id
<1>6. ASSUME Len(ss) > 1, Abstract!Fits(s)
      PROVE  Due(ss, i)
  <2>1. CASE Vacant(id)
    BY <1>1, <1>5, <1>6, <2>1 DEF Abstract!Fits, Due, id
  <2>2. CASE ~Vacant(id)
    <3>1. PICK r \in Nat : Holds(ss, r)
      BY <1>6, <2>2 DEF id
    <3>2. i = Len(Slots[id].got) + 1
      BY <1>1, <1>5, <1>6, <2>2 DEF Abstract!Fits, Slots
    <3>3. r \in 1 .. Len(ss) - 1 /\ Slots[id].got = FirstPayloads(ss, r)
      BY <3>1 DEF Holds, SlotAfter, id
    <3>4. i = r + 1
      BY <1>4, <3>2, <3>3
    <3> QED
      BY <1>1, <3>1, <3>3, <3>4 DEF Due
  <2> QED
    BY <2>1, <2>2
<1>7. ASSUME Due(ss, i)
      PROVE  Abstract!Fits(s)
  <2>1. CASE i = 1
    BY <1>1, <1>5, <1>7, <2>1 DEF Due, Abstract!Fits, id
  <2>2. CASE i # 1
    <3>1. i - 1 \in 1 .. Len(ss) - 1 /\ ~Vacant(id)
          /\ Slots[id] = SlotAfter(ss, i - 1)
      BY <1>7, <2>2 DEF Due, Holds, id
    <3>2. /\ Slots[id].count = Len(ss)
          /\ Slots[id].type = ss[1].sentence_type
          /\ Len(Slots[id].got) = i - 1
      BY <1>4, <3>1 DEF SlotAfter
    <3> QED
      BY <1>1, <1>5, <3>1, <3>2 DEF Abstract!Fits, Slots
  <2> QED
    BY <2>1, <2>2
<1>8. CASE Abstract!Whole(s)
  <2>1. Len(ss) = 1 /\ i = 1
    BY <1>1, <1>8 DEF Abstract!Whole
  <2>2. result' = Complete(Abstract!MessageOf(<<s.payload>>, s, s.talker)) /\ Slots' = Slots
    BY <1>8 DEF Abstract!Whole, Abstract!Complete, Complete, Slots
  <2>3. Abstract!MessageOf(<<s.payload>>, s, s.talker) = WholeMessage(ss)
    BY <1>1, <1>3, <2>1 DEF Abstract!MessageOf, WholeMessage, s
  <2> QED
    BY <2>1, <2>2, <2>3 DEF Passed
<1>9. CASE Abstract!Begin(s)
  <2>1. /\ Len(ss) > 1 /\ Vacant(id) /\ Due(ss, i) /\ i = 1
        /\ DOMAIN Slots' = DOMAIN Slots \cup {id}
        /\ Slots'[id] = [count |-> Len(ss), type |-> ss[1].sentence_type,
                         talker |-> ss[1].talker, got |-> <<s.payload>>]
        /\ \A k \in DOMAIN Slots \ {id} : Slots'[k] = Slots[k]
        /\ result' = Nullopt
    <3>1. /\ Len(ss) > 1 /\ ~Abstract!Open(s) /\ Abstract!Fits(s)
          /\ result' = Nullopt
      BY <1>1, <1>9 DEF Abstract!Begin, Nullopt, Abstract!Nullopt
    <3>2. i = 1
      BY <1>1, <3>1 DEF Abstract!Fits
    <3>3. Slots' = [k \in DOMAIN Slots \cup {s.seq_id} |->
                      IF k = s.seq_id
                      THEN [count |-> s.part_count, type |-> s.sentence_type,
                            talker |-> s.talker, got |-> <<s.payload>>]
                      ELSE Slots[k]]
      BY <1>9 DEF Abstract!Begin, Slots
    <3>4. /\ DOMAIN Slots' = DOMAIN Slots \cup {id}
          /\ Slots'[id] = [count |-> Len(ss), type |-> ss[1].sentence_type,
                           talker |-> ss[1].talker, got |-> <<s.payload>>]
          /\ \A k \in DOMAIN Slots \ {id} : Slots'[k] = Slots[k]
      BY <1>1, <3>3
    <3>5. Vacant(id)
      BY <1>5, <3>1
    <3>6. Due(ss, i)
      BY <1>6, <3>1
    <3> QED
      BY <3>1, <3>2, <3>4, <3>5, <3>6
  <2>2. Holds(ss, i)'
    BY <1>1, <1>3, <2>1 DEF Holds, Vacant, SlotAfter, id
  <2>3. OthersKept(ss)
    BY <2>1 DEF OthersKept, Vacant, id
  <2>4. i < Len(ss) /\ result'.kind # "message"
    BY <2>1 DEF Nullopt
  <2> QED
    BY <2>1, <2>2, <2>3, <2>4 DEF Taken
<1>10. CASE Abstract!Continue(s)
  <2>1. /\ ~Vacant(id) /\ Due(ss, i) /\ i < Len(ss) /\ Len(ss) > 1
        /\ DOMAIN Slots' = DOMAIN Slots
        /\ Slots'[id] = [Slots[id] EXCEPT !.got = Append(@, s.payload)]
        /\ \A k \in DOMAIN Slots \ {id} : Slots'[k] = Slots[k]
        /\ result' = Nullopt
    <3>1. /\ Len(ss) > 1 /\ Abstract!Open(s) /\ Abstract!Fits(s) /\ i < Len(ss)
          /\ result' = Nullopt
      BY <1>1, <1>10 DEF Abstract!Continue, Nullopt, Abstract!Nullopt
    <3>2. Slots' = [Slots EXCEPT ![s.seq_id].got = Append(@, s.payload)]
      BY <1>10 DEF Abstract!Continue, Slots
    <3>3. id \in DOMAIN Slots
      BY <1>5, <3>1 DEF Vacant
    <3>4. /\ DOMAIN Slots' = DOMAIN Slots
          /\ Slots'[id] = [Slots[id] EXCEPT !.got = Append(@, s.payload)]
          /\ \A k \in DOMAIN Slots \ {id} : Slots'[k] = Slots[k]
      BY <1>1, <3>2, <3>3
    <3>5. ~Vacant(id)
      BY <3>3 DEF Vacant
    <3>6. Due(ss, i)
      BY <1>6, <3>1
    <3> QED
      BY <3>1, <3>4, <3>5, <3>6
  <2>2. i > 1 /\ Slots[id] = SlotAfter(ss, i - 1)
    BY <1>1, <2>1 DEF Due, Holds, id
  <2>3. Slots'[id] = SlotAfter(ss, i)
    <3>1. Append(Slots[id].got, s.payload) = FirstPayloads(ss, i)
      BY <1>3, <2>2 DEF SlotAfter
    <3>2. Slots'[id] = [Slots[id] EXCEPT !.got = FirstPayloads(ss, i)]
      BY <2>1, <3>1
    <3>3. Slots[id] = [count |-> Len(ss), type |-> ss[1].sentence_type,
                       talker |-> ss[1].talker, got |-> FirstPayloads(ss, i - 1)]
      BY <2>2 DEF SlotAfter
    <3>4. Slots'[id] = [count |-> Len(ss), type |-> ss[1].sentence_type,
                        talker |-> ss[1].talker, got |-> FirstPayloads(ss, i)]
      BY <3>2, <3>3
    <3> QED
      BY <3>4 DEF SlotAfter
  <2>4. Holds(ss, i)'
    BY <1>1, <2>1, <2>3 DEF Holds, Vacant, id
  <2>5. OthersKept(ss)
    BY <2>1 DEF OthersKept, Vacant, id
  <2> QED
    BY <2>1, <2>4, <2>5 DEF Taken, Nullopt
<1>11. CASE Abstract!Finish(s)
  <2>1. /\ ~Vacant(id) /\ Due(ss, i) /\ i = Len(ss) /\ Len(ss) > 1
        /\ Slots' = [k \in DOMAIN Slots \ {id} |-> Slots[k]]
        /\ result' = Complete(Abstract!MessageOf(Append(Slots[id].got, s.payload), s,
                                                 Slots[id].talker))
    BY <1>1, <1>5, <1>6, <1>11
       DEF Abstract!Finish, Slots, Complete, Abstract!Complete
  <2>2. i > 1 /\ Slots[id] = SlotAfter(ss, i - 1)
    BY <1>1, <2>1 DEF Due, Holds, id
  <2>3. Append(Slots[id].got, s.payload) = FirstPayloads(ss, Len(ss))
        /\ Slots[id].talker = ss[1].talker
    BY <1>3, <2>1, <2>2 DEF SlotAfter
  <2>4. result' = Complete(WholeMessage(ss))
    BY <1>1, <2>1, <2>3 DEF Abstract!MessageOf, WholeMessage, s
  <2>5. Vacant(id)' /\ OthersKept(ss)
    BY <2>1 DEF OthersKept, Vacant, id
  <2> QED
    BY <1>1, <2>1, <2>4, <2>5 DEF Completed, id
<1>12. CASE Abstract!Refuse(s)
  <2>1. Len(ss) > 1 /\ ~Due(ss, i)
    BY <1>1, <1>7, <1>12 DEF Abstract!Refuse
  <2>2. Slots' = Slots /\ result'.kind # "message"
    BY <1>12 DEF Abstract!Refuse, Slots, Abstract!Failure
  <2> QED
    BY <2>1, <2>2 DEF Refused
<1> QED
  BY <1>2, <1>8, <1>9, <1>10, <1>11, <1>12 DEF Abstract!Call
=============================================================================
